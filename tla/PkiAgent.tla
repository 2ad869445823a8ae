------------------------------ MODULE PkiAgent ------------------------------
(***************************************************************************)
(* kubenyx-pki in agent mode (rust/kubenyx-pki/src/lib.rs) and the units   *)
(* that start it (modules/pki.nix): an operator ships the worker's         *)
(* credential directory file by file, a path unit starts the renderer when *)
(* the directory was modified, and the renderer embeds the files in        *)
(* kubeconfigs.                                                            *)
(*                                                                         *)
(* The content of a file is the number of the issue it belongs to, zero    *)
(* when it is missing: key and certificate of a leaf match when they have  *)
(* the same number.  Files arrive in any order and whole.                  *)
(***************************************************************************)
EXTENDS Integers

CONSTANTS
  NLeaves, \* number of leaves: kubelet, kube-proxy and coredns
  MaxIssue \* bound: how often each is issued

Leaves == 1..NLeaves

\* Number 0 is the CA, of which only the certificate is shipped.
Files == {<<0, "crt">>} \cup (Leaves \X {"crt", "key"})

VARIABLES
  issue,    \* the server's directory for this worker
  shipping, \* the files the operator has still to send
  file,     \* the agent's directory
  modified, \* the path unit has seen a change that no run has answered yet
  pc, at,   \* "idle", "crt" or "key": what the run reads next, of which leaf
  ca_pem, crt_pem, \* what the run has read
  kc        \* the kubeconfigs

agentVars == <<issue, shipping, file, modified, pc, at, ca_pem, crt_pem, kc>>

AgentInit ==
  /\ issue = [n \in 0..NLeaves |-> 1]
  /\ shipping = {}
  /\ file = [f \in Files |-> 0]
  /\ modified = TRUE
  /\ pc = "idle" /\ at = 1 /\ ca_pem = 0 /\ crt_pem = 0
  /\ kc = [l \in Leaves |-> [ca |-> 0, crt |-> 0, key |-> 0]]

\* The server issues again; the operator ships what a finished run has left.
Renew(n) ==
  /\ shipping = {} /\ issue[n] < MaxIssue
  /\ issue' = [issue EXCEPT ![n] = @ + 1]
  /\ UNCHANGED <<shipping, file, modified, pc, at, ca_pem, crt_pem, kc>>

BeginShipment ==
  /\ shipping = {}
  /\ shipping' = Files
  /\ UNCHANGED <<issue, file, modified, pc, at, ca_pem, crt_pem, kc>>

ShipFile(f) ==
  /\ f \in shipping
  /\ shipping' = shipping \ {f}
  /\ file' = [file EXCEPT ![f] = issue[f[1]]]
  /\ modified' = TRUE
  /\ UNCHANGED <<issue, pc, at, ca_pem, crt_pem, kc>>

\* The run ends at once while a file is missing.
AgentStart ==
  /\ pc = "idle" /\ modified
  /\ modified' = FALSE
  /\ IF \E f \in Files : file[f] = 0
     THEN UNCHANGED <<pc, at, ca_pem>>
     ELSE pc' = "crt" /\ at' = 1 /\ ca_pem' = file[<<0, "crt">>]
  /\ UNCHANGED <<issue, shipping, file, crt_pem, kc>>

ReadCrt ==
  /\ pc = "crt"
  /\ crt_pem' = file[<<at, "crt">>]
  /\ pc' = "key"
  /\ UNCHANGED <<issue, shipping, file, modified, at, ca_pem, kc>>

\* write_kubeconfig reads the key too, but does not compare it.
Render ==
  /\ pc = "key"
  /\ kc' = IF kc[at].crt = crt_pem /\ kc[at].ca = ca_pem THEN kc
           ELSE [kc EXCEPT ![at] = [ca |-> ca_pem, crt |-> crt_pem,
                                    key |-> file[<<at, "key">>]]]
  /\ IF at < NLeaves THEN pc' = "crt" /\ at' = at + 1 ELSE pc' = "idle" /\ at' = at
  /\ UNCHANGED <<issue, shipping, file, modified, ca_pem, crt_pem>>

AgentNext ==
  \/ AgentStart \/ ReadCrt \/ Render
  \/ BeginShipment
  \/ \E n \in 0..NLeaves : Renew(n)
  \/ \E f \in Files : ShipFile(f)

AgentSpec == AgentInit /\ [][AgentNext]_agentVars

(***************************************************************************)
(* What the documents say and the code does not do                         *)
(***************************************************************************)
Settled == pc = "idle" /\ ~modified /\ \A f \in Files : file[f] = issue[f[1]]

\* "re-render kubeconfigs whenever the shipped credential directory changes":
\* once a shipment has arrived and the renderer has answered the last change, the
\* kubeconfigs have what the directory has.
KubeconfigsFollowShipment ==
  Settled => \A l \in Leaves :
    kc[l] = [ca |-> file[<<0, "crt">>], crt |-> file[<<l, "crt">>], key |-> file[<<l, "key">>]]

=============================================================================
