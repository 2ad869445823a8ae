----------------------------- MODULE PkiServer -----------------------------
(***************************************************************************)
(* kubenyx-pki in server and mint-ca mode (rust/kubenyx-pki/src/lib.rs): a *)
(* oneshot that brings a directory of keys, certificates, fingerprints and *)
(* kubeconfigs up to date, and may be killed between any two writes.       *)
(*                                                                         *)
(* write_private replaces a file atomically and durably, so a file is      *)
(* absent (zero), old or new.  Key pairs are numbers in the order in which *)
(* they are generated; a CA certificate is the number of its key.  The     *)
(* parameters of a certificate (subject, usages, names, the API server's   *)
(* address) are the number of the configuration they come from.  Expiry is *)
(* abstracted to old: the certificate in the file is inside the renewal    *)
(* window (with leaf_days above renew_days a fresh one is not).            *)
(***************************************************************************)
EXTENDS Integers

CONSTANTS
  NCas,      \* number of CAs: "ca", "front-proxy-ca"
  NLeaves,   \* number of leaf certificates, in the order of server()
  IssuerOf,  \* the CA that signs each leaf
  Users,     \* the leaves that are embedded in a kubeconfig
  Configs,   \* the node's configurations
  MaxEvents  \* bound: crashes, renewals and operator actions

Cas == 1..NCas
Leaves == 1..NLeaves

ASSUME PkiAssumption ==
  /\ NCas \in Nat \ {0} /\ NLeaves \in Nat \ {0}
  /\ IssuerOf \in [Leaves -> Cas]
  /\ Users \subseteq Leaves
  /\ Configs \subseteq Nat \ {0} /\ Configs # {}

VARIABLES
  mode,    \* "mint", "server" or "shipped" (server with --require-shipped-ca)
  config,  \* the configuration the next run is started with
  caKey, caCrt, saKey, saPub, \* the trust roots
  key, crt, fp, \* per leaf: its key, certificate and fingerprint file
  old,     \* per leaf: its certificate is inside the renewal window
  pkg,     \* per leaf: the copies in the directories for the workers
  kc,      \* per leaf: its kubeconfig
  pc, at,  \* what the run does next, and for which CA or leaf
  held,    \* the issuers the run has loaded
  fresh,   \* the next key pair
  kept,    \* the former bundles of trust roots
  events,  \* how many events of the environment there were
  clean,   \* auxiliary: a run finished, and nothing was changed since
  torn     \* auxiliary, per leaf: what a run wanted that was killed while it reissued it

roots == <<caKey, caCrt, saKey, saPub>>
leafVars == <<key, crt, fp, old>>
past == <<kept, torn>>
pkiVars == <<mode, config, roots, leafVars, pkg, kc, pc, at, held, fresh, events,
             clean, past>>

NoCrt == [key |-> 0, ca |-> 0, params |-> 0]
NoFp == [ca |-> 0, params |-> 0]
NoKc == [ca |-> 0, crt |-> NoCrt, key |-> 0, url |-> 0]
NoCopy == [crt |-> NoCrt, key |-> 0]

PkiInit ==
  /\ mode \in {"mint", "server", "shipped"}
  /\ config \in Configs
  /\ caKey = [c \in Cas |-> 0] /\ caCrt = [c \in Cas |-> 0]
  /\ saKey = 0 /\ saPub = 0
  /\ key = [l \in Leaves |-> 0] /\ crt = [l \in Leaves |-> NoCrt]
  /\ fp = [l \in Leaves |-> NoFp] /\ old = [l \in Leaves |-> FALSE]
  /\ pkg = [l \in Leaves |-> NoCopy]
  /\ kc = [l \in Leaves |-> NoKc]
  /\ pc = "off" /\ at = 1
  /\ held = [c \in Cas |-> [key |-> 0, crt |-> 0]]
  /\ fresh = 1 /\ kept = {} /\ events = 0 /\ clean = FALSE
  /\ torn = [l \in Leaves |-> NoFp]

Idle == pc \in {"off", "done", "minted"}

RootsPresent ==
  (\A c \in Cas : caKey[c] # 0 /\ caCrt[c] # 0) /\ saKey # 0 /\ saPub # 0

\* The run goes on with the next of n items, or with what follows the last one.
Continue(here, n, next) ==
  IF at < n THEN pc' = here /\ at' = at + 1 ELSE pc' = next /\ at' = 1

(***************************************************************************)
(* The trust roots                                                         *)
(***************************************************************************)
Start ==
  /\ Idle
  /\ mode = "shipped" => RootsPresent
  /\ pc' = IF mode = "shipped" THEN "load" ELSE "ca"
  /\ at' = 1
  /\ UNCHANGED <<mode, config, roots, leafVars, pkg, kc, held, fresh, events, clean, past>>

\* Mutant: a CA counts as present when it has a key.
MutCaPresent(c) == caKey[c] # 0

CaPresent(c) == caCrt[c] # 0 /\ caKey[c] # 0

EnsureCa ==
  /\ pc = "ca" /\ CaPresent(at)
  /\ Continue("ca", NCas, "sa")
  /\ UNCHANGED <<mode, config, roots, leafVars, pkg, kc, held, fresh, events, clean, past>>

MintCaKey ==
  /\ pc = "ca" /\ ~CaPresent(at)
  /\ caKey' = [caKey EXCEPT ![at] = fresh]
  /\ fresh' = fresh + 1
  /\ pc' = "cacrt"
  /\ UNCHANGED <<mode, config, caCrt, saKey, saPub, leafVars, pkg, kc, at, held, events, clean, past>>

MintCaCrt ==
  /\ pc = "cacrt"
  /\ caCrt' = [caCrt EXCEPT ![at] = caKey[at]]
  /\ Continue("ca", NCas, "sa")
  /\ UNCHANGED <<mode, config, caKey, saKey, saPub, leafVars, pkg, kc, held, fresh, events, clean, past>>

AfterRoots == IF mode = "mint" THEN "minted" ELSE "load"

EnsureSa ==
  /\ pc = "sa"
  /\ IF saKey # 0
     THEN pc' = AfterRoots /\ UNCHANGED <<saKey, fresh>>
     ELSE pc' = "sapub" /\ saKey' = fresh /\ fresh' = fresh + 1
  /\ UNCHANGED <<mode, config, caKey, caCrt, saPub, leafVars, pkg, kc, at, held, events, clean, past>>

WriteSaPub ==
  /\ pc = "sapub"
  /\ saPub' = saKey
  /\ pc' = AfterRoots
  /\ UNCHANGED <<mode, config, caKey, caCrt, saKey, leafVars, pkg, kc, at, held, fresh, events, clean, past>>

\* load_issuer of every CA; the run dies on a file it cannot read.
LoadIssuers ==
  /\ pc = "load"
  /\ held' = [c \in Cas |-> [key |-> caKey[c], crt |-> caCrt[c]]]
  /\ pc' = IF \A c \in Cas : caCrt[c] # 0 /\ caKey[c] # 0 THEN "leaf" ELSE "off"
  /\ UNCHANGED <<mode, config, roots, leafVars, pkg, kc, at, fresh, events, clean, past>>

(***************************************************************************)
(* Issue::ensure for one leaf after the other                              *)
(***************************************************************************)
\* The fingerprint names the parameters and the issuer's certificate.
Want(l) == [ca |-> held[IssuerOf[l]].crt, params |-> config]

\* Mutant: the fingerprint does not tell CAs apart.
MutUpToDate(l) ==
  /\ crt[l] # NoCrt /\ key[l] # 0
  /\ fp[l].params = config
  /\ ~old[l]

UpToDate(l) ==
  /\ crt[l] # NoCrt /\ key[l] # 0
  /\ fp[l] = Want(l)
  /\ ~old[l]

EnsureLeaf ==
  /\ pc = "leaf" /\ UpToDate(at)
  /\ Continue("leaf", NLeaves, "package")
  /\ UNCHANGED <<mode, config, roots, leafVars, pkg, kc, held, fresh, events, clean, past>>

IssueKey ==
  /\ pc = "leaf" /\ ~UpToDate(at)
  /\ key' = [key EXCEPT ![at] = fresh]
  /\ fresh' = fresh + 1
  /\ pc' = "leafcrt"
  /\ UNCHANGED <<mode, config, roots, crt, fp, old, pkg, kc, at, held, events, clean, past>>

IssueCrt ==
  /\ pc = "leafcrt"
  /\ crt' = [crt EXCEPT ![at] = [key |-> key[at], ca |-> held[IssuerOf[at]].key,
                                 params |-> config]]
  /\ old' = [old EXCEPT ![at] = FALSE]
  /\ pc' = "leaffp"
  /\ UNCHANGED <<mode, config, roots, key, fp, pkg, kc, at, held, fresh, events, clean, past>>

\* Mutant: the fingerprint is not recorded.
MutWriteFp ==
  /\ pc = "leaffp"
  /\ Continue("leaf", NLeaves, "package")
  /\ UNCHANGED <<mode, config, roots, leafVars, pkg, kc, held, fresh, events, clean, past>>

WriteFp ==
  /\ pc = "leaffp"
  /\ fp' = [fp EXCEPT ![at] = Want(at)] /\ torn' = [torn EXCEPT ![at] = NoFp]
  /\ Continue("leaf", NLeaves, "package")
  /\ UNCHANGED <<mode, config, roots, key, crt, old, pkg, kc, held, fresh, events, clean, kept>>

(***************************************************************************)
(* Packages for the workers (fs::copy, not atomic: see Crash) and          *)
(* kubeconfigs                                                             *)
(***************************************************************************)
Package ==
  /\ pc = "package"
  /\ pkg' = [l \in Leaves |-> [crt |-> crt[l], key |-> key[l]]]
  /\ pc' = "kc"
  /\ UNCHANGED <<mode, config, roots, leafVars, kc, at, held, fresh, events, clean, past>>

\* Mutant: a kubeconfig is kept for as long as its CA and server stay.
MutKcCurrent(l) == kc[l].url = config /\ kc[l].ca = caCrt[1]

\* The key is not compared.
KcCurrent(l) == kc[l].url = config /\ kc[l].crt = crt[l] /\ kc[l].ca = caCrt[1]

WriteKubeconfig ==
  /\ pc = "kc"
  /\ kc' = IF at \in Users /\ ~KcCurrent(at)
           THEN [kc EXCEPT ![at] = [ca |-> caCrt[1], crt |-> crt[at], key |-> key[at],
                                    url |-> config]]
           ELSE kc
  /\ Continue("kc", NLeaves, "done")
  /\ clean' = (clean \/ at = NLeaves)
  /\ UNCHANGED <<mode, config, roots, leafVars, pkg, held, fresh, events, past>>

(***************************************************************************)
(* The environment.  A configuration change or a new bundle stops a run    *)
(* that is in progress (a crash) before it takes effect.                   *)
(***************************************************************************)
Event == events < MaxEvents /\ events' = events + 1

\* A file that was being copied is left truncated.
Crash ==
  /\ Event /\ ~Idle
  /\ pc' = "off"
  /\ pkg' \in {pkg} \cup IF pc = "package" THEN {[pkg EXCEPT ![l] = NoCopy] : l \in Leaves} ELSE {}
  /\ torn' = IF pc \in {"leafcrt", "leaffp"} THEN [torn EXCEPT ![at] = Want(at)] ELSE torn
  /\ UNCHANGED <<mode, config, roots, leafVars, kc, at, held, fresh, clean, kept>>

Age(l) ==
  /\ Event /\ crt[l] # NoCrt /\ ~old[l]
  /\ old' = [old EXCEPT ![l] = TRUE]
  /\ UNCHANGED <<mode, config, roots, key, crt, fp, pkg, kc, pc, at, held, fresh, clean, past>>

Reconfigure(new) ==
  /\ Event /\ Idle
  /\ config' = new
  /\ pc' = "off" /\ clean' = FALSE
  /\ UNCHANGED <<mode, roots, leafVars, pkg, kc, at, held, fresh, past>>

\* The operator ships a bundle of trust roots: new ones, or former ones again.
\* The first one, which a run in mode "shipped" waits for, does not count.
Bundle == [caKey |-> caKey, caCrt |-> caCrt, saKey |-> saKey, saPub |-> saPub]
NewBundle ==
  LET cas == [c \in Cas |-> fresh + c]
  IN [caKey |-> cas, caCrt |-> cas, saKey |-> fresh, saPub |-> fresh]

Ship(b) ==
  /\ IF RootsPresent THEN Event ELSE UNCHANGED events
  /\ Idle /\ mode # "mint"
  /\ caKey' = b.caKey /\ caCrt' = b.caCrt /\ saKey' = b.saKey /\ saPub' = b.saPub
  /\ fresh' = IF b \in kept THEN fresh ELSE fresh + NCas + 1
  /\ kept' = kept \cup IF RootsPresent THEN {Bundle} ELSE {}
  /\ pc' = "off" /\ clean' = FALSE
  /\ UNCHANGED <<mode, config, leafVars, pkg, kc, at, held, torn>>

PkiStep ==
  \/ EnsureCa \/ MintCaKey \/ MintCaCrt \/ EnsureSa \/ WriteSaPub \/ LoadIssuers
  \/ EnsureLeaf \/ IssueKey \/ IssueCrt \/ WriteFp \/ Package \/ WriteKubeconfig

PkiNext ==
  \/ Start \/ PkiStep \/ Crash
  \/ \E b \in kept \cup {NewBundle} : Ship(b)
  \/ \E l \in Leaves : Age(l)
  \/ \E new \in Configs \ {config} : Reconfigure(new)

PkiSpec == PkiInit /\ [][PkiNext]_pkiVars

\* The unit is started at every boot and activation, and a run goes on.
PkiFairSpec == PkiSpec /\ WF_pkiVars(Start) /\ WF_pkiVars(PkiStep)

(***************************************************************************)
(* Properties                                                              *)
(***************************************************************************)
Stages == {"off", "ca", "cacrt", "sa", "sapub", "minted", "load", "leaf", "leafcrt",
           "leaffp", "package", "kc", "done"}
Crt == [key : Nat, ca : Nat, params : Nat]
Fp == [ca : Nat, params : Nat]
Copy == [crt : Crt, key : Nat]
Kubeconfig == [ca : Nat, crt : Crt, key : Nat, url : Nat]
Issuer == [key : Nat, crt : Nat]
Bundles == [caKey : [Cas -> Nat], caCrt : [Cas -> Nat], saKey : Nat, saPub : Nat]

\* Every variable has its type.
PkiTypeOK ==
  /\ mode \in {"mint", "server", "shipped"} /\ config \in Configs
  /\ caKey \in [Cas -> Nat] /\ caCrt \in [Cas -> Nat] /\ saKey \in Nat /\ saPub \in Nat
  /\ key \in [Leaves -> Nat] /\ crt \in [Leaves -> Crt]
  /\ fp \in [Leaves -> Fp] /\ old \in [Leaves -> BOOLEAN]
  /\ pkg \in [Leaves -> Copy]
  /\ kc \in [Leaves -> Kubeconfig]
  /\ pc \in Stages /\ at \in Nat \ {0}
  /\ pc \in {"ca", "cacrt"} => at \in Cas
  /\ pc \in {"leaf", "leafcrt", "leaffp", "kc"} => at \in Leaves
  /\ pc \in {"sa", "sapub", "load", "package"} => at = 1
  /\ held \in [Cas -> Issuer]
  /\ fresh \in Nat \ {0} /\ events \in Nat /\ clean \in BOOLEAN
  /\ kept \subseteq Bundles /\ torn \in [Leaves -> Fp]

\* A CA certificate in the directory belongs to the key beside it, whatever
\* crashes interrupted ensure_ca: load_issuer never signs with another key.
RootsPaired == \A c \in Cas : caCrt[c] # 0 => caCrt[c] = caKey[c]

\* The leaf's certificate belongs to its key, is signed by the CA in the
\* directory and has the parameters of the configuration.
Sound(l) == crt[l] = [key |-> key[l], ca |-> caKey[IssuerOf[l]], params |-> config]

\* A run that reissued the leaf for another configuration or another CA than the
\* present ones was killed before it recorded the fingerprint, and no run has
\* reissued the leaf since.
CurrentFp(l) == [ca |-> caCrt[IssuerOf[l]], params |-> config]
Returned(l) == torn[l] \notin {NoFp, CurrentFp(l)}

\* After a run that finished the workers' copies are those of the directory, and
\* every leaf is sound although earlier runs were killed between the writes of
\* key, certificate and fingerprint, the CA was replaced, or the certificate was
\* being renewed.  The one exception is a leaf that a run was reissuing for
\* something else when it was killed, before what the fingerprint names came
\* back: ensure takes the key or the certificate of that run for current.
FinishedSound ==
  pc = "done" => \A l \in Leaves :
    /\ pkg[l] = [crt |-> crt[l], key |-> key[l]]
    /\ Sound(l) \/ Returned(l)

\* After a run that finished every kubeconfig has the current certificate, the
\* key that belongs to it, the CA and the server, although write_kubeconfig does
\* not compare the key; with the same exception as for the leaf.
KubeconfigSound ==
  pc = "done" => \A l \in Users :
    \/ kc[l] = [ca |-> caCrt[1], crt |-> crt[l], key |-> crt[l].key, url |-> config]
    \/ Returned(l)

\* "Semantics: fingerprint files gate regeneration": once a run has finished,
\* further runs leave a leaf alone until it is due or something is changed.
Idempotent ==
  [][\A l \in Leaves : clean /\ ~old[l] => key'[l] = key[l] /\ crt'[l] = crt[l]]_pkiVars

\* However often it was killed, a run finishes once it is left alone: no state a
\* crash leaves behind makes the next run give up.
Converges == (pc = "off" /\ (mode = "shipped" => RootsPresent)) ~> pc \in {"done", "minted"}

=============================================================================
