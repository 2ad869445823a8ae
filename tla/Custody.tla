------------------------------- MODULE Custody -------------------------------
(***************************************************************************)
(* How the servers of a mesh come by one CA: kubenyx-pki serve, which the  *)
(* launcher starts (rust/kubenyx-pki/src/lib.rs), and the ca-fetch unit of *)
(* every server (guests/microvm.nix), followed by kubenyx-pki, which runs  *)
(* with --require-shipped-ca.                                              *)
(*                                                                         *)
(* serve takes one connection after the other while others wait in the     *)
(* backlog; curl gives up after five seconds, and the unit tries again     *)
(* until its deadline.  A unit may be restarted, and a guest may reboot,   *)
(* which empties its disk.                                                 *)
(***************************************************************************)
EXTENDS Naturals, Sequences, FiniteSets

CONSTANTS
    Guests,      \* the servers of the mesh
    NFiles,      \* files of the bundle, in the order of the archive
    KeyFile,     \* the position of ca.key among them
    MaxConns,    \* bound on connections
    MaxTroubles  \* bound on restarts and reboots

ASSUME CustodyAssumption ==
    /\ IsFiniteSet(Guests) /\ Guests # {}
    /\ NFiles \in Nat /\ KeyFile \in 1 .. NFiles
    /\ MaxConns \in Nat /\ MaxTroubles \in Nat

VARIABLES
    serve,     \* the serve process: "start", "up", "done" or "dead"
    cur,       \* the connection it serves, 0 for none
    done,      \* transfers counted
    conn,      \* all connections so far, in the order of the backlog
    unit,      \* guest -> state of its ca-fetch unit
    files,     \* guest -> files of the bundle on its disk
    pki,       \* guest -> "off", "up" or "refused"
    cut,       \* guests whose extraction was interrupted since they booted
    troubles   \* restarts and reboots so far

vars == <<serve, cur, done, conn, unit, files, pki, cut, troubles>>
served == <<serve, cur, done>>
guest == <<unit, files, pki, cut, troubles>>

\* A connection: its guest, what the client did, what serve did.
Clients == {"waiting", "got", "gaveup", "vanished"}
Stages == {"queued", "request", "sent", "counted", "failed"}
Conn == [g : Guests, client : Clients, stage : Stages]

CustodyInit ==
    /\ serve = "start" /\ cur = 0 /\ done = 0 /\ conn = << >>
    /\ unit = [g \in Guests |-> "fetching"]
    /\ files = [g \in Guests |-> 0]
    /\ pki = [g \in Guests |-> "off"]
    /\ cut = {} /\ troubles = 0

------------------------------------------------------------------------------
(* kubenyx-pki serve.                                                      *)

\* serve: every custody file must be there, or the process dies.
ServeStart(complete) ==
    /\ serve = "start"
    /\ serve' = IF complete THEN "up" ELSE "dead"
    /\ UNCHANGED <<cur, done, conn, guest>>

\* The oldest connection that waits.
Accept(c) ==
    /\ serve = "up" /\ cur = 0
    /\ conn[c].stage = "queued" /\ \A d \in 1 .. c - 1 : conn[d].stage # "queued"
    /\ cur' = c
    /\ conn' = [conn EXCEPT ![c].stage = "request"]
    /\ UNCHANGED <<serve, done, guest>>

\* serve_conn reads the request, to its end or for five seconds, then writes
\* the archive and closes its side.
Respond ==
    /\ serve = "up" /\ cur # 0 /\ conn[cur].stage = "request"
    /\ conn' = [conn EXCEPT ![cur].stage = "sent"]
    /\ UNCHANGED <<served, guest>>

\* Mutant: one transfer too few ends the loop.
MutAfterConn(n) ==
    /\ cur' = 0 /\ done' = n
    /\ serve' = IF n + 1 >= Cardinality(Guests) THEN "done" ELSE "up"

\* serve_loop: the listener is closed once enough transfers were counted, and
\* with it the connections in the backlog.
AfterConn(n) ==
    /\ cur' = 0 /\ done' = n
    /\ serve' = IF n >= Cardinality(Guests) THEN "done" ELSE "up"

\* The peer's end of file.  A client that gave up has sent one too, and its
\* reset may come after serve has read that.
Counted ==
    /\ serve = "up" /\ cur # 0 /\ conn[cur].stage = "sent"
    /\ conn[cur].client \in {"got", "gaveup"}
    /\ conn' = [conn EXCEPT ![cur].stage = "counted"]
    /\ AfterConn(done + 1)
    /\ UNCHANGED <<guest>>

\* A reset, or no end of file within five seconds.
NotCounted ==
    /\ serve = "up" /\ cur # 0 /\ conn[cur].stage = "sent"
    /\ conn[cur].client # "got"
    /\ conn' = [conn EXCEPT ![cur].stage = "failed"]
    /\ AfterConn(done)
    /\ UNCHANGED <<guest>>

------------------------------------------------------------------------------
(* The ca-fetch unit.                                                      *)

\* The connection a unit waits for is the last of its guest.
Waits(g, c) == unit[g] = "waiting" /\ conn[c].g = g /\ conn[c].client = "waiting"

Connect(g) ==
    /\ unit[g] = "fetching" /\ serve = "up" /\ Len(conn) < MaxConns
    /\ unit' = [unit EXCEPT ![g] = "waiting"]
    /\ conn' = Append(conn, [g |-> g, client |-> "waiting", stage |-> "queued"])
    /\ UNCHANGED <<served, files, pki, cut, troubles>>

\* curl reads to the end of the file; tar begins with its first file.
Receive(g, c) ==
    /\ Waits(g, c) /\ conn[c].stage \in {"sent", "failed"}
    /\ conn' = [conn EXCEPT ![c].client = "got"]
    /\ unit' = [unit EXCEPT ![g] = "extract"]
    /\ files' = [files EXCEPT ![g] = 0]
    /\ UNCHANGED <<served, pki, cut, troubles>>

\* curl's time is up, or the listener was closed on it.
GiveUp(g, c) ==
    /\ Waits(g, c)
    /\ conn' = [conn EXCEPT ![c].client = "gaveup"]
    /\ unit' = [unit EXCEPT ![g] = "fetching"]
    /\ UNCHANGED <<served, files, pki, cut, troubles>>

\* tar writes one file after the other.
Extract(g) ==
    /\ unit[g] = "extract"
    /\ files' = [files EXCEPT ![g] = @ + 1]
    /\ unit' = [unit EXCEPT ![g] = IF files[g] + 1 = NFiles THEN "ok" ELSE "extract"]
    /\ UNCHANGED <<served, conn, pki, cut, troubles>>

\* Mutant: the unit waits for a server that has stopped.
MutDeadline(g) ==
    /\ unit[g] = "fetching" /\ serve # "done"
    /\ unit' = [unit EXCEPT ![g] = "failed"]
    /\ UNCHANGED <<served, conn, files, pki, cut, troubles>>

\* Ninety seconds have passed without a bundle.
Deadline(g) ==
    /\ unit[g] = "fetching"
    /\ unit' = [unit EXCEPT ![g] = "failed"]
    /\ UNCHANGED <<served, conn, files, pki, cut, troubles>>

\* Mutant: only ca.key is looked for.
MutStartPki(g) ==
    /\ unit[g] \in {"ok", "failed"} /\ pki[g] = "off"
    /\ pki' = [pki EXCEPT ![g] = IF files[g] >= KeyFile THEN "up" ELSE "refused"]
    /\ UNCHANGED <<served, conn, unit, files, cut, troubles>>

\* kubenyx-pki --require-shipped-ca runs after the unit, however that ended.
StartPki(g) ==
    /\ unit[g] \in {"ok", "failed"} /\ pki[g] = "off"
    /\ pki' = [pki EXCEPT ![g] = IF files[g] = NFiles THEN "up" ELSE "refused"]
    /\ UNCHANGED <<served, conn, unit, files, cut, troubles>>

------------------------------------------------------------------------------
(* Trouble.                                                                *)

\* A client's connection ends when its unit is killed: with an end of file
\* from the kernel, or with nothing at all when the guest itself is gone.
Abandon(g, how) ==
    conn' = [c \in 1 .. Len(conn) |->
               IF Waits(g, c) THEN [conn[c] EXCEPT !.client = how] ELSE conn[c]]

Trouble == troubles < MaxTroubles /\ troubles' = troubles + 1

\* The operator restarts the unit and what follows it; a ca.key on the disk is
\* taken for the bundle.
Restart(g) ==
    /\ unit[g] \in {"waiting", "extract", "ok", "failed"} /\ Trouble
    /\ Abandon(g, "gaveup")
    /\ unit' = [unit EXCEPT ![g] = IF files[g] >= KeyFile THEN "ok" ELSE "fetching"]
    /\ pki' = [pki EXCEPT ![g] = "off"]
    /\ cut' = IF unit[g] = "extract" THEN cut \cup {g} ELSE cut
    /\ UNCHANGED <<served, files>>

\* The guest reboots from an empty disk.
Reboot(g) ==
    /\ unit[g] # "fetching" /\ Trouble
    /\ Abandon(g, "vanished")
    /\ unit' = [unit EXCEPT ![g] = "fetching"]
    /\ files' = [files EXCEPT ![g] = 0]
    /\ pki' = [pki EXCEPT ![g] = "off"]
    /\ cut' = cut \ {g}
    /\ UNCHANGED served

ServeStep == (\E b \in BOOLEAN : ServeStart(b)) \/ (\E c \in 1 .. Len(conn) : Accept(c))
             \/ Respond \/ Counted \/ NotCounted
GuestStep(g) == \/ Connect(g) \/ Extract(g) \/ Deadline(g) \/ StartPki(g)
                \/ \E c \in 1 .. Len(conn) : Receive(g, c) \/ GiveUp(g, c)

CustodyNext == ServeStep \/ \E g \in Guests : GuestStep(g) \/ Restart(g) \/ Reboot(g)

CustodySpec ==
    /\ CustodyInit /\ [][CustodyNext]_vars
    /\ WF_vars(ServeStep) /\ \A g \in Guests : WF_vars(GuestStep(g))

------------------------------------------------------------------------------
(* Properties.                                                             *)

Undisturbed ==
    troubles = 0 /\ \A c \in 1 .. Len(conn) : conn[c].client \in {"waiting", "got"}

\* "--count must mean N servers actually landed the CA": serve stops only when
\* every server has received the bundle.  That is so as long as no client gave
\* up and no server started over: one that did may be counted twice.
CountMeansLanded ==
    serve = "done" /\ Undisturbed => \A g \in Guests : unit[g] \in {"extract", "ok"}

\* A unit that succeeded has left the whole bundle, although only ca.key is
\* looked at after a restart, unless the extraction itself was interrupted.
OkMeansBundle ==
    \A g \in Guests : unit[g] = "ok" /\ g \notin cut => files[g] = NFiles

\* A server's pki comes up with the bundle of the launcher or not at all; when
\* it was given a broken one it says so, even if its unit reported success.
NoPartialTrust ==
    \A g \in Guests : pki[g] = "up" =>
        /\ files[g] = NFiles /\ unit[g] = "ok"
        /\ \E c \in 1 .. Len(conn) : conn[c].g = g /\ conn[c].client = "got"

\* No server waits for ever: each comes up with the CA or fails loudly, also
\* when serve never started or had stopped before the server asked.
EveryServerDecides == \A g \in Guests : <>[](pki[g] \in {"up", "refused"})
=============================================================================
