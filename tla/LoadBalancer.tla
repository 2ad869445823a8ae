---------------------------- MODULE LoadBalancer ----------------------------
(***************************************************************************)
(* The client-side apiserver load balancer (rust/kubenyx-lb/src/lib.rs):   *)
(* the probe thread, the accept loop, a thread pair per connection and the *)
(* signal handler, which share atomics only.                               *)
(*                                                                         *)
(* Backends are numbered as on the command line.  A backend is "down" (it  *)
(* refuses connections), "up" (it accepts them but its /readyz is not 200, *)
(* as for a probe without its client certificate) or "serving".  A         *)
(* connection has a direction "up" (client to backend) and one "down",     *)
(* each with its own pump.  Bytes are abstracted to what ends a direction: *)
(* its source closes ("eof") or its sink stops reading ("wedged").         *)
(* A wait of the accept loop and of the probe thread is a choice not to    *)
(* step, and DRAIN_DEADLINE_MS is kept as the time left until it.          *)
(***************************************************************************)
EXTENDS Integers, Sequences, FiniteSets

CONSTANTS
  N,             \* number of backends
  FailThreshold, \* --fail-threshold
  FailsMod,      \* the range of the failure counter, 2^32 in the code
  Conns,         \* client connections
  DrainTimeout   \* --drain-timeout-ms

ASSUME LbAssumption ==
  /\ N \in Nat \ {0}
  /\ FailThreshold \in Nat \ {0}
  /\ FailsMod \in Nat /\ FailsMod > FailThreshold
  /\ IsFiniteSet(Conns)
  /\ DrainTimeout \in Nat

Backends == 0..(N - 1)
Dirs == {"up", "down"}
NoDeadline == -1
Ended == -1

VARIABLES
  backend,  \* environment: the state of each backend
  healthy,  \* Backend.healthy
  fails,    \* Backend.fails
  probing,  \* the backend health_loop probes next, N after the last one
  ready,    \* ever_ready: READY=1 was sent
  cursor,   \* the round-robin cursor
  main,     \* where the main thread is
  draining, \* DRAINING
  left,     \* time left until DRAIN_DEADLINE_MS
  active,   \* ACTIVE
  stage,    \* where each connection is
  flags,    \* the health flags its handler has read so far
  order,    \* the backends its handler has still to dial
  pump,     \* per direction: "run", or why the pump ended
  feed,     \* environment, per direction: "open", "eof" or "wedged"
  streak,   \* auxiliary: consecutive failed probes, counted up to the threshold
  proven,   \* auxiliary: a probe of this backend has succeeded
  tried,    \* auxiliary: the backends that refused this connection
  since     \* auxiliary: time since the signal, counted up to DrainTimeout

healthVars == <<healthy, fails, probing, ready, streak, proven>>
connVars == <<active, stage, flags, order, pump, feed, tried>>
drainVars == <<main, draining, left, since>>
lbVars == <<backend, cursor, healthVars, connVars, drainVars>>

\* exit(0) of the main thread ends every thread, and so does its panic.
Running == main \notin {"exited", "crashed"}
DrainExpired == draining /\ left = 0

LbInit ==
  /\ backend \in [Backends -> {"down", "up", "serving"}]
  /\ healthy = [b \in Backends |-> FALSE]
  /\ fails = [b \in Backends |-> 0]
  /\ probing = 0
  /\ ready = FALSE
  /\ cursor = 0
  /\ main = "check"
  /\ draining = FALSE
  /\ left = NoDeadline
  /\ active = 0
  /\ stage = [c \in Conns |-> "none"]
  /\ flags = [c \in Conns |-> <<>>]
  /\ order = [c \in Conns |-> <<>>]
  /\ pump = [c \in Conns |-> [d \in Dirs |-> "run"]]
  /\ feed = [c \in Conns |-> [d \in Dirs |-> "open"]]
  /\ streak = [b \in Backends |-> 0]
  /\ proven = [b \in Backends |-> FALSE]
  /\ tried = [c \in Conns |-> {}]
  /\ since = 0

(***************************************************************************)
(* health_loop: one backend after the other, round after round             *)
(***************************************************************************)
ProbeOk ==
  /\ Running /\ probing \in Backends /\ backend[probing] = "serving"
  /\ probing' = probing + 1
  /\ fails' = [fails EXCEPT ![probing] = 0]
  /\ healthy' = [healthy EXCEPT ![probing] = TRUE]
  /\ ready' = TRUE
  /\ streak' = [streak EXCEPT ![probing] = 0]
  /\ proven' = [proven EXCEPT ![probing] = TRUE]
  /\ UNCHANGED <<backend, cursor, connVars, drainVars>>

\* fetch_add returns the old value, which is incremented without wrapping.
FailCount(old) == IF old + 1 < FailsMod THEN old + 1 ELSE FailsMod - 1

\* Mutant: a backend is evicted one failure late.
MutEvicts(f) == f > FailThreshold

Evicts(f) == f >= FailThreshold

ProbeFail ==
  /\ Running /\ probing \in Backends /\ backend[probing] # "serving"
  /\ probing' = probing + 1
  /\ fails' = [fails EXCEPT ![probing] = (@ + 1) % FailsMod]
  /\ healthy' = [healthy EXCEPT ![probing] = @ /\ ~Evicts(FailCount(fails[probing]))]
  /\ streak' = [streak EXCEPT ![probing] = IF @ < FailThreshold THEN @ + 1 ELSE @]
  /\ UNCHANGED <<backend, ready, proven, cursor, connVars, drainVars>>

\* Mutant: the round starts over without its first backend.
MutEndRound ==
  /\ Running /\ probing = N
  /\ probing' = IF draining THEN Ended ELSE IF N > 1 THEN 1 ELSE 0
  /\ UNCHANGED <<backend, healthy, fails, ready, streak, proven, cursor, connVars, drainVars>>

EndRound ==
  /\ Running /\ probing = N
  /\ probing' = IF draining THEN Ended ELSE 0
  /\ UNCHANGED <<backend, healthy, fails, ready, streak, proven, cursor, connVars, drainVars>>

(***************************************************************************)
(* The main thread                                                         *)
(***************************************************************************)
LoopCheck ==
  /\ main = "check"
  /\ main' = IF draining THEN "drain" ELSE "accept"
  /\ UNCHANGED <<backend, cursor, healthVars, connVars, draining, left, since>>

\* Without room for a thread spawn panics, and the main thread with it.
Accept(c) ==
  /\ main = "accept" /\ stage[c] = "waiting"
  /\ active' = active + 1
  /\ \/ main' = "check" /\ stage' = [stage EXCEPT ![c] = "accepted"]
     \/ main' = "crashed" /\ stage' = [stage EXCEPT ![c] = "panicked"]
  /\ UNCHANGED <<backend, cursor, healthVars, draining, left, since, flags, order, pump, feed, tried>>

\* Nothing to accept, or a transient error.
AcceptNothing ==
  /\ main = "accept"
  /\ main' = "check"
  /\ UNCHANGED <<backend, cursor, healthVars, connVars, draining, left, since>>

\* Mutant: the deadline is not stored.
MutStartDrain ==
  /\ main = "drain"
  /\ main' = "flight"
  /\ stage' = [c \in Conns |-> IF stage[c] = "waiting" THEN "reset" ELSE stage[c]]
  /\ UNCHANGED <<backend, cursor, healthVars, draining, left, since, active, flags, order, pump, feed, tried>>

\* The listener is closed, which resets the connections still in its backlog.
StartDrain ==
  /\ main = "drain"
  /\ main' = "flight"
  /\ left' = DrainTimeout
  /\ stage' = [c \in Conns |-> IF stage[c] = "waiting" THEN "reset" ELSE stage[c]]
  /\ UNCHANGED <<backend, cursor, healthVars, draining, since, active, flags, order, pump, feed, tried>>

Exit ==
  /\ main = "flight" /\ (active = 0 \/ DrainExpired)
  /\ main' = "exited"
  /\ UNCHANGED <<backend, cursor, healthVars, connVars, draining, left, since>>

(***************************************************************************)
(* handle: dial in the order of pick_order, then pump both directions      *)
(***************************************************************************)
\* Mutant: the list is not rotated.
MutRotated(start) == [i \in 1..N |-> i - 1]

Rotated(start) == [i \in 1..N |-> (start + i - 1) % N]

\* Where the backends whose flag is keep stand in the rotated list.
Kept(h, start, keep) == {i \in 1..N : h[Rotated(start)[i]] = keep}

Rank(S, i) == Cardinality({j \in S : j <= i})

\* filter: what it keeps, in the order of the list.
Filtered(h, start, keep) ==
  LET S == Kept(h, start, keep)
  IN  [k \in 1..Cardinality(S) |-> Rotated(start)[CHOOSE i \in S : Rank(S, i) = k]]

\* Mutant: unhealthy backends are never tried.
MutPickOrder(h, start) == Filtered(h, start, TRUE)

PickOrder(h, start) == Filtered(h, start, TRUE) \o Filtered(h, start, FALSE)

\* The flags are loaded one by one while the probe thread may store to them.
LoadFlag(c) ==
  /\ Running /\ stage[c] = "accepted" /\ Len(flags[c]) < N
  /\ flags' = [flags EXCEPT ![c] = Append(@, healthy[Len(@)])]
  /\ UNCHANGED <<backend, cursor, healthVars, drainVars, active, stage, order, pump, feed, tried>>

Handle(c) ==
  /\ Running /\ stage[c] = "accepted" /\ Len(flags[c]) = N
  /\ stage' = [stage EXCEPT ![c] = "dialing"]
  /\ order' = [order EXCEPT ![c] = PickOrder([b \in Backends |-> flags[c][b + 1]], cursor)]
  /\ flags' = [flags EXCEPT ![c] = <<>>]
  /\ cursor' = (cursor + 1) % N
  /\ UNCHANGED <<backend, healthVars, drainVars, active, pump, feed, tried>>

DialFail(c) ==
  /\ Running /\ stage[c] = "dialing" /\ order[c] # <<>>
  /\ backend[Head(order[c])] = "down"
  /\ order' = [order EXCEPT ![c] = Tail(@)]
  /\ tried' = [tried EXCEPT ![c] = @ \cup {Head(order[c])}]
  /\ UNCHANGED <<backend, cursor, healthVars, drainVars, active, stage, flags, pump, feed>>

\* Without a descriptor for the clones the connection is given up; without room
\* for the second thread spawn panics, and the handler never leaves ACTIVE.
DialOk(c) ==
  /\ Running /\ stage[c] = "dialing" /\ order[c] # <<>>
  /\ backend[Head(order[c])] # "down"
  /\ \E next \in {"pumping", "returned", "panicked"} : stage' = [stage EXCEPT ![c] = next]
  /\ UNCHANGED <<backend, cursor, healthVars, drainVars, active, flags, order, pump, feed, tried>>

Refuse(c) ==
  /\ Running /\ stage[c] = "dialing" /\ order[c] = <<>>
  /\ stage' = [stage EXCEPT ![c] = "refused"]
  /\ UNCHANGED <<backend, cursor, healthVars, drainVars, active, flags, order, pump, feed, tried>>

\* Mutant: an idle pump ends as soon as the process is draining.
MutStopCause(c, d, why) ==
  \/ why = "eof" /\ feed[c][d] = "eof"
  \/ why = "write" /\ feed[c][d] = "wedged"
  \/ why = "drain" /\ feed[c][d] = "open" /\ draining

\* What ends the loop of pump: end of file, the write timeout, or a read that
\* times out after the drain deadline.
StopCause(c, d, why) ==
  \/ why = "eof" /\ feed[c][d] = "eof"
  \/ why = "write" /\ feed[c][d] = "wedged"
  \/ why = "drain" /\ feed[c][d] = "open" /\ DrainExpired

StopPump(c, d) ==
  /\ Running /\ stage[c] = "pumping" /\ pump[c][d] = "run"
  /\ \E why \in {"eof", "write", "drain"} :
       StopCause(c, d, why) /\ pump' = [pump EXCEPT ![c][d] = why]
  /\ UNCHANGED <<backend, cursor, healthVars, drainVars, active, stage, flags, order, feed, tried>>

\* The handler's own pump has ended and the other thread is joined.
Join(c) ==
  /\ Running /\ stage[c] = "pumping" /\ \A d \in Dirs : pump[c][d] # "run"
  /\ stage' = [stage EXCEPT ![c] = "returned"]
  /\ UNCHANGED <<backend, cursor, healthVars, drainVars, active, flags, order, pump, feed, tried>>

Finish(c) ==
  /\ Running /\ stage[c] \in {"returned", "refused"}
  /\ active' = active - 1
  /\ stage' = [stage EXCEPT ![c] = "gone"]
  /\ UNCHANGED <<backend, cursor, healthVars, drainVars, flags, order, pump, feed, tried>>

(***************************************************************************)
(* The environment: clients, backends, SIGTERM or SIGINT, and time         *)
(***************************************************************************)
Connect(c) ==
  /\ stage[c] = "none" /\ main \in {"check", "accept", "drain"}
  /\ stage' = [stage EXCEPT ![c] = "waiting"]
  /\ UNCHANGED <<backend, cursor, healthVars, drainVars, active, flags, order, pump, feed, tried>>

PeerActs(c, d) ==
  /\ stage[c] = "pumping" /\ feed[c][d] = "open"
  /\ \E f \in {"eof", "wedged"} : feed' = [feed EXCEPT ![c][d] = f]
  /\ UNCHANGED <<backend, cursor, healthVars, drainVars, active, stage, flags, order, pump, tried>>

BackendChanges(b) ==
  /\ Running
  /\ \E s \in {"down", "up", "serving"} : backend' = [backend EXCEPT ![b] = s]
  /\ UNCHANGED <<cursor, healthVars, connVars, drainVars>>

Signal ==
  /\ Running /\ ~draining
  /\ draining' = TRUE
  /\ UNCHANGED <<backend, cursor, healthVars, connVars, main, left, since>>

Elapse ==
  /\ Running /\ draining
  /\ since' = IF since < DrainTimeout THEN since + 1 ELSE since
  /\ left' = IF left > 0 THEN left - 1 ELSE left
  /\ UNCHANGED <<backend, cursor, healthVars, connVars, main, draining>>

Threads ==
  \/ ProbeOk \/ ProbeFail \/ EndRound
  \/ LoopCheck \/ AcceptNothing \/ StartDrain \/ Exit
  \/ \E c \in Conns : \/ Accept(c) \/ LoadFlag(c) \/ Handle(c) \/ DialFail(c) \/ DialOk(c)
                      \/ Refuse(c) \/ Join(c) \/ Finish(c)
                      \/ \E d \in Dirs : StopPump(c, d)

Environment ==
  \/ Signal \/ Elapse
  \/ \E b \in Backends : BackendChanges(b)
  \/ \E c \in Conns : Connect(c) \/ \E d \in Dirs : PeerActs(c, d)

LbNext == Threads \/ Environment

LbSpec == LbInit /\ [][LbNext]_lbVars

\* Every thread keeps running and time passes; nothing is assumed of peers.
LbFairness ==
  /\ WF_lbVars(ProbeOk \/ ProbeFail \/ EndRound)
  /\ WF_lbVars(LoopCheck \/ AcceptNothing \/ StartDrain \/ Exit)
  /\ \A c \in Conns :
       /\ WF_lbVars(LoadFlag(c) \/ Handle(c) \/ DialFail(c) \/ DialOk(c) \/ Refuse(c) \/ Join(c)
                    \/ Finish(c))
       /\ \A d \in Dirs : WF_lbVars(StopPump(c, d))
  /\ WF_lbVars(Elapse)

(***************************************************************************)
(* Properties                                                              *)
(***************************************************************************)
\* The stages in which a connection has its thread.
Threaded == {"accepted", "dialing", "pumping", "returned", "refused"}
Panicked == {c \in Conns : stage[c] = "panicked"}

\* "evicts after --fail-threshold consecutive failures and readmits on the first
\* success", and READY only after one: health_loop's atomics say exactly that,
\* also when the failure counter wraps.
HealthExact ==
  /\ \A b \in Backends : healthy[b] <=> proven[b] /\ streak[b] < FailThreshold
  /\ ready <=> \E b \in Backends : proven[b]

\* ACTIVE counts the connections that have a thread, whatever way they end, and
\* those for which no thread could be spawned.
ActiveExact == active = Cardinality({c \in Conns : stage[c] \in Threaded} \cup Panicked)

\* "let in-flight connections finish within the drain deadline": no direction is
\* cut, and the process does not leave a connection behind, before the full
\* timeout has passed since the signal, although the flag is set first and the
\* deadline later by another thread.  Only a panic of the main thread does.
DrainGrace ==
  /\ \A c \in Conns, d \in Dirs : pump[c][d] = "drain" => since = DrainTimeout
  /\ main = "exited" => active = 0 \/ since = DrainTimeout

\* "a lagging probe must not cause a self-inflicted blackout": a client that was
\* not given up for want of a descriptor or a thread is dropped only after every
\* backend refused it, however stale or mixed the flags were that were read.
RefusedByAll == \A c \in Conns : stage[c] = "refused" => tried[c] = Backends

\* pick_order against its description, whatever the probes have stored: all
\* backends, healthy ones first, and over the values of the cursor every healthy
\* backend comes first at least once.
PickOrderSound ==
  /\ \A s \in Backends :
       LET o == PickOrder(healthy, s)
       IN  /\ Len(o) = N /\ {o[i] : i \in DOMAIN o} = Backends
           /\ \A i, j \in DOMAIN o : i < j /\ healthy[o[j]] => healthy[o[i]]
  /\ \A b \in Backends : healthy[b] => \E s \in Backends : PickOrder(healthy, s)[1] = b

\* A signal is followed by the end of the process, although peers are idle and
\* panics have left ACTIVE too high.
DrainEnds == draining ~> ~Running

\* The health flags follow the backends, as long as the process runs and is not
\* draining.
HealthConverges ==
  \A b \in Backends :
    /\ <>[](backend[b] # "serving" /\ Running /\ ~draining) => <>[](~healthy[b])
    /\ <>[](backend[b] = "serving" /\ Running /\ ~draining) => <>[](healthy[b])

=============================================================================
