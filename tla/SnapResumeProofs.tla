-------------------------- MODULE SnapResumeProofs --------------------------
(***************************************************************************)
(* Proofs about SnapResume, for every number of nodes, table size, number  *)
(* of rounds and of datagrams: what the threads, the main thread and the   *)
(* exit paths do to each other's VMMs through the table.                   *)
(***************************************************************************)
EXTENDS SnapResume, TLAPS

Leaving == {"sweep", "kill"}
ThreadPcs == {"off", "spawn", "own", "sock", "load", "done"} \cup Leaving
MainPcs == {"join", "probe", "quorum", "pokes", "killwait", "disown"} \cup Leaving
States == {"none", "running", "zombie", "reaped"}

Slots == 1 .. slots
AllPids == 1 .. Earlier
Position == Nat \ {0}
Bound == AllPids \cup {0}

TypeInv ==
    /\ verb \in {"resume", "cycle"} /\ size \in 1 .. N /\ slots \in Nat \ {0}
    /\ stuck \subseteq Nodes /\ mute \subseteq Nodes /\ round \in 1 .. Rounds
    /\ pc \in [Actors -> ThreadPcs \cup MainPcs]
    /\ at \in [Actors -> Position] /\ hand \in [Actors -> Pids \cup {0}]
    /\ table \in [Slots -> Pids \cup {0}]
    /\ proc \in [AllPids -> States]
    /\ sock \in [Nodes -> Bound] /\ loaded \in [Nodes -> Bound]
    /\ child \in Mesh /\ released \subseteq Pids
    /\ sent \in [Nodes -> 0 .. Pokes] /\ behind \in [Nodes -> Int] /\ stepped \subseteq Nodes
    /\ known \subseteq Pids /\ settled \subseteq Pids /\ sweepers \subseteq Actors
    /\ stray \in BOOLEAN /\ exit \in {"no", "ok", "died", "signal"}

\* The main thread is past the joins of the node threads only once all of them
\* have ended well; so whoever sweeps, nobody else is in the middle of anything
\* but the threads that are still to enter their VMMs.
PhaseInv ==
    /\ pc[Main] \in MainPcs /\ pc[Handler] \in Leaving \cup {"off"}
    /\ \A n \in Nodes : pc[n] \in ThreadPcs /\ (n \notin Mesh <=> pc[n] = "off")
    /\ pc[Main] # "join" => \A n \in Mesh : pc[n] = "done"
    /\ sweepers = {a \in Actors : pc[a] \in Leaving}
    /\ \A a \in Actors : hand[a] # 0 <=> pc[a] = "kill"
    /\ verb = "resume" => round = 1 /\ pc[Main] # "killwait"

\* Datagrams are sent after the loads, and before the VMMs are let go every
\* thread that has a socket has sent all of them.
ClockInv ==
    /\ \A n \in Nodes : sent[n] > 0 => pc[Main] # "join"
    /\ \A n \in stepped : sent[n] > 0
    /\ pc[Main] \in {"killwait", "disown"} => \A n \in Mesh \ mute : sent[n] = Pokes
    /\ ClockClose

Ending == pc[Main] \in {"killwait", "disown"}
Past == 1 .. (round - 1) * N

\* The VMM of node n is entered in the table, or was.
Claimed(n) == pc[n] \notin {"off", "spawn", "own"}

\* The main thread has let go of node n.
Done(n) == Ending /\ (n < child \/ (n = child /\ pc[Main] = "disown"))

\* Every pid has one place: a slot or a hand, of a node of this round that was
\* not dealt with yet.
PlaceInv ==
    /\ \A i, j \in Slots : table[i] # 0 /\ table[i] = table[j] => i = j
    /\ \A a, b \in Actors : hand[a] # 0 /\ hand[a] = hand[b] => a = b
    /\ \A a \in Actors, i \in Slots : hand[a] # 0 => table[i] # hand[a]
    /\ \A i \in Slots : table[i] # 0 =>
         \E n \in Mesh : table[i] = Pid(n) /\ Claimed(n) /\ (Ending => n >= child)
    /\ \A a \in Actors : hand[a] # 0 => \E n \in Mesh : hand[a] = Pid(n) /\ Claimed(n)
    /\ pc[Main] = "disown" => \A i \in Slots : i < at[Main] => table[i] # Pid(child)

\* What a cycle is done with was reaped, and nothing of it is left to run.
DoneInv == verb = "cycle" => released = {} /\ \A n \in Mesh : Done(n) => proc[Pid(n)] = "reaped"

\* What entered the table is of an earlier round or was claimed in this one.
KnownInv ==
    /\ \A p \in known : p \in Past \/ \E n \in Mesh : p = Pid(n) /\ Claimed(n)
    /\ \A i \in Slots : table[i] # 0 => table[i] \in known
    /\ \A a \in Actors : hand[a] # 0 => hand[a] \in known
    /\ settled \subseteq known
    /\ Tracked

\* The VMMs that ever ran are those of the rounds so far, and those of earlier
\* rounds run no more.
LifeInv ==
    \A p \in Pids :
        IF p \in Past THEN proc[p] # "running"
        ELSE proc[p] # "none" => \E n \in Mesh : p = Pid(n) /\ pc[n] # "spawn"

\* A thread talks to its own VMM: the socket left behind by another is removed
\* before the VMM is spawned, if it can be.
SockInv ==
    \A n \in Mesh \ stuck :
                    /\ pc[n] \in {"own", "sock", "load", "done"} => sock[n] \in {0, Pid(n)}
                    /\ pc[n] = "done" => loaded[n] = Pid(n)

\* Until somebody leaves, the main thread finds every VMM where it is to be.
HeldInv ==
    /\ sweepers = {} => \A n \in Mesh : pc[n] \in {"sock", "load", "done"} =>
         \/ \E i \in Slots : table[i] = Pid(n)
         \/ Pid(n) \in released
         \/ verb = "cycle" /\ Done(n)
    /\ verb = "resume" /\ sweepers = {} => \A p \in Pids : proc[p] # "reaped"

\* What was reaped is in no slot and no hand, but for the VMM that a cycle is
\* about to take out of the table.
ReapInv ==
    /\ \A n \in Mesh : pc[n] = "own" => proc[Pid(n)] # "reaped"
    /\ \A i \in Slots : table[i] # 0 /\ proc[table[i]] = "reaped" =>
         verb = "cycle" /\ pc[Main] = "disown" /\ table[i] = Pid(child)
    /\ \A a \in Actors : hand[a] # 0 /\ proc[hand[a]] = "reaped" =>
         verb = "cycle" /\ pc[Main] = "disown" /\ hand[a] = Pid(child)
    /\ NoStrayKill

\* What sweeper a still has to kill is in its hand or in a slot before it.  A
\* slot it has just swapped may be claimed again, by a VMM that is not settled.
Ahead(a, p) == \/ hand[a] = p
               \/ \E i \in Slots : table[i] = p /\ i >= at[a] /\ (pc[a] = "kill" => i > at[a])

AheadInv ==
    \A a \in Actors : sweepers = {a} => \A p \in settled : proc[p] # "running" \/ Ahead(a, p)

\* All of it: the inductive invariant.
ResumeInv ==
    /\ TypeInv /\ PhaseInv /\ ClockInv /\ PlaceInv /\ DoneInv /\ KnownInv
    /\ LifeInv /\ SockInv /\ HeldInv /\ ReturnsSound /\ ReapInv /\ AheadInv /\ ExitKillsOwned

------------------------------------------------------------------------------
(* Actors, nodes and pids.                                                 *)

LEMMA ActorFacts ==
    /\ Main \in Actors /\ Handler \in Actors /\ Main # Handler
    /\ Nodes \subseteq Actors /\ Main \notin Nodes /\ Handler \notin Nodes
    /\ \A a \in Actors : a = Main \/ a = Handler \/ a \in Nodes
BY SnapResumeAssumption DEF Main, Handler, Actors, Nodes

LEMMA PositionFacts == 1 \in Position /\ \A i \in Position : i + 1 \in Position
BY DEF Position

LEMMA PidsBelow ==
    /\ N * Rounds \in Nat /\ Earlier \in Nat /\ Earlier \notin Pids
    /\ Pids \subseteq AllPids /\ 0 \notin AllPids /\ Earlier \in AllPids
<1>1. N \in Nat /\ Rounds \in Nat
  BY SnapResumeAssumption
<1>2. N * Rounds \in Nat
  BY <1>1
<1> QED BY <1>2 DEF Earlier, Pids, AllPids

\* The pids of a round, and those of the rounds before it.
LEMMA PidOf ==
    ASSUME NEW r \in 1 .. Rounds, NEW n \in Nodes
    PROVE  /\ (r - 1) * N + n \in Pids /\ (r - 1) * N + n \notin 1 .. (r - 1) * N
           /\ (r - 1) * N \in Nat
           /\ \A p \in 1 .. r * N : p \in 1 .. (r - 1) * N \/ p - (r - 1) * N \in Nodes
           /\ (r - 1) * N + n \in 1 .. r * N /\ (r - 1) * N + N = r * N
<1>1. N \in Nat /\ N > 0 /\ Rounds \in Nat /\ r \in Nat /\ 1 <= r /\ r <= Rounds
  BY SnapResumeAssumption
<1> DEFINE b == (r - 1) * N
           top == r * N
           last == N * Rounds
<1>2. b \in Nat /\ b + N = top
  BY <1>1
<1>3. top <= last
  <2>1. PICK k \in Nat : r + k = Rounds
    <3>1. Rounds - r \in Nat /\ r + (Rounds - r) = Rounds
      BY <1>1
    <3> QED BY <3>1
  <2>2. N * Rounds = r * N + k * N /\ k * N \in Nat
    BY <1>1, <2>1
  <2> QED BY <1>1, <2>2
<1>4. n \in Nat /\ 1 <= n /\ n <= N
  BY <1>1 DEF Nodes
<1>5. top \in Nat /\ last \in Nat
  BY <1>1
<1>6. Pids = 1 .. last
  BY DEF Pids
<1> HIDE DEF b, top, last
<1>7. b + n \in 1 .. last /\ b + n \notin 1 .. b /\ b + n \in 1 .. top
  BY <1>1, <1>2, <1>3, <1>4, <1>5
<1>8. \A p \in 1 .. top : p \in 1 .. b \/ p - b \in Nodes
  BY <1>1, <1>2, <1>5 DEF Nodes
<1> QED BY <1>2, <1>6, <1>7, <1>8, Zenon DEF b, top

LEMMA MeshNodes == size \in 1 .. N => Mesh \subseteq Nodes
BY SnapResumeAssumption DEF Mesh, Nodes

LEMMA PidFacts ==
    ASSUME round \in 1 .. Rounds
    PROVE  /\ \A n \in Nodes : /\ Pid(n) \in Pids /\ Pid(n) \notin Past /\ Pid(n) # 0
                               /\ Pid(n) \in AllPids
           /\ \A n, m \in Nodes : Pid(n) = Pid(m) => n = m
<1>1. ASSUME NEW n \in Nodes PROVE Pid(n) \in Pids /\ Pid(n) \notin Past
  BY PidOf DEF Pid, Past
<1>2. \A n, m \in Nodes : Pid(n) = Pid(m) => n = m
  <2> DEFINE b == (round - 1) * N
  <2>1. b \in Int
    BY SnapResumeAssumption
  <2>2. \A n \in Nodes : n \in Int
    BY SnapResumeAssumption DEF Nodes
  <2> HIDE DEF b
  <2>3. ASSUME NEW n \in Nodes, NEW m \in Nodes, b + n = b + m PROVE n = m
    <3>1. n \in Int /\ m \in Int
      BY <2>2
    <3> QED BY <2>1, <2>3, <3>1
  <2> QED BY <2>3, Zenon DEF Pid, b
<1> QED BY Zenon, <1>1, <1>2, PidsBelow

------------------------------------------------------------------------------
(* Types.                                                                  *)

LEMMA AtSlot == ASSUME TypeInv, NEW a \in Actors, at[a] <= slots PROVE at[a] \in Slots
<1>1. at[a] \in Nat \ {0} /\ slots \in Nat
  BY DEF TypeInv, Position
<1> QED BY <1>1 DEF Slots

\* The numbers among the variables.
LEMMA Numbers ==
    ASSUME TypeInv
    PROVE  /\ round \in 1 .. Rounds /\ size \in Nat /\ slots \in Nat /\ child \in Mesh
           /\ \A n \in Mesh : n \in Int /\ 1 <= n /\ n <= size
           /\ \A i \in Slots : i \in Int /\ 1 <= i /\ i <= slots
           /\ \A a \in Actors : at[a] \in Int /\ 1 <= at[a]
<1>1. round \in 1 .. Rounds /\ size \in 1 .. N /\ slots \in Nat /\ child \in Mesh
      /\ at \in [Actors -> Position]
  BY Zenon DEF TypeInv
<1>2. size \in Nat
  BY <1>1, SnapResumeAssumption
<1>3. \A n \in Mesh : n \in Int /\ 1 <= n /\ n <= size
  BY <1>2 DEF Mesh
<1>4. \A i \in Slots : i \in Int /\ 1 <= i /\ i <= slots
  BY <1>1 DEF Slots
<1>5. \A a \in Actors : at[a] \in Int /\ 1 <= at[a]
  BY <1>1 DEF Position
<1> QED BY Zenon, <1>1, <1>2, <1>3, <1>4, <1>5

\* The pids of a round are among those of the past in the next one.
LEMMA RoundPasses ==
    ASSUME TypeInv, round' = round + 1
    PROVE  (\A n \in Nodes : Pid(n) \in Past') /\ Past \subseteq Past'
<1> DEFINE b == (round - 1) * N
           top == round * N
<1>1. N \in Nat /\ N \in Nodes
  BY SnapResumeAssumption DEF Nodes
<1>2. b \in Nat /\ b + N = top
  BY <1>1, Numbers, PidOf
<1>3. Past' = 1 .. top
  <2>1. round' - 1 = round
    BY Numbers
  <2> QED BY Zenon, <2>1 DEF Past
<1>4. \A n \in Nodes : n \in Int /\ 1 <= n /\ n <= N
  BY <1>1 DEF Nodes
<1>5. Past = 1 .. b /\ \A n \in Nodes : Pid(n) = b + n
  BY Zenon DEF Past, Pid
<1> HIDE DEF b, top
<1> QED BY <1>1, <1>2, <1>3, <1>4, <1>5

LEMMA TypeStep == TypeInv /\ [ResumeNext]_vars => TypeInv'
<1> SUFFICES ASSUME TypeInv, [ResumeNext]_vars PROVE TypeInv'
  OBVIOUS
<1>1. Mesh \subseteq Nodes /\ child \in Nodes
  BY MeshNodes DEF TypeInv, Mesh
<1>2. \A n \in Nodes : Pid(n) \in Pids
  BY PidFacts DEF TypeInv
<1>3. ASSUME NEW a \in Actors, Die(a) PROVE TypeInv'
  <2>1. Entered \subseteq Pids
    BY DEF Entered, TypeInv, Slots
  <2> QED BY <1>3, <2>1, PositionFacts DEF Die, StartSweep, clockVars, TypeInv, ThreadPcs, Leaving, Slots, Mesh
<1>4. ASSUME NEW a \in Actors, Swap(a) PROVE TypeInv'
  <2>1. at' \in [Actors -> Position]
    BY <1>4, PositionFacts DEF Swap, TypeInv
  <2>2. at[a] \in Slots
    BY <1>4, AtSlot DEF Swap
  <2>3. hand' \in [Actors -> Pids \cup {0}] /\ table' \in [Slots -> Pids \cup {0}]
        /\ pc' \in [Actors -> ThreadPcs \cup MainPcs]
    BY <1>4, <2>2 DEF Swap, TypeInv, ThreadPcs, Leaving
  <2> QED BY <1>4, <2>1, <2>3 DEF Swap, clockVars, TypeInv, Slots, Mesh
<1>5. ASSUME NEW a \in Actors, KillHand(a) PROVE TypeInv'
  <2>1. hand' = [hand EXCEPT ![a] = 0] /\ pc' = [pc EXCEPT ![a] = "sweep"]
        /\ at' = [at EXCEPT ![a] = at[a] + 1]
    BY <1>5 DEF KillHand
  <2>2. proc' \in [AllPids -> States] /\ stray' \in BOOLEAN
    BY Zenon, <1>5 DEF KillHand, TypeInv, States
  <2>3. hand' \in [Actors -> Pids \cup {0}] /\ pc' \in [Actors -> ThreadPcs \cup MainPcs]
        /\ at' \in [Actors -> Position]
    BY PositionFacts, <2>1 DEF TypeInv, ThreadPcs, Leaving
  <2> QED BY <1>5, <2>2, <2>3 DEF KillHand, clockVars, TypeInv, Slots, Mesh
<1>6. ASSUME NEW a \in Actors, Leave(a) PROVE TypeInv'
  BY <1>6 DEF Leave, clockVars, TypeInv, Slots, Mesh
<1>7. ASSUME NEW n \in Nodes, Spawn(n) PROVE TypeInv'
  <2>1. sock' \in [Nodes -> Bound] /\ proc' \in [AllPids -> States]
        /\ pc' \in [Actors -> ThreadPcs \cup MainPcs]
    BY Zenon, <1>7 DEF Spawn, Unlinked, TypeInv, Bound, States, ThreadPcs
  <2>2. at' \in [Actors -> Position]
    BY Zenon, PositionFacts, <1>7 DEF Spawn, TypeInv
  <2> QED BY <1>7, <2>1, <2>2 DEF Spawn, clockVars, TypeInv, Slots, Mesh
<1>8. ASSUME NEW n \in Nodes, OwnVmm(n) PROVE TypeInv'
  <2>1. at' \in [Actors -> Position]
    BY PositionFacts, <1>8 DEF OwnVmm, TypeInv
  <2>2. table' \in [Slots -> Pids \cup {0}] /\ pc' \in [Actors -> ThreadPcs \cup MainPcs]
        /\ known' \subseteq Pids
    BY <1>2, <1>8 DEF OwnVmm, TypeInv, ThreadPcs
  <2> QED BY <1>8, <2>1, <2>2 DEF OwnVmm, clockVars, TypeInv, Slots, Mesh
<1>9. ASSUME NEW n \in Nodes, SeeSock(n) PROVE TypeInv'
  BY Zenon, <1>9 DEF SeeSock, clockVars, TypeInv, ThreadPcs, Slots, Mesh
<1>10. ASSUME NEW n \in Nodes, Load(n) PROVE TypeInv'
  <2>1. pc' \in [Actors -> ThreadPcs \cup MainPcs]
    BY Zenon, <1>10 DEF Load, TypeInv, ThreadPcs
  <2>2. loaded' \in [Nodes -> Bound]
    BY Zenon, <1>10 DEF Load, TypeInv
  <2>3. behind' \in [Nodes -> Int]
    <3>1. PICK age \in Ages : behind' = [behind EXCEPT ![n] = age]
      BY Zenon, <1>10 DEF Load
    <3>2. age \in Int /\ behind \in [Nodes -> Int]
      BY Zenon, SnapResumeAssumption DEF TypeInv
    <3> QED BY Zenon, <3>1, <3>2
  <2> QED BY Zenon, <1>10, <2>1, <2>2, <2>3 DEF Load, clockVars, TypeInv, Slots, Mesh
<1>11. ASSUME NEW n \in Nodes, BindSock(n) PROVE TypeInv'
  BY Zenon, <1>2, <1>11, PidsBelow DEF BindSock, clockVars, TypeInv, Slots, Mesh, Bound
<1>12. ASSUME NEW n \in Nodes, SendPoke(n) \/ BindFails(n) PROVE TypeInv'
  <2>1. UNCHANGED <<verb, size, slots, stuck, procVars, behind, stepped>>
    BY Zenon, <1>12 DEF SendPoke, BindFails
  <2>2. sent' \in [Nodes -> 0 .. Pokes]
    BY <1>12, SnapResumeAssumption DEF SendPoke, BindFails, TypeInv
  <2>3. mute' \subseteq Nodes
    BY Zenon, <1>12 DEF SendPoke, BindFails, TypeInv
  <2> QED BY <2>1, <2>2, <2>3 DEF procVars, TypeInv, Slots, Mesh
<1>13. ASSUME NEW n \in Nodes, NEW d \in 0 .. MaxDelay, ClockStep(n, d) PROVE TypeInv'
  BY <1>13, SnapResumeAssumption DEF ClockStep, procVars, TypeInv, Slots, Mesh
<1>14. ASSUME NEW p \in Pids, VmmDies(p) PROVE TypeInv'
  BY Zenon, <1>14 DEF VmmDies, clockVars, TypeInv, States, Slots, Mesh
<1>15. ASSUME JoinThreads \/ ProbeAnswers \/ WriteCommits PROVE TypeInv'
  BY Zenon, <1>15 DEF JoinThreads, ProbeAnswers, WriteCommits, clockVars, TypeInv, MainPcs, Slots, Mesh
<1>16. ASSUME JoinPokes PROVE TypeInv'
  <2>1. 1 \in Mesh
    BY SnapResumeAssumption DEF TypeInv, Mesh
  <2>2. at' \in [Actors -> Position]
    BY Zenon, PositionFacts, <1>16 DEF JoinPokes, TypeInv
  <2>3. pc' \in [Actors -> ThreadPcs \cup MainPcs]
    BY Zenon, <1>16 DEF JoinPokes, TypeInv, MainPcs
  <2> QED BY <1>16, <2>1, <2>2, <2>3 DEF JoinPokes, clockVars, TypeInv, Slots, Mesh
<1>17. ASSUME KillWait PROVE TypeInv'
  <2>1. at' \in [Actors -> Position]
    BY Zenon, PositionFacts, <1>17 DEF KillWait, TypeInv
  <2>2. pc' \in [Actors -> ThreadPcs \cup MainPcs] /\ stray' \in BOOLEAN
    BY Zenon, <1>17 DEF KillWait, TypeInv, MainPcs
  <2>3. proc' \in [AllPids -> States]
    BY Zenon, <1>17 DEF KillWait, TypeInv, States
  <2> QED BY <1>17, <2>1, <2>2, <2>3 DEF KillWait, clockVars, TypeInv, Slots, Mesh
<1>18. ASSUME DisownVmm PROVE TypeInv'
  <2>1. at' \in [Actors -> Position]
    BY PositionFacts, <1>18, ActorFacts DEF DisownVmm, TypeInv
  <2>2. table' \in [Slots -> Pids \cup {0}] /\ released' \subseteq Pids
    BY Zenon, <1>1, <1>2, <1>18 DEF DisownVmm, TypeInv
  <2> QED BY <1>18, <2>1, <2>2 DEF DisownVmm, clockVars, TypeInv, Slots, Mesh
<1>19. ASSUME NextChild PROVE TypeInv'
  <2>1. at' \in [Actors -> Position]
    BY Zenon, PositionFacts, <1>19 DEF NextChild, TypeInv
  <2>2. child' \in Mesh
    BY <1>19, SnapResumeAssumption DEF NextChild, TypeInv, Mesh
  <2>3. pc' \in [Actors -> ThreadPcs \cup MainPcs] /\ sock' \in [Nodes -> Bound]
    BY Zenon, <1>19 DEF NextChild, Unlinked, TypeInv, MainPcs, Bound
  <2> QED BY <1>19, <2>1, <2>2, <2>3 DEF NextChild, clockVars, TypeInv, Slots, Mesh
<1>20. ASSUME NextRound PROVE TypeInv'
  <2>1. round' \in 1 .. Rounds
    BY <1>20, SnapResumeAssumption DEF NextRound, TypeInv
  <2>2. sent' \in [Nodes -> 0 .. Pokes] /\ mute' = {}
    BY <1>20, SnapResumeAssumption DEF NextRound
  <2>3. pc' \in [Actors -> ThreadPcs \cup MainPcs] /\ sock' \in [Nodes -> Bound]
    BY Zenon, <1>20 DEF NextRound, Unlinked, TypeInv, MainPcs, ThreadPcs, Bound
  <2> QED BY <1>20, <2>1, <2>2, <2>3 DEF NextRound, TypeInv, Slots, Mesh
<1>21. ASSUME Return PROVE TypeInv'
  BY <1>21 DEF Return, clockVars, TypeInv, Slots, Mesh
<1>22. ASSUME UNCHANGED vars PROVE TypeInv'
  BY <1>22 DEF vars, procVars, clockVars, TypeInv, Slots, Mesh
<1> QED
  BY <1>1, <1>3, <1>4, <1>5, <1>6, <1>7, <1>8, <1>9, <1>10, <1>11, <1>12, <1>13, <1>14, <1>15,
     <1>16, <1>17, <1>18, <1>19, <1>20, <1>21, <1>22, ActorFacts
  DEF ResumeNext, ThreadStep, SweepStep, ThreadDies, MainStep, MainDies, HandlerStep, Signal

------------------------------------------------------------------------------
(* Phases.                                                                 *)

\* One actor moves.
LEMMA PhaseMove ==
    ASSUME TypeInv, PhaseInv, NEW x \in Actors, NEW v, NEW w,
           pc' = [pc EXCEPT ![x] = v], hand' = [hand EXCEPT ![x] = w],
           UNCHANGED <<size, verb, round>>,
           w # 0 <=> v = "kill",
           \/ v \in Leaving /\ sweepers' = sweepers \cup {x}
           \/ v \notin Leaving /\ pc[x] \notin Leaving /\ sweepers' = sweepers,
           x = Main => /\ v \in MainPcs /\ (v # "join" => \A n \in Mesh : pc[n] = "done")
                       /\ verb = "resume" => v # "killwait",
           x = Handler => v \in Leaving,
           x \in Nodes => /\ x \in Mesh /\ v \in ThreadPcs \ {"off"}
                          /\ v = "done" \/ pc[Main] = "join"
    PROVE  PhaseInv'
<1>1. pc'[x] = v /\ hand'[x] = w
  BY DEF TypeInv
<1>2. \A a \in Actors : a # x => pc'[a] = pc[a] /\ hand'[a] = hand[a]
  BY DEF TypeInv
<1>3. Mesh' = Mesh /\ Mesh \subseteq Nodes
  BY MeshNodes DEF Mesh, TypeInv
<1>4. pc'[Main] \in MainPcs /\ pc'[Handler] \in Leaving \cup {"off"}
  BY <1>1, <1>2, ActorFacts DEF PhaseInv
<1>5. \A n \in Nodes : pc'[n] \in ThreadPcs /\ (n \notin Mesh <=> pc'[n] = "off")
  BY <1>1, <1>2, ActorFacts DEF PhaseInv
<1>6. pc'[Main] # "join" => \A n \in Mesh : pc'[n] = "done"
  BY <1>1, <1>2, <1>3, ActorFacts DEF PhaseInv
<1>7. sweepers' = {a \in Actors : pc'[a] \in Leaving}
  BY <1>1, <1>2 DEF PhaseInv
<1>8. \A a \in Actors : hand'[a] # 0 <=> pc'[a] = "kill"
  BY <1>1, <1>2 DEF PhaseInv
<1>9. verb' = "resume" => round' = 1 /\ pc'[Main] # "killwait"
  BY <1>1, <1>2, ActorFacts DEF PhaseInv
<1> QED BY <1>3, <1>4, <1>5, <1>6, <1>7, <1>8, <1>9, Zenon DEF PhaseInv

\* An actor that begins to leave has nothing in its hand.
LEMMA PhaseDie ==
    ASSUME TypeInv, PhaseInv, NEW a \in Actors, Die(a), pc[a] \notin Leaving,
           a = Main => pc[Main] # "join", a \in Nodes => a \in Mesh /\ pc[a] # "done"
    PROVE  PhaseInv'
<1>1. hand[a] = 0 /\ "sweep" \in Leaving /\ "sweep" \in MainPcs /\ "sweep" \in ThreadPcs \ {"off"}
  BY DEF PhaseInv, Leaving, MainPcs, ThreadPcs
<1>2. hand' = [hand EXCEPT ![a] = 0] /\ pc' = [pc EXCEPT ![a] = "sweep"]
      /\ sweepers' = sweepers \cup {a} /\ UNCHANGED <<size, verb, round>>
  BY <1>1 DEF Die, StartSweep, TypeInv
<1>3. a = Main => \A n \in Mesh : pc[n] = "done"
  BY DEF PhaseInv
<1>4. a \in Nodes => pc[Main] = "join"
  BY DEF PhaseInv
<1> QED BY Zenon, <1>1, <1>2, <1>3, <1>4, PhaseMove

LEMMA PhaseStep == TypeInv /\ PhaseInv /\ [ResumeNext]_vars => PhaseInv'
<1> SUFFICES ASSUME TypeInv, PhaseInv, [ResumeNext]_vars PROVE PhaseInv'
  OBVIOUS
<1>1. Mesh \subseteq Nodes
  BY MeshNodes DEF TypeInv
<1>2. ASSUME UNCHANGED <<pc, hand, sweepers, verb, round, size>> PROVE PhaseInv'
  BY <1>2 DEF PhaseInv, Mesh
<1>3. ASSUME NEW n \in Mesh, ThreadDies(n) PROVE PhaseInv'
  <2>1. Die(n) /\ pc[n] \in {"spawn", "sock", "load", "own"}
    BY <1>3 DEF ThreadDies
  <2>2. n \in Actors /\ n # Main
    BY <1>1, ActorFacts
  <2> QED BY <2>1, <2>2, PhaseDie DEF Leaving
<1>4. ASSUME MainDies PROVE PhaseInv'
  <2>1. Die(Main) /\ pc[Main] \in {"probe", "quorum"}
    BY <1>4 DEF MainDies, MainAt
  <2> QED BY <2>1, ActorFacts, PhaseDie DEF Leaving
<1>5. ASSUME Signal PROVE PhaseInv'
  <2>1. Die(Handler) /\ pc[Handler] = "off"
    BY <1>5 DEF Signal
  <2> QED BY <2>1, ActorFacts, PhaseDie DEF Leaving
<1>6. ASSUME NEW a \in Actors, a \in Mesh \/ a = Main \/ a = Handler, Swap(a) \/ KillHand(a)
      PROVE  PhaseInv'
  <2>1. /\ pc[a] \in Leaving /\ UNCHANGED <<size, verb, round, sweepers>>
    BY <1>6 DEF Swap, KillHand, Leaving
  <2>2. PICK v \in Leaving, w \in Pids \cup {0} :
          /\ pc' = [pc EXCEPT ![a] = v] /\ hand' = [hand EXCEPT ![a] = w]
          /\ w # 0 <=> v = "kill"
    <3>1. CASE Swap(a)
      <4>1. at[a] \in Slots
        BY <3>1, AtSlot DEF Swap
      <4>2. table[at[a]] \in Pids \cup {0}
        BY <4>1 DEF TypeInv
      <4> QED BY Zenon, <3>1, <4>2 DEF Swap, Leaving
    <3>2. CASE KillHand(a)
      BY Zenon, <3>2 DEF KillHand, Leaving
    <3> QED BY <1>6, <3>1, <3>2
  <2>3. sweepers' = sweepers \cup {a}
    BY <2>1 DEF PhaseInv
  <2>4. v \in MainPcs /\ v \in ThreadPcs \ {"off"}
    BY DEF MainPcs, ThreadPcs, Leaving
  <2>5. v # "killwait" /\ pc[a] # "join" /\ pc[a] # "done"
    BY <2>1 DEF Leaving
  <2>6. a = Main => \A n \in Mesh : pc[n] = "done"
    BY <2>5 DEF PhaseInv
  <2>7. a \in Nodes => a \in Mesh /\ pc[Main] = "join"
    BY <1>6, <2>5, ActorFacts DEF PhaseInv
  <2> QED BY Zenon, <2>1, <2>2, <2>3, <2>4, <2>5, <2>6, <2>7, PhaseMove
<1>7. ASSUME NEW n \in Mesh, Spawn(n) \/ OwnVmm(n) \/ SeeSock(n) \/ Load(n) PROVE PhaseInv'
  <2>1. /\ n \in Actors /\ n \in Nodes /\ n # Main /\ n # Handler
    BY Zenon, <1>1, ActorFacts
  <2>2. /\ pc[n] \in {"spawn", "own", "sock", "load"}
        /\ UNCHANGED <<size, verb, round, sweepers, hand>>
    BY Zenon, <1>7 DEF Spawn, OwnVmm, SeeSock, Load
  <2>3. PICK v \in {"own", "sock", "load", "done"} : pc' = [pc EXCEPT ![n] = v]
    <3>1. pc = [pc EXCEPT ![n] = pc[n]]
      BY DEF TypeInv
    <3> QED BY <1>7, <3>1 DEF Spawn, OwnVmm, SeeSock, Load
  <2>4. hand[n] = 0 /\ hand' = [hand EXCEPT ![n] = 0] /\ pc[n] \notin Leaving /\ v \notin Leaving
    BY <2>1, <2>2 DEF PhaseInv, TypeInv, Leaving
  <2>5. pc[Main] = "join" /\ v \in ThreadPcs \ {"off"} /\ v # "kill"
    BY Zenon, <2>2 DEF PhaseInv, ThreadPcs
  <2> QED BY Zenon, <2>1, <2>2, <2>3, <2>4, <2>5, PhaseMove
<1>8. ASSUME JoinThreads \/ ProbeAnswers \/ WriteCommits \/ JoinPokes \/ KillWait \/ NextChild
      PROVE  PhaseInv'
  <2>1. UNCHANGED <<size, verb, round, sweepers, hand>>
    BY Zenon, <1>8 DEF JoinThreads, ProbeAnswers, WriteCommits, JoinPokes, KillWait, NextChild
  <2>2. pc[Main] \in {"join", "probe", "quorum", "pokes", "killwait", "disown"}
    BY Zenon, <1>8 DEF JoinThreads, ProbeAnswers, WriteCommits, JoinPokes, KillWait, NextChild, MainAt
  <2>3. PICK v \in {"probe", "quorum", "pokes", "killwait", "disown"} :
          pc' = [pc EXCEPT ![Main] = v] /\ (verb = "resume" => v # "killwait")
    BY Zenon, <1>8 DEF JoinThreads, ProbeAnswers, WriteCommits, JoinPokes, KillWait, NextChild
  <2>4. \A n \in Mesh : pc[n] = "done"
    <3>1. CASE JoinThreads
      BY Zenon, <3>1 DEF JoinThreads
    <3>2. CASE pc[Main] # "join"
      BY Zenon, <3>2 DEF PhaseInv
    <3> QED BY Zenon, <1>8, <3>1, <3>2 DEF ProbeAnswers, WriteCommits, JoinPokes, KillWait, NextChild,
                                    MainAt
  <2>5. hand[Main] = 0 /\ hand' = [hand EXCEPT ![Main] = 0]
    BY <2>1, <2>2, ActorFacts DEF PhaseInv, TypeInv
  <2>6. v \in MainPcs /\ v # "kill" /\ v \notin Leaving /\ pc[Main] \notin Leaving
    BY Zenon, <2>2 DEF MainPcs, Leaving
  <2> QED BY Zenon, <2>1, <2>3, <2>4, <2>5, <2>6, ActorFacts, PhaseMove
<1>9. ASSUME NextRound PROVE PhaseInv'
  <2>1. /\ pc[Main] = "disown" /\ pc[Handler] = "off" /\ verb = "cycle"
        /\ UNCHANGED <<size, verb, sweepers, hand>>
        /\ pc' = [a \in Actors |-> IF a = Main THEN "join" ELSE IF a \in Mesh THEN "spawn"
                                   ELSE pc[a]]
    BY Zenon, <1>9 DEF NextRound, MainAt
  <2>2. Mesh' = Mesh
    BY Zenon, <2>1 DEF Mesh
  <2>3. \A n \in Mesh : pc[n] = "done"
    BY Zenon, <2>1 DEF PhaseInv
  <2>4. pc'[Main] = "join" /\ pc'[Handler] = "off"
    BY <1>1, <2>1, ActorFacts
  <2>5. \A n \in Nodes : pc'[n] = IF n \in Mesh THEN "spawn" ELSE "off"
    BY Zenon, <1>1, <2>1, ActorFacts DEF PhaseInv
  <2>6. \A a \in Actors : pc[a] \notin Leaving /\ pc'[a] \notin Leaving
    BY Zenon, <1>1, <2>1, <2>3, <2>4, <2>5, ActorFacts DEF PhaseInv, Leaving
  <2>7. sweepers' = {a \in Actors : pc'[a] \in Leaving}
    BY Zenon, <2>1, <2>6 DEF PhaseInv
  <2>8. \A a \in Actors : hand'[a] # 0 <=> pc'[a] = "kill"
    BY Zenon, <2>1, <2>6 DEF PhaseInv, Leaving
  <2>9. "join" \in MainPcs /\ "spawn" \in ThreadPcs /\ "off" \in ThreadPcs
    BY DEF MainPcs, ThreadPcs
  <2>10. \A n \in Nodes : pc'[n] \in ThreadPcs /\ (n \notin Mesh <=> pc'[n] = "off")
    BY Zenon, <2>5, <2>9
  <2>11. Mesh' = Mesh
    BY Zenon, <2>1 DEF Mesh
  <2> QED BY Zenon, <2>1, <2>2, <2>4, <2>7, <2>8, <2>9, <2>10, <2>11 DEF PhaseInv
<1>10. ASSUME DisownVmm \/ Return \/ (\E a \in Actors : Leave(a)) PROVE PhaseInv'
  <2>1. UNCHANGED <<pc, hand, sweepers, verb, round, size>>
    BY Zenon, <1>10 DEF DisownVmm, Return, Leave
  <2> QED BY Zenon, <1>2, <2>1
<1>11. ASSUME \/ \E n \in Mesh : BindSock(n) \/ SendPoke(n) \/ BindFails(n) \/ \E d \in 0 .. MaxDelay : ClockStep(n, d)
              \/ (\E p \in Pids : VmmDies(p)) \/ UNCHANGED vars
       PROVE  PhaseInv'
  <2>1. UNCHANGED <<pc, hand, sweepers, verb, round, size>>
    BY Zenon, <1>11 DEF BindSock, SendPoke, BindFails, ClockStep, VmmDies, vars, procVars
  <2> QED BY Zenon, <1>2, <2>1
<1> QED
  BY <1>1, <1>3, <1>4, <1>5, <1>6, <1>7, <1>8, <1>9, <1>10, <1>11, ActorFacts
  DEF ResumeNext, ThreadStep, SweepStep, MainStep, HandlerStep

------------------------------------------------------------------------------
(* Clocks.                                                                 *)

LEMMA ClockFrame ==
    ASSUME ClockInv, UNCHANGED <<clockVars, size>>,
           pc'[Main] = "join" => pc[Main] = "join",
           pc'[Main] \in {"killwait", "disown"} =>
             pc[Main] \in {"killwait", "disown"} \/ \A n \in Mesh \ mute : sent[n] = Pokes
    PROVE  ClockInv'
<1>1. sent' = sent /\ mute' = mute /\ behind' = behind /\ stepped' = stepped /\ size' = size
  BY Zenon DEF clockVars
<1>2. Mesh' = Mesh
  BY Zenon, <1>1 DEF Mesh
<1>3. ClockClose'
  BY Zenon, <1>1 DEF ClockInv, ClockClose
<1> QED BY Zenon, <1>1, <1>2, <1>3 DEF ClockInv

\* A step of the clock leaves it within the threshold of a datagram's age.
LEMMA StepClose ==
    ASSUME NEW b \in Int, NEW d \in 0 .. MaxDelay, NEW c,
           c = IF Abs(b - d) >= MinStep THEN d ELSE b
    PROVE  -MinStep < c /\ c < MinStep + MaxDelay
BY SnapResumeAssumption DEF Abs

\* The actions that leave the main thread where it is, or move it on.
LEMMA MainMoves ==
    ASSUME TypeInv, PhaseInv,
           \/ \E n \in Mesh : Spawn(n) \/ OwnVmm(n) \/ SeeSock(n) \/ ThreadDies(n) \/ BindSock(n)
           \/ \E a \in Actors : SweepStep(a)
           \/ Signal \/ JoinThreads \/ ProbeAnswers \/ WriteCommits \/ MainDies \/ JoinPokes
           \/ KillWait \/ DisownVmm \/ NextChild \/ Return \/ (\E p \in Pids : VmmDies(p))
    PROVE  /\ UNCHANGED <<clockVars, size>>
           /\ pc'[Main] = "join" => pc[Main] = "join"
           /\ pc'[Main] \in {"killwait", "disown"} =>
                pc[Main] \in {"killwait", "disown"} \/ \A n \in Mesh \ mute : sent[n] = Pokes
<1>1. Mesh \subseteq Nodes
  BY MeshNodes DEF TypeInv
<1>2. ASSUME NEW n \in Mesh, Spawn(n) \/ OwnVmm(n) \/ SeeSock(n) \/ ThreadDies(n) \/ BindSock(n)
      PROVE  UNCHANGED <<clockVars, size>> /\ pc'[Main] = pc[Main]
  <2>1. n \in Actors /\ n # Main
    BY <1>1, ActorFacts
  <2> QED BY Zenon, <1>2, <2>1, ActorFacts
          DEF Spawn, OwnVmm, SeeSock, ThreadDies, Die, StartSweep, BindSock, TypeInv
<1>3. ASSUME NEW a \in Actors, SweepStep(a) \/ (a \in {Main, Handler} /\ Die(a))
      PROVE  /\ UNCHANGED <<clockVars, size>>
             /\ pc'[Main] = pc[Main] \/ pc'[Main] \in Leaving
  BY Zenon, <1>3, ActorFacts DEF SweepStep, Swap, KillHand, Leave, Die, StartSweep, TypeInv, Leaving
<1>4. Signal \/ MainDies => \E a \in Actors : a \in {Main, Handler} /\ Die(a)
  BY ActorFacts DEF Signal, MainDies
<1>5. ASSUME JoinThreads \/ ProbeAnswers \/ WriteCommits PROVE
        UNCHANGED <<clockVars, size>> /\ pc'[Main] \in {"probe", "quorum", "pokes"}
  BY Zenon, <1>5, ActorFacts DEF JoinThreads, ProbeAnswers, WriteCommits, TypeInv
<1>6. ASSUME JoinPokes PROVE /\ UNCHANGED <<clockVars, size>> /\ \A n \in Mesh \ mute : sent[n] = Pokes
                             /\ pc'[Main] # "join"
  BY <1>6, ActorFacts DEF JoinPokes, TypeInv
<1>7. ASSUME KillWait \/ DisownVmm \/ NextChild \/ Return
      PROVE  /\ UNCHANGED <<clockVars, size>> /\ pc'[Main] # "join"
             /\ pc[Main] \in {"killwait", "disown"}
  BY Zenon, <1>7, ActorFacts DEF KillWait, DisownVmm, NextChild, Return, MainAt, TypeInv
<1>8. ASSUME NEW p \in Pids, VmmDies(p) PROVE UNCHANGED <<clockVars, size, pc>>
  BY <1>8 DEF VmmDies
<1> QED BY <1>2, <1>3, <1>4, <1>5, <1>6, <1>7, <1>8 DEF Leaving

LEMMA ClockInvStep == TypeInv /\ PhaseInv /\ ClockInv /\ [ResumeNext]_vars => ClockInv'
<1> SUFFICES ASSUME TypeInv, PhaseInv, ClockInv, [ResumeNext]_vars PROVE ClockInv'
  OBVIOUS
<1>1. Mesh \subseteq Nodes
  BY Zenon, MeshNodes DEF TypeInv
<1>2. ASSUME NEW n \in Mesh, Load(n) PROVE ClockInv'
  <2>1. n \in Nodes /\ n \in Actors /\ n # Main
    BY Zenon, <1>1, ActorFacts
  <2>2. /\ UNCHANGED <<sent, mute, stepped, size>> /\ pc'[Main] = pc[Main]
        /\ \A m \in Nodes : m # n => behind'[m] = behind[m]
    BY <1>2, <2>1, ActorFacts DEF Load, TypeInv
  <2>3. pc[Main] = "join"
    BY Zenon, <1>2 DEF Load, PhaseInv
  <2>4. n \notin stepped
    BY Zenon, <2>1, <2>3 DEF ClockInv
  <2>5. ClockClose'
    BY Zenon, <2>2, <2>4 DEF ClockInv, ClockClose, TypeInv
  <2> QED BY <2>2, <2>3, <2>5 DEF ClockInv
<1>3. ASSUME NEW n \in Mesh, SendPoke(n) PROVE ClockInv'
  <2>1. /\ UNCHANGED <<mute, stepped, behind, size, pc>> /\ pc[Main] # "join"
        /\ n \notin mute /\ sent[n] # Pokes
        /\ sent' = [sent EXCEPT ![n] = sent[n] + 1]
    BY <1>1, <1>3 DEF SendPoke, procVars, TypeInv
  <2>2. \A m \in Nodes : sent[m] > 0 => sent'[m] > 0
    <3>1. \A m \in Nodes : sent[m] \in Nat
      BY SnapResumeAssumption DEF TypeInv
    <3> QED BY <1>1, <2>1, <3>1 DEF TypeInv
  <2>3. ClockClose'
    BY Zenon, <2>1 DEF ClockInv, ClockClose
  <2>4. \A m \in stepped' : sent'[m] > 0
    BY <2>1, <2>2 DEF ClockInv, TypeInv
  <2>5. pc'[Main] \notin {"killwait", "disown"}
    BY Zenon, <2>1 DEF ClockInv
  <2> QED BY <2>1, <2>3, <2>4, <2>5 DEF ClockInv
<1>8. ASSUME NEW n \in Mesh, BindFails(n) PROVE ClockInv'
  <2>1. UNCHANGED <<sent, stepped, behind, size, pc>> /\ mute \subseteq mute'
    BY Zenon, <1>8 DEF BindFails, procVars
  <2>2. Mesh' = Mesh /\ ClockClose'
    BY Zenon, <2>1 DEF Mesh, ClockInv, ClockClose
  <2> QED BY Zenon, <2>1, <2>2 DEF ClockInv
<1>4. ASSUME NEW n \in Mesh, NEW d \in 0 .. MaxDelay, ClockStep(n, d) PROVE ClockInv'
  <2>1. /\ UNCHANGED <<sent, mute, size, pc>> /\ sent[n] > 0 /\ stepped' = stepped \cup {n}
        /\ behind' = [behind EXCEPT ![n] = IF Abs(behind[n] - d) >= MinStep THEN d ELSE behind[n]]
    BY Zenon, <1>4 DEF ClockStep, procVars
  <2>2. /\ behind'[n] = IF Abs(behind[n] - d) >= MinStep THEN d ELSE behind[n]
        /\ behind[n] \in Int
    BY Zenon, <1>1, <2>1 DEF TypeInv
  <2>3. -MinStep < behind'[n] /\ behind'[n] < MinStep + MaxDelay
    BY Zenon, <2>2, StepClose
  <2>4. \A m \in stepped : m # n => behind'[m] = behind[m]
    BY Zenon, <1>1, <2>1 DEF TypeInv
  <2>5. ClockClose'
    BY <2>1, <2>3, <2>4 DEF ClockInv, ClockClose
  <2>6. Mesh' = Mesh
    BY <2>1 DEF Mesh
  <2> QED BY <2>1, <2>5, <2>6 DEF ClockInv
<1>5. ASSUME NextRound PROVE ClockInv'
  <2>1. sent' = [m \in Nodes |-> 0] /\ stepped' = {} /\ pc'[Main] = "join"
    BY Zenon, <1>5, ActorFacts DEF NextRound
  <2>2. \A n \in Nodes : ~(sent'[n] > 0)
    BY <2>1
  <2> QED BY Zenon, <2>1, <2>2 DEF ClockInv, ClockClose
<1>6. ASSUME UNCHANGED vars PROVE ClockInv'
  BY Zenon, <1>6, ClockFrame DEF vars, procVars
<1>7. CASE \/ \E n \in Mesh : Spawn(n) \/ OwnVmm(n) \/ SeeSock(n) \/ ThreadDies(n) \/ BindSock(n)
           \/ \E a \in Actors : SweepStep(a)
           \/ Signal \/ JoinThreads \/ ProbeAnswers \/ WriteCommits \/ MainDies \/ JoinPokes
           \/ KillWait \/ DisownVmm \/ NextChild \/ Return \/ (\E p \in Pids : VmmDies(p))
  BY Zenon, <1>7, MainMoves, ClockFrame
<1> QED BY <1>1, <1>2, <1>3, <1>4, <1>5, <1>6, <1>7, <1>8, ActorFacts
        DEF ResumeNext, ThreadStep, MainStep, HandlerStep

------------------------------------------------------------------------------
(* What the actions on the table do.                                       *)

\* What the ownership of VMMs is about, and only one actor's place changes.
Fixed == UNCHANGED <<verb, size, slots, stuck, round>>
Only(a) == \A b \in Actors : b # a => pc'[b] = pc[b] /\ at'[b] = at[b] /\ hand'[b] = hand[b]

LEMMA DieEffect ==
    ASSUME TypeInv, PhaseInv, NEW a \in Actors, Die(a)
    PROVE  /\ Fixed /\ Only(a) /\ pc'[a] = "sweep" /\ at'[a] = 1
           /\ UNCHANGED <<hand, table, proc, sock, loaded, child, released, known, stray, exit, sent>>
           /\ settled' = IF sweepers = {} THEN Entered ELSE settled
           /\ sweepers' = sweepers \cup {a}
BY DEF Die, StartSweep, TypeInv, Fixed, Only, clockVars

LEMMA SwapEffect ==
    ASSUME TypeInv, PhaseInv, NEW a \in Actors, Swap(a)
    PROVE  /\ Fixed /\ Only(a) /\ pc[a] = "sweep" /\ pc'[a] \in Leaving /\ at[a] \in Slots
           /\ hand[a] = 0 /\ hand'[a] = table[at[a]] /\ table'[at[a]] = 0
           /\ at'[a] = IF table[at[a]] # 0 THEN at[a] ELSE at[a] + 1
           /\ \A i \in Slots : i # at[a] => table'[i] = table[i]
           /\ a \in sweepers /\ exit = "no"
           /\ UNCHANGED <<proc, sock, loaded, child, released, known, settled, sweepers, stray, exit, sent>>
<1>1. at[a] \in Slots
  BY Zenon, AtSlot DEF Swap
<1>2. pc[a] = "sweep" /\ hand[a] = 0 /\ a \in sweepers /\ exit = "no"
  BY Zenon DEF Swap, PhaseInv, Leaving, Alive
<1>3. table'[at[a]] = 0 /\ \A i \in Slots : i # at[a] => table'[i] = table[i]
  BY Zenon, <1>1 DEF Swap, TypeInv
<1>4. /\ hand'[a] = table[at[a]] /\ pc'[a] \in Leaving
      /\ at'[a] = IF table[at[a]] # 0 THEN at[a] ELSE at[a] + 1
  BY Zenon DEF Swap, TypeInv, Leaving
<1>5. Only(a) /\ Fixed
  BY DEF Swap, TypeInv, Only, Fixed
<1>6. UNCHANGED <<proc, sock, loaded, child, released, known, settled, sweepers, stray, exit, sent>>
  BY Zenon DEF Swap, clockVars
<1> QED BY Zenon, <1>1, <1>2, <1>3, <1>4, <1>5, <1>6

LEMMA KillHandEffect ==
    ASSUME TypeInv, PhaseInv, NEW a \in Actors, KillHand(a)
    PROVE  /\ Fixed /\ Only(a) /\ pc[a] = "kill" /\ pc'[a] = "sweep"
           /\ hand[a] \in Pids /\ hand[a] # 0 /\ hand'[a] = 0 /\ at'[a] = at[a] + 1
           /\ \A p \in AllPids : p # hand[a] => proc'[p] = proc[p]
           /\ proc'[hand[a]] = IF a = Handler /\ proc[hand[a]] # "reaped" THEN "zombie" ELSE "reaped"
           /\ stray' = (stray \/ proc[hand[a]] = "reaped")
           /\ a \in sweepers /\ exit = "no"
           /\ UNCHANGED <<table, sock, loaded, child, released, known, settled, sweepers, exit, sent>>
<1>1. pc[a] = "kill" /\ hand[a] # 0 /\ a \in sweepers /\ exit = "no"
  BY DEF KillHand, PhaseInv, Leaving, Alive
<1>2. hand[a] \in Pids /\ hand[a] \in AllPids
  BY Zenon, <1>1, PidsBelow DEF TypeInv
<1>3. /\ \A p \in AllPids : p # hand[a] => proc'[p] = proc[p]
      /\ proc'[hand[a]] = IF a = Handler /\ proc[hand[a]] # "reaped" THEN "zombie" ELSE "reaped"
  BY Zenon, <1>2 DEF KillHand, TypeInv
<1>4. pc'[a] = "sweep" /\ hand'[a] = 0 /\ at'[a] = at[a] + 1 /\ Only(a)
  BY Zenon DEF KillHand, TypeInv, Only
<1>5. /\ Fixed /\ stray' = (stray \/ proc[hand[a]] = "reaped")
      /\ UNCHANGED <<table, sock, loaded, child, released, known, settled, sweepers, exit, sent>>
  BY Zenon DEF KillHand, Fixed, clockVars
<1> QED BY Zenon, <1>1, <1>2, <1>3, <1>4, <1>5

\* The node's thread spawns the VMM.
LEMMA SpawnEffect ==
    ASSUME TypeInv, PhaseInv, NEW n \in Mesh, Spawn(n)
    PROVE  /\ n \in Nodes /\ Fixed /\ Only(n) /\ pc[n] = "spawn" /\ pc'[n] = "own" /\ pc[Main] = "join"
           /\ \A m \in Nodes : m # n => sock'[m] = sock[m]
           /\ n \notin stuck => sock'[n] = 0
           /\ proc'[Pid(n)] = "running"
           /\ \A p \in AllPids : p # Pid(n) => proc'[p] = proc[p]
           /\ UNCHANGED <<hand, table, loaded, child, released, known, settled, sweepers, stray, exit,
                          sent>>
<1>1. n \in Nodes /\ Nodes \subseteq Actors
  BY Zenon, MeshNodes, ActorFacts DEF TypeInv
<1>2. Pid(n) \in AllPids
  BY Zenon, <1>1, PidFacts DEF TypeInv
<1>3. pc[n] = "spawn" /\ pc[Main] = "join"
  BY Zenon DEF Spawn, PhaseInv
<1>4. pc'[n] = "own" /\ Only(n)
  BY Zenon, <1>1 DEF Spawn, TypeInv, Only
<1>5. proc'[Pid(n)] = "running" /\ \A p \in AllPids : p # Pid(n) => proc'[p] = proc[p]
  BY Zenon, <1>2 DEF Spawn, TypeInv
<1>6. (n \notin stuck => sock'[n] = 0) /\ \A m \in Nodes : m # n => sock'[m] = sock[m]
  BY Zenon, <1>1 DEF Spawn, Unlinked, TypeInv
<1>7. Fixed /\ UNCHANGED <<hand, table, loaded, child, released, known, settled, sweepers, stray, exit,
                           sent>>
  BY Zenon DEF Spawn, Fixed, clockVars
<1> QED BY Zenon, <1>1, <1>3, <1>4, <1>5, <1>6, <1>7

\* The node's thread claims a free slot, or goes on to the next.
LEMMA OwnEffect ==
    ASSUME TypeInv, PhaseInv, NEW n \in Mesh, OwnVmm(n)
    PROVE  /\ n \in Nodes /\ Fixed /\ Only(n) /\ pc[n] = "own" /\ pc[Main] = "join" /\ at[n] \in Slots
           /\ UNCHANGED <<hand, proc, sock, loaded, child, released, settled, sweepers, stray, exit, sent>>
           /\ \/ /\ table[at[n]] = 0 /\ table'[at[n]] = Pid(n) /\ pc'[n] = "sock"
                 /\ \A i \in Slots : i # at[n] => table'[i] = table[i]
                 /\ known' = known \cup {Pid(n)}
              \/ pc'[n] = "own" /\ UNCHANGED <<table, known>>
<1>1. n \in Nodes /\ Nodes \subseteq Actors
  BY Zenon, MeshNodes, ActorFacts DEF TypeInv
<1>2. pc[n] = "own" /\ pc[Main] = "join"
  BY Zenon DEF OwnVmm, PhaseInv
<1>3. at[n] \in Slots
  BY Zenon, <1>1, AtSlot DEF OwnVmm
<1>4. Only(n)
  BY Zenon, <1>1 DEF OwnVmm, TypeInv, Only
<1>5. Fixed /\ UNCHANGED <<hand, proc, sock, loaded, child, released, settled, sweepers, stray, exit,
                           sent>>
  BY Zenon DEF OwnVmm, Fixed, clockVars
<1>6. \/ /\ table[at[n]] = 0 /\ table'[at[n]] = Pid(n) /\ pc'[n] = "sock"
         /\ \A i \in Slots : i # at[n] => table'[i] = table[i]
         /\ known' = known \cup {Pid(n)}
      \/ pc'[n] = "own" /\ UNCHANGED <<table, known>>
  BY <1>1, <1>2, <1>3 DEF OwnVmm, TypeInv
<1> QED BY Zenon, <1>1, <1>2, <1>3, <1>4, <1>5, <1>6

\* Past the joins, with no signal yet, nobody has begun to leave.
LEMMA Quiet ==
    ASSUME TypeInv, PhaseInv, NEW s, MainAt(s), s \notin Leaving \cup {"join"}
    PROVE  /\ sweepers = {} /\ \A a \in Actors : hand[a] = 0
           /\ \A n \in Mesh : pc[n] = "done"
           /\ pc[Main] = s /\ exit = "no" /\ pc[Handler] = "off"
<1>1. pc[Main] = s /\ exit = "no" /\ pc[Handler] = "off"
  BY Zenon DEF MainAt, Alive
<1>2. \A n \in Mesh : pc[n] = "done"
  BY Zenon, <1>1 DEF PhaseInv
<1>3. \A n \in Nodes : pc[n] \in {"off", "done"}
  BY Zenon, <1>2 DEF PhaseInv
<1>4. \A a \in Actors : pc[a] \notin Leaving
  BY Zenon, <1>1, <1>3, ActorFacts DEF Leaving
<1>5. sweepers = {} /\ \A a \in Actors : hand[a] = 0
  BY <1>4 DEF PhaseInv, Leaving
<1> QED BY <1>1, <1>2, <1>5

LEMMA FixedFacts ==
    ASSUME Fixed
    PROVE  /\ Mesh' = Mesh /\ Slots' = Slots /\ Past' = Past /\ \A n : Pid(n)' = Pid(n)
           /\ verb' = verb /\ size' = size /\ slots' = slots /\ round' = round
BY Zenon DEF Fixed, Mesh, Slots, Past, Pid

\* The main thread alone takes a step that changes no VMM, slot or hand.
LEMMA JoinEffect ==
    ASSUME TypeInv, PhaseInv, JoinThreads \/ ProbeAnswers \/ WriteCommits
    PROVE  /\ Fixed /\ Only(Main) /\ pc[Main] \in {"join", "probe", "quorum"}
           /\ pc'[Main] \in {"probe", "quorum", "pokes"}
           /\ UNCHANGED <<at, hand, table, proc, sock, loaded, child, released, known, settled,
                          sweepers, stray, exit, sent>>
<1>1. pc'[Main] \in {"probe", "quorum", "pokes"} /\ Only(Main)
  BY Zenon, ActorFacts DEF JoinThreads, ProbeAnswers, WriteCommits, TypeInv, Only
<1>2. pc[Main] \in {"join", "probe", "quorum"}
  BY Zenon DEF JoinThreads, ProbeAnswers, WriteCommits, MainAt
<1>3. Fixed /\ UNCHANGED <<at, hand, table, proc, sock, loaded, child, released, known, settled,
                           sweepers, stray, exit, sent>>
  BY Zenon DEF JoinThreads, ProbeAnswers, WriteCommits, Fixed, clockVars
<1> QED BY Zenon, <1>1, <1>2, <1>3

LEMMA JoinPokesEffect ==
    ASSUME TypeInv, PhaseInv, JoinPokes
    PROVE  /\ Fixed /\ Only(Main) /\ MainAt("pokes") /\ child' = 1 /\ at'[Main] = 1
           /\ pc'[Main] = IF verb = "resume" THEN "disown" ELSE "killwait"
           /\ UNCHANGED <<hand, table, proc, sock, loaded, released, known, settled, sweepers, stray,
                          exit, sent>>
<1>1. /\ Only(Main) /\ at'[Main] = 1 /\ pc'[Main] = IF verb = "resume" THEN "disown" ELSE "killwait"
  BY Zenon, ActorFacts DEF JoinPokes, TypeInv, Only
<1>2. /\ Fixed /\ MainAt("pokes") /\ child' = 1
      /\ UNCHANGED <<hand, table, proc, sock, loaded, released, known, settled, sweepers, stray,
                     exit, sent>>
  BY Zenon DEF JoinPokes, Fixed, clockVars
<1> QED BY Zenon, <1>1, <1>2

LEMMA KillWaitEffect ==
    ASSUME TypeInv, PhaseInv, KillWait
    PROVE  /\ Fixed /\ Only(Main) /\ MainAt("killwait") /\ at'[Main] = 1 /\ pc'[Main] = "disown"
           /\ child \in Mesh /\ child \in Nodes
           /\ \A p \in AllPids : p # Pid(child) => proc'[p] = proc[p]
           /\ proc'[Pid(child)] = "reaped" /\ stray' = (stray \/ proc[Pid(child)] = "reaped")
           /\ UNCHANGED <<hand, table, sock, loaded, child, released, known, settled, sweepers, exit,
                          sent>>
<1>1. child \in Mesh /\ child \in Nodes
  BY Zenon, MeshNodes DEF TypeInv
<1>2. Pid(child) \in AllPids
  BY Zenon, <1>1, PidFacts DEF TypeInv
<1>3. Only(Main) /\ at'[Main] = 1 /\ pc'[Main] = "disown"
  BY Zenon, ActorFacts DEF KillWait, TypeInv, Only
<1>4. (\A p \in AllPids : p # Pid(child) => proc'[p] = proc[p]) /\ proc'[Pid(child)] = "reaped"
  BY Zenon, <1>2 DEF KillWait, TypeInv
<1>5. /\ Fixed /\ MainAt("killwait") /\ stray' = (stray \/ proc[Pid(child)] = "reaped")
      /\ UNCHANGED <<hand, table, sock, loaded, child, released, known, settled, sweepers, exit,
                     sent>>
  BY Zenon DEF KillWait, Fixed, clockVars
<1> QED BY Zenon, <1>1, <1>3, <1>4, <1>5

LEMMA DisownEffect ==
    ASSUME TypeInv, PhaseInv, DisownVmm
    PROVE  /\ Fixed /\ Only(Main) /\ MainAt("disown") /\ pc' = pc /\ at[Main] \in Slots
           /\ at'[Main] = at[Main] + 1 /\ child \in Mesh /\ child \in Nodes
           /\ \A i \in Slots : table'[i] = IF i = at[Main] /\ table[i] = Pid(child) THEN 0 ELSE table[i]
           /\ released' = IF verb = "resume" /\ table[at[Main]] = Pid(child)
                          THEN released \cup {Pid(child)} ELSE released
           /\ UNCHANGED <<hand, proc, sock, loaded, child, known, settled, sweepers, stray, exit, sent>>
<1>1. child \in Mesh /\ child \in Nodes
  BY Zenon, MeshNodes DEF TypeInv
<1>2. at[Main] \in Slots
  BY Zenon, AtSlot, ActorFacts DEF DisownVmm
<1>3. Only(Main) /\ at'[Main] = at[Main] + 1
  BY Zenon, ActorFacts DEF DisownVmm, TypeInv, Only
<1>4. \A i \in Slots : table'[i] = IF i = at[Main] /\ table[i] = Pid(child) THEN 0 ELSE table[i]
  BY Zenon, <1>2 DEF DisownVmm, TypeInv
<1>5. /\ Fixed /\ MainAt("disown") /\ pc' = pc
      /\ UNCHANGED <<hand, proc, sock, loaded, child, known, settled, sweepers, stray, exit, sent>>
      /\ released' = IF verb = "resume" /\ table[at[Main]] = Pid(child)
                     THEN released \cup {Pid(child)} ELSE released
  BY Zenon DEF DisownVmm, Fixed, clockVars
<1> QED BY Zenon, <1>1, <1>2, <1>3, <1>4, <1>5

LEMMA NextChildEffect ==
    ASSUME TypeInv, PhaseInv, NextChild
    PROVE  /\ Fixed /\ Only(Main) /\ MainAt("disown") /\ at[Main] > slots /\ child < size
           /\ child' = child + 1 /\ at'[Main] = 1 /\ child \in Mesh
           /\ pc'[Main] = IF verb = "resume" THEN "disown" ELSE "killwait"
           /\ \A n \in Nodes : sock'[n] \in {0, sock[n]}
           /\ UNCHANGED <<hand, table, proc, loaded, released, known, settled, sweepers, stray, exit,
                          sent>>
<1>1. /\ Only(Main) /\ at'[Main] = 1 /\ pc'[Main] = IF verb = "resume" THEN "disown" ELSE "killwait"
  BY Zenon, ActorFacts DEF NextChild, TypeInv, Only
<1>2. \A n \in Nodes : sock'[n] \in {0, sock[n]}
  BY Zenon DEF NextChild, Unlinked, TypeInv
<1>3. /\ Fixed /\ MainAt("disown") /\ at[Main] > slots /\ child < size /\ child' = child + 1
      /\ child \in Mesh
      /\ UNCHANGED <<hand, table, proc, loaded, released, known, settled, sweepers, stray, exit,
                     sent>>
  BY DEF NextChild, Fixed, clockVars, TypeInv
<1> QED BY Zenon, <1>1, <1>2, <1>3

------------------------------------------------------------------------------
(* Every pid has one place.                                                *)

\* Which node has its pid in a slot or a hand.
LEMMA Placed ==
    ASSUME TypeInv, PlaceInv
    PROVE  /\ \A i \in Slots, n \in Mesh : table[i] = Pid(n) => Claimed(n) /\ (Ending => n >= child)
           /\ \A a \in Actors, n \in Mesh : hand[a] = Pid(n) => Claimed(n)
<1>1. /\ \A n \in Mesh : Pid(n) # 0
      /\ \A n, m \in Mesh : Pid(n) = Pid(m) => n = m
  BY Zenon, MeshNodes, PidFacts DEF TypeInv
<1>2. ASSUME NEW i \in Slots, NEW n \in Mesh, table[i] = Pid(n)
      PROVE  Claimed(n) /\ (Ending => n >= child)
  <2>1. PICK m \in Mesh : table[i] = Pid(m) /\ Claimed(m) /\ (Ending => m >= child)
    BY Zenon, <1>1, <1>2 DEF PlaceInv
  <2> QED BY Zenon, <1>1, <1>2, <2>1
<1>3. ASSUME NEW a \in Actors, NEW n \in Mesh, hand[a] = Pid(n) PROVE Claimed(n)
  <2>1. PICK m \in Mesh : hand[a] = Pid(m) /\ Claimed(m)
    BY Zenon, <1>1, <1>3 DEF PlaceInv
  <2> QED BY Zenon, <1>1, <1>3, <2>1
<1> QED BY Zenon, <1>2, <1>3

\* Slots and hands are only cleared, and nothing is put back to spawn.
LEMMA PlaceFrame ==
    ASSUME TypeInv, PlaceInv, Fixed,
           \A i \in Slots : table'[i] \in {table[i], 0},
           \A a \in Actors : hand'[a] \in {hand[a], 0},
           \A n \in Mesh : Claimed(n) => Claimed(n)',
           Ending' => \A i \in Slots, n \in Mesh : table'[i] = Pid(n) => n >= child',
           pc'[Main] = "disown" => \A i \in Slots : i < at'[Main] => table'[i] # Pid(child')
    PROVE  PlaceInv'
<1>1. Mesh' = Mesh /\ Slots' = Slots /\ \A n : Pid(n)' = Pid(n)
  BY Zenon, FixedFacts
<1>2. ASSUME NEW i \in Slots, NEW j \in Slots, table'[i] # 0, table'[i] = table'[j] PROVE i = j
  <2>1. table'[i] = table[i] /\ table'[j] = table[j]
    BY Zenon, <1>2
  <2> QED BY Zenon, <1>2, <2>1 DEF PlaceInv
<1>3. \A a, b \in Actors : hand'[a] # 0 /\ hand'[a] = hand'[b] => a = b
  BY Zenon DEF PlaceInv
<1>4. \A a \in Actors, i \in Slots : hand'[a] # 0 => table'[i] # hand'[a]
  BY Zenon DEF PlaceInv
<1>5. ASSUME NEW i \in Slots, table'[i] # 0
      PROVE  \E n \in Mesh : table'[i] = Pid(n) /\ Claimed(n)' /\ (Ending' => n >= child')
  <2>1. table'[i] = table[i]
    BY <1>5
  <2>2. PICK n \in Mesh : table[i] = Pid(n) /\ Claimed(n)
    BY <1>5, <2>1, Zenon DEF PlaceInv
  <2> QED BY Zenon, <2>1, <2>2
<1>6. ASSUME NEW a \in Actors, hand'[a] # 0
      PROVE  \E n \in Mesh : hand'[a] = Pid(n) /\ Claimed(n)'
  <2>1. hand'[a] = hand[a]
    BY Zenon, <1>6
  <2>2. PICK n \in Mesh : hand[a] = Pid(n) /\ Claimed(n)
    BY <1>6, <2>1, Zenon DEF PlaceInv
  <2> QED BY Zenon, <2>1, <2>2
<1>7. Pid(child)' = Pid(child')
  BY Zenon, <1>1, FixedFacts DEF Pid
<1> QED BY <1>1, <1>2, <1>3, <1>4, <1>5, <1>6, <1>7, Zenon DEF PlaceInv

\* The same, when the main thread also stays where it is.
LEMMA PlaceSame ==
    ASSUME TypeInv, PlaceInv, Fixed,
           \A i \in Slots : table'[i] \in {table[i], 0},
           \A a \in Actors : hand'[a] \in {hand[a], 0},
           \A n \in Mesh : Claimed(n) => Claimed(n)',
           Ending' => Ending /\ child' = child /\ pc'[Main] = pc[Main] /\ at'[Main] = at[Main]
    PROVE  PlaceInv'
<1>1. Mesh \subseteq Nodes /\ child \in Nodes /\ \A n \in Nodes : Pid(n) # 0
  BY Zenon, MeshNodes, PidFacts DEF TypeInv
<1>2. Ending => \A i \in Slots, n \in Mesh : table[i] = Pid(n) => n >= child
  BY Zenon, Placed
<1>3. Ending' => \A i \in Slots, n \in Mesh : table'[i] = Pid(n) => n >= child'
  BY Zenon, <1>1, <1>2
<1>4. pc'[Main] = "disown" => \A i \in Slots : i < at'[Main] => table'[i] # Pid(child')
  <2>1. pc'[Main] = "disown" => Ending'
    BY Zenon DEF Ending
  <2> QED BY Zenon, <1>1, <2>1 DEF PlaceInv
<1> QED BY Zenon, <1>3, <1>4, PlaceFrame

\* What is in the table once the main thread has taken out a child.
LEMMA Cleared ==
    ASSUME TypeInv, PhaseInv, PlaceInv, pc[Main] = "disown", at[Main] > slots
    PROVE  /\ \A i \in Slots, n \in Mesh : table[i] = Pid(n) => n > child
           /\ \A i \in Slots : table[i] # 0 => \E n \in Mesh : table[i] = Pid(n) /\ n > child
           /\ child = size => \A i \in Slots : table[i] = 0
<1>1. Mesh \subseteq Nodes /\ child \in Mesh /\ \A n \in Nodes : Pid(n) # 0
  BY Zenon, MeshNodes, PidFacts DEF TypeInv
<1>2. \A i \in Slots : i < at[Main]
  BY ActorFacts, Numbers
<1>3. \A i \in Slots : table[i] # Pid(child)
  BY Zenon, <1>2 DEF PlaceInv
<1>4. \A n \in Mesh : n \in Int /\ n <= size
  BY Numbers
<1>5. ASSUME NEW i \in Slots, table[i] # 0 PROVE \E n \in Mesh : table[i] = Pid(n) /\ n > child
  <2>1. PICK n \in Mesh : table[i] = Pid(n) /\ n >= child
    BY Zenon, <1>5 DEF PlaceInv, Ending
  <2>2. n # child
    BY Zenon, <1>3, <2>1
  <2> QED BY <1>1, <1>4, <2>1, <2>2
<1>6. ASSUME NEW i \in Slots, NEW n \in Mesh, table[i] = Pid(n) PROVE n > child
  <2>1. PICK m \in Mesh : table[i] = Pid(m) /\ m > child
    BY <1>1, <1>5, <1>6
  <2>2. m = n
    BY Zenon, <1>1, <1>6, <2>1, PidFacts DEF TypeInv
  <2> QED BY Zenon, <2>1, <2>2
<1>7. ASSUME child = size, NEW i \in Slots PROVE table[i] = 0
  BY <1>1, <1>4, <1>5, <1>7
<1> QED BY Zenon, <1>5, <1>6, <1>7

LEMMA PlaceStep == TypeInv /\ PhaseInv /\ PlaceInv /\ [ResumeNext]_vars => PlaceInv'
<1> SUFFICES ASSUME TypeInv, PhaseInv, PlaceInv, [ResumeNext]_vars PROVE PlaceInv'
  OBVIOUS
<1>1. Mesh \subseteq Nodes /\ Nodes \subseteq Actors /\ \A n \in Nodes : Pid(n) # 0
  BY MeshNodes, PidFacts, ActorFacts DEF TypeInv
<1>2. ASSUME NEW a \in Actors, Die(a), a # Main \/ ~Ending PROVE PlaceInv'
  <2>1. \A n \in Mesh : Claimed(n) => Claimed(n)'
    BY Zenon, <1>1, <1>2, DieEffect DEF Claimed, Only
  <2>2. Ending' => Ending /\ child' = child /\ pc'[Main] = pc[Main] /\ at'[Main] = at[Main]
    BY Zenon, <1>2, DieEffect, ActorFacts DEF Ending, Only
  <2> QED BY Zenon, <1>2, <2>1, <2>2, DieEffect, PlaceSame
<1>3. ASSUME NEW a \in Actors, Swap(a) PROVE PlaceInv'
  <2> DEFINE k == at[a]
  <2>1. /\ Fixed /\ Only(a) /\ pc[a] = "sweep" /\ pc'[a] \in Leaving /\ k \in Slots
        /\ hand[a] = 0 /\ hand'[a] = table[k] /\ table'[k] = 0
        /\ \A i \in Slots : i # k => table'[i] = table[i]
        /\ child' = child
    BY <1>3, SwapEffect
  <2> HIDE DEF k
  <2>2. Mesh' = Mesh /\ Slots' = Slots /\ \A n : Pid(n)' = Pid(n)
    BY Zenon, <2>1, FixedFacts
  <2>3. \A n \in Mesh : Claimed(n) => Claimed(n)'
    BY Zenon, <1>1, <2>1 DEF Claimed, Only, Leaving
  <2>4. /\ Ending' => Ending /\ child' = child
        /\ pc'[Main] = "disown" => pc[Main] = "disown" /\ at'[Main] = at[Main]
    BY Zenon, <2>1, ActorFacts DEF Only, Ending, Leaving
  <2>5. \A b \in Actors : b # a => hand'[b] = hand[b]
    BY Zenon, <2>1 DEF Only
  <2>6. \A i, j \in Slots : table'[i] # 0 /\ table'[i] = table'[j] => i = j
    <3>1. \A i \in Slots : table'[i] # 0 => i # k /\ table'[i] = table[i]
      BY Zenon, <2>1
    <3> QED BY Zenon, <3>1 DEF PlaceInv
  <2>7. ASSUME NEW b \in Actors, NEW c \in Actors, hand'[b] # 0, hand'[b] = hand'[c] PROVE b = c
    <3>1. \A d \in Actors : d # a /\ hand'[d] # 0 => hand'[d] = hand[d] /\ hand[d] # table[k]
      BY Zenon, <2>1, <2>5 DEF PlaceInv
    <3>2. b # a /\ c # a => b = c
      BY Zenon, <2>7, <3>1 DEF PlaceInv
    <3> QED BY Zenon, <2>1, <2>7, <3>1, <3>2
  <2>8. ASSUME NEW b \in Actors, NEW i \in Slots, hand'[b] # 0 PROVE table'[i] # hand'[b]
    <3>1. CASE i = k
      BY Zenon, <2>1, <2>8, <3>1
    <3>2. CASE i # k /\ b = a
      BY Zenon, <2>1, <2>8, <3>2 DEF PlaceInv
    <3>3. CASE i # k /\ b # a
      <4>1. table'[i] = table[i] /\ hand'[b] = hand[b]
        BY Zenon, <2>1, <2>5, <3>3
      <4> QED BY Zenon, <2>8, <4>1 DEF PlaceInv
    <3> QED BY Zenon, <3>1, <3>2, <3>3
  <2>9. ASSUME NEW i \in Slots, table'[i] # 0
        PROVE  \E n \in Mesh : table'[i] = Pid(n) /\ Claimed(n)' /\ (Ending' => n >= child')
    <3>1. table'[i] = table[i]
      BY <2>1, <2>9
    <3>2. PICK n \in Mesh : table[i] = Pid(n) /\ Claimed(n) /\ (Ending => n >= child)
      BY <2>9, <3>1, Zenon DEF PlaceInv
    <3> QED BY Zenon, <2>3, <2>4, <3>1, <3>2
  <2>10. ASSUME NEW b \in Actors, hand'[b] # 0
         PROVE  \E n \in Mesh : hand'[b] = Pid(n) /\ Claimed(n)'
    <3>1. hand'[b] = hand[b] \/ hand'[b] = table[k]
      BY <2>1, <2>5
    <3>2. \E n \in Mesh : hand'[b] = Pid(n) /\ Claimed(n)
      BY <2>1, <2>10, <3>1, Zenon DEF PlaceInv
    <3> QED BY Zenon, <2>3, <3>2
  <2>11. pc'[Main] = "disown" => \A i \in Slots : i < at'[Main] => table'[i] # Pid(child)
    <3>1. Pid(child) # 0
      BY <1>1 DEF TypeInv
    <3> QED BY Zenon, <2>1, <2>4, <3>1 DEF PlaceInv
  <2>12. Pid(child)' = Pid(child)
    BY Zenon, <2>1, FixedFacts DEF Pid
  <2> QED BY <2>2, <2>6, <2>7, <2>8, <2>9, <2>10, <2>11, <2>12, Zenon DEF PlaceInv
<1>4. ASSUME NEW a \in Actors, KillHand(a) PROVE PlaceInv'
  <2>1. Fixed /\ Only(a) /\ pc[a] = "kill" /\ pc'[a] = "sweep" /\ hand'[a] = 0 /\ child' = child
        /\ table' = table
    BY Zenon, <1>4, KillHandEffect
  <2>2. \A n \in Mesh : Claimed(n) => Claimed(n)'
    BY Zenon, <1>1, <2>1 DEF Claimed, Only
  <2>3. Ending' => Ending /\ child' = child /\ pc'[Main] = pc[Main] /\ at'[Main] = at[Main]
    BY Zenon, <2>1, ActorFacts DEF Only, Ending
  <2>4. \A b \in Actors : hand'[b] \in {hand[b], 0}
    BY Zenon, <2>1 DEF Only
  <2> QED BY Zenon, <2>1, <2>2, <2>3, <2>4, PlaceSame
<1>5. ASSUME NEW n \in Mesh, Spawn(n) PROVE PlaceInv'
  <2>1. n \in Nodes /\ Fixed /\ Only(n) /\ pc[n] = "spawn" /\ pc[Main] = "join"
        /\ UNCHANGED <<hand, table, child>>
    BY Zenon, <1>5, SpawnEffect
  <2>2. \A m \in Mesh : Claimed(m) => Claimed(m)'
    BY Zenon, <1>1, <2>1 DEF Claimed, Only
  <2>3. ~Ending'
    BY Zenon, <2>1, ActorFacts DEF Only, Ending
  <2> QED BY Zenon, <2>1, <2>2, <2>3, PlaceSame
<1>6. ASSUME NEW n \in Mesh, SeeSock(n) \/ Load(n) PROVE PlaceInv'
  <2>1. n \in Actors /\ n # Main
    BY Zenon, <1>1, ActorFacts
  <2>2. /\ Fixed /\ UNCHANGED <<hand, table, child, at>> /\ pc'[n] \in {"load", "done"}
        /\ \A b \in Actors : b # n => pc'[b] = pc[b]
    BY Zenon, <1>6, <2>1 DEF SeeSock, Load, Fixed, TypeInv
  <2>3. \A m \in Mesh : Claimed(m) => Claimed(m)'
    BY Zenon, <1>1, <2>2 DEF Claimed
  <2>4. pc'[Main] = pc[Main]
    BY Zenon, <2>1, <2>2, ActorFacts
  <2> QED BY <2>2, <2>3, <2>4, PlaceSame DEF Ending
<1>7. ASSUME NEW n \in Mesh, OwnVmm(n) PROVE PlaceInv'
  <2> DEFINE k == at[n]
  <2>1. /\ n \in Nodes /\ Fixed /\ Only(n) /\ pc[n] = "own" /\ pc[Main] = "join" /\ k \in Slots
        /\ UNCHANGED <<hand, child>>
        /\ \/ /\ table[k] = 0 /\ table'[k] = Pid(n) /\ pc'[n] = "sock"
              /\ \A i \in Slots : i # k => table'[i] = table[i]
           \/ pc'[n] = "own" /\ UNCHANGED table
    BY Zenon, <1>7, OwnEffect
  <2> HIDE DEF k
  <2>2. Mesh' = Mesh /\ Slots' = Slots /\ \A m : Pid(m)' = Pid(m)
    BY Zenon, <2>1, FixedFacts
  <2>3. \A m \in Mesh : Claimed(m) => Claimed(m)'
    BY Zenon, <1>1, <2>1 DEF Claimed, Only
  <2>4. ~Ending' /\ pc'[Main] # "disown"
    BY Zenon, <2>1, ActorFacts DEF Only, Ending
  <2>5. CASE pc'[n] = "own" /\ UNCHANGED table
    BY Zenon, <2>1, <2>3, <2>4, <2>5, PlaceSame
  <2>6. CASE /\ table[k] = 0 /\ table'[k] = Pid(n) /\ pc'[n] = "sock"
             /\ \A i \in Slots : i # k => table'[i] = table[i]
    <3>1. ~Claimed(n) /\ Claimed(n)'
      BY Zenon, <2>1, <2>6 DEF Claimed
    <3>2. \A i \in Slots : table[i] # Pid(n)
      BY Zenon, <3>1, Placed
    <3>3. \A a \in Actors : hand[a] # Pid(n)
      BY Zenon, <3>1, Placed
    <3>4. ASSUME NEW i \in Slots, NEW j \in Slots, table'[i] # 0, table'[i] = table'[j] PROVE i = j
      <4>1. i = k <=> j = k
        BY Zenon, <2>6, <3>2, <3>4
      <4> QED BY Zenon, <2>6, <3>4, <4>1 DEF PlaceInv
    <3>5. \A a, b \in Actors : hand'[a] # 0 /\ hand'[a] = hand'[b] => a = b
      BY Zenon, <2>1 DEF PlaceInv
    <3>6. \A a \in Actors, i \in Slots : hand'[a] # 0 => table'[i] # hand'[a]
      BY <2>1, <2>6, <3>3 DEF PlaceInv
    <3>7. ASSUME NEW i \in Slots, table'[i] # 0 PROVE \E m \in Mesh : table'[i] = Pid(m) /\ Claimed(m)'
      <4>1. CASE i = k
        BY Zenon, <2>6, <3>1, <4>1
      <4>2. CASE i # k
        BY <2>3, <2>6, <3>7, <4>2, Zenon DEF PlaceInv
      <4> QED BY Zenon, <4>1, <4>2
    <3>8. \A a \in Actors : hand'[a] # 0 => \E m \in Mesh : hand'[a] = Pid(m) /\ Claimed(m)'
      BY <2>1, <2>3, Zenon DEF PlaceInv
    <3> QED BY <2>2, <2>4, <3>4, <3>5, <3>6, <3>7, <3>8, Zenon DEF PlaceInv
  <2> QED BY <2>1, <2>5, <2>6
<1>8. ASSUME JoinThreads \/ ProbeAnswers \/ WriteCommits PROVE PlaceInv'
  <2>1. \A m \in Mesh : Claimed(m) => Claimed(m)'
    BY Zenon, <1>1, <1>8, JoinEffect, ActorFacts DEF Claimed, Only
  <2>2. ~Ending'
    BY Zenon, <1>8, JoinEffect DEF Ending
  <2> QED BY Zenon, <1>8, <2>1, <2>2, JoinEffect, PlaceSame
<1>9. ASSUME JoinPokes PROVE PlaceInv'
  <2>1. Fixed /\ Only(Main) /\ UNCHANGED <<table, hand>> /\ child' = 1 /\ at'[Main] = 1
    BY Zenon, <1>9, JoinPokesEffect
  <2>2. \A m \in Mesh : Claimed(m) => Claimed(m)'
    BY Zenon, <1>1, <2>1, ActorFacts DEF Claimed, Only
  <2>3. \A m \in Mesh : m >= child'
    BY <2>1 DEF Mesh, TypeInv
  <2>4. \A i \in Slots : ~(i < at'[Main])
    BY <2>1, Numbers
  <2> QED BY Zenon, <2>1, <2>2, <2>3, <2>4, PlaceFrame
<1>10. ASSUME KillWait PROVE PlaceInv'
  <2>1. /\ Fixed /\ Only(Main) /\ UNCHANGED <<table, hand, child>> /\ at'[Main] = 1 /\ Ending
    BY Zenon, <1>10, KillWaitEffect DEF MainAt, Ending
  <2>2. \A m \in Mesh : Claimed(m) => Claimed(m)'
    BY Zenon, <1>1, <2>1, ActorFacts DEF Claimed, Only
  <2>3. \A i \in Slots, m \in Mesh : table[i] = Pid(m) => m >= child
    BY Zenon, <2>1, Placed
  <2>4. \A i \in Slots : ~(i < at'[Main])
    BY <2>1, Numbers
  <2> QED BY Zenon, <2>1, <2>2, <2>3, <2>4, PlaceFrame
<1>11. ASSUME DisownVmm PROVE PlaceInv'
  <2> DEFINE k == at[Main]
  <2>1. /\ Fixed /\ UNCHANGED <<pc, hand, child>> /\ k \in Slots /\ at'[Main] = k + 1
        /\ \A i \in Slots : table'[i] = IF i = k /\ table[i] = Pid(child) THEN 0 ELSE table[i]
        /\ pc[Main] = "disown" /\ child \in Nodes
    BY Zenon, <1>11, DisownEffect DEF MainAt
  <2> HIDE DEF k
  <2>2. \A m \in Mesh : Claimed(m) => Claimed(m)'
    BY Zenon, <2>1 DEF Claimed
  <2>3. \A i \in Slots : table'[i] \in {table[i], 0}
    BY Zenon, <2>1
  <2>4. \A i \in Slots, m \in Mesh : table'[i] = Pid(m) => m >= child'
    <3>1. \A i \in Slots, m \in Mesh : table[i] = Pid(m) => m >= child
      <4>1. Ending
        BY Zenon, <2>1 DEF Ending
      <4> QED BY Zenon, <4>1, Placed
    <3> QED BY Zenon, <1>1, <2>1, <2>3, <3>1
  <2>5. \A i \in Slots : i < at'[Main] => table'[i] # Pid(child')
    <3>1. \A i \in Slots : i < k + 1 => i < k \/ i = k
      BY <2>1, Numbers
    <3>2. \A i \in Slots : i < k => table[i] # Pid(child)
      BY Zenon, <2>1 DEF PlaceInv, k
    <3>3. Pid(child) # 0
      BY Zenon, <1>1, <2>1
    <3> QED BY Zenon, <2>1, <3>1, <3>2, <3>3
  <2> QED BY Zenon, <2>1, <2>2, <2>3, <2>4, <2>5, PlaceFrame
<1>12. ASSUME NextChild PROVE PlaceInv'
  <2>1. /\ Fixed /\ Only(Main) /\ UNCHANGED <<table, hand>> /\ child' = child + 1 /\ at'[Main] = 1
        /\ pc[Main] = "disown" /\ at[Main] > slots /\ child \in Mesh
    BY Zenon, <1>12, NextChildEffect DEF MainAt
  <2>2. \A m \in Mesh : Claimed(m) => Claimed(m)'
    BY Zenon, <1>1, <2>1, ActorFacts DEF Claimed, Only
  <2>3. \A i \in Slots, m \in Mesh : table[i] = Pid(m) => m > child
    BY Zenon, <2>1, Cleared
  <2>4. \A m \in Mesh : m > child => m >= child'
    BY <2>1 DEF Mesh, TypeInv
  <2>5. \A i \in Slots : ~(i < at'[Main])
    BY <2>1 DEF Slots, TypeInv
  <2> QED BY Zenon, <2>1, <2>2, <2>3, <2>4, <2>5, PlaceFrame
<1>13. ASSUME NextRound PROVE PlaceInv'
  <2>1. /\ MainAt("disown") /\ at[Main] > slots /\ child = size
        /\ UNCHANGED <<table, hand, slots>> /\ pc'[Main] = "join"
    BY Zenon, <1>13, ActorFacts DEF NextRound
  <2>2. \A i \in Slots : table[i] = 0
    BY <2>1, Cleared DEF MainAt
  <2>3. \A a \in Actors : hand[a] = 0
    BY Zenon, <2>1, Quiet DEF Leaving
  <2>4. Slots' = Slots
    BY Zenon, <2>1 DEF Slots
  <2> QED BY Zenon, <2>1, <2>2, <2>3, <2>4 DEF PlaceInv
<1>14. ASSUME UNCHANGED <<verb, size, slots, stuck, round, pc, at, hand, table, child>> PROVE PlaceInv'
  <2>1. Fixed
    BY <1>14, Zenon DEF Fixed
  <2> QED BY <1>14, <2>1, PlaceSame DEF Claimed, Ending
<1>15. ASSUME Return \/ (\E a \in Actors : Leave(a)) PROVE PlaceInv'
  BY Zenon, <1>14, <1>15 DEF Return, Leave
<1>16. ASSUME \/ \E n \in Mesh : BindSock(n) \/ SendPoke(n) \/ BindFails(n) \/ \E d \in 0 .. MaxDelay : ClockStep(n, d)
              \/ (\E p \in Pids : VmmDies(p)) \/ UNCHANGED vars
       PROVE  PlaceInv'
  BY Zenon, <1>14, <1>16 DEF BindSock, SendPoke, BindFails, ClockStep, VmmDies, vars, procVars
<1>17. ASSUME Signal \/ MainDies \/ \E n \in Mesh : ThreadDies(n) PROVE PlaceInv'
  <2>1. CASE Signal
    BY <1>2, <2>1, ActorFacts DEF Signal
  <2>2. CASE MainDies
    BY Zenon, <1>2, <2>2, ActorFacts DEF MainDies, MainAt, Ending
  <2>3. CASE \E n \in Mesh : ThreadDies(n)
    BY Zenon, <1>1, <1>2, <2>3, ActorFacts DEF ThreadDies
  <2> QED BY <1>17, <2>1, <2>2, <2>3
<1> QED
  BY <1>1, <1>3, <1>4, <1>5, <1>6, <1>7, <1>8, <1>9, <1>10, <1>11, <1>12, <1>13, <1>15, <1>16,
     <1>17, ActorFacts
  DEF ResumeNext, ThreadStep, SweepStep, MainStep, HandlerStep

------------------------------------------------------------------------------
(* The remaining actions, and the cases of a step.                         *)

\* Nothing that the ownership of VMMs is about changes.
Still ==
    UNCHANGED <<verb, size, slots, stuck, round, pc, at, hand, table, proc, sock, loaded, child, released,
                known, settled, sweepers, stray>>

\* An actor begins to leave, from a place where it may.
Leaves(a) ==
    /\ Die(a) /\ exit = "no" /\ pc[a] \notin Leaving
    /\ a = Main => pc[Main] \in {"probe", "quorum"}

LEMMA StepCases ==
    ASSUME TypeInv, [ResumeNext]_vars
    PROVE  \/ Still
           \/ \E a \in Actors : Leaves(a) \/ Swap(a) \/ KillHand(a)
           \/ \E n \in Mesh : Spawn(n) \/ OwnVmm(n) \/ SeeSock(n) \/ Load(n) \/ BindSock(n)
           \/ JoinThreads \/ ProbeAnswers \/ WriteCommits \/ JoinPokes
           \/ KillWait \/ DisownVmm \/ NextChild \/ NextRound
           \/ \E p \in Pids : VmmDies(p)
<1>1. Mesh \subseteq Nodes
  BY MeshNodes DEF TypeInv
<1>2. ASSUME \/ Return \/ (\E a \in Actors : Leave(a)) \/ UNCHANGED vars
             \/ \E n \in Mesh : SendPoke(n) \/ BindFails(n) \/ \E d \in 0 .. MaxDelay : ClockStep(n, d)
      PROVE  Still
  BY Zenon, <1>2 DEF Return, Leave, SendPoke, BindFails, ClockStep, vars, procVars, Still
<1>3. Signal => Leaves(Handler)
  BY ActorFacts DEF Signal, Leaves, Leaving, Alive
<1>4. MainDies => Leaves(Main)
  BY Zenon, ActorFacts DEF MainDies, MainAt, Leaves, Leaving, Alive
<1>5. \A n \in Mesh : ThreadDies(n) => Leaves(n)
  BY Zenon, <1>1, ActorFacts DEF ThreadDies, Leaves, Leaving, Alive
<1> QED
  BY Zenon, <1>1, <1>2, <1>3, <1>4, <1>5, ActorFacts
  DEF ResumeNext, ThreadStep, SweepStep, MainStep, HandlerStep

\* A process that has ended does nothing more.
LEMMA AliveStep == ASSUME ResumeNext PROVE exit = "no"
<1>1. ASSUME NEW n \in Mesh,
             \/ Spawn(n) \/ OwnVmm(n) \/ SeeSock(n) \/ Load(n) \/ ThreadDies(n)
             \/ BindSock(n) \/ SendPoke(n) \/ BindFails(n) \/ \E d \in 0 .. MaxDelay : ClockStep(n, d)
      PROVE  Alive
  BY Zenon, <1>1
  DEF Spawn, OwnVmm, SeeSock, Load, ThreadDies, BindSock, SendPoke, BindFails, ClockStep
<1>2. ASSUME \/ JoinThreads \/ ProbeAnswers \/ WriteCommits \/ MainDies \/ JoinPokes \/ KillWait
             \/ DisownVmm \/ NextChild \/ NextRound \/ Return
      PROVE  Alive
  BY Zenon, <1>2
  DEF JoinThreads, ProbeAnswers, WriteCommits, MainDies, JoinPokes, KillWait, DisownVmm, NextChild,
      NextRound, Return, MainAt
<1>3. ASSUME NEW a, SweepStep(a) PROVE Alive
  BY Zenon, <1>3 DEF SweepStep, Swap, KillHand, Leave
<1>4. ASSUME Signal \/ \E p \in Pids : VmmDies(p) PROVE Alive
  BY Zenon, <1>4 DEF Signal, VmmDies
<1>5. Alive
  BY Zenon, <1>1, <1>2, <1>3, <1>4 DEF ResumeNext, ThreadStep, MainStep, HandlerStep
<1> QED BY Zenon, <1>5 DEF Alive

\* The thread of a node goes on without touching the table.
LEMMA ThreadEffect ==
    ASSUME TypeInv, PhaseInv, NEW n \in Mesh, SeeSock(n) \/ Load(n)
    PROVE  /\ n \in Nodes /\ Fixed /\ Only(n) /\ pc[n] \in {"sock", "load"}
           /\ pc'[n] \in {"load", "done"} /\ pc[Main] = "join"
           /\ pc'[n] = "done" => sock[n] # 0 /\ loaded'[n] = sock[n]
           /\ pc[n] = "sock" => pc'[n] = "load"
           /\ \A m \in Nodes : m # n => loaded'[m] = loaded[m]
           /\ UNCHANGED <<at, hand, table, proc, sock, child, released, known, settled, sweepers, stray,
                          exit, sent>>
<1>1. n \in Nodes /\ Nodes \subseteq Actors
  BY Zenon, MeshNodes, ActorFacts DEF TypeInv
<1>2. pc[n] \in {"sock", "load"} /\ pc[Main] = "join"
  BY Zenon DEF SeeSock, Load, PhaseInv
<1>3. /\ pc'[n] \in {"load", "done"} /\ Only(n) /\ (pc[n] = "sock" => pc'[n] = "load")
  BY Zenon, <1>1 DEF SeeSock, Load, TypeInv, Only
<1>4. /\ pc'[n] = "done" => sock[n] # 0 /\ loaded'[n] = sock[n]
      /\ \A m \in Nodes : m # n => loaded'[m] = loaded[m]
  BY Zenon, <1>1 DEF SeeSock, Load, TypeInv
<1>5. Fixed /\ UNCHANGED <<at, hand, table, proc, sock, child, released, known, settled, sweepers,
                           stray, exit, sent>>
  BY Zenon DEF SeeSock, Load, Fixed, clockVars
<1> QED BY Zenon, <1>1, <1>2, <1>3, <1>4, <1>5

LEMMA BindEffect ==
    ASSUME TypeInv, NEW n \in Mesh, BindSock(n)
    PROVE  /\ n \in Nodes /\ Fixed /\ sock'[n] = Pid(n) /\ \A m \in Nodes : m # n => sock'[m] = sock[m]
           /\ UNCHANGED <<pc, at, hand, table, proc, loaded, child, released, known, settled, sweepers,
                          stray, exit, sent>>
<1>1. n \in Nodes
  BY Zenon, MeshNodes DEF TypeInv
<1>2. sock'[n] = Pid(n) /\ \A m \in Nodes : m # n => sock'[m] = sock[m]
  BY Zenon, <1>1 DEF BindSock, TypeInv
<1> QED BY Zenon, <1>1, <1>2 DEF BindSock, Fixed, clockVars

LEMMA VmmDiesEffect ==
    ASSUME TypeInv, NEW p \in Pids, VmmDies(p)
    PROVE  /\ Fixed /\ proc[p] = "running" /\ proc'[p] = "zombie"
           /\ \A q \in AllPids : q # p => proc'[q] = proc[q]
           /\ UNCHANGED <<pc, at, hand, table, sock, loaded, child, released, known, settled, sweepers,
                          stray, exit, sent>>
<1>1. p \in AllPids
  BY Zenon, PidsBelow
<1>2. proc'[p] = "zombie" /\ \A q \in AllPids : q # p => proc'[q] = proc[q]
  BY Zenon, <1>1 DEF VmmDies, TypeInv
<1> QED BY <1>2 DEF VmmDies, Fixed, clockVars

LEMMA RoundEffect ==
    ASSUME TypeInv, PhaseInv, NextRound
    PROVE  /\ MainAt("disown") /\ at[Main] > slots /\ child = size /\ verb = "cycle"
           /\ round' = round + 1 /\ pc'[Main] = "join" /\ \A n \in Mesh : pc'[n] = "spawn"
           /\ Mesh' = Mesh /\ Slots' = Slots
           /\ UNCHANGED <<verb, size, slots, at, hand, table, proc, loaded, child, released, known,
                          settled, sweepers, stray, exit>>
<1>1. Mesh \subseteq Nodes
  BY Zenon, MeshNodes DEF TypeInv
<1>2. pc'[Main] = "join" /\ \A n \in Mesh : pc'[n] = "spawn"
  BY Zenon, <1>1, ActorFacts DEF NextRound
<1> QED BY Zenon, <1>2 DEF NextRound, Mesh, Slots

------------------------------------------------------------------------------
(* What a cycle is done with.                                              *)

\* What was reaped stays so, and nothing more is done with.
LEMMA DoneFrame ==
    ASSUME TypeInv, DoneInv, Fixed, UNCHANGED released,
           \A n \in Mesh : /\ Done(n)' => Done(n)
                           /\ Done(n)' /\ proc[Pid(n)] = "reaped" => proc'[Pid(n)] = "reaped"
    PROVE  DoneInv'
BY FixedFacts, Zenon DEF DoneInv

LEMMA DoneStep == TypeInv /\ PhaseInv /\ DoneInv /\ [ResumeNext]_vars => DoneInv'
<1> SUFFICES ASSUME TypeInv, PhaseInv, DoneInv, [ResumeNext]_vars PROVE DoneInv'
  OBVIOUS
<1>1. /\ Mesh \subseteq Nodes /\ Nodes \subseteq Actors
      /\ \A n \in Nodes : Pid(n) \in AllPids
      /\ \A n \in Mesh : n \in Int /\ child \in Int
  BY Zenon, Numbers, MeshNodes, PidFacts, ActorFacts DEF TypeInv
<1>2. CASE Still
  BY <1>2 DEF Still, DoneInv, Done, Ending, Mesh, Pid
<1>3. ASSUME NEW a \in Actors, Leaves(a) PROVE DoneInv'
  <2>1. /\ Fixed /\ Only(a) /\ UNCHANGED <<child, proc, released>> /\ pc'[a] = "sweep"
    BY Zenon, <1>3, DieEffect DEF Leaves
  <2>2. Ending' => Ending /\ pc'[Main] = pc[Main]
    BY Zenon, <2>1, ActorFacts DEF Only, Ending
  <2> QED BY Zenon, <2>1, <2>2, DoneFrame DEF Done
<1>4. ASSUME NEW a \in Actors, Swap(a) \/ KillHand(a) PROVE DoneInv'
  <2>1. /\ Fixed /\ Only(a) /\ UNCHANGED <<child, released>> /\ pc'[a] \in Leaving
        /\ \A p \in AllPids : proc[p] = "reaped" => proc'[p] = "reaped"
    BY Zenon, <1>4, SwapEffect, KillHandEffect DEF Leaving
  <2>2. Ending' => Ending /\ pc'[Main] = pc[Main]
    BY Zenon, <2>1, ActorFacts DEF Only, Ending, Leaving
  <2> QED BY <1>1, <2>1, <2>2, DoneFrame DEF Done
<1>5. ASSUME NEW n \in Mesh, Spawn(n) \/ OwnVmm(n) \/ SeeSock(n) \/ Load(n) PROVE DoneInv'
  <2>1. /\ n \in Nodes /\ Fixed /\ Only(n) /\ UNCHANGED <<released>> /\ pc[Main] = "join"
    BY Zenon, <1>5, SpawnEffect, OwnEffect, ThreadEffect
  <2>2. ~Ending'
    BY Zenon, <2>1, ActorFacts DEF Only, Ending
  <2> QED BY <2>1, <2>2, DoneFrame DEF Done
<1>6. ASSUME NEW n \in Mesh, BindSock(n) PROVE DoneInv'
  BY Zenon, <1>6, BindEffect, DoneFrame DEF Done, Ending
<1>7. ASSUME NEW p \in Pids, VmmDies(p) PROVE DoneInv'
  <2>1. \A q \in AllPids : proc[q] = "reaped" => proc'[q] = "reaped"
    BY Zenon, <1>7, VmmDiesEffect
  <2> QED BY Zenon, <1>1, <1>7, <2>1, VmmDiesEffect, DoneFrame DEF Done, Ending
<1>8. ASSUME JoinThreads \/ ProbeAnswers \/ WriteCommits PROVE DoneInv'
  BY Zenon, <1>8, JoinEffect, DoneFrame DEF Done, Ending
<1>9. ASSUME JoinPokes PROVE DoneInv'
  <2>1. Fixed /\ UNCHANGED released /\ child' = 1
        /\ (verb = "cycle" => pc'[Main] = "killwait")
    BY <1>9, JoinPokesEffect
  <2>2. verb = "cycle" => \A n \in Mesh : ~Done(n)'
    <3>1. \A n \in Mesh : ~(n < 1)
      BY DEF Mesh, TypeInv
    <3> QED BY Zenon, <2>1, <3>1 DEF Done
  <2> QED BY Zenon, <2>1, <2>2, FixedFacts DEF DoneInv
<1>10. ASSUME KillWait PROVE DoneInv'
  <2>1. /\ Fixed /\ UNCHANGED <<released, child>> /\ pc[Main] = "killwait" /\ child \in Nodes
        /\ proc'[Pid(child)] = "reaped"
        /\ \A q \in AllPids : proc[q] = "reaped" => proc'[q] = "reaped"
    BY Zenon, <1>10, KillWaitEffect DEF MainAt
  <2>2. \A n \in Mesh : Done(n)' => Done(n) \/ n = child
    BY Zenon, <2>1 DEF Done, Ending
  <2>3. \A n \in Mesh : verb = "cycle" /\ Done(n)' => proc'[Pid(n)] = "reaped"
    BY Zenon, <1>1, <2>1, <2>2 DEF DoneInv
  <2> QED BY Zenon, <2>1, <2>3, FixedFacts DEF DoneInv
<1>11. ASSUME DisownVmm PROVE DoneInv'
  <2>1. Fixed /\ UNCHANGED <<pc, child, proc>> /\ (verb = "cycle" => released' = released)
    BY Zenon, <1>11, DisownEffect
  <2>2. \A n \in Mesh : Done(n)' => Done(n)
    BY <2>1 DEF Done, Ending
  <2> QED BY Zenon, <2>1, <2>2, FixedFacts DEF DoneInv
<1>12. ASSUME NextChild PROVE DoneInv'
  <2>1. /\ Fixed /\ UNCHANGED <<released, proc>> /\ pc[Main] = "disown" /\ child' = child + 1
        /\ (verb = "cycle" => pc'[Main] = "killwait")
    BY Zenon, <1>12, NextChildEffect DEF MainAt
  <2>2. \A n \in Mesh : n < child + 1 => n < child \/ n = child
    BY <1>1
  <2>3. verb = "cycle" => \A n \in Mesh : Done(n)' => Done(n)
    BY Zenon, <2>1, <2>2 DEF Done, Ending
  <2> QED BY Zenon, <2>1, <2>3, FixedFacts DEF DoneInv
<1>13. ASSUME NextRound PROVE DoneInv'
  <2>1. pc'[Main] = "join" /\ UNCHANGED <<verb, released>>
    BY Zenon, <1>13, RoundEffect
  <2> QED BY Zenon, <2>1 DEF DoneInv, Done, Ending
<1> QED
  BY <1>2, <1>3, <1>4, <1>5, <1>6, <1>7, <1>8, <1>9, <1>10, <1>11, <1>12, <1>13, StepCases

------------------------------------------------------------------------------
(* What entered the table.                                                 *)

Seen(p) == \/ \E i \in Slots : table[i] = p
           \/ p \in released
           \/ \E a \in Actors : hand[a] = p

LEMMA SeenTracked ==
    /\ TypeInv => (Tracked <=> \A p \in known : proc[p] = "running" => Seen(p))
    /\ TypeInv' => (Tracked' <=> \A p \in known' : proc'[p] = "running" => Seen(p)')
<1>1. 0 \notin Pids
  BY Zenon, PidsBelow
<1>2. ASSUME TypeInv, NEW p \in known
      PROVE  p \in Entered \cup released \cup {hand[a] : a \in Actors} <=> Seen(p)
  BY Zenon, <1>1, <1>2 DEF TypeInv, Entered, Seen, Slots
<1>3. ASSUME TypeInv', NEW p \in known'
      PROVE  p \in (Entered \cup released \cup {hand[a] : a \in Actors})' <=> Seen(p)'
  BY <1>1, <1>3 DEF TypeInv, Entered, Seen, Slots
<1> QED BY <1>2, <1>3, Zenon DEF Tracked

\* Nothing enters the table; what is known moves between places.
LEMMA KnownFrame ==
    ASSUME TypeInv, TypeInv', KnownInv, Fixed, UNCHANGED known, settled' \subseteq known,
           \A n \in Mesh : Claimed(n) => Claimed(n)',
           \A i \in Slots : table'[i] # 0 => table'[i] \in known,
           \A a \in Actors : hand'[a] # 0 => hand'[a] \in known,
           \A p \in known : proc'[p] = "running" => proc[p] = "running" /\ (Seen(p) => Seen(p)')
    PROVE  KnownInv'
<1>1. Mesh' = Mesh /\ Slots' = Slots /\ Past' = Past /\ \A n : Pid(n)' = Pid(n)
  BY FixedFacts
<1>2. \A p \in known : p \in Past \/ \E n \in Mesh : p = Pid(n) /\ Claimed(n)'
  BY Zenon DEF KnownInv
<1>3. \A p \in known : proc[p] = "running" => Seen(p)
  BY Zenon, SeenTracked DEF KnownInv
<1>4. Tracked'
  BY Zenon, <1>3, SeenTracked
<1> QED BY <1>1, <1>2, <1>4, Zenon DEF KnownInv

\* The same, when slots and hands are left alone.
LEMMA KnownSame ==
    ASSUME TypeInv, TypeInv', KnownInv, Fixed, UNCHANGED <<known, table, hand, released>>,
           settled' \subseteq known,
           \A n \in Mesh : Claimed(n) => Claimed(n)',
           \A p \in known : proc'[p] = "running" => proc[p] = "running"
    PROVE  KnownInv'
<1>1. Slots' = Slots
  BY Zenon, FixedFacts
<1>2. \A p \in known : Seen(p) => Seen(p)'
  BY Zenon, <1>1 DEF Seen
<1>3. /\ \A i \in Slots : table'[i] # 0 => table'[i] \in known
      /\ \A a \in Actors : hand'[a] # 0 => hand'[a] \in known
  BY Zenon DEF KnownInv
<1> QED BY Zenon, <1>2, <1>3, KnownFrame

\* A VMM that is not claimed yet is not known.
LEMMA Unknown ==
    ASSUME TypeInv, KnownInv, NEW n \in Mesh, ~Claimed(n)
    PROVE  Pid(n) \notin known
<1>1. Mesh \subseteq Nodes
  BY Zenon, MeshNodes DEF TypeInv
<1>2. Pid(n) \notin Past /\ \A m \in Mesh : Pid(m) = Pid(n) => m = n
  BY Zenon, <1>1, PidFacts DEF TypeInv
<1> QED BY Zenon, <1>2 DEF KnownInv

LEMMA KnownStep ==
    TypeInv /\ TypeInv' /\ PhaseInv /\ PlaceInv /\ DoneInv /\ KnownInv /\ [ResumeNext]_vars => KnownInv'
<1> SUFFICES ASSUME TypeInv, TypeInv', PhaseInv, PlaceInv, DoneInv, KnownInv, [ResumeNext]_vars
             PROVE  KnownInv'
  OBVIOUS
<1>1. /\ Mesh \subseteq Nodes /\ Nodes \subseteq Actors
      /\ \A n \in Nodes : Pid(n) \in Pids /\ Pid(n) # 0
      /\ known \subseteq AllPids /\ settled \subseteq known /\ 0 \notin known
  BY Zenon, MeshNodes, PidFacts, ActorFacts, PidsBelow DEF TypeInv, KnownInv
<1>2. CASE Still
  <2>1. Fixed /\ UNCHANGED <<known, table, hand, released, settled, proc, pc>>
    BY Zenon, <1>2 DEF Still, Fixed
  <2> QED BY Zenon, <1>1, <2>1, KnownSame DEF Claimed
<1>3. ASSUME NEW a \in Actors, Leaves(a) PROVE KnownInv'
  <2>1. /\ Fixed /\ Only(a) /\ UNCHANGED <<known, table, hand, released, proc>> /\ pc'[a] = "sweep"
        /\ settled' \in {settled, Entered}
    BY Zenon, <1>3, DieEffect DEF Leaves
  <2>2. Entered \subseteq known
    BY Zenon DEF Entered, KnownInv, Slots
  <2>3. \A n \in Mesh : Claimed(n) => Claimed(n)'
    BY Zenon, <1>1, <2>1 DEF Claimed, Only
  <2>4. settled' \subseteq known
    BY <1>1, <2>1, <2>2
  <2> QED BY Zenon, <2>1, <2>3, <2>4, KnownSame
<1>4. ASSUME NEW a \in Actors, Swap(a) PROVE KnownInv'
  <2> DEFINE k == at[a]
  <2>1. /\ Fixed /\ Only(a) /\ pc'[a] \in Leaving /\ k \in Slots
        /\ hand[a] = 0 /\ hand'[a] = table[k] /\ table'[k] = 0
        /\ \A i \in Slots : i # k => table'[i] = table[i]
        /\ UNCHANGED <<known, settled, released, proc>>
    BY Zenon, <1>4, SwapEffect
  <2> HIDE DEF k
  <2>2. \A n \in Mesh : Claimed(n) => Claimed(n)'
    BY Zenon, <1>1, <2>1 DEF Claimed, Only, Leaving
  <2>3. \A b \in Actors : b # a => hand'[b] = hand[b]
    BY Zenon, <2>1 DEF Only
  <2>4. \A i \in Slots : table'[i] # 0 => table'[i] \in known
    BY Zenon, <2>1 DEF KnownInv
  <2>5. \A b \in Actors : hand'[b] # 0 => hand'[b] \in known
    BY Zenon, <2>1, <2>3 DEF KnownInv
  <2>6. Slots' = Slots
    BY Zenon, <2>1, FixedFacts
  <2>7. ASSUME NEW p \in known, Seen(p) PROVE Seen(p)'
    <3>1. CASE \E i \in Slots : table[i] = p
      BY Zenon, <2>1, <2>6, <3>1 DEF Seen
    <3>2. CASE p \in released
      BY Zenon, <2>1, <3>2 DEF Seen
    <3>3. CASE \E b \in Actors : hand[b] = p
      BY Zenon, <1>1, <2>1, <2>3, <3>3 DEF Seen
    <3> QED BY Zenon, <2>7, <3>1, <3>2, <3>3 DEF Seen
  <2> QED BY Zenon, <1>1, <2>1, <2>2, <2>4, <2>5, <2>7, KnownFrame
<1>5. ASSUME NEW a \in Actors, KillHand(a) PROVE KnownInv'
  <2>1. /\ Fixed /\ Only(a) /\ pc'[a] = "sweep" /\ pc[a] = "kill" /\ hand'[a] = 0
        /\ \A p \in AllPids : p # hand[a] => proc'[p] = proc[p]
        /\ proc'[hand[a]] # "running"
        /\ UNCHANGED <<known, settled, released, table>>
    BY Zenon, <1>5, KillHandEffect
  <2>2. \A n \in Mesh : Claimed(n) => Claimed(n)'
    BY Zenon, <1>1, <2>1 DEF Claimed, Only
  <2>3. \A b \in Actors : b # a => hand'[b] = hand[b]
    BY Zenon, <2>1 DEF Only
  <2>4. \A i \in Slots : table'[i] # 0 => table'[i] \in known
    BY Zenon, <2>1 DEF KnownInv
  <2>5. \A b \in Actors : hand'[b] # 0 => hand'[b] \in known
    BY Zenon, <2>1, <2>3 DEF KnownInv
  <2>6. Slots' = Slots
    BY Zenon, <2>1, FixedFacts
  <2>7. ASSUME NEW p \in known, proc'[p] = "running" PROVE proc[p] = "running" /\ (Seen(p) => Seen(p)')
    <3>1. p # hand[a] /\ p \in AllPids
      BY Zenon, <1>1, <2>1, <2>7
    <3>2. proc[p] = "running"
      BY Zenon, <2>1, <2>7, <3>1
    <3>3. Seen(p) => Seen(p)'
      BY Zenon, <2>1, <2>3, <2>6, <3>1 DEF Seen
    <3> QED BY <3>2, <3>3
  <2> QED BY Zenon, <1>1, <2>1, <2>2, <2>4, <2>5, <2>7, KnownFrame
<1>6. ASSUME NEW n \in Mesh, Spawn(n) PROVE KnownInv'
  <2>1. /\ n \in Nodes /\ Fixed /\ Only(n) /\ pc[n] = "spawn"
        /\ UNCHANGED <<known, table, hand, released, settled>>
        /\ \A p \in AllPids : p # Pid(n) => proc'[p] = proc[p]
    BY Zenon, <1>6, SpawnEffect
  <2>2. Pid(n) \notin known
    BY Zenon, <2>1, Unknown DEF Claimed
  <2>3. \A m \in Mesh : Claimed(m) => Claimed(m)'
    BY Zenon, <1>1, <2>1 DEF Claimed, Only
  <2>4. \A p \in known : proc'[p] = proc[p]
    BY Zenon, <1>1, <2>1, <2>2
  <2> QED BY Zenon, <1>1, <2>1, <2>3, <2>4, KnownSame
<1>7. ASSUME NEW n \in Mesh, OwnVmm(n) PROVE KnownInv'
  <2> DEFINE k == at[n]
  <2>1. /\ n \in Nodes /\ Fixed /\ Only(n) /\ pc[n] = "own" /\ k \in Slots
        /\ UNCHANGED <<hand, released, settled, proc>>
        /\ \/ /\ table[k] = 0 /\ table'[k] = Pid(n) /\ pc'[n] = "sock"
              /\ \A i \in Slots : i # k => table'[i] = table[i]
              /\ known' = known \cup {Pid(n)}
           \/ pc'[n] = "own" /\ UNCHANGED <<table, known>>
    BY Zenon, <1>7, OwnEffect
  <2> HIDE DEF k
  <2>2. \A m \in Mesh : Claimed(m) => Claimed(m)'
    BY Zenon, <1>1, <2>1 DEF Claimed, Only
  <2>3. CASE pc'[n] = "own" /\ UNCHANGED <<table, known>>
    BY Zenon, <1>1, <2>1, <2>2, <2>3, KnownSame
  <2>4. CASE /\ table[k] = 0 /\ table'[k] = Pid(n) /\ pc'[n] = "sock"
             /\ \A i \in Slots : i # k => table'[i] = table[i]
             /\ known' = known \cup {Pid(n)}
    <3>1. Mesh' = Mesh /\ Slots' = Slots /\ Past' = Past /\ \A m : Pid(m)' = Pid(m)
      BY Zenon, <2>1, FixedFacts
    <3>2. Claimed(n)'
      BY Zenon, <2>4 DEF Claimed
    <3>3. ASSUME NEW p \in known' PROVE p \in Past \/ \E m \in Mesh : p = Pid(m) /\ Claimed(m)'
      <4>1. CASE p = Pid(n)
        BY <3>2, <4>1
      <4>2. CASE p \in known
        BY <2>2, <4>2, Zenon DEF KnownInv
      <4> QED BY Zenon, <2>4, <4>1, <4>2
    <3>4. \A i \in Slots : table'[i] # 0 => table'[i] \in known'
      BY Zenon, <2>4 DEF KnownInv
    <3>5. \A a \in Actors : hand'[a] # 0 => hand'[a] \in known'
      BY Zenon, <2>1, <2>4 DEF KnownInv
    <3>6. settled' \subseteq known'
      BY Zenon, <1>1, <2>1, <2>4
    <3>7. ASSUME NEW p \in known', proc'[p] = "running" PROVE Seen(p)'
      <4>1. CASE p = Pid(n)
        BY Zenon, <2>1, <2>4, <3>1, <4>1 DEF Seen
      <4>2. CASE p \in known
        <5>1. Seen(p)
          BY Zenon, <2>1, <3>7, <4>2, SeenTracked DEF KnownInv
        <5>2. p # 0
          BY <1>1, <4>2
        <5> QED BY Zenon, <2>1, <2>4, <3>1, <5>1, <5>2 DEF Seen
      <4> QED BY <2>4, <4>1, <4>2
    <3>8. Tracked'
      BY Zenon, <3>7, SeenTracked
    <3> QED BY <3>1, <3>3, <3>4, <3>5, <3>6, <3>8, Zenon DEF KnownInv
  <2> QED BY Zenon, <2>1, <2>3, <2>4
<1>8. ASSUME NEW n \in Mesh, SeeSock(n) \/ Load(n) PROVE KnownInv'
  <2>1. /\ n \in Nodes /\ Fixed /\ Only(n) /\ pc'[n] \in {"load", "done"}
        /\ UNCHANGED <<known, table, hand, released, settled, proc>>
    BY Zenon, <1>8, ThreadEffect
  <2>2. \A m \in Mesh : Claimed(m) => Claimed(m)'
    BY Zenon, <1>1, <2>1 DEF Claimed, Only
  <2> QED BY Zenon, <1>1, <2>1, <2>2, KnownSame
<1>9. ASSUME NEW n \in Mesh, BindSock(n) PROVE KnownInv'
  BY Zenon, <1>1, <1>9, BindEffect, KnownSame DEF Claimed
<1>10. ASSUME NEW p \in Pids, VmmDies(p) PROVE KnownInv'
  <2>1. \A q \in known : proc'[q] = "running" => proc[q] = "running"
    BY Zenon, <1>1, <1>10, VmmDiesEffect
  <2> QED BY Zenon, <1>1, <1>10, <2>1, VmmDiesEffect, KnownSame DEF Claimed
<1>11. ASSUME JoinThreads \/ ProbeAnswers \/ WriteCommits \/ JoinPokes \/ NextChild PROVE KnownInv'
  <2>1. Fixed /\ Only(Main) /\ UNCHANGED <<known, table, hand, released, settled, proc>>
    BY Zenon, <1>11, JoinEffect, JoinPokesEffect, NextChildEffect
  <2>2. \A m \in Mesh : Claimed(m) => Claimed(m)'
    BY Zenon, <1>1, <2>1, ActorFacts DEF Claimed, Only
  <2> QED BY <1>1, <2>1, <2>2, KnownSame
<1>12. ASSUME KillWait PROVE KnownInv'
  <2>1. /\ Fixed /\ Only(Main) /\ UNCHANGED <<known, table, hand, released, settled>>
        /\ \A p \in AllPids : proc'[p] = "running" => proc[p] = "running"
    BY Zenon, <1>12, KillWaitEffect
  <2>2. \A m \in Mesh : Claimed(m) => Claimed(m)'
    BY Zenon, <1>1, <2>1, ActorFacts DEF Claimed, Only
  <2> QED BY <1>1, <2>1, <2>2, KnownSame
<1>13. ASSUME DisownVmm PROVE KnownInv'
  <2> DEFINE k == at[Main]
  <2>1. /\ Fixed /\ UNCHANGED <<pc, hand, known, settled, proc>> /\ k \in Slots
        /\ \A i \in Slots : table'[i] = IF i = k /\ table[i] = Pid(child) THEN 0 ELSE table[i]
        /\ released' = IF verb = "resume" /\ table[k] = Pid(child)
                       THEN released \cup {Pid(child)} ELSE released
        /\ pc[Main] = "disown" /\ child \in Mesh
    BY Zenon, <1>13, DisownEffect DEF MainAt
  <2> HIDE DEF k
  <2>2. \A m \in Mesh : Claimed(m) => Claimed(m)'
    BY Zenon, <2>1 DEF Claimed
  <2>3. \A i \in Slots : table'[i] # 0 => table'[i] \in known
    BY Zenon, <2>1 DEF KnownInv
  <2>4. \A a \in Actors : hand'[a] # 0 => hand'[a] \in known
    BY Zenon, <2>1 DEF KnownInv
  <2>5. verb = "cycle" => proc[Pid(child)] = "reaped"
    BY Zenon, <2>1 DEF DoneInv, Done, Ending
  <2>6. Slots' = Slots /\ verb \in {"resume", "cycle"}
    BY Zenon, <2>1, FixedFacts DEF TypeInv
  <2>7. ASSUME NEW p \in known, proc[p] = "running", Seen(p) PROVE Seen(p)'
    <3>1. CASE p = Pid(child) /\ \E i \in Slots : table[i] = p
      <4>1. verb = "resume"
        BY <2>5, <2>6, <2>7, <3>1
      <4>2. CASE table[k] = p
        BY Zenon, <2>1, <3>1, <4>1, <4>2 DEF Seen
      <4>3. CASE table[k] # p
        BY Zenon, <2>1, <2>6, <3>1, <4>3 DEF Seen
      <4> QED BY Zenon, <4>2, <4>3
    <3>2. CASE p # Pid(child) /\ \E i \in Slots : table[i] = p
      BY Zenon, <2>1, <2>6, <3>2 DEF Seen
    <3>3. CASE p \in released
      BY Zenon, <2>1, <3>3 DEF Seen
    <3>4. CASE \E a \in Actors : hand[a] = p
      BY Zenon, <2>1, <3>4 DEF Seen
    <3> QED BY Zenon, <2>7, <3>1, <3>2, <3>3, <3>4 DEF Seen
  <2> QED BY Zenon, <1>1, <2>1, <2>2, <2>3, <2>4, <2>7, KnownFrame
<1>14. ASSUME NextRound PROVE KnownInv'
  <2>1. /\ MainAt("disown") /\ at[Main] > slots /\ child = size /\ round' = round + 1
        /\ UNCHANGED <<size, slots, table, hand, proc, released, known, settled>>
        /\ Mesh' = Mesh /\ Slots' = Slots
    BY Zenon, <1>14, RoundEffect
  <2>2. ASSUME NEW p \in known PROVE p \in Past'
    <3>1. p \in Past \/ \E n \in Mesh : p = Pid(n)
      BY Zenon DEF KnownInv
    <3> QED BY Zenon, <1>1, <2>1, <3>1, RoundPasses
  <2>3. Tracked'
    BY Zenon, <2>1 DEF Tracked, KnownInv, Entered
  <2> QED BY Zenon, <2>1, <2>2, <2>3 DEF KnownInv
<1> QED
  BY <1>2, <1>3, <1>4, <1>5, <1>6, <1>7, <1>8, <1>9, <1>10, <1>11, <1>12, <1>13, <1>14, StepCases

------------------------------------------------------------------------------
(* VMMs of earlier rounds, and sockets.                                    *)

LEMMA LifeFrame ==
    ASSUME TypeInv, LifeInv, Fixed,
           \A n \in Mesh : pc[n] # "spawn" => pc'[n] # "spawn",
           \A p \in Pids : \/ proc'[p] = proc[p]
                           \/ proc'[p] # "running" /\ proc[p] # "none"
                           \/ \E n \in Mesh : p = Pid(n) /\ pc'[n] # "spawn"
    PROVE  LifeInv'
<1>1. Mesh' = Mesh /\ Past' = Past /\ \A n : Pid(n)' = Pid(n)
  BY Zenon, FixedFacts
<1>2. \A n \in Mesh : Pid(n) \notin Past
  BY Zenon, MeshNodes, PidFacts DEF TypeInv
<1>3. ASSUME NEW p \in Pids PROVE IF p \in Past THEN proc'[p] # "running"
        ELSE proc'[p] # "none" => \E n \in Mesh : p = Pid(n) /\ pc'[n] # "spawn"
  BY Zenon, <1>2 DEF LifeInv
<1> QED BY <1>1, <1>3, Zenon DEF LifeInv

LEMMA LifeStep ==
    TypeInv /\ PhaseInv /\ PlaceInv /\ DoneInv /\ LifeInv /\ [ResumeNext]_vars => LifeInv'
<1> SUFFICES ASSUME TypeInv, PhaseInv, PlaceInv, DoneInv, LifeInv, [ResumeNext]_vars PROVE LifeInv'
  OBVIOUS
<1>1. Mesh \subseteq Nodes /\ Nodes \subseteq Actors /\ Pids \subseteq AllPids
  BY Zenon, MeshNodes, ActorFacts, PidsBelow DEF TypeInv
<1>2. CASE Still
  BY Zenon, <1>2 DEF Still, LifeInv, Past, Mesh, Pid
<1>3. ASSUME NEW a \in Actors, Leaves(a) PROVE LifeInv'
  <2>1. Fixed /\ Only(a) /\ UNCHANGED proc /\ pc'[a] = "sweep"
    BY Zenon, <1>3, DieEffect DEF Leaves
  <2>2. \A n \in Mesh : pc[n] # "spawn" => pc'[n] # "spawn"
    BY Zenon, <1>1, <2>1 DEF Only
  <2> QED BY Zenon, <2>1, <2>2, LifeFrame
<1>4. ASSUME NEW a \in Actors, Swap(a) PROVE LifeInv'
  <2>1. Fixed /\ Only(a) /\ UNCHANGED proc /\ pc'[a] \in Leaving
    BY Zenon, <1>4, SwapEffect
  <2>2. \A n \in Mesh : pc[n] # "spawn" => pc'[n] # "spawn"
    BY <1>1, <2>1 DEF Only, Leaving
  <2> QED BY Zenon, <2>1, <2>2, LifeFrame
<1>5. ASSUME NEW a \in Actors, KillHand(a) PROVE LifeInv'
  <2>1. /\ Fixed /\ Only(a) /\ pc'[a] = "sweep" /\ hand[a] # 0
        /\ \A p \in AllPids : p # hand[a] => proc'[p] = proc[p]
    BY Zenon, <1>5, KillHandEffect
  <2>2. PICK n \in Mesh : hand[a] = Pid(n) /\ Claimed(n)
    BY Zenon, <2>1 DEF PlaceInv
  <2>3. \A m \in Mesh : pc[m] # "spawn" => pc'[m] # "spawn"
    BY Zenon, <1>1, <2>1 DEF Only
  <2>4. pc'[n] # "spawn"
    BY Zenon, <2>2, <2>3 DEF Claimed
  <2>5. \A p \in Pids : proc'[p] = proc[p] \/ \E m \in Mesh : p = Pid(m) /\ pc'[m] # "spawn"
    BY Zenon, <1>1, <2>1, <2>2, <2>4
  <2> QED BY Zenon, <2>1, <2>3, <2>5, LifeFrame
<1>6. ASSUME NEW n \in Mesh, Spawn(n) PROVE LifeInv'
  <2>1. /\ Fixed /\ Only(n) /\ pc'[n] = "own"
        /\ \A p \in AllPids : p # Pid(n) => proc'[p] = proc[p]
    BY Zenon, <1>6, SpawnEffect
  <2>2. \A m \in Mesh : pc[m] # "spawn" => pc'[m] # "spawn"
    BY Zenon, <1>1, <2>1 DEF Only
  <2>3. \A p \in Pids : proc'[p] = proc[p] \/ \E m \in Mesh : p = Pid(m) /\ pc'[m] # "spawn"
    BY Zenon, <1>1, <2>1
  <2> QED BY Zenon, <2>1, <2>2, <2>3, LifeFrame
<1>7. ASSUME NEW n \in Mesh, OwnVmm(n) \/ SeeSock(n) \/ Load(n) PROVE LifeInv'
  <2>1. Fixed /\ Only(n) /\ UNCHANGED proc /\ pc'[n] \in {"own", "sock", "load", "done"}
    BY Zenon, <1>7, OwnEffect, ThreadEffect
  <2>2. \A m \in Mesh : pc[m] # "spawn" => pc'[m] # "spawn"
    BY Zenon, <1>1, <2>1 DEF Only
  <2> QED BY Zenon, <2>1, <2>2, LifeFrame
<1>8. ASSUME NEW n \in Mesh, BindSock(n) PROVE LifeInv'
  BY Zenon, <1>8, BindEffect, LifeFrame
<1>9. ASSUME NEW p \in Pids, VmmDies(p) PROVE LifeInv'
  <2>1. \A q \in Pids : proc'[q] = proc[q] \/ (proc'[q] # "running" /\ proc[q] # "none")
    BY Zenon, <1>1, <1>9, VmmDiesEffect
  <2> QED BY Zenon, <1>9, <2>1, VmmDiesEffect, LifeFrame
<1>10. ASSUME JoinThreads \/ ProbeAnswers \/ WriteCommits \/ JoinPokes \/ NextChild \/ DisownVmm
       PROVE  LifeInv'
  <2>1. Fixed /\ Only(Main) /\ UNCHANGED proc
    BY Zenon, <1>10, JoinEffect, JoinPokesEffect, NextChildEffect, DisownEffect
  <2>2. \A m \in Mesh : pc[m] # "spawn" => pc'[m] # "spawn"
    BY <1>1, <2>1, ActorFacts DEF Only
  <2> QED BY Zenon, <2>1, <2>2, LifeFrame
<1>11. ASSUME KillWait PROVE LifeInv'
  <2>1. /\ Fixed /\ Only(Main) /\ pc[Main] = "killwait" /\ child \in Mesh
        /\ \A p \in AllPids : p # Pid(child) => proc'[p] = proc[p]
    BY Zenon, <1>11, KillWaitEffect DEF MainAt
  <2>2. \A m \in Mesh : pc[m] # "spawn" => pc'[m] # "spawn"
    BY Zenon, <1>1, <2>1, ActorFacts DEF Only
  <2>3. pc'[child] # "spawn"
    BY Zenon, <2>1, <2>2 DEF PhaseInv
  <2>4. \A p \in Pids : proc'[p] = proc[p] \/ \E m \in Mesh : p = Pid(m) /\ pc'[m] # "spawn"
    BY Zenon, <1>1, <2>1, <2>3
  <2> QED BY Zenon, <2>1, <2>2, <2>4, LifeFrame
<1>12. ASSUME NextRound PROVE LifeInv'
  <2>1. /\ MainAt("disown") /\ child = size /\ verb = "cycle" /\ round' = round + 1
        /\ UNCHANGED proc
    BY Zenon, <1>12, RoundEffect
  <2>2. \A n \in Mesh : proc[Pid(n)] = "reaped"
    <3>1. \A n \in Mesh : n < child \/ n = child
      BY <2>1 DEF Mesh, TypeInv
    <3>2. \A n \in Mesh : Done(n)
      BY <2>1, <3>1 DEF MainAt, Done, Ending
    <3> QED BY Zenon, <2>1, <3>2 DEF DoneInv
  <2>3. \A p \in Pids : proc[p] # "running"
    BY <2>2 DEF LifeInv
  <2>4. ASSUME NEW p \in Pids, p \notin Past' PROVE proc[p] = "none"
    <3>1. (\A n \in Nodes : Pid(n) \in Past') /\ Past \subseteq Past'
      BY Zenon, <2>1, RoundPasses
    <3>2. p \notin Past /\ \A n \in Mesh : p # Pid(n)
      BY Zenon, <1>1, <2>4, <3>1
    <3> QED BY <3>2 DEF LifeInv
  <2> QED BY <2>1, <2>3, <2>4 DEF LifeInv
<1> QED
  BY <1>2, <1>3, <1>4, <1>5, <1>6, <1>7, <1>8, <1>9, <1>10, <1>11, <1>12, StepCases

LEMMA SockStep == TypeInv /\ PhaseInv /\ SockInv /\ [ResumeNext]_vars => SockInv'
<1> SUFFICES ASSUME TypeInv, PhaseInv, SockInv, [ResumeNext]_vars PROVE SockInv'
  OBVIOUS
<1> DEFINE Up == {"own", "sock", "load", "done"}
<1>1. Mesh \subseteq Nodes /\ Nodes \subseteq Actors
  BY MeshNodes, ActorFacts DEF TypeInv
<1>2. ASSUME Fixed,
             \A n \in Mesh \ stuck : /\ pc'[n] \in Up => sock'[n] \in {0, Pid(n)}
                                     /\ pc'[n] = "done" => loaded'[n] = Pid(n)
      PROVE  SockInv'
  BY <1>2, FixedFacts, Zenon DEF SockInv, Fixed
<1>3. ASSUME Fixed, UNCHANGED loaded,
             \A n \in Mesh : (pc'[n] \in Up => pc'[n] = pc[n]) /\ sock'[n] \in {0, sock[n]}
      PROVE  SockInv'
  BY Zenon, <1>2, <1>3 DEF SockInv
<1>4. CASE Still
  <2>1. Fixed /\ UNCHANGED <<loaded, pc, sock>>
    BY <1>4 DEF Still, Fixed
  <2> QED BY Zenon, <1>3, <2>1
<1>5. ASSUME NEW a \in Actors, Leaves(a) \/ Swap(a) \/ KillHand(a) PROVE SockInv'
  <2>1. Fixed /\ Only(a) /\ UNCHANGED <<loaded, sock>> /\ pc'[a] \in Leaving
    BY Zenon, <1>5, DieEffect, SwapEffect, KillHandEffect DEF Leaves, Leaving
  <2> QED BY Zenon, <1>1, <1>3, <2>1 DEF Only, Leaving
<1>6. ASSUME NEW n \in Mesh, Spawn(n) PROVE SockInv'
  <2>1. /\ Fixed /\ Only(n) /\ UNCHANGED loaded /\ pc'[n] = "own" /\ (n \notin stuck => sock'[n] = 0)
        /\ \A m \in Nodes : m # n => sock'[m] = sock[m]
    BY Zenon, <1>6, SpawnEffect
  <2> QED BY Zenon, <1>1, <1>2, <2>1 DEF Only, SockInv
<1>7. ASSUME NEW n \in Mesh, OwnVmm(n) PROVE SockInv'
  <2>1. Fixed /\ Only(n) /\ UNCHANGED <<loaded, sock>> /\ pc[n] = "own" /\ pc'[n] \in {"own", "sock"}
    BY Zenon, <1>7, OwnEffect
  <2> QED BY Zenon, <1>1, <1>2, <2>1 DEF Only, SockInv
<1>8. ASSUME NEW n \in Mesh, SeeSock(n) \/ Load(n) PROVE SockInv'
  <2>1. /\ Fixed /\ Only(n) /\ UNCHANGED sock /\ pc[n] \in {"sock", "load"}
        /\ pc'[n] = "done" => sock[n] # 0 /\ loaded'[n] = sock[n]
        /\ \A m \in Nodes : m # n => loaded'[m] = loaded[m]
    BY Zenon, <1>8, ThreadEffect
  <2> QED BY Zenon, <1>1, <1>2, <2>1 DEF Only, SockInv
<1>9. ASSUME NEW n \in Mesh, BindSock(n) PROVE SockInv'
  <2>1. /\ Fixed /\ UNCHANGED <<pc, loaded>> /\ sock'[n] = Pid(n)
        /\ \A m \in Nodes : m # n => sock'[m] = sock[m]
    BY Zenon, <1>9, BindEffect
  <2> QED BY Zenon, <1>1, <1>2, <2>1 DEF SockInv
<1>10. ASSUME NEW p \in Pids, VmmDies(p) PROVE SockInv'
  BY Zenon, <1>3, <1>10, VmmDiesEffect
<1>11. ASSUME JoinThreads \/ ProbeAnswers \/ WriteCommits \/ JoinPokes \/ NextChild \/ DisownVmm
              \/ KillWait
       PROVE  SockInv'
  <2>1. Fixed /\ Only(Main) /\ UNCHANGED loaded /\ \A n \in Nodes : sock'[n] \in {0, sock[n]}
    BY Zenon, <1>11, JoinEffect, JoinPokesEffect, NextChildEffect, DisownEffect, KillWaitEffect
  <2> QED BY Zenon, <1>1, <1>3, <2>1, ActorFacts DEF Only
<1>12. ASSUME NextRound PROVE SockInv'
  BY Zenon, <1>12, RoundEffect DEF SockInv
<1> QED
  BY <1>4, <1>5, <1>6, <1>7, <1>8, <1>9, <1>10, <1>11, <1>12, StepCases

------------------------------------------------------------------------------
(* Until somebody leaves.                                                  *)

\* No actor is back from leaving.
LEMMA SweepersGrow == TypeInv /\ PhaseInv /\ [ResumeNext]_vars => sweepers \subseteq sweepers'
<1> SUFFICES ASSUME TypeInv, PhaseInv, [ResumeNext]_vars PROVE sweepers \subseteq sweepers'
  OBVIOUS
<1>1. CASE Still
  BY <1>1 DEF Still
<1>2. ASSUME NEW a \in Actors, Leaves(a) \/ Swap(a) \/ KillHand(a) PROVE sweepers \subseteq sweepers'
  BY Zenon, <1>2, DieEffect, SwapEffect, KillHandEffect DEF Leaves
<1>3. ASSUME \E n \in Mesh : Spawn(n) \/ OwnVmm(n) \/ SeeSock(n) \/ Load(n) \/ BindSock(n)
      PROVE  sweepers' = sweepers
  BY Zenon, <1>3 DEF Spawn, OwnVmm, SeeSock, Load, BindSock
<1>4. ASSUME \/ JoinThreads \/ ProbeAnswers \/ WriteCommits \/ JoinPokes
             \/ KillWait \/ DisownVmm \/ NextChild \/ NextRound \/ (\E p \in Pids : VmmDies(p))
      PROVE  sweepers' = sweepers
  BY Zenon, <1>4 DEF JoinThreads, ProbeAnswers, WriteCommits, JoinPokes, KillWait, DisownVmm, NextChild,
              NextRound, VmmDies
<1> QED BY <1>1, <1>2, <1>3, <1>4, StepCases

Kept(n) == \/ \E i \in Slots : table[i] = Pid(n)
           \/ Pid(n) \in released
           \/ verb = "cycle" /\ Done(n)

LEMMA HeldFrame ==
    ASSUME TypeInv, HeldInv, Fixed, sweepers = {},
           \A n \in Mesh : pc'[n] \in {"sock", "load", "done"} =>
             Kept(n)' \/ (pc[n] \in {"sock", "load", "done"} /\ (Kept(n) => Kept(n)')),
           verb = "resume" => \A p \in Pids : proc[p] # "reaped" => proc'[p] # "reaped"
    PROVE  HeldInv'
<1>1. Mesh' = Mesh /\ verb' = verb
  BY Zenon, FixedFacts
<1>2. \A n \in Mesh : pc[n] \in {"sock", "load", "done"} => Kept(n)
  BY Zenon DEF HeldInv, Kept
<1>3. \A n \in Mesh : pc'[n] \in {"sock", "load", "done"} => Kept(n)'
  BY <1>2
<1>4. verb = "resume" => \A p \in Pids : proc'[p] # "reaped"
  BY Zenon DEF HeldInv
<1> QED BY <1>1, <1>3, <1>4, Zenon DEF HeldInv, Kept

\* The same, when the table and the main thread are left alone.
LEMMA HeldSame ==
    ASSUME TypeInv, HeldInv, Fixed, sweepers = {},
           UNCHANGED <<table, released, child>>, Ending => pc'[Main] = pc[Main],
           \A n \in Mesh : pc'[n] \in {"sock", "load", "done"} => pc[n] \in {"sock", "load", "done"},
           \A p \in Pids : proc[p] # "reaped" => proc'[p] # "reaped"
    PROVE  HeldInv'
<1>1. Slots' = Slots /\ verb' = verb /\ \A n : Pid(n)' = Pid(n)
  BY Zenon, FixedFacts
<1>2. \A n \in Mesh : Done(n) => Done(n)'
  BY DEF Done, Ending
<1>3. \A n \in Mesh : Kept(n) => Kept(n)'
  BY Zenon, <1>1, <1>2 DEF Kept
<1> QED BY Zenon, <1>3, HeldFrame

LEMMA HeldStep ==
    TypeInv /\ PhaseInv /\ PlaceInv /\ HeldInv /\ [ResumeNext]_vars => HeldInv'
<1> SUFFICES ASSUME TypeInv, PhaseInv, PlaceInv, HeldInv, [ResumeNext]_vars PROVE HeldInv'
  OBVIOUS
<1>1. /\ Mesh \subseteq Nodes /\ Nodes \subseteq Actors /\ Pids \subseteq AllPids
      /\ \A n \in Nodes : Pid(n) # 0 /\ Pid(n) \in Pids
      /\ \A n \in Mesh : n \in Int /\ child \in Int
  BY Zenon, Numbers, MeshNodes, ActorFacts, PidsBelow, PidFacts DEF TypeInv
<1>2. CASE sweepers # {}
  <2>1. sweepers' # {}
    BY <1>2, SweepersGrow
  <2> QED BY Zenon, <2>1 DEF HeldInv
<1>3. ASSUME NEW a \in Actors, Leaves(a) \/ Swap(a) \/ KillHand(a) PROVE HeldInv'
  <2>1. sweepers' # {}
    BY Zenon, <1>3, DieEffect, SwapEffect, KillHandEffect DEF Leaves
  <2> QED BY Zenon, <2>1 DEF HeldInv
<1>4. ASSUME sweepers = {}, Still PROVE HeldInv'
  <2>1. Fixed /\ UNCHANGED <<table, released, child, pc, proc>>
    BY <1>4 DEF Still, Fixed
  <2> QED BY Zenon, <1>4, <2>1, HeldSame
<1>5. ASSUME sweepers = {}, NEW n \in Mesh, Spawn(n) PROVE HeldInv'
  <2>1. /\ Fixed /\ Only(n) /\ pc'[n] = "own" /\ UNCHANGED <<table, released, child>>
        /\ pc[Main] = "join" /\ proc'[Pid(n)] = "running"
        /\ \A p \in AllPids : p # Pid(n) => proc'[p] = proc[p]
    BY Zenon, <1>5, SpawnEffect
  <2>2. \A m \in Mesh : pc'[m] \in {"sock", "load", "done"} => pc[m] \in {"sock", "load", "done"}
    BY Zenon, <1>1, <2>1 DEF Only
  <2>3. \A p \in Pids : proc[p] # "reaped" => proc'[p] # "reaped"
    BY <1>1, <2>1
  <2> QED BY Zenon, <1>5, <2>1, <2>2, <2>3, HeldSame DEF Ending
<1>6. ASSUME sweepers = {}, NEW n \in Mesh, OwnVmm(n) PROVE HeldInv'
  <2> DEFINE k == at[n]
  <2>1. /\ n \in Nodes /\ Fixed /\ Only(n) /\ pc[n] = "own" /\ k \in Slots
        /\ pc[Main] = "join" /\ UNCHANGED <<released, child, proc>>
        /\ \/ /\ table[k] = 0 /\ table'[k] = Pid(n) /\ pc'[n] = "sock"
              /\ \A i \in Slots : i # k => table'[i] = table[i]
           \/ pc'[n] = "own" /\ UNCHANGED table
    BY Zenon, <1>6, OwnEffect
  <2> HIDE DEF k
  <2>2. Slots' = Slots /\ verb' = verb /\ \A m : Pid(m)' = Pid(m)
    BY Zenon, <2>1, FixedFacts
  <2>3. \A m \in Mesh : m # n => pc'[m] = pc[m]
    BY Zenon, <1>1, <2>1 DEF Only
  <2>4. ~Ending
    BY Zenon, <2>1 DEF Ending
  <2>5. CASE pc'[n] = "own" /\ UNCHANGED table
    BY Zenon, <1>6, <2>1, <2>3, <2>4, <2>5, HeldSame
  <2>6. CASE /\ table[k] = 0 /\ table'[k] = Pid(n) /\ pc'[n] = "sock"
             /\ \A i \in Slots : i # k => table'[i] = table[i]
    <3>1. \A m \in Mesh : ~Done(m)
      BY <2>4 DEF Done
    <3>2. Kept(n)'
      BY Zenon, <2>1, <2>2, <2>6 DEF Kept
    <3>3. ASSUME NEW m \in Mesh, Kept(m) PROVE Kept(m)'
      <4>1. Pid(m) # 0
        BY <1>1
      <4> QED BY Zenon, <2>1, <2>2, <2>6, <3>1, <3>3, <4>1 DEF Kept
    <3> QED BY Zenon, <1>6, <2>1, <2>3, <3>2, <3>3, HeldFrame
  <2> QED BY Zenon, <2>1, <2>5, <2>6
<1>7. ASSUME sweepers = {}, NEW n \in Mesh, SeeSock(n) \/ Load(n) PROVE HeldInv'
  <2>1. /\ Fixed /\ Only(n) /\ UNCHANGED <<table, released, child, proc>>
        /\ pc[Main] = "join" /\ pc[n] \in {"sock", "load"}
    BY Zenon, <1>7, ThreadEffect
  <2>2. \A m \in Mesh : pc'[m] \in {"sock", "load", "done"} => pc[m] \in {"sock", "load", "done"}
    BY Zenon, <1>1, <2>1 DEF Only
  <2> QED BY Zenon, <1>7, <2>1, <2>2, HeldSame DEF Ending
<1>8. ASSUME sweepers = {}, NEW n \in Mesh, BindSock(n) PROVE HeldInv'
  BY Zenon, <1>8, BindEffect, HeldSame
<1>9. ASSUME sweepers = {}, NEW p \in Pids, VmmDies(p) PROVE HeldInv'
  <2>1. \A q \in Pids : proc[q] # "reaped" => proc'[q] # "reaped"
    BY Zenon, <1>1, <1>9, VmmDiesEffect
  <2> QED BY Zenon, <1>9, <2>1, VmmDiesEffect, HeldSame
<1>10. ASSUME sweepers = {}, JoinThreads \/ ProbeAnswers \/ WriteCommits PROVE HeldInv'
  <2>1. \A m \in Mesh : pc'[m] = pc[m]
    BY Zenon, <1>1, <1>10, JoinEffect, ActorFacts DEF Only
  <2>2. ~Ending
    BY Zenon, <1>10, JoinEffect DEF Ending
  <2> QED BY Zenon, <1>10, <2>1, <2>2, JoinEffect, HeldSame
<1>11. ASSUME sweepers = {}, JoinPokes \/ KillWait \/ NextChild PROVE HeldInv'
  <2>1. Fixed /\ Only(Main) /\ UNCHANGED <<table, released>>
    BY Zenon, <1>11, JoinPokesEffect, KillWaitEffect, NextChildEffect
  <2>2. Slots' = Slots /\ verb' = verb /\ \A m : Pid(m)' = Pid(m)
    BY <2>1, FixedFacts
  <2>3. verb = "resume" => UNCHANGED proc
    BY Zenon, <1>11, JoinPokesEffect, KillWaitEffect, NextChildEffect DEF PhaseInv, MainAt
  <2>4. ASSUME NEW n \in Mesh, Done(n), verb = "cycle" PROVE Done(n)'
    <3>1. CASE JoinPokes
      BY Zenon, <2>4, <3>1, JoinPokesEffect DEF Done, Ending, MainAt
    <3>2. CASE KillWait
      BY Zenon, <2>4, <3>2, KillWaitEffect DEF Done, Ending, MainAt
    <3>3. CASE NextChild
      <4>1. pc'[Main] = "killwait" /\ child' = child + 1
        BY Zenon, <2>4, <3>3, NextChildEffect
      <4>2. n < child \/ n = child
        BY <2>4 DEF Done
      <4>3. n < child + 1
        BY <1>1, <4>2
      <4> QED BY <4>1, <4>3 DEF Done, Ending
    <3> QED BY <1>11, <3>1, <3>2, <3>3
  <2>5. \A n \in Mesh : Kept(n) => Kept(n)'
    BY <2>1, <2>2, <2>4 DEF Kept
  <2>6. \A m \in Mesh : pc'[m] = pc[m]
    BY Zenon, <1>1, <2>1, ActorFacts DEF Only
  <2> QED BY Zenon, <1>11, <2>1, <2>3, <2>5, <2>6, HeldFrame
<1>12. ASSUME sweepers = {}, DisownVmm PROVE HeldInv'
  <2> DEFINE k == at[Main]
  <2>1. /\ Fixed /\ UNCHANGED <<pc, proc, child>> /\ k \in Slots
        /\ \A i \in Slots : table'[i] = IF i = k /\ table[i] = Pid(child) THEN 0 ELSE table[i]
        /\ released' = IF verb = "resume" /\ table[k] = Pid(child)
                       THEN released \cup {Pid(child)} ELSE released
        /\ pc[Main] = "disown" /\ child \in Mesh
    BY Zenon, <1>12, DisownEffect DEF MainAt
  <2> HIDE DEF k
  <2>2. Slots' = Slots /\ verb' = verb /\ \A m : Pid(m)' = Pid(m)
    BY Zenon, <2>1, FixedFacts
  <2>3. \A n \in Mesh : Done(n) => Done(n)'
    BY Zenon, <2>1 DEF Done, Ending
  <2>4. \A n \in Mesh : n = child => Done(n)'
    BY Zenon, <2>1 DEF Done, Ending
  <2>5. ASSUME NEW n \in Mesh, Kept(n) PROVE Kept(n)'
    <3>1. CASE \E i \in Slots : table[i] = Pid(n)
      <4>1. PICK i \in Slots : table[i] = Pid(n)
        BY <3>1
      <4>2. CASE table'[i] = table[i]
        BY Zenon, <2>2, <4>1, <4>2 DEF Kept
      <4>3. CASE table'[i] # table[i]
        <5>1. i = k /\ table[k] = Pid(child) /\ n = child
          BY Zenon, <1>1, <2>1, <4>1, <4>3, PidFacts DEF TypeInv
        <5>2. verb = "resume" => Pid(n) \in released'
          BY Zenon, <2>1, <5>1
        <5>3. verb \in {"resume", "cycle"}
          BY DEF TypeInv
        <5> QED BY Zenon, <2>2, <2>4, <5>1, <5>2, <5>3 DEF Kept
      <4> QED BY Zenon, <4>2, <4>3
    <3>2. CASE Pid(n) \in released
      BY Zenon, <2>1, <2>2, <3>2 DEF Kept
    <3>3. CASE verb = "cycle" /\ Done(n)
      BY <2>2, <2>3, <3>3 DEF Kept
    <3> QED BY <2>5, <3>1, <3>2, <3>3 DEF Kept
  <2> QED BY Zenon, <1>12, <2>1, <2>5, HeldFrame
<1>13. ASSUME NextRound PROVE HeldInv'
  <2>1. (\A n \in Mesh : pc'[n] = "spawn") /\ Mesh' = Mesh /\ verb = "cycle" /\ verb' = verb
    BY Zenon, <1>13, RoundEffect
  <2> QED BY Zenon, <2>1 DEF HeldInv
<1> QED
  BY Zenon, <1>2, <1>3, <1>4, <1>5, <1>6, <1>7, <1>8, <1>9, <1>10, <1>11, <1>12, <1>13, StepCases

------------------------------------------------------------------------------
(* Reaped pids.                                                            *)

\* Nothing more is reaped, and the main thread stays while it takes out a VMM.
LEMMA ReapFrame ==
    ASSUME TypeInv, ReapInv, Fixed, UNCHANGED stray, sweepers \subseteq sweepers',
           \A i \in Slots : table'[i] \in {table[i], 0},
           \A a \in Actors : hand'[a] \in {hand[a], 0},
           \A p \in Pids : proc'[p] = "reaped" => proc[p] = "reaped",
           \A n \in Mesh : pc'[n] = "own" => pc[n] = "own" \/ proc'[Pid(n)] # "reaped",
           pc[Main] = "disown" => pc'[Main] = "disown" /\ child' = child
    PROVE  ReapInv'
<1>1. /\ Mesh' = Mesh /\ Slots' = Slots /\ verb' = verb /\ \A n : Pid(n)' = Pid(n)
      /\ pc[Main] = "disown" => Pid(child)' = Pid(child)
  BY Zenon, FixedFacts DEF Pid
<1>2. \A n \in Mesh : Pid(n) \in Pids
  BY Zenon, MeshNodes, PidFacts DEF TypeInv
<1>3. \A n \in Mesh : pc'[n] = "own" => proc'[Pid(n)] # "reaped"
  BY Zenon, <1>2 DEF ReapInv
<1>4. ASSUME NEW i \in Slots, table'[i] # 0, proc'[table'[i]] = "reaped"
      PROVE  verb = "cycle" /\ pc[Main] = "disown" /\ table'[i] = Pid(child)
  <2>1. table'[i] = table[i] /\ table[i] \in Pids
    BY Zenon, <1>4 DEF TypeInv
  <2> QED BY Zenon, <1>4, <2>1 DEF ReapInv
<1>5. ASSUME NEW a \in Actors, hand'[a] # 0, proc'[hand'[a]] = "reaped"
      PROVE  verb = "cycle" /\ pc[Main] = "disown" /\ hand'[a] = Pid(child)
  <2>1. hand'[a] = hand[a] /\ hand[a] \in Pids
    BY Zenon, <1>5 DEF TypeInv
  <2> QED BY Zenon, <1>5, <2>1 DEF ReapInv
<1>6. NoStrayKill'
  BY Zenon, <1>1 DEF ReapInv, NoStrayKill
<1> QED BY <1>1, <1>3, <1>4, <1>5, <1>6, Zenon DEF ReapInv

\* Nobody is about to signal a pid once the main thread is past the joins and
\* no signal has come.
LEMMA NoStrayYet ==
    ASSUME TypeInv, PhaseInv, ReapInv, NEW s, MainAt(s), s \notin Leaving \cup {"join"}
    PROVE  ~stray
<1>1. Handler \notin sweepers
  BY Zenon, Quiet
<1> QED BY <1>1, Zenon DEF ReapInv, NoStrayKill

LEMMA ReapStep ==
    TypeInv /\ PhaseInv /\ PlaceInv /\ DoneInv /\ HeldInv /\ ReapInv /\ [ResumeNext]_vars => ReapInv'
<1> SUFFICES ASSUME TypeInv, PhaseInv, PlaceInv, DoneInv, HeldInv, ReapInv, [ResumeNext]_vars
             PROVE  ReapInv'
  OBVIOUS
<1>1. /\ Mesh \subseteq Nodes /\ Nodes \subseteq Actors /\ Pids \subseteq AllPids
      /\ \A n \in Nodes : Pid(n) # 0 /\ Pid(n) \in Pids
      /\ \A n, m \in Nodes : Pid(n) = Pid(m) => n = m
  BY Zenon, MeshNodes, ActorFacts, PidsBelow, PidFacts DEF TypeInv
<1>2. CASE Still
  <2>1. Fixed /\ UNCHANGED <<stray, sweepers, table, hand, proc, pc, child>>
    BY Zenon, <1>2 DEF Still, Fixed
  <2> QED BY Zenon, <2>1, ReapFrame
<1>3. ASSUME NEW a \in Actors, Leaves(a) PROVE ReapInv'
  <2>1. /\ Fixed /\ Only(a) /\ pc'[a] = "sweep" /\ UNCHANGED <<stray, table, hand, proc, child>>
        /\ sweepers \subseteq sweepers' /\ (a = Main => pc[Main] # "disown")
    BY Zenon, <1>3, DieEffect DEF Leaves
  <2>2. pc[Main] = "disown" => pc'[Main] = "disown"
    BY Zenon, <2>1, ActorFacts DEF Only
  <2>3. \A n \in Mesh : pc'[n] = "own" => pc[n] = "own"
    BY Zenon, <1>1, <2>1 DEF Only
  <2> QED BY Zenon, <2>1, <2>2, <2>3, ReapFrame
<1>4. ASSUME NEW a \in Actors, Swap(a) PROVE ReapInv'
  <2> DEFINE k == at[a]
  <2>1. /\ Fixed /\ Only(a) /\ pc[a] = "sweep" /\ pc'[a] \in Leaving /\ k \in Slots
        /\ hand'[a] = table[k] /\ table'[k] = 0
        /\ \A i \in Slots : i # k => table'[i] = table[i]
        /\ UNCHANGED <<stray, sweepers, proc, child>>
    BY Zenon, <1>4, SwapEffect
  <2> HIDE DEF k
  <2>2. /\ Mesh' = Mesh /\ Slots' = Slots /\ verb' = verb /\ \A n : Pid(n)' = Pid(n)
        /\ Pid(child)' = Pid(child)
    BY Zenon, <2>1, FixedFacts DEF Pid
  <2>3. pc[Main] = "disown" => pc'[Main] = "disown"
    BY Zenon, <2>1, ActorFacts DEF Only
  <2>4. \A n \in Mesh : pc'[n] = "own" => pc[n] = "own"
    BY Zenon, <1>1, <2>1 DEF Only, Leaving
  <2>5. \A i \in Slots : table'[i] # 0 /\ proc[table'[i]] = "reaped" =>
          verb = "cycle" /\ pc[Main] = "disown" /\ table'[i] = Pid(child)
    BY Zenon, <2>1 DEF ReapInv
  <2>6. ASSUME NEW b \in Actors, hand'[b] # 0, proc[hand'[b]] = "reaped"
        PROVE  verb = "cycle" /\ pc[Main] = "disown" /\ hand'[b] = Pid(child)
    <3>1. CASE b = a
      BY Zenon, <2>1, <2>6, <3>1 DEF ReapInv
    <3>2. CASE b # a
      <4>1. hand'[b] = hand[b]
        BY Zenon, <2>1, <3>2 DEF Only
      <4> QED BY Zenon, <2>6, <4>1 DEF ReapInv
    <3> QED BY Zenon, <3>1, <3>2
  <2>7. NoStrayKill'
    BY Zenon, <2>1, <2>2, <2>3 DEF ReapInv, NoStrayKill
  <2>8. \A n \in Mesh : pc'[n] = "own" => proc[Pid(n)] # "reaped"
    BY Zenon, <2>4 DEF ReapInv
  <2> QED BY <2>1, <2>2, <2>3, <2>5, <2>6, <2>7, <2>8, Zenon DEF ReapInv
<1>5. ASSUME NEW a \in Actors, KillHand(a) PROVE ReapInv'
  <2>1. /\ Fixed /\ Only(a) /\ pc[a] = "kill" /\ pc'[a] = "sweep" /\ hand[a] # 0 /\ hand'[a] = 0
        /\ \A p \in AllPids : p # hand[a] => proc'[p] = proc[p]
        /\ stray' = (stray \/ proc[hand[a]] = "reaped") /\ a \in sweepers
        /\ UNCHANGED <<table, child, sweepers>>
    BY Zenon, <1>5, KillHandEffect
  <2>2. /\ Mesh' = Mesh /\ Slots' = Slots /\ verb' = verb /\ \A n : Pid(n)' = Pid(n)
        /\ Pid(child)' = Pid(child)
    BY Zenon, <2>1, FixedFacts DEF Pid
  <2>3. pc[Main] = "disown" => pc'[Main] = "disown"
    BY Zenon, <2>1, ActorFacts DEF Only
  <2>4. ASSUME NEW n \in Mesh, pc'[n] = "own" PROVE proc'[Pid(n)] # "reaped"
    <3>1. pc[n] = "own"
      BY Zenon, <1>1, <2>1, <2>4 DEF Only
    <3>2. hand[a] # Pid(n)
      <4>1. ~Claimed(n)
        BY Zenon, <3>1 DEF Claimed
      <4> QED BY Zenon, <4>1, Placed
    <3> QED BY Zenon, <1>1, <2>1, <3>1, <3>2 DEF ReapInv
  <2>5. ASSUME NEW i \in Slots, table[i] # 0, proc'[table[i]] = "reaped"
        PROVE  verb = "cycle" /\ pc[Main] = "disown" /\ table[i] = Pid(child)
    <3>1. table[i] # hand[a] /\ table[i] \in AllPids
      BY Zenon, <1>1, <2>1, <2>5 DEF PlaceInv, TypeInv
    <3> QED BY Zenon, <2>1, <2>5, <3>1 DEF ReapInv
  <2>6. ASSUME NEW b \in Actors, hand'[b] # 0, proc'[hand'[b]] = "reaped"
        PROVE  verb = "cycle" /\ pc[Main] = "disown" /\ hand'[b] = Pid(child)
    <3>1. b # a /\ hand'[b] = hand[b]
      BY Zenon, <2>1, <2>6 DEF Only
    <3>2. hand[b] # hand[a] /\ hand[b] \in AllPids
      BY Zenon, <1>1, <2>1, <2>6, <3>1 DEF PlaceInv, TypeInv
    <3> QED BY Zenon, <2>1, <2>6, <3>1, <3>2 DEF ReapInv
  <2>7. NoStrayKill'
    <3>1. CASE stray
      BY Zenon, <2>1, <2>2, <2>3, <3>1 DEF ReapInv, NoStrayKill
    <3>2. CASE proc[hand[a]] = "reaped"
      <4>1. verb = "cycle" /\ pc[Main] = "disown"
        BY Zenon, <2>1, <3>2 DEF ReapInv
      <4>2. \A n \in Mesh : pc[n] = "done"
        BY Zenon, <4>1 DEF PhaseInv
      <4>3. a = Handler
        BY Zenon, <2>1, <4>1, <4>2, ActorFacts DEF PhaseInv
      <4> QED BY Zenon, <2>1, <2>2, <2>3, <4>1, <4>3 DEF NoStrayKill
    <3>3. CASE ~stray'
      BY <3>3 DEF NoStrayKill
    <3>4. ~stray' \/ stray \/ proc[hand[a]] = "reaped"
      BY <2>1, Zenon
    <3> QED BY <3>1, <3>2, <3>3, <3>4, Zenon
  <2> QED BY <2>1, <2>2, <2>3, <2>4, <2>5, <2>6, <2>7, Zenon DEF ReapInv
<1>6. ASSUME NEW n \in Mesh, Spawn(n) PROVE ReapInv'
  <2>1. /\ n \in Nodes /\ Fixed /\ Only(n) /\ UNCHANGED <<stray, sweepers, table, hand, child>>
        /\ pc[Main] = "join" /\ proc'[Pid(n)] = "running"
        /\ \A p \in AllPids : p # Pid(n) => proc'[p] = proc[p]
    BY Zenon, <1>6, SpawnEffect
  <2>2. \A p \in Pids : proc'[p] = "reaped" => proc[p] = "reaped"
    BY Zenon, <1>1, <2>1
  <2>3. \A m \in Mesh : pc'[m] = "own" => pc[m] = "own" \/ proc'[Pid(m)] # "reaped"
    BY Zenon, <1>1, <2>1 DEF Only
  <2> QED BY Zenon, <2>1, <2>2, <2>3, ReapFrame
<1>7. ASSUME NEW n \in Mesh, OwnVmm(n) PROVE ReapInv'
  <2> DEFINE k == at[n]
  <2>1. /\ n \in Nodes /\ Fixed /\ Only(n) /\ pc[n] = "own" /\ pc[Main] = "join" /\ k \in Slots
        /\ UNCHANGED <<stray, sweepers, hand, proc, child>>
        /\ \/ /\ table'[k] = Pid(n)
              /\ \A i \in Slots : i # k => table'[i] = table[i]
           \/ UNCHANGED table
    BY Zenon, <1>7, OwnEffect
  <2> HIDE DEF k
  <2>2. \A m \in Mesh : pc'[m] = "own" => pc[m] = "own"
    BY Zenon, <1>1, <2>1 DEF Only
  <2>3. CASE UNCHANGED table
    BY Zenon, <2>1, <2>2, <2>3, ReapFrame
  <2>4. CASE table'[k] = Pid(n) /\ \A i \in Slots : i # k => table'[i] = table[i]
    <3>1. Mesh' = Mesh /\ Slots' = Slots /\ verb' = verb /\ \A m : Pid(m)' = Pid(m)
      BY <2>1, FixedFacts
    <3>2. \A m \in Mesh : pc'[m] = "own" => proc[Pid(m)] # "reaped"
      BY Zenon, <2>2 DEF ReapInv
    <3>3. \A i \in Slots : ~(table'[i] # 0 /\ proc[table'[i]] = "reaped")
      BY Zenon, <2>1, <2>4 DEF ReapInv
    <3>4. \A a \in Actors : ~(hand[a] # 0 /\ proc[hand[a]] = "reaped")
      BY <2>1 DEF ReapInv
    <3>5. NoStrayKill'
      BY Zenon, <2>1 DEF ReapInv, NoStrayKill
    <3> QED BY <2>1, <3>1, <3>2, <3>3, <3>4, <3>5, Zenon DEF ReapInv
  <2> QED BY <2>1, <2>3, <2>4
<1>8. ASSUME NEW n \in Mesh, SeeSock(n) \/ Load(n) PROVE ReapInv'
  <2>1. /\ Fixed /\ Only(n) /\ UNCHANGED <<stray, sweepers, table, hand, proc, child>>
        /\ pc[Main] = "join" /\ pc'[n] \in {"load", "done"}
    BY Zenon, <1>8, ThreadEffect
  <2>2. \A m \in Mesh : pc'[m] = "own" => pc[m] = "own"
    BY Zenon, <1>1, <2>1 DEF Only
  <2> QED BY Zenon, <2>1, <2>2, ReapFrame
<1>9. ASSUME NEW n \in Mesh, BindSock(n) PROVE ReapInv'
  BY Zenon, <1>9, BindEffect, ReapFrame
<1>10. ASSUME NEW p \in Pids, VmmDies(p) PROVE ReapInv'
  <2>1. \A q \in Pids : proc'[q] = "reaped" => proc[q] = "reaped"
    BY Zenon, <1>1, <1>10, VmmDiesEffect
  <2> QED BY Zenon, <1>10, <2>1, VmmDiesEffect, ReapFrame
<1>11. ASSUME JoinThreads \/ ProbeAnswers \/ WriteCommits \/ JoinPokes PROVE ReapInv'
  <2>1. /\ Fixed /\ Only(Main) /\ UNCHANGED <<stray, sweepers, table, hand, proc>>
        /\ pc[Main] # "disown"
    BY Zenon, <1>11, JoinEffect, JoinPokesEffect DEF MainAt
  <2>2. \A m \in Mesh : pc'[m] = pc[m]
    BY Zenon, <1>1, <2>1, ActorFacts DEF Only
  <2> QED BY Zenon, <2>1, <2>2, ReapFrame
<1>12. ASSUME KillWait PROVE ReapInv'
  <2>1. /\ Fixed /\ Only(Main) /\ MainAt("killwait") /\ pc'[Main] = "disown" /\ child \in Mesh
        /\ \A p \in AllPids : p # Pid(child) => proc'[p] = proc[p]
        /\ stray' = (stray \/ proc[Pid(child)] = "reaped")
        /\ UNCHANGED <<table, hand, child>>
    BY Zenon, <1>12, KillWaitEffect
  <2>2. sweepers = {} /\ pc[Main] = "killwait" /\ (\A n \in Mesh : pc[n] = "done")
        /\ (\A a \in Actors : hand[a] = 0)
    BY Zenon, <2>1, Quiet DEF Leaving
  <2>3. verb = "cycle"
    BY <2>2 DEF PhaseInv, TypeInv
  <2>4. PICK i \in Slots : table[i] = Pid(child)
    <3>1. ~Done(child)
      <4>1. ~(child < child)
        BY Numbers
      <4> QED BY Zenon, <2>2, <4>1 DEF Done
    <3>2. Pid(child) \notin released
      BY <2>3 DEF DoneInv
    <3> QED BY Zenon, <2>1, <2>2, <3>1, <3>2 DEF HeldInv
  <2>5. proc[Pid(child)] # "reaped"
    BY Zenon, <1>1, <2>1, <2>2, <2>4 DEF ReapInv
  <2>6. ~stray'
    <3>1. "killwait" \notin Leaving \cup {"join"}
      BY DEF Leaving
    <3>2. ~stray
      BY <2>1, <3>1, NoStrayYet, Zenon
    <3> QED BY <2>1, <2>5, <3>2, Zenon
  <2>7. /\ Mesh' = Mesh /\ Slots' = Slots /\ verb' = verb /\ \A n : Pid(n)' = Pid(n)
        /\ Pid(child)' = Pid(child)
    BY <2>1, FixedFacts DEF Pid
  <2>8. \A n \in Mesh : pc'[n] # "own"
    BY Zenon, <1>1, <2>1, <2>2, ActorFacts DEF Only
  <2>9. ASSUME NEW j \in Slots, table[j] # 0, proc'[table[j]] = "reaped" PROVE table[j] = Pid(child)
    <3>1. table[j] \in AllPids
      BY Zenon, <1>1, <2>9 DEF TypeInv
    <3>2. proc[table[j]] # "reaped"
      BY Zenon, <2>2, <2>9 DEF ReapInv
    <3> QED BY Zenon, <2>1, <2>9, <3>1, <3>2
  <2> QED BY <2>1, <2>2, <2>3, <2>6, <2>7, <2>8, <2>9, Zenon DEF ReapInv, NoStrayKill
<1>13. ASSUME DisownVmm PROVE ReapInv'
  <2>1. /\ Fixed /\ UNCHANGED <<stray, sweepers, pc, proc, hand, child>>
        /\ \A i \in Slots : table'[i] \in {table[i], 0}
    BY Zenon, <1>13, DisownEffect
  <2> QED BY Zenon, <2>1, ReapFrame
<1>14. ASSUME NextChild PROVE ReapInv'
  <2>1. /\ Fixed /\ Only(Main) /\ MainAt("disown") /\ at[Main] > slots
        /\ UNCHANGED <<table, hand, proc, stray>>
    BY Zenon, <1>14, NextChildEffect
  <2>2. (\A n \in Mesh : pc[n] = "done") /\ \A a \in Actors : hand[a] = 0
    BY Zenon, <2>1, Quiet DEF Leaving
  <2>3. ~stray
    <3>1. "disown" \notin Leaving \cup {"join"}
      BY Zenon DEF Leaving
    <3> QED BY <2>1, <3>1, NoStrayYet, Zenon
  <2>4. \A i \in Slots : table[i] # 0 => proc[table[i]] # "reaped"
    <3>1. pc[Main] = "disown"
      BY Zenon, <2>1 DEF MainAt
    <3>2. \A i \in Slots : table[i] # Pid(child)
      <4>1. child \in Mesh /\ ~(child > child)
        BY DEF TypeInv, Mesh
      <4> QED BY Zenon, <2>1, <3>1, <4>1, Cleared
    <3> QED BY <3>2 DEF ReapInv
  <2>5. Mesh' = Mesh /\ Slots' = Slots
    BY Zenon, <2>1, FixedFacts
  <2>6. \A n \in Mesh : pc'[n] # "own"
    BY Zenon, <1>1, <2>1, <2>2, ActorFacts DEF Only
  <2> QED BY <2>1, <2>2, <2>3, <2>4, <2>5, <2>6, Zenon DEF ReapInv, NoStrayKill
<1>15. ASSUME NextRound PROVE ReapInv'
  <2>1. /\ MainAt("disown") /\ at[Main] > slots /\ child = size
        /\ UNCHANGED <<table, hand, stray>>
        /\ Mesh' = Mesh /\ Slots' = Slots /\ \A n \in Mesh : pc'[n] = "spawn"
    BY Zenon, <1>15, RoundEffect
  <2>2. \A a \in Actors : hand[a] = 0
    BY Zenon, <2>1, Quiet DEF Leaving
  <2>3. ~stray
    <3>1. "disown" \notin Leaving \cup {"join"}
      BY DEF Leaving
    <3> QED BY <2>1, <3>1, NoStrayYet, Zenon
  <2>4. \A i \in Slots : table[i] = 0
    BY Zenon, <2>1, Cleared DEF MainAt
  <2> QED BY Zenon, <2>1, <2>2, <2>3, <2>4 DEF ReapInv, NoStrayKill
<1> QED
  BY <1>2, <1>3, <1>4, <1>5, <1>6, <1>7, <1>8, <1>9, <1>10, <1>11, <1>12, <1>13, <1>14, <1>15, StepCases

------------------------------------------------------------------------------
(* What a sweeper has before it.                                           *)

LEMMA AheadFrame ==
    ASSUME TypeInv, AheadInv, Fixed, UNCHANGED <<settled, sweepers>>,
           \A p \in settled : proc'[p] = "running" => proc[p] = "running",
           \A i \in Slots : table[i] \in settled => table'[i] = table[i],
           \A a \in sweepers : hand'[a] = hand[a] /\ at'[a] = at[a] /\ pc'[a] = pc[a]
    PROVE  AheadInv'
<1>1. Slots' = Slots
  BY Zenon, FixedFacts
<1>2. ASSUME NEW a \in Actors, sweepers = {a}, NEW p \in settled, proc'[p] = "running"
      PROVE  Ahead(a, p)'
  <2>1. Ahead(a, p)
    BY Zenon, <1>2 DEF AheadInv
  <2>2. hand'[a] = hand[a] /\ at'[a] = at[a] /\ pc'[a] = pc[a]
    BY Zenon, <1>2
  <2> QED BY Zenon, <1>1, <1>2, <2>1, <2>2 DEF Ahead
<1> QED BY <1>2, Zenon DEF AheadInv

LEMMA AheadStep ==
    TypeInv /\ PhaseInv /\ KnownInv /\ AheadInv /\ [ResumeNext]_vars => AheadInv'
<1> SUFFICES ASSUME TypeInv, PhaseInv, KnownInv, AheadInv, [ResumeNext]_vars PROVE AheadInv'
  OBVIOUS
<1>1. /\ Mesh \subseteq Nodes /\ Nodes \subseteq Actors /\ Pids \subseteq AllPids
      /\ settled \subseteq Pids /\ 0 \notin settled /\ settled \subseteq known
      /\ \A i \in Slots : i \in Int
      /\ \A a \in Actors : at[a] \in Int
  BY Zenon, Numbers, MeshNodes, ActorFacts, PidsBelow DEF TypeInv, KnownInv
<1>2. \A a \in sweepers : a \in Actors /\ pc[a] \in Leaving
  BY Zenon DEF PhaseInv
<1>3. CASE Still
  <2>1. Fixed /\ UNCHANGED <<settled, sweepers, proc, table, hand, at, pc>>
    BY <1>3 DEF Still, Fixed
  <2> QED BY Zenon, <2>1, AheadFrame
<1>4. ASSUME NEW a \in Actors, Leaves(a) PROVE AheadInv'
  <2>1. /\ Fixed /\ pc'[a] = "sweep" /\ at'[a] = 1 /\ UNCHANGED table
        /\ settled' = IF sweepers = {} THEN Entered ELSE settled
        /\ sweepers' = sweepers \cup {a} /\ pc[a] \notin Leaving
    BY Zenon, <1>4, DieEffect DEF Leaves
  <2>2. a \notin sweepers /\ Slots' = Slots
    BY Zenon, <1>2, <2>1, FixedFacts
  <2>3. ASSUME NEW b \in Actors, sweepers' = {b}, NEW p \in settled' PROVE Ahead(b, p)'
    <3>1. b = a /\ sweepers = {}
      BY Zenon, <2>1, <2>2, <2>3
    <3>2. PICK i \in Slots : table[i] = p
      BY Zenon, <2>1, <2>3, <3>1 DEF Entered, Slots
    <3>3. i >= 1
      BY <1>1, <3>2 DEF Slots
    <3> QED BY Zenon, <2>1, <2>2, <3>1, <3>2, <3>3 DEF Ahead
  <2> QED BY <2>3, Zenon DEF AheadInv
<1>5. ASSUME NEW a \in Actors, Swap(a) PROVE AheadInv'
  <2> DEFINE k == at[a]
  <2>1. /\ Fixed /\ k \in Slots /\ hand[a] = 0 /\ hand'[a] = table[k]
        /\ at'[a] = IF table[k] # 0 THEN k ELSE k + 1
        /\ \A i \in Slots : i # k => table'[i] = table[i]
        /\ a \in sweepers /\ UNCHANGED <<proc, settled, sweepers>>
    BY Zenon, <1>5, SwapEffect
  <2>2. pc'[a] = IF table[k] # 0 THEN "kill" ELSE "sweep"
    BY Zenon, <1>5 DEF Swap, TypeInv
  <2>3. \A p, i : table[i] = p /\ i >= at[a] => i >= k
    OBVIOUS
  <2>4. Slots' = Slots
    BY Zenon, <2>1, FixedFacts
  <2>5. ASSUME NEW b \in Actors, sweepers = {b}, NEW p \in settled, proc[p] = "running"
        PROVE  Ahead(b, p)'
    <3>1. b = a
      BY Zenon, <2>1, <2>5
    <3>2. PICK i \in Slots : table[i] = p /\ i >= k
      <4>1. Ahead(a, p) /\ p # 0
        BY <1>1, <2>5, <3>1 DEF AheadInv
      <4> QED BY Zenon, <2>1, <4>1 DEF Ahead
    <3>3. CASE i = k
      BY Zenon, <2>1, <3>1, <3>2, <3>3 DEF Ahead
    <3>4. CASE i # k
      <4>1. i > k /\ i >= k + 1
        <5>1. i \in Int /\ k \in Int
          BY Zenon, <1>1
        <5> HIDE DEF k
        <5> QED BY <3>2, <3>4, <5>1
      <4>2. i >= at'[a] /\ (pc'[a] = "kill" => i > at'[a])
        BY Zenon, <2>1, <2>2, <3>2, <4>1
      <4> QED BY Zenon, <2>1, <2>4, <3>1, <3>2, <3>4, <4>2 DEF Ahead
    <3> QED BY Zenon, <3>3, <3>4
  <2> QED BY <2>1, <2>5, Zenon DEF AheadInv
<1>6. ASSUME NEW a \in Actors, KillHand(a) PROVE AheadInv'
  <2>1. /\ Fixed /\ pc[a] = "kill" /\ pc'[a] = "sweep" /\ at'[a] = at[a] + 1
        /\ \A p \in AllPids : p # hand[a] => proc'[p] = proc[p]
        /\ proc'[hand[a]] # "running"
        /\ a \in sweepers /\ UNCHANGED <<table, settled, sweepers>>
    BY Zenon, <1>6, KillHandEffect
  <2>2. Slots' = Slots
    BY Zenon, <2>1, FixedFacts
  <2>3. ASSUME NEW b \in Actors, sweepers = {b}, NEW p \in settled, proc'[p] = "running"
        PROVE  Ahead(b, p)'
    <3>1. b = a /\ p # hand[a] /\ p \in AllPids
      BY Zenon, <1>1, <2>1, <2>3
    <3>2. Ahead(a, p)
      BY Zenon, <2>1, <2>3, <3>1 DEF AheadInv
    <3>3. PICK i \in Slots : table[i] = p /\ i > at[a]
      BY Zenon, <2>1, <3>1, <3>2 DEF Ahead
    <3>4. i >= at[a] + 1
      BY <1>1, <3>3
    <3> QED BY Zenon, <2>1, <2>2, <3>1, <3>3, <3>4 DEF Ahead
  <2> QED BY <2>1, <2>3, Zenon DEF AheadInv
<1>7. ASSUME NEW n \in Mesh, Spawn(n) PROVE AheadInv'
  <2>1. /\ n \in Nodes /\ Fixed /\ Only(n) /\ pc[n] = "spawn" /\ UNCHANGED <<settled, sweepers, table>>
        /\ \A p \in AllPids : p # Pid(n) => proc'[p] = proc[p]
    BY Zenon, <1>7, SpawnEffect
  <2>2. Pid(n) \notin settled
    BY Zenon, <1>1, <2>1, Unknown DEF Claimed
  <2>3. \A p \in settled : proc'[p] = proc[p]
    BY Zenon, <1>1, <2>1, <2>2
  <2>4. n \notin sweepers
    BY Zenon, <1>2, <2>1 DEF Leaving
  <2> QED BY Zenon, <1>2, <2>1, <2>3, <2>4, AheadFrame DEF Only
<1>8. ASSUME NEW n \in Mesh, OwnVmm(n) PROVE AheadInv'
  <2> DEFINE k == at[n]
  <2>1. /\ n \in Nodes /\ Fixed /\ Only(n) /\ pc[n] = "own" /\ k \in Slots
        /\ UNCHANGED <<settled, sweepers, proc>>
        /\ \/ /\ table[k] = 0
              /\ \A i \in Slots : i # k => table'[i] = table[i]
           \/ UNCHANGED table
    BY Zenon, <1>8, OwnEffect
  <2> HIDE DEF k
  <2>2. \A i \in Slots : table[i] \in settled => table'[i] = table[i]
    BY Zenon, <1>1, <2>1
  <2>3. n \notin sweepers
    BY Zenon, <1>2, <2>1 DEF Leaving
  <2> QED BY Zenon, <1>2, <2>1, <2>2, <2>3, AheadFrame DEF Only
<1>9. ASSUME NEW n \in Mesh, SeeSock(n) \/ Load(n) PROVE AheadInv'
  <2>1. /\ n \in Nodes /\ Fixed /\ Only(n) /\ pc[n] \in {"sock", "load"}
        /\ UNCHANGED <<settled, sweepers, proc, table>>
    BY Zenon, <1>9, ThreadEffect
  <2>2. n \notin sweepers
    BY <1>2, <2>1 DEF Leaving
  <2> QED BY Zenon, <1>2, <2>1, <2>2, AheadFrame DEF Only
<1>10. ASSUME NEW n \in Mesh, BindSock(n) PROVE AheadInv'
  BY Zenon, <1>10, BindEffect, AheadFrame
<1>11. ASSUME NEW p \in Pids, VmmDies(p) PROVE AheadInv'
  <2>1. \A q \in settled : proc'[q] = "running" => proc[q] = "running"
    BY Zenon, <1>1, <1>11, VmmDiesEffect
  <2> QED BY Zenon, <1>11, <2>1, VmmDiesEffect, AheadFrame
<1>12. ASSUME JoinThreads \/ ProbeAnswers \/ WriteCommits PROVE AheadInv'
  <2>1. Main \notin sweepers
    BY <1>2, <1>12, JoinEffect DEF Leaving
  <2> QED BY Zenon, <1>2, <1>12, <2>1, JoinEffect, AheadFrame DEF Only
<1>13. ASSUME JoinPokes \/ KillWait \/ DisownVmm \/ NextChild \/ NextRound PROVE AheadInv'
  <2>1. sweepers = {}
    <3>1. MainAt("pokes") \/ MainAt("killwait") \/ MainAt("disown")
      BY Zenon, <1>13 DEF JoinPokes, KillWait, DisownVmm, NextChild, NextRound
    <3> QED BY <3>1, Quiet DEF Leaving
  <2>2. sweepers' = sweepers
    BY Zenon, <1>13 DEF JoinPokes, KillWait, DisownVmm, NextChild, NextRound
  <2> QED BY <2>1, <2>2 DEF AheadInv
<1> QED
  BY <1>3, <1>4, <1>5, <1>6, <1>7, <1>8, <1>9, <1>10, <1>11, <1>12, <1>13, StepCases

------------------------------------------------------------------------------
(* The ends of the process.                                                *)

LEMMA ExitMoves ==
    ASSUME TypeInv, ResumeNext, exit' # "no"
    PROVE  Return \/ \E a \in Actors : Leave(a)
<1>1. exit = "no"
  BY Zenon, AliveStep
<1>2. Mesh \subseteq Nodes
  BY MeshNodes DEF TypeInv
<1>3. ASSUME \E n \in Mesh : Spawn(n) \/ OwnVmm(n) \/ SeeSock(n) \/ Load(n) \/ ThreadDies(n)
                             \/ BindSock(n) \/ SendPoke(n) \/ BindFails(n) \/ \E d \in 0 .. MaxDelay : ClockStep(n, d)
      PROVE  exit' = exit
  BY Zenon, <1>3 DEF Spawn, OwnVmm, SeeSock, Load, ThreadDies, Die, BindSock, SendPoke, BindFails, ClockStep, procVars
<1>4. ASSUME \/ Signal \/ MainDies \/ (\E a \in Actors : Swap(a) \/ KillHand(a))
             \/ \E p \in Pids : VmmDies(p)
      PROVE  exit' = exit
  BY Zenon, <1>4 DEF Signal, MainDies, Die, Swap, KillHand, VmmDies
<1>5. ASSUME JoinThreads \/ ProbeAnswers \/ WriteCommits \/ JoinPokes PROVE exit' = exit
  BY <1>5, Zenon DEF JoinThreads, ProbeAnswers, WriteCommits, JoinPokes
<1>6. ASSUME KillWait \/ DisownVmm \/ NextChild \/ NextRound PROVE exit' = exit
  BY <1>6, Zenon DEF KillWait, DisownVmm, NextChild, NextRound
<1> QED
  BY Zenon, <1>1, <1>2, <1>3, <1>4, <1>5, <1>6, ActorFacts
  DEF ResumeNext, ThreadStep, SweepStep, MainStep, HandlerStep

LEMMA LeftStep == TypeInv /\ PhaseInv /\ AheadInv /\ ExitKillsOwned /\ [ResumeNext]_vars => ExitKillsOwned'
<1> SUFFICES ASSUME TypeInv, PhaseInv, AheadInv, ExitKillsOwned, [ResumeNext]_vars,
                    exit' \in {"died", "signal"},
                    NEW b \in Actors, sweepers' = {b}, NEW p \in settled'
             PROVE  proc'[p] # "running"
  BY Zenon DEF ExitKillsOwned
<1>1. CASE UNCHANGED vars
  BY <1>1 DEF ExitKillsOwned, vars, procVars
<1>2. CASE ResumeNext
  <2>1. PICK a \in Actors : Leave(a)
    <3>1. ~Return
      BY DEF Return
    <3> QED BY Zenon, <1>2, <3>1, ExitMoves
  <2>2. pc[a] = "sweep" /\ at[a] > slots /\ UNCHANGED <<proc, settled, sweepers>>
    BY Zenon, <2>1 DEF Leave
  <2>3. a = b /\ hand[a] = 0
    BY Zenon, <2>2 DEF PhaseInv, Leaving
  <2>4. \A i \in Slots : ~(i >= at[a])
    BY <2>2 DEF TypeInv, Slots, Position
  <2>5. p # 0
    BY Zenon, <2>2, PidsBelow DEF TypeInv
  <2>6. ~Ahead(a, p)
    BY <2>3, <2>4, <2>5 DEF Ahead
  <2> QED BY Zenon, <2>2, <2>3, <2>6 DEF AheadInv
<1> QED BY <1>1, <1>2

LEMMA ReturnStep ==
    /\ TypeInv /\ PhaseInv /\ ClockInv /\ PlaceInv /\ DoneInv /\ LifeInv /\ SockInv /\ HeldInv
    /\ ReturnsSound /\ [ResumeNext]_vars
    => ReturnsSound'
<1> SUFFICES ASSUME TypeInv, PhaseInv, ClockInv, PlaceInv, DoneInv, LifeInv, SockInv, HeldInv,
                    ReturnsSound, [ResumeNext]_vars, exit' = "ok"
             PROVE  ReturnsSound'
  BY Zenon DEF ReturnsSound
<1>1. CASE UNCHANGED vars
  BY Zenon, <1>1 DEF ReturnsSound, vars, procVars, clockVars, Entered, Mesh, Pid
<1>2. CASE ResumeNext
  <2>1. Return
    <3>1. \A a \in Actors : ~Leave(a)
      BY Zenon DEF Leave
    <3> QED BY <1>2, <3>1, ExitMoves
  <2>2. /\ MainAt("disown") /\ at[Main] > slots /\ child = size
        /\ UNCHANGED <<verb, size, slots, stuck, round, table, sweepers, proc, released, loaded, sent, mute>>
    BY Zenon, <2>1 DEF Return, clockVars
  <2>3. sweepers = {} /\ pc[Main] = "disown" /\ \A n \in Mesh : pc[n] = "done"
    BY Zenon, <2>2, Quiet DEF Leaving
  <2>4. \A i \in Slots : table[i] = 0
    BY Zenon, <2>2, <2>3, Cleared
  <2>5. Entered = {}
    BY Zenon, <2>4 DEF Entered, Slots
  <2>6. ASSUME verb = "cycle" PROVE \A p \in Pids : proc[p] # "running"
    <3>1. \A n \in Mesh : n < child \/ n = child
      BY <2>2 DEF Mesh, TypeInv
    <3>2. \A n \in Mesh : Done(n)
      BY <2>3, <3>1 DEF Done, Ending
    <3>3. \A n \in Mesh : proc[Pid(n)] = "reaped"
      BY Zenon, <2>6, <3>2 DEF DoneInv
    <3> QED BY Zenon, <3>3 DEF LifeInv
  <2>7. ASSUME verb # "cycle", NEW n \in Mesh
        PROVE  /\ Pid(n) \in released /\ proc[Pid(n)] # "reaped"
               /\ (n \notin stuck => loaded[n] = Pid(n)) /\ (n \notin mute => sent[n] = Pokes)
    <3>1. n \in Nodes /\ Pid(n) # 0 /\ Pid(n) \in Pids
      BY Zenon, MeshNodes, PidFacts DEF TypeInv
    <3>2. Pid(n) \in released
      BY Zenon, <2>3, <2>4, <2>7, <3>1 DEF HeldInv
    <3>3. proc[Pid(n)] # "reaped"
      BY <2>3, <2>7, <3>1 DEF HeldInv, TypeInv
    <3>4. n \notin stuck => loaded[n] = Pid(n)
      BY Zenon, <2>3 DEF SockInv
    <3>5. n \notin mute => sent[n] = Pokes
      BY Zenon, <2>3 DEF ClockInv
    <3> QED BY Zenon, <3>2, <3>3, <3>4, <3>5
  <2>8. Entered' = Entered /\ Mesh' = Mesh /\ \A n : Pid(n)' = Pid(n)
    BY Zenon, <2>2 DEF Entered, Mesh, Pid
  <2> QED BY Zenon, <2>2, <2>3, <2>5, <2>6, <2>7, <2>8 DEF ReturnsSound
<1> QED BY <1>1, <1>2

------------------------------------------------------------------------------
(* The invariant holds.                                                    *)

LEMMA InitInv == ResumeInit => ResumeInv
<1> SUFFICES ASSUME ResumeInit PROVE ResumeInv
  OBVIOUS
<1>0. /\ verb \in {"resume", "cycle"} /\ round = 1 /\ child = 1 /\ released = {}
      /\ known = {} /\ settled = {} /\ sweepers = {} /\ ~stray /\ stray \in BOOLEAN /\ exit = "no"
  BY Zenon DEF ResumeInit
<1>1. /\ size \in 1 .. N /\ slots \in Nat \ {0} /\ 1 \in Mesh /\ 1 \in 1 .. Rounds /\ 0 \in 0 .. Pokes
  BY SnapResumeAssumption DEF ResumeInit, Mesh
<1>2. /\ pc[Main] = "join" /\ pc[Handler] = "off"
      /\ \A n \in Nodes : pc[n] = IF n \in Mesh THEN "spawn" ELSE "off"
      /\ pc \in [Actors -> ThreadPcs \cup MainPcs]
  <2>1. Main \notin 1 .. size /\ Handler \notin 1 .. size
    BY <1>1, SnapResumeAssumption DEF Main, Handler
  <2> QED BY Zenon, <2>1, ActorFacts DEF ResumeInit, Mesh, ThreadPcs, MainPcs
<1>3. \A p \in Pids : proc[p] = "none"
  BY Zenon, PidsBelow DEF ResumeInit, AllPids
<1>4. (\A i \in Slots : table[i] = 0) /\ (\A a \in Actors : hand[a] = 0 /\ pc[a] \notin Leaving)
  <2>1. \A a \in Actors : pc[a] \notin Leaving
    BY <1>2, ActorFacts DEF Leaving
  <2> QED BY Zenon, <2>1 DEF ResumeInit, Slots
<1>5. TypeInv
  <2>1. proc \in [AllPids -> States]
    BY DEF ResumeInit, AllPids, States
  <2>2. sock \in [Nodes -> Bound] /\ loaded \in [Nodes -> Bound]
    BY Zenon, PidsBelow DEF ResumeInit, Bound
  <2>3. at \in [Actors -> Position] /\ hand \in [Actors -> Pids \cup {0}]
        /\ table \in [Slots -> Pids \cup {0}]
    BY Zenon, PositionFacts DEF ResumeInit, Slots
  <2>4. sent \in [Nodes -> 0 .. Pokes] /\ behind \in [Nodes -> Int] /\ stepped \subseteq Nodes
        /\ mute \subseteq Nodes
    BY <1>1 DEF ResumeInit
  <2>6. stuck \subseteq Nodes
    BY Zenon, SnapResumeAssumption DEF ResumeInit, Nodes
  <2>5. released \subseteq Pids /\ known \subseteq Pids /\ settled \subseteq Pids
        /\ sweepers \subseteq Actors /\ exit \in {"no", "ok", "died", "signal"}
        /\ child \in Mesh /\ round \in 1 .. Rounds
    BY <1>0, <1>1
  <2> QED BY <1>0, <1>1, <1>2, <2>1, <2>2, <2>3, <2>4, <2>5, <2>6, Zenon DEF TypeInv
<1>6. PhaseInv
  <2>1. pc[Main] \in MainPcs /\ \A n \in Nodes : pc[n] \in ThreadPcs
    BY Zenon, <1>2 DEF MainPcs, ThreadPcs
  <2>2. sweepers = {a \in Actors : pc[a] \in Leaving}
    BY Zenon, <1>4 DEF ResumeInit
  <2>3. \A a \in Actors : hand[a] # 0 <=> pc[a] = "kill"
    BY Zenon, <1>4 DEF Leaving
  <2>4. \A n \in Nodes : n \notin Mesh <=> pc[n] = "off"
    BY Zenon, <1>2
  <2>5. pc[Handler] \in Leaving \cup {"off"} /\ pc[Main] # "killwait" /\ ~(pc[Main] # "join")
    BY Zenon, <1>2
  <2> QED BY <1>0, <2>1, <2>2, <2>3, <2>4, <2>5, Zenon DEF PhaseInv
<1>7. ClockInv
  <2>1. (\A n \in Nodes : ~(sent[n] > 0)) /\ stepped = {}
    BY DEF ResumeInit
  <2> QED BY Zenon, <1>2, <2>1 DEF ClockInv, ClockClose
<1>8. PlaceInv
  BY <1>2, <1>4 DEF PlaceInv
<1>9. DoneInv /\ KnownInv /\ LifeInv
  <2>1. DoneInv
    BY Zenon, <1>2 DEF ResumeInit, DoneInv, Done, Ending
  <2>2. KnownInv
    BY Zenon, <1>0, <1>4 DEF KnownInv, Tracked
  <2>3. LifeInv
    BY <1>3 DEF LifeInv
  <2> QED BY Zenon, <2>1, <2>2, <2>3
<1>10. SockInv /\ HeldInv
  <2>1. Mesh \subseteq Nodes
    BY <1>1, MeshNodes
  <2> QED BY Zenon, <1>2, <1>3, <2>1 DEF SockInv, HeldInv
<1>11. ReapInv
  <2>1. Mesh \subseteq Nodes
    BY <1>1, MeshNodes
  <2>2. \A n \in Mesh : pc[n] # "own"
    BY Zenon, <1>2, <2>1
  <2> QED BY <1>0, <1>4, <2>2, Zenon DEF ReapInv, NoStrayKill
<1>12. ReturnsSound /\ AheadInv /\ ExitKillsOwned
  BY DEF ResumeInit, ReturnsSound, AheadInv, ExitKillsOwned
<1> QED BY <1>5, <1>6, <1>7, <1>8, <1>9, <1>10, <1>11, <1>12 DEF ResumeInv

LEMMA InvStep == ResumeInv /\ [ResumeNext]_vars => ResumeInv'
<1> SUFFICES ASSUME ResumeInv, [ResumeNext]_vars PROVE ResumeInv'
  OBVIOUS
<1>1. TypeInv' /\ PhaseInv' /\ ClockInv'
  BY TypeStep, PhaseStep, ClockInvStep, Zenon DEF ResumeInv
<1>2. PlaceInv' /\ DoneInv' /\ KnownInv'
  BY <1>1, PlaceStep, DoneStep, KnownStep, Zenon DEF ResumeInv
<1>3. LifeInv' /\ SockInv' /\ HeldInv'
  BY LifeStep, SockStep, HeldStep, Zenon DEF ResumeInv
<1>4. ReturnsSound' /\ ReapInv'
  BY ReturnStep, ReapStep, Zenon DEF ResumeInv
<1>5. AheadInv' /\ ExitKillsOwned'
  BY AheadStep, LeftStep, Zenon DEF ResumeInv
<1> QED BY <1>1, <1>2, <1>3, <1>4, <1>5, Zenon DEF ResumeInv

LEMMA InvHolds == ResumeSpec => []ResumeInv
BY InitInv, InvStep, PTL DEF ResumeSpec

------------------------------------------------------------------------------
(* What a user of the commands may rely on.                                *)

\* No VMM that own_vmm entered in the table is ever lost sight of while it
\* runs, however the claims of the threads, the sweeps of die() and of the
\* signal handler and the clearing by disown_vmm interleave slot by slot.
THEOREM TableTracks == ResumeSpec => []Tracked
<1>1. ResumeInv => Tracked
  BY DEF ResumeInv, KnownInv
<1> QED BY <1>1, InvHolds, PTL

\* An exit by die() or by a signal, with nobody else on the way out, leaves no
\* VMM running that was in the table when kill_owned_vmm began, although other
\* threads go on claiming the slots that it has cleared.
THEOREM ExitKills == ResumeSpec => []ExitKillsOwned
<1>1. ResumeInv => ExitKillsOwned
  BY DEF ResumeInv
<1> QED BY <1>1, InvHolds, PTL

\* A verb that returns has done its work: resume has let every node's own VMM
\* go, with the snapshot in it unless remove_file failed on the old socket, and
\* no thread is still sending datagrams; cycle leaves none running, of this
\* round or an earlier one.
THEOREM ReturnIsSound == ResumeSpec => []ReturnsSound
<1>1. ResumeInv => ReturnsSound
  BY DEF ResumeInv
<1> QED BY <1>1, InvHolds, PTL

\* A reaped pid is signalled in one case only: the handler sweeps between
\* kill_wait and disown_vmm of a cycle.
THEOREM StrayKillOnly == ResumeSpec => []NoStrayKill
<1>1. ResumeInv => NoStrayKill
  BY DEF ResumeInv, ReapInv
<1> QED BY <1>1, InvHolds, PTL

\* Once a datagram has set a guest's clock, or found it close, that stays within the threshold of
\* clockstep and the age of datagrams, whatever order the others arrive in.
THEOREM ClockIsClose == ResumeSpec => []ClockClose
<1>1. ResumeInv => ClockClose
  BY DEF ResumeInv, ClockInv
<1> QED BY <1>1, InvHolds, PTL

=============================================================================
