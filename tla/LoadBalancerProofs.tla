------------------------- MODULE LoadBalancerProofs -------------------------
(***************************************************************************)
(* Proofs about LoadBalancer, for every number of backends, connections,   *)
(* every threshold, counter width and drain timeout.                       *)
(***************************************************************************)
EXTENDS LoadBalancer, FiniteSetTheorems, SequenceTheorems, TLAPS

\* Every step other than a probe's leaves the health state alone, up to the
\* position of the probe thread.
LEMMA OthersKeepHealth ==
  [LbNext]_lbVars => \/ ProbeOk \/ ProbeFail
                     \/ UNCHANGED <<healthy, fails, ready, streak, proven>>
BY Zenon DEF LbNext, Threads, Environment, lbVars, healthVars, EndRound, LoopCheck, AcceptNothing,
       StartDrain, Exit, Accept, LoadFlag, Handle, DialFail, DialOk, Refuse, Join, Finish, StopPump,
       Signal, Elapse, BackendChanges, Connect, PeerActs

\* The strengthening: below the threshold the counter has not wrapped and equals
\* the number of consecutive failures.
HealthInv ==
  /\ healthy \in [Backends -> BOOLEAN] /\ proven \in [Backends -> BOOLEAN]
  /\ fails \in [Backends -> Nat] /\ streak \in [Backends -> Nat]
  /\ \A b \in Backends : streak[b] < FailThreshold => fails[b] = streak[b]
  /\ HealthExact

\* A failure below the threshold counts up by one.
LEMMA CountsUp ==
  ASSUME NEW n \in Nat, n < FailThreshold
  PROVE  /\ FailCount(n) = n + 1
         /\ (n + 1) % FailsMod = n + 1
         /\ Evicts(FailCount(n)) <=> ~(n + 1 < FailThreshold)
BY LbAssumption DEF FailCount, Evicts

LEMMA ProbeOkKeepsHealth == HealthInv /\ ProbeOk => HealthInv'
<1> SUFFICES ASSUME HealthInv, ProbeOk PROVE HealthInv'
  OBVIOUS
<1> DEFINE p == probing
<1>1. p \in Backends
  BY DEF ProbeOk
<1>2. /\ healthy' = [healthy EXCEPT ![p] = TRUE] /\ proven' = [proven EXCEPT ![p] = TRUE]
      /\ fails' = [fails EXCEPT ![p] = 0] /\ streak' = [streak EXCEPT ![p] = 0]
      /\ ready' = TRUE
  BY DEF ProbeOk
<1> HIDE DEF p
<1>3. /\ healthy' \in [Backends -> BOOLEAN] /\ proven' \in [Backends -> BOOLEAN]
      /\ fails' \in [Backends -> Nat] /\ streak' \in [Backends -> Nat]
  BY <1>1, <1>2 DEF HealthInv
<1>4. \A b \in Backends : b # p => /\ healthy'[b] = healthy[b] /\ proven'[b] = proven[b]
                                   /\ fails'[b] = fails[b] /\ streak'[b] = streak[b]
  BY <1>2 DEF HealthInv
<1>5. healthy'[p] = TRUE /\ proven'[p] = TRUE /\ fails'[p] = 0 /\ streak'[p] = 0
  BY <1>1, <1>2 DEF HealthInv
<1>6. 0 < FailThreshold
  BY LbAssumption
<1>7. ASSUME NEW b \in Backends PROVE healthy'[b] <=> proven'[b] /\ streak'[b] < FailThreshold
  BY <1>4, <1>5, <1>6 DEF HealthInv, HealthExact
<1>8. ASSUME NEW b \in Backends, streak'[b] < FailThreshold PROVE fails'[b] = streak'[b]
  BY <1>4, <1>5, <1>8 DEF HealthInv
<1>9. ready' <=> \E b \in Backends : proven'[b]
  BY <1>1, <1>2, <1>5
<1> QED BY <1>3, <1>7, <1>8, <1>9 DEF HealthInv, HealthExact

LEMMA ProbeFailKeepsHealth == HealthInv /\ ProbeFail => HealthInv'
<1> SUFFICES ASSUME HealthInv, ProbeFail PROVE HealthInv'
  OBVIOUS
<1> DEFINE p == probing
           gone == Evicts(FailCount(fails[p]))
<1>1. p \in Backends
  BY DEF ProbeFail
<1>2. /\ healthy' = [healthy EXCEPT ![p] = healthy[p] /\ ~gone] /\ UNCHANGED <<proven, ready>>
      /\ fails' = [fails EXCEPT ![p] = (fails[p] + 1) % FailsMod]
      /\ streak' = [streak EXCEPT ![p] = IF streak[p] < FailThreshold THEN streak[p] + 1
                                                                      ELSE streak[p]]
  BY DEF ProbeFail
<1>3. gone \in BOOLEAN
  BY DEF Evicts
<1>4. (fails[p] + 1) % FailsMod \in Nat
  BY <1>1, LbAssumption DEF HealthInv
<1>5. streak[p] \in Nat /\ fails[p] \in Nat
  BY <1>1 DEF HealthInv
<1>6. streak[p] < FailThreshold => /\ (fails[p] + 1) % FailsMod = streak[p] + 1
                                   /\ gone <=> ~(streak[p] + 1 < FailThreshold)
  BY <1>1, <1>5, CountsUp DEF HealthInv
<1> HIDE DEF p, gone
<1>7. /\ healthy' \in [Backends -> BOOLEAN] /\ proven' \in [Backends -> BOOLEAN]
  BY <1>1, <1>2, <1>3 DEF HealthInv
<1>8. fails' \in [Backends -> Nat] /\ streak' \in [Backends -> Nat]
  BY <1>1, <1>2, <1>4, <1>5 DEF HealthInv
<1>9. \A b \in Backends : b # p => /\ healthy'[b] = healthy[b] /\ proven'[b] = proven[b]
                                   /\ fails'[b] = fails[b] /\ streak'[b] = streak[b]
  BY <1>2 DEF HealthInv
<1>10. /\ healthy'[p] = (healthy[p] /\ ~gone) /\ proven'[p] = proven[p]
       /\ fails'[p] = (fails[p] + 1) % FailsMod
       /\ streak'[p] = IF streak[p] < FailThreshold THEN streak[p] + 1 ELSE streak[p]
  BY <1>1, <1>2 DEF HealthInv
<1>11. healthy[p] <=> proven[p] /\ streak[p] < FailThreshold
  BY <1>1 DEF HealthInv, HealthExact
<1>12. healthy'[p] <=> proven'[p] /\ streak'[p] < FailThreshold
  <2>1. CASE streak[p] < FailThreshold
    BY <1>6, <1>10, <1>11, <2>1
  <2>2. CASE ~(streak[p] < FailThreshold)
    BY <1>10, <1>11, <2>2
  <2> QED BY <2>1, <2>2
<1>13. streak'[p] < FailThreshold => fails'[p] = streak'[p]
  BY <1>6, <1>10
<1>14. ASSUME NEW b \in Backends PROVE healthy'[b] <=> proven'[b] /\ streak'[b] < FailThreshold
  BY <1>9, <1>12 DEF HealthInv, HealthExact
<1>15. ASSUME NEW b \in Backends, streak'[b] < FailThreshold PROVE fails'[b] = streak'[b]
  BY <1>9, <1>13, <1>15 DEF HealthInv
<1>16. ready' <=> \E b \in Backends : proven'[b]
  BY <1>2 DEF HealthInv, HealthExact
<1> QED BY <1>7, <1>8, <1>14, <1>15, <1>16 DEF HealthInv, HealthExact

\* HealthInv is inductive.
LEMMA HealthInvHolds == LbSpec => []HealthInv
<1>1. LbInit => HealthInv
  BY LbAssumption DEF LbInit, HealthInv, HealthExact
<1>2. HealthInv /\ [LbNext]_lbVars => HealthInv'
  <2> SUFFICES ASSUME HealthInv, UNCHANGED <<healthy, fails, ready, streak, proven>>
               PROVE  HealthInv'
    BY OthersKeepHealth, ProbeOkKeepsHealth, ProbeFailKeepsHealth
  <2> QED BY DEF HealthInv, HealthExact
<1> QED BY <1>1, <1>2, PTL DEF LbSpec

\* Eviction and readmission are exact: a backend counts as healthy iff a probe of
\* it has succeeded and fewer than --fail-threshold probes have failed since, and
\* READY is sent iff some probe has succeeded.
THEOREM HealthTracked == LbSpec => []HealthExact
<1>1. HealthInv => HealthExact
  BY DEF HealthInv
<1> QED BY <1>1, HealthInvHolds, PTL
-----------------------------------------------------------------------------
PumpStates == {"run", "eof", "write", "drain"}

\* The strengthening: once the deadline is set, the time passed since the signal
\* and the time left add up to at least the timeout.
DrainInv ==
  /\ since \in 0..DrainTimeout /\ left \in 0..DrainTimeout \cup {NoDeadline}
  /\ pump \in [Conns -> [Dirs -> PumpStates]]
  /\ left >= 0 => since + left >= DrainTimeout
  /\ DrainGrace

\* Past the deadline the full timeout has passed.
LEMMA ExpiredMeansPassed == DrainInv /\ DrainExpired => since = DrainTimeout
BY LbAssumption DEF DrainInv, DrainExpired, NoDeadline

LEMMA DrainStep == DrainInv /\ [LbNext]_lbVars => DrainInv'
<1> SUFFICES ASSUME DrainInv, [LbNext]_lbVars PROVE DrainInv'
  OBVIOUS
<1>1. ASSUME UNCHANGED <<since, left, pump>>, main' = "exited" => main = "exited",
             main = "exited" => active' = active
      PROVE  DrainInv'
  BY <1>1 DEF DrainInv, DrainGrace
<1>2. ASSUME ProbeOk \/ ProbeFail \/ EndRound \/ LoopCheck \/ AcceptNothing \/ Signal
             \/ UNCHANGED lbVars \/ \E b \in Backends : BackendChanges(b)
      PROVE  DrainInv'
  BY <1>1, <1>2 DEF ProbeOk, ProbeFail, EndRound, LoopCheck, AcceptNothing, Signal, lbVars,
                    BackendChanges, connVars, drainVars
<1>3. ASSUME NEW c \in Conns,
             Accept(c) \/ LoadFlag(c) \/ Handle(c) \/ DialFail(c) \/ DialOk(c) \/ Refuse(c)
             \/ Join(c) \/ Finish(c) \/ Connect(c) \/ \E d \in Dirs : PeerActs(c, d)
      PROVE  DrainInv'
  BY <1>1, <1>3 DEF Accept, LoadFlag, Handle, DialFail, DialOk, Refuse, Join, Finish, Connect,
                    PeerActs, drainVars, Running
<1>4. ASSUME StartDrain PROVE DrainInv'
  <2>1. /\ left' = DrainTimeout /\ UNCHANGED <<since, pump, active>>
        /\ main' = "flight"
    BY <1>4 DEF StartDrain
  <2>2. left' \in 0..DrainTimeout /\ since + left' >= DrainTimeout
    BY <2>1, LbAssumption DEF DrainInv
  <2> QED BY <2>1, <2>2 DEF DrainInv, DrainGrace
<1>5. ASSUME Exit PROVE DrainInv'
  BY <1>5, ExpiredMeansPassed DEF Exit, DrainInv, DrainGrace, connVars
<1>6. ASSUME Elapse PROVE DrainInv'
  <2>1. /\ since' = IF since < DrainTimeout THEN since + 1 ELSE since
        /\ left' = IF left > 0 THEN left - 1 ELSE left
        /\ UNCHANGED <<main, active, pump>>
    BY <1>6 DEF Elapse, connVars
  <2>2. /\ since' \in 0..DrainTimeout /\ left' \in 0..DrainTimeout \cup {NoDeadline}
        /\ left' >= 0 => since' + left' >= DrainTimeout
        /\ since = DrainTimeout => since' = DrainTimeout
    BY <2>1, LbAssumption DEF DrainInv, NoDeadline
  <2> QED BY <2>1, <2>2 DEF DrainInv, DrainGrace
<1>7. ASSUME NEW c \in Conns, NEW d \in Dirs, StopPump(c, d) PROVE DrainInv'
  <2>1. PICK why \in {"eof", "write", "drain"} :
          StopCause(c, d, why) /\ pump' = [pump EXCEPT ![c][d] = why]
    BY <1>7, ZenonT(30) DEF StopPump
  <2>2. UNCHANGED <<since, left, main, active>>
    BY <1>7 DEF StopPump, drainVars
  <2>3. why = "drain" => since = DrainTimeout
    BY <2>1, ExpiredMeansPassed DEF StopCause
  <2>4. pump' \in [Conns -> [Dirs -> PumpStates]]
    BY <2>1 DEF DrainInv, PumpStates
  <2>5. ASSUME NEW e \in Conns, NEW f \in Dirs, pump'[e][f] = "drain"
        PROVE  since = DrainTimeout
    BY <2>1, <2>3, <2>5 DEF DrainInv, DrainGrace
  <2> QED BY <2>2, <2>4, <2>5 DEF DrainInv, DrainGrace
<1> QED BY <1>2, <1>3, <1>4, <1>5, <1>6, <1>7 DEF LbNext, Threads, Environment

\* Whatever the timing of the signal, the flag and the deadline, in-flight
\* connections have the whole drain timeout.
THEOREM GraceKept == LbSpec => []DrainGrace
<1>1. LbInit => DrainInv
  BY LbAssumption DEF LbInit, DrainInv, DrainGrace, NoDeadline, PumpStates
<1>2. DrainInv => DrainGrace
  BY DEF DrainInv
<1> QED BY <1>1, <1>2, DrainStep, PTL DEF LbSpec

-----------------------------------------------------------------------------
Stages == Threaded \cup {"none", "waiting", "panicked", "reset", "gone"}

\* The stages in which a connection counts: it has a thread or its spawn panicked.
Counted == Threaded \cup {"panicked"}
InFlight == {c \in Conns : stage[c] \in Counted}

LEMMA CountedExact ==
  /\ ActiveExact <=> active = Cardinality(InFlight)
  /\ ActiveExact' <=> active' = Cardinality(InFlight')
<1>1. {c \in Conns : stage[c] \in Threaded} \cup Panicked = InFlight
  BY DEF InFlight, Counted, Panicked
<1>2. {c \in Conns : stage'[c] \in Threaded} \cup Panicked' = InFlight'
  BY DEF InFlight, Counted, Panicked
<1>3. ActiveExact <=> active = Cardinality(InFlight)
  BY <1>1, Zenon DEF ActiveExact
<1>4. ActiveExact' <=> active' = Cardinality(InFlight')
  BY <1>2, Zenon DEF ActiveExact
<1> QED BY <1>3, <1>4, Zenon

ActiveInv == stage \in [Conns -> Stages] /\ active \in Nat /\ ActiveExact

LEMMA ActiveStep == ActiveInv /\ [LbNext]_lbVars => ActiveInv'
<1> SUFFICES ASSUME ActiveInv, [LbNext]_lbVars PROVE ActiveInv'
  OBVIOUS
<1>0. /\ IsFiniteSet(InFlight) /\ active = Cardinality(InFlight)
      /\ stage \in [Conns -> Stages] /\ active \in Nat
  <2>1. InFlight \in SUBSET Conns
    BY DEF InFlight
  <2> QED BY <2>1, LbAssumption, FS_Subset, CountedExact DEF ActiveInv
<1>1. ASSUME stage' \in [Conns -> Stages], active' = active, InFlight' = InFlight
      PROVE  ActiveInv'
  <2>1. active' = Cardinality(InFlight')
    BY <1>0, <1>1
  <2>2. ActiveExact'
    BY <2>1, CountedExact, Zenon
  <2> QED BY <1>0, <1>1, <2>2 DEF ActiveInv
<1>2. ASSUME ProbeOk \/ ProbeFail \/ EndRound \/ LoopCheck \/ AcceptNothing \/ Signal
             \/ Exit \/ Elapse \/ UNCHANGED lbVars \/ \E b \in Backends : BackendChanges(b)
      PROVE  ActiveInv'
  <2>1. UNCHANGED <<stage, active>>
    BY <1>2 DEF ProbeOk, ProbeFail, EndRound, LoopCheck, AcceptNothing, Signal, Exit, Elapse,
                lbVars, BackendChanges, connVars
  <2> QED BY <1>0, <1>1, <2>1 DEF InFlight
<1>3. ASSUME NEW c \in Conns,
             LoadFlag(c) \/ DialFail(c) \/ (\E d \in Dirs : StopPump(c, d) \/ PeerActs(c, d))
      PROVE  ActiveInv'
  <2>1. UNCHANGED <<stage, active>>
    BY <1>3 DEF LoadFlag, DialFail, StopPump, PeerActs
  <2> QED BY <1>0, <1>1, <2>1 DEF InFlight
<1>4. ASSUME NEW c \in Conns,
             Handle(c) \/ DialOk(c) \/ Refuse(c) \/ Join(c) \/ Connect(c)
      PROVE  ActiveInv'
  <2>1. PICK next \in Stages : /\ stage' = [stage EXCEPT ![c] = next]
                               /\ next \in Counted <=> stage[c] \in Counted
    BY <1>4 DEF Handle, DialOk, Refuse, Join, Connect, Counted, Threaded, Stages
  <2>2. active' = active
    BY <1>4 DEF Handle, DialOk, Refuse, Join, Connect
  <2>3. InFlight' = InFlight
    BY <1>0, <2>1 DEF InFlight
  <2> QED BY <1>0, <1>1, <2>1, <2>2, <2>3
<1>5. ASSUME StartDrain PROVE ActiveInv'
  <2>1. /\ active' = active
        /\ stage' = [c \in Conns |-> IF stage[c] = "waiting" THEN "reset" ELSE stage[c]]
    BY <1>5 DEF StartDrain
  <2>2. InFlight' = InFlight
    BY <1>0, <2>1 DEF InFlight, Counted, Threaded
  <2>3. stage' \in [Conns -> Stages]
    BY <1>0, <2>1 DEF Stages
  <2> QED BY <1>1, <2>1, <2>2, <2>3
<1>6. ASSUME NEW c \in Conns, Accept(c) PROVE ActiveInv'
  <2>0. active' = active + 1 /\ stage[c] = "waiting"
    BY <1>6 DEF Accept
  <2>1. PICK next \in {"accepted", "panicked"} : stage' = [stage EXCEPT ![c] = next]
    BY <1>6 DEF Accept
  <2>2. InFlight' = InFlight \cup {c} /\ c \notin InFlight
    BY <1>0, <2>0, <2>1 DEF InFlight, Counted, Threaded
  <2>3. Cardinality(InFlight') = Cardinality(InFlight) + 1
    BY <1>0, <2>2, FS_AddElement
  <2>4. stage' \in [Conns -> Stages]
    BY <1>0, <2>1 DEF Stages, Threaded
  <2>5. active' = Cardinality(InFlight') /\ active' \in Nat
    BY <1>0, <2>0, <2>3
  <2>6. ActiveExact'
    BY <2>5, CountedExact, Zenon
  <2> QED BY <2>4, <2>5, <2>6 DEF ActiveInv
<1>7. ASSUME NEW c \in Conns, Finish(c) PROVE ActiveInv'
  <2>1. /\ active' = active - 1 /\ stage[c] \in Threaded
        /\ stage' = [stage EXCEPT ![c] = "gone"] /\ "gone" \notin Counted
    BY <1>7 DEF Finish, Counted, Threaded
  <2>2. InFlight' = InFlight \ {c} /\ c \in InFlight
    BY <1>0, <2>1 DEF InFlight, Counted
  <2>3. Cardinality(InFlight') = Cardinality(InFlight) - 1 /\ IsFiniteSet(InFlight')
    BY <1>0, <2>2, FS_RemoveElement
  <2>4. active' \in Nat
    BY <1>0, <2>1, <2>3, FS_CardinalityType
  <2>5. stage' \in [Conns -> Stages]
    BY <1>0, <2>1 DEF Stages
  <2>6. active' = Cardinality(InFlight')
    BY <1>0, <2>1, <2>3
  <2>7. ActiveExact'
    BY <2>6, CountedExact, Zenon
  <2> QED BY <2>4, <2>5, <2>7 DEF ActiveInv
<1> QED BY <1>2, <1>3, <1>4, <1>5, <1>6, <1>7 DEF LbNext, Threads, Environment

\* ACTIVE is the number of connections that have a thread or for which spawn
\* panicked: the drain loop does not leave while one is still served, and waits
\* in vain, until the deadline, only for those that panicked.
THEOREM ActiveCounts == LbSpec => []ActiveExact
<1>1. LbInit => ActiveInv
  <2> SUFFICES ASSUME LbInit PROVE ActiveInv
    OBVIOUS
  <2>1. stage \in [Conns -> Stages] /\ active = 0
    BY DEF LbInit, Stages
  <2>2. InFlight = {}
    BY DEF LbInit, InFlight, Counted, Threaded
  <2> QED BY <2>1, <2>2, FS_EmptySet, CountedExact DEF ActiveInv
<1>2. ActiveInv => ActiveExact
  BY DEF ActiveInv
<1> QED BY <1>1, <1>2, ActiveStep, PTL DEF LbSpec

(***************************************************************************)
(* pick_order and the refused client                                       *)
(***************************************************************************)
LEMMA Positions ==
  ASSUME NEW S \in SUBSET (1..N)
  PROVE  IsFiniteSet(S) /\ Cardinality(S) \in Nat /\ \A i \in S : i \in Int /\ 1 <= i
<1>1. N \in Int /\ 1 \in Int
  BY LbAssumption
<1>2. IsFiniteSet(1..N)
  BY <1>1, FS_Interval
<1>3. IsFiniteSet(S)
  BY <1>2, FS_Subset
<1>4. Cardinality(S) \in Nat
  BY <1>3, FS_CardinalityType
<1> QED BY <1>1, <1>3, <1>4

\* Ranks grow along a set of positions.
LEMMA RankGrows ==
  ASSUME NEW S \in SUBSET (1..N), NEW i \in S, NEW j \in S, i < j
  PROVE  Rank(S, i) < Rank(S, j)
<1> DEFINE A == {k \in S : k <= i}
           B == {k \in S : k <= j}
<1>1. IsFiniteSet(S) /\ \A k \in S : k \in Int
  BY Positions
<1>2. A \in SUBSET B /\ B \in SUBSET S /\ j \in B /\ j \notin A
  <2>1. \A k \in S : k <= i => k <= j
    BY <1>1
  <2>2. j <= j /\ ~(j <= i)
    BY <1>1
  <2> QED BY <2>1, <2>2
<1> HIDE DEF A, B
<1>3. IsFiniteSet(B) /\ Cardinality(B) \in Nat
  BY <1>1, <1>2, FS_Subset, FS_CardinalityType
<1>4. Cardinality(A) <= Cardinality(B) /\ (Cardinality(B) = Cardinality(A) => B = A)
      /\ IsFiniteSet(A)
  BY <1>2, <1>3, FS_Subset
<1>5. Cardinality(A) \in Nat
  BY <1>4, FS_CardinalityType
<1>6. Cardinality(A) < Cardinality(B)
  BY <1>2, <1>3, <1>4, <1>5
<1> QED BY <1>6 DEF A, B, Rank

\* The ranks of a set of positions are 1, 2, ... up to its size, each once.
LEMMA RankOnto ==
  ASSUME NEW S \in SUBSET (1..N)
  PROVE  /\ IsFiniteSet(S) /\ Cardinality(S) \in Nat
         /\ \A i \in S : Rank(S, i) \in 1..Cardinality(S)
         /\ \A i, j \in S : Rank(S, i) = Rank(S, j) => i = j
         /\ \A k \in 1..Cardinality(S) : \E i \in S : Rank(S, i) = k
<1> DEFINE f == [i \in S |-> Rank(S, i)]
           T == 1..Cardinality(S)
<1>1. IsFiniteSet(S) /\ Cardinality(S) \in Nat /\ \A k \in S : k \in Int
  BY Positions
<1>2. ASSUME NEW i \in S PROVE Rank(S, i) \in T
  <2> DEFINE A == {k \in S : k <= i}
  <2>1. A \in SUBSET S /\ i \in A
    BY <1>1
  <2> HIDE DEF A
  <2>2. IsFiniteSet(A) /\ Cardinality(A) <= Cardinality(S)
    BY <1>1, <2>1, FS_Subset
  <2>3. Cardinality(A) \in Nat /\ Cardinality(A) # 0
    BY <2>1, <2>2, FS_CardinalityType, FS_EmptySet
  <2>4. Cardinality(A) \in 1..Cardinality(S)
    BY <1>1, <2>2, <2>3
  <2> QED BY <2>4 DEF A, Rank
<1>3. ASSUME NEW i \in S, NEW j \in S, Rank(S, i) = Rank(S, j) PROVE i = j
  <2>1. Rank(S, i) \in Nat /\ Rank(S, j) \in Nat
    BY <1>1, <1>2
  <2>2. i < j \/ j < i \/ i = j
    BY <1>1
  <2> QED BY <1>3, <2>1, <2>2, RankGrows
<1>4. f \in Injection(S, T)
  BY <1>2, <1>3 DEF Injection, IsInjective
<1>5. IsFiniteSet(T) /\ Cardinality(T) = Cardinality(S)
  BY <1>1, FS_Interval
<1> HIDE DEF T
<1>6. f \in Surjection(S, T)
  BY <1>4, <1>5, FS_Injection
<1>7. \A k \in T : \E i \in S : f[i] = k
  BY <1>6 DEF Surjection
<1>8. \A k \in T : \E i \in S : Rank(S, i) = k
  BY <1>7
<1> QED BY <1>1, <1>2, <1>3, <1>8 DEF T

\* Rotation lists every backend, and starts where the cursor stands.
LEMMA RotatedAll ==
  ASSUME NEW s \in Backends
  PROVE  /\ \A i \in 1..N : Rotated(s)[i] \in Backends
         /\ \A b \in Backends : \E i \in 1..N : Rotated(s)[i] = b
         /\ Rotated(s)[1] = s
<1>0. N \in Nat /\ N > 0 /\ s \in Nat /\ s < N
  BY LbAssumption DEF Backends
<1>1. ASSUME NEW i \in 1..N PROVE Rotated(s)[i] \in Backends
  BY <1>0 DEF Rotated, Backends
<1>2. ASSUME NEW b \in Backends PROVE \E i \in 1..N : Rotated(s)[i] = b
  <2>0. b \in Nat /\ b < N
    BY <1>0 DEF Backends
  <2>1. CASE s <= b
    <3>1. b - s + 1 \in 1..N /\ s + (b - s + 1) - 1 = b /\ b % N = b
      BY <1>0, <2>0, <2>1
    <3> QED BY <3>1 DEF Rotated
  <2>2. CASE b < s
    <3>1. b - s + 1 + N \in 1..N /\ s + (b - s + 1 + N) - 1 = b + N /\ (b + N) % N = b
      BY <1>0, <2>0, <2>2
    <3> QED BY <3>1 DEF Rotated
  <2> QED BY <1>0, <2>0, <2>1, <2>2
<1>3. Rotated(s)[1] = s
  <2>1. 1 \in 1..N /\ s + 1 - 1 = s /\ s % N = s
    BY <1>0
  <2> QED BY <2>1 DEF Rotated
<1> QED BY <1>1, <1>2, <1>3

\* filter keeps the backends with the flag, all of them and no other, and the
\* first of the list first.
FilterSound(h, s, keep) ==
  LET F == Filtered(h, s, keep)
  IN  /\ F \in Seq(Backends) /\ Len(F) = Cardinality(Kept(h, s, keep))
      /\ \A k \in 1..Len(F) : h[F[k]] <=> keep
      /\ \A b \in Backends : (h[b] <=> keep) => \E k \in 1..Len(F) : F[k] = b
      /\ (h[s] <=> keep) => 1 \in 1..Len(F) /\ F[1] = s

LEMMA FilteredAll ==
  ASSUME NEW h \in [Backends -> BOOLEAN], NEW s \in Backends, NEW keep \in BOOLEAN
  PROVE  FilterSound(h, s, keep)
<1> DEFINE S == Kept(h, s, keep)
           n == Cardinality(S)
           at(k) == CHOOSE i \in S : Rank(S, i) = k
           F == Filtered(h, s, keep)
<1>1. S \in SUBSET (1..N) /\ \A i \in 1..N : i \in S <=> h[Rotated(s)[i]] = keep
  BY DEF Kept
<1>2. F = [k \in 1..n |-> Rotated(s)[at(k)]]
  BY DEF Filtered
<1> HIDE DEF S, F
<1>3. /\ n \in Nat
      /\ \A i \in S : Rank(S, i) \in 1..n
      /\ \A i, j \in S : Rank(S, i) = Rank(S, j) => i = j
      /\ \A k \in 1..n : \E i \in S : Rank(S, i) = k
  BY <1>1, RankOnto
<1>4. \A k \in 1..n : at(k) \in S /\ Rank(S, at(k)) = k
  BY <1>3
<1>5. \A i \in S : at(Rank(S, i)) = i
  BY <1>3, <1>4
<1> HIDE DEF at, n
<1>6. \A k \in 1..n : F[k] = Rotated(s)[at(k)] /\ at(k) \in 1..N /\ h[F[k]] = keep
  BY <1>1, <1>2, <1>4
<1>7. F \in Seq(Backends) /\ Len(F) = n
  <2>1. F \in [1..n -> Backends]
    BY <1>2, <1>6, RotatedAll
  <2> QED BY <1>3, <2>1
<1>8. ASSUME NEW b \in Backends, h[b] = keep PROVE \E k \in 1..n : F[k] = b
  <2>1. PICK i \in 1..N : Rotated(s)[i] = b
    BY RotatedAll
  <2>2. i \in S
    BY <1>1, <1>8, <2>1
  <2> QED BY <1>3, <1>5, <1>6, <2>1, <2>2
<1>9. ASSUME h[s] = keep PROVE 1 \in 1..n /\ F[1] = s
  <2>1. 1 \in S /\ Rotated(s)[1] = s
    BY <1>1, <1>9, RotatedAll, LbAssumption
  <2>2. {j \in S : j <= 1} = {1}
    <3>1. \A j \in S : j \in Int /\ 1 <= j
      BY <1>1, Positions
    <3>2. \A j \in S : j <= 1 <=> j = 1
      BY <3>1
    <3> QED BY <2>1, <3>2
  <2>3. Rank(S, 1) = 1
    BY <2>2, FS_Singleton DEF Rank
  <2>4. 1 \in 1..n /\ at(1) = 1
    BY <1>3, <1>5, <2>1, <2>3
  <2> QED BY <1>6, <2>1, <2>4
<1>10. \A b \in Backends : h[b] \in BOOLEAN
  OBVIOUS
<1>11. \A b \in Backends : (h[b] <=> keep) => h[b] = keep
  BY <1>10, Zenon
<1>12. \A k \in 1..n : h[F[k]] <=> keep
  BY <1>6, Zenon
<1>13. /\ F \in Seq(Backends) /\ Len(F) = Cardinality(Kept(h, s, keep))
       /\ \A k \in 1..Len(F) : h[F[k]] <=> keep
       /\ \A b \in Backends : (h[b] <=> keep) => \E k \in 1..Len(F) : F[k] = b
       /\ (h[s] <=> keep) => 1 \in 1..Len(F) /\ F[1] = s
  BY <1>7, <1>8, <1>9, <1>11, <1>12, Zenon DEF S, n
<1> QED BY <1>13, Zenon DEF F, FilterSound

\* pick_order for one cursor: all backends, each once, healthy ones first, and
\* the one under the cursor at the head if it is healthy.
LEMMA PickOrderAll ==
  ASSUME NEW h \in [Backends -> BOOLEAN], NEW s \in Backends
  PROVE  /\ PickOrder(h, s) \in Seq(Backends)
         /\ Len(PickOrder(h, s)) = N
         /\ {PickOrder(h, s)[i] : i \in 1..N} = Backends
         /\ \A i, j \in 1..N : i < j /\ h[PickOrder(h, s)[j]] => h[PickOrder(h, s)[i]]
         /\ h[s] => PickOrder(h, s)[1] = s
<1> DEFINE A == Filtered(h, s, TRUE)
           B == Filtered(h, s, FALSE)
           KA == Kept(h, s, TRUE)
           KB == Kept(h, s, FALSE)
           o == A \o B
<1>1. /\ A \in Seq(Backends) /\ Len(A) = Cardinality(KA)
      /\ \A k \in 1..Len(A) : h[A[k]]
      /\ \A b \in Backends : h[b] => \E k \in 1..Len(A) : A[k] = b
      /\ h[s] => 1 \in 1..Len(A) /\ A[1] = s
  <2>1. FilterSound(h, s, TRUE)
    BY FilteredAll, Zenon
  <2> QED BY <2>1, Zenon DEF FilterSound
<1>2. /\ B \in Seq(Backends) /\ Len(B) = Cardinality(KB)
      /\ \A k \in 1..Len(B) : ~h[B[k]]
      /\ \A b \in Backends : ~h[b] => \E k \in 1..Len(B) : B[k] = b
  <2>1. FilterSound(h, s, FALSE)
    BY FilteredAll, Zenon
  <2> QED BY <2>1, Zenon DEF FilterSound
<1>3. Cardinality(KA) + Cardinality(KB) = N
  <2>1. KA \in SUBSET (1..N) /\ KB \in SUBSET (1..N) /\ KA \cap KB = {} /\ KA \cup KB = 1..N
    <3>1. \A i \in 1..N : h[Rotated(s)[i]] \in BOOLEAN
      BY RotatedAll
    <3> QED BY <3>1 DEF Kept
  <2> HIDE DEF KA, KB
  <2>2. IsFiniteSet(KA) /\ IsFiniteSet(KB) /\ Cardinality(KA) \in Nat /\ Cardinality(KB) \in Nat
    BY <2>1, Positions
  <2>3. Cardinality(KA \cup KB) = Cardinality(KA) + Cardinality(KB) - Cardinality(KA \cap KB)
    BY <2>2, FS_Union
  <2>4. Cardinality(KA \cap KB) = 0
    BY <2>1, FS_EmptySet
  <2>5. Cardinality(1..N) = N
    <3>1. N \in Int /\ 1 \in Int /\ ~(1 > N) /\ N - 1 + 1 = N
      BY LbAssumption
    <3> QED BY <3>1, FS_Interval
  <2>6. Cardinality(KA) + Cardinality(KB) - 0 = N
    BY <2>1, <2>3, <2>4, <2>5
  <2> QED BY <2>2, <2>6
<1> HIDE DEF A, B, KA, KB
<1>4. /\ o \in Seq(Backends) /\ Len(o) = Len(A) + Len(B)
      /\ \A i \in 1..(Len(A) + Len(B)) : o[i] = IF i <= Len(A) THEN A[i] ELSE B[i - Len(A)]
  <2>1. A \in Seq(Backends) /\ B \in Seq(Backends)
    BY <1>1, <1>2
  <2> QED BY <2>1
<1>5. Len(A) \in Nat /\ Len(B) \in Nat /\ Len(A) + Len(B) = N
  BY <1>1, <1>2, <1>3
<1> HIDE DEF o
<1>6. \A i \in 1..N : i <= Len(A) => i \in 1..Len(A) /\ o[i] = A[i]
  BY <1>4, <1>5
<1>7. \A i \in 1..N : ~(i <= Len(A)) => i - Len(A) \in 1..Len(B) /\ o[i] = B[i - Len(A)]
  BY <1>4, <1>5
<1>8. o \in Seq(Backends) /\ Len(o) = N
  BY <1>4, <1>5
<1>9. \A i \in 1..N : o[i] \in Backends
  BY <1>8
<1>10. ASSUME NEW b \in Backends PROVE \E i \in 1..N : o[i] = b
  <2>1. CASE h[b]
    <3>1. PICK k \in 1..Len(A) : A[k] = b
      BY <1>1, <2>1
    <3>2. k \in 1..N /\ k <= Len(A)
      BY <1>5
    <3> QED BY <1>6, <3>1, <3>2
  <2>2. CASE ~h[b]
    <3>1. PICK k \in 1..Len(B) : B[k] = b
      BY <1>2, <2>2
    <3>2. k + Len(A) \in 1..N /\ ~(k + Len(A) <= Len(A)) /\ (k + Len(A)) - Len(A) = k
      BY <1>5
    <3> QED BY <1>7, <3>1, <3>2
  <2> QED BY <2>1, <2>2
<1>11. {o[i] : i \in 1..N} = Backends
  BY <1>9, <1>10
<1>12. ASSUME NEW i \in 1..N, NEW j \in 1..N, i < j, h[o[j]] PROVE h[o[i]]
  <2>1. j <= Len(A)
    BY <1>2, <1>7, <1>12
  <2>2. i <= Len(A)
    BY <1>5, <1>12, <2>1
  <2> QED BY <1>1, <1>6, <2>2
<1>13. h[s] => o[1] = s
  <2>1. 1 \in 1..Len(A) => 1 \in 1..N /\ 1 <= Len(A)
    BY <1>5
  <2> QED BY <1>1, <1>6, <2>1
<1>14. o = PickOrder(h, s)
  BY DEF o, A, B, PickOrder
<1> QED BY <1>8, <1>11, <1>12, <1>13, <1>14

\* Where PickOrderSound meets the flags that the probes have stored.
LEMMA FlagsSuffice == healthy \in [Backends -> BOOLEAN] => PickOrderSound
<1> SUFFICES ASSUME healthy \in [Backends -> BOOLEAN] PROVE PickOrderSound
  OBVIOUS
<1>1. ASSUME NEW s \in Backends
      PROVE  LET o == PickOrder(healthy, s)
             IN  /\ Len(o) = N /\ {o[i] : i \in DOMAIN o} = Backends
                 /\ \A i, j \in DOMAIN o : i < j /\ healthy[o[j]] => healthy[o[i]]
  <2> DEFINE o == PickOrder(healthy, s)
  <2>1. /\ o \in Seq(Backends) /\ Len(o) = N /\ {o[i] : i \in 1..N} = Backends
        /\ \A i, j \in 1..N : i < j /\ healthy[o[j]] => healthy[o[i]]
    BY PickOrderAll
  <2> HIDE DEF o
  <2>2. DOMAIN o = 1..N
    BY <2>1
  <2>3. /\ Len(o) = N /\ {o[i] : i \in DOMAIN o} = Backends
        /\ \A i, j \in DOMAIN o : i < j /\ healthy[o[j]] => healthy[o[i]]
    BY <2>1, <2>2
  <2> QED BY <2>3 DEF o
<1>2. \A b \in Backends : healthy[b] => \E s \in Backends : PickOrder(healthy, s)[1] = b
  BY PickOrderAll
<1> QED BY <1>1, <1>2 DEF PickOrderSound

\* pick_order tries every backend, the healthy ones first, and lets each of
\* them come first for some value of the cursor, whatever the probes stored.
THEOREM PickOrderHolds == LbSpec => []PickOrderSound
<1>1. HealthInv => PickOrderSound
  BY FlagsSuffice DEF HealthInv
<1> QED BY <1>1, HealthInvHolds, PTL

\* The strengthening: a handler that dials has tried, or still has to try, every
\* backend, and nobody was tried before.
DialInv ==
  /\ stage \in [Conns -> Stages] /\ cursor \in Backends
  /\ order \in [Conns -> Seq(Backends)] /\ tried \in [Conns -> SUBSET Backends]
  /\ flags \in [Conns -> Seq(BOOLEAN)]
  /\ \A c \in Conns :
       /\ stage[c] \in {"none", "waiting", "accepted"} => tried[c] = {}
       /\ stage[c] = "dialing" =>
            tried[c] \cup {order[c][i] : i \in 1..Len(order[c])} = Backends
  /\ RefusedByAll

\* A backend that refuses moves from the head of the list to those tried.
LEMMA HeadOrTail ==
  ASSUME NEW s \in Seq(Backends), s # <<>>
  PROVE  /\ Head(s) \in Backends /\ Tail(s) \in Seq(Backends)
         /\ {s[i] : i \in 1..Len(s)} = {Head(s)} \cup {Tail(s)[i] : i \in 1..Len(Tail(s))}
<1>1. /\ Head(s) \in Backends /\ Tail(s) \in Seq(Backends) /\ Len(Tail(s)) = Len(s) - 1
      /\ \A i \in 1..Len(Tail(s)) : Tail(s)[i] = s[i + 1]
  BY HeadTailProperties
<1>2. Len(s) \in Nat /\ Len(s) > 0 /\ Head(s) = s[1]
  OBVIOUS
<1>3. ASSUME NEW i \in 1..Len(s)
      PROVE  s[i] = Head(s) \/ \E j \in 1..Len(Tail(s)) : s[i] = Tail(s)[j]
  <2>1. CASE i = 1
    BY <1>2, <2>1
  <2>2. CASE i # 1
    <3>1. i - 1 \in 1..Len(Tail(s)) /\ (i - 1) + 1 = i
      BY <1>1, <1>2, <2>2
    <3> QED BY <1>1, <3>1
  <2> QED BY <2>1, <2>2
<1>4. \A j \in 1..Len(Tail(s)) : j + 1 \in 1..Len(s)
  BY <1>1, <1>2
<1>5. 1 \in 1..Len(s)
  BY <1>2
<1>6. \A j \in 1..Len(Tail(s)) : \E i \in 1..Len(s) : s[i] = Tail(s)[j]
  BY <1>1, <1>4
<1>7. \E i \in 1..Len(s) : s[i] = Head(s)
  BY <1>2, <1>5
<1> DEFINE all == {s[i] : i \in 1..Len(s)}
           rest == {Tail(s)[i] : i \in 1..Len(Tail(s))}
<1>8. \A x \in all : x = Head(s) \/ x \in rest
  BY <1>3
<1>9. Head(s) \in all /\ \A x \in rest : x \in all
  BY <1>6, <1>7
<1> HIDE DEF all, rest
<1>10. all = {Head(s)} \cup rest
  BY <1>8, <1>9
<1> QED BY <1>1, <1>10 DEF all, rest

LEMMA DialStep == HealthInv /\ DialInv /\ [LbNext]_lbVars => DialInv'
<1> SUFFICES ASSUME HealthInv, DialInv, [LbNext]_lbVars PROVE DialInv'
  OBVIOUS
<1> DEFINE Listed(c) == {order[c][i] : i \in 1..Len(order[c])}
           Good(c) == /\ stage[c] \in {"none", "waiting", "accepted"} => tried[c] = {}
                      /\ stage[c] = "dialing" => tried[c] \cup Listed(c) = Backends
                      /\ stage[c] = "refused" => tried[c] = Backends
           Typed == /\ stage \in [Conns -> Stages] /\ cursor \in Backends
                    /\ order \in [Conns -> Seq(Backends)]
                    /\ tried \in [Conns -> SUBSET Backends]
                    /\ flags \in [Conns -> Seq(BOOLEAN)]
<1>0. Typed /\ \A c \in Conns : Good(c)
  BY DEF DialInv, RefusedByAll
<1>1. ASSUME Typed', \A c \in Conns : Good(c)' PROVE DialInv'
  BY <1>1 DEF DialInv, RefusedByAll
<1>2. ASSUME UNCHANGED <<stage, cursor, order, tried>>, flags' \in [Conns -> Seq(BOOLEAN)]
      PROVE  DialInv'
  BY <1>0, <1>1, <1>2
<1>3. ASSUME NEW c \in Conns, NEW next \in Stages, stage' = [stage EXCEPT ![c] = next],
             UNCHANGED <<cursor, order, tried, flags>>,
             next \in {"none", "waiting", "accepted"} =>
               stage[c] \in {"none", "waiting", "accepted"},
             next # "dialing", next = "refused" => tried[c] = Backends
      PROVE  DialInv'
  <2>1. Typed'
    BY <1>0, <1>3
  <2>2. ASSUME NEW e \in Conns PROVE Good(e)'
    <3>1. CASE e = c
      BY <1>0, <1>3, <3>1
    <3>2. CASE e # c
      BY <1>0, <1>3, <3>2
    <3> QED BY <3>1, <3>2
  <2> QED BY <1>1, <2>1, <2>2
<1>4. ASSUME ProbeOk \/ ProbeFail \/ EndRound \/ LoopCheck \/ AcceptNothing \/ Signal
             \/ Exit \/ Elapse \/ UNCHANGED lbVars \/ \E b \in Backends : BackendChanges(b)
      PROVE  DialInv'
  <2>1. UNCHANGED <<stage, cursor, order, tried, flags>>
    BY <1>4 DEF ProbeOk, ProbeFail, EndRound, LoopCheck, AcceptNothing, Signal, Exit, Elapse,
                lbVars, BackendChanges, connVars
  <2> QED BY <1>0, <1>2, <2>1
<1>5. ASSUME NEW c \in Conns, \E d \in Dirs : StopPump(c, d) \/ PeerActs(c, d) PROVE DialInv'
  <2>1. UNCHANGED <<stage, cursor, order, tried, flags>>
    BY <1>5 DEF StopPump, PeerActs
  <2> QED BY <1>0, <1>2, <2>1
<1>6. ASSUME NEW c \in Conns, Accept(c) \/ DialOk(c) \/ Join(c) \/ Finish(c) \/ Connect(c)
      PROVE  DialInv'
  <2>1. PICK next \in {"waiting", "accepted", "pumping", "returned", "panicked", "gone"} :
          /\ stage' = [stage EXCEPT ![c] = next]
          /\ next \in {"waiting", "accepted"} => stage[c] \in {"none", "waiting"}
    BY <1>6 DEF Accept, DialOk, Join, Finish, Connect
  <2>2. UNCHANGED <<cursor, order, tried, flags>>
    BY <1>6 DEF Accept, DialOk, Join, Finish, Connect
  <2>3. next \in Stages
    BY DEF Stages, Threaded
  <2> QED BY <1>3, <2>1, <2>2, <2>3, Zenon
<1>7. ASSUME NEW c \in Conns, Refuse(c) PROVE DialInv'
  <2>1. /\ stage[c] = "dialing" /\ order[c] = <<>> /\ stage' = [stage EXCEPT ![c] = "refused"]
        /\ UNCHANGED <<cursor, order, tried, flags>>
    BY <1>7 DEF Refuse
  <2>2. Listed(c) = {}
    BY <2>1
  <2>3. tried[c] = Backends
    BY <1>0, <2>1, <2>2, Zenon
  <2>4. "refused" \in Stages
    BY DEF Stages, Threaded
  <2> QED BY <1>3, <2>1, <2>3, <2>4, Zenon
<1>8. ASSUME StartDrain PROVE DialInv'
  <2>1. /\ stage' = [c \in Conns |-> IF stage[c] = "waiting" THEN "reset" ELSE stage[c]]
        /\ UNCHANGED <<cursor, order, tried, flags>>
    BY <1>8 DEF StartDrain
  <2>2. Typed'
    BY <1>0, <2>1 DEF Stages
  <2>3. \A c \in Conns : stage'[c] = stage[c] \/ stage'[c] = "reset"
    BY <2>1
  <2>4. \A c \in Conns : Good(c)'
    BY <1>0, <2>1, <2>3
  <2> QED BY <1>1, <2>2, <2>4
<1>9. ASSUME NEW c \in Conns, Handle(c) PROVE DialInv'
  <2> DEFINE h == [b \in Backends |-> flags[c][b + 1]]
             o == PickOrder(h, cursor)
  <2>1. /\ stage[c] = "accepted" /\ stage' = [stage EXCEPT ![c] = "dialing"]
        /\ order' = [order EXCEPT ![c] = o]
        /\ cursor' = (cursor + 1) % N /\ tried' = tried
        /\ Len(flags[c]) = N /\ flags' = [flags EXCEPT ![c] = <<>>]
    BY <1>9 DEF Handle
  <2>2. o \in Seq(Backends) /\ Len(o) = N /\ {o[i] : i \in 1..N} = Backends
    <3>1. \A b \in Backends : b + 1 \in 1..Len(flags[c])
      BY <2>1, LbAssumption DEF Backends
    <3>2. flags[c] \in Seq(BOOLEAN) /\ cursor \in Backends
      BY <1>0
    <3>3. \A b \in Backends : flags[c][b + 1] \in BOOLEAN
      BY <3>1, <3>2
    <3>4. h \in [Backends -> BOOLEAN]
      BY <3>3
    <3> QED BY <3>2, <3>4, PickOrderAll, Zenon
  <2> HIDE DEF o
  <2>3. Typed'
    <3>1. cursor' \in Backends
      BY <1>0, <2>1, LbAssumption DEF Backends
    <3>2. "dialing" \in Stages
      BY DEF Stages, Threaded
    <3>3. flags' \in [Conns -> Seq(BOOLEAN)]
      BY <1>0, <2>1
    <3> QED BY <1>0, <2>1, <2>2, <3>1, <3>2, <3>3
  <2>4. ASSUME NEW e \in Conns PROVE Good(e)'
    <3>1. CASE e = c
      <4>1. stage'[c] = "dialing" /\ order'[c] = o
        BY <1>0, <2>1
      <4>2. {order'[c][i] : i \in 1..Len(order'[c])} = Backends
        BY <2>2, <4>1
      <4>3. tried'[c] \cup Backends = Backends
        BY <2>3
      <4> QED BY <3>1, <4>1, <4>2, <4>3
    <3>2. CASE e # c
      <4>1. stage'[e] = stage[e] /\ order'[e] = order[e] /\ tried'[e] = tried[e]
        BY <1>0, <2>1, <3>2
      <4> QED BY <1>0, <4>1
    <3> QED BY <3>1, <3>2
  <2> QED BY <1>1, <2>3, <2>4
<1>10. ASSUME NEW c \in Conns, DialFail(c) PROVE DialInv'
  <2>1. /\ stage[c] = "dialing" /\ order[c] # <<>> /\ UNCHANGED <<stage, cursor, flags>>
        /\ order' = [order EXCEPT ![c] = Tail(order[c])]
        /\ tried' = [tried EXCEPT ![c] = tried[c] \cup {Head(order[c])}]
    BY <1>10 DEF DialFail
  <2>2. /\ Head(order[c]) \in Backends /\ Tail(order[c]) \in Seq(Backends)
        /\ Listed(c) = {Head(order[c])} \cup
                       {Tail(order[c])[i] : i \in 1..Len(Tail(order[c]))}
    BY <1>0, <2>1, HeadOrTail, Zenon
  <2>3. Typed'
    BY <1>0, <2>1, <2>2
  <2>4. ASSUME NEW e \in Conns PROVE Good(e)'
    <3>1. CASE e = c
      <4>1. /\ order'[c] = Tail(order[c]) /\ tried'[c] = tried[c] \cup {Head(order[c])}
            /\ stage'[c] = "dialing"
        BY <1>0, <2>1
      <4>2. tried[c] \cup Listed(c) = Backends
        BY <1>0, <2>1
      <4>3. tried'[c] \cup {order'[c][i] : i \in 1..Len(order'[c])} = tried[c] \cup Listed(c)
        BY <2>2, <4>1
      <4> QED BY <3>1, <4>1, <4>2, <4>3
    <3>2. CASE e # c
      <4>1. stage'[e] = stage[e] /\ order'[e] = order[e] /\ tried'[e] = tried[e]
        BY <1>0, <2>1, <3>2
      <4> QED BY <1>0, <4>1
    <3> QED BY <3>1, <3>2
  <2> QED BY <1>1, <2>3, <2>4
<1>11. ASSUME NEW c \in Conns, LoadFlag(c) PROVE DialInv'
  <2>1. /\ Len(flags[c]) < N /\ UNCHANGED <<stage, cursor, order, tried>>
        /\ flags' = [flags EXCEPT ![c] = Append(flags[c], healthy[Len(flags[c])])]
    BY <1>11 DEF LoadFlag
  <2>2. flags[c] \in Seq(BOOLEAN) /\ Len(flags[c]) \in Backends
    BY <1>0, <2>1, LbAssumption DEF Backends
  <2>3. healthy[Len(flags[c])] \in BOOLEAN
    BY <2>2 DEF HealthInv
  <2>4. Append(flags[c], healthy[Len(flags[c])]) \in Seq(BOOLEAN)
    BY <2>2, <2>3
  <2>5. flags' \in [Conns -> Seq(BOOLEAN)]
    BY <1>0, <2>1, <2>4
  <2> QED BY <1>2, <2>1, <2>5
<1> QED BY <1>4, <1>5, <1>6, <1>7, <1>8, <1>9, <1>10, <1>11 DEF LbNext, Threads, Environment

\* A client that gets a descriptor and a thread is dropped only after every
\* backend refused it, however the flags its handler has read one by one lag
\* behind the backends or mix two rounds of probes.
THEOREM RefusalIsLast == LbSpec => []RefusedByAll
<1>1. LbInit => DialInv
  <2> SUFFICES ASSUME LbInit PROVE DialInv
    OBVIOUS
  <2>1. cursor \in Backends
    BY LbAssumption DEF LbInit, Backends
  <2>2. stage \in [Conns -> Stages] /\ \A c \in Conns : stage[c] = "none"
    BY DEF LbInit, Stages
  <2>3. order \in [Conns -> Seq(Backends)] /\ tried \in [Conns -> SUBSET Backends]
    BY DEF LbInit
  <2>4. flags \in [Conns -> Seq(BOOLEAN)] /\ \A c \in Conns : tried[c] = {}
    BY DEF LbInit
  <2> QED BY <2>1, <2>2, <2>3, <2>4 DEF DialInv, RefusedByAll
<1>2. DialInv => RefusedByAll
  BY DEF DialInv
<1> QED BY <1>1, <1>2, HealthInvHolds, DialStep, PTL DEF LbSpec

=============================================================================
