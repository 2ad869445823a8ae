---------------------------- MODULE ReadyProofs ----------------------------
(***************************************************************************)
(* Proofs about Ready for any exit codes and any number of signals.        *)
(***************************************************************************)
EXTENDS Ready, TLAPS

USE DEF TERM, INT

\* What the steps of the wrapper have in common: which of them come before the
\* component is there, and which after both handlers are.
Before == {"configure", "build", "spawn"}
Early == {"store", "term", "int"}
Late == {"trywait", "check", "notify", "wait", "leave"}

\* The types without the bounds.
Typed ==
    /\ mode \in {"wrap", "wait"} /\ kind \in {"unix", "http", "badname"}
    /\ pc \in Before \cup Early \cup Late \cup {"gone"}
    /\ child \in Moods \cup {"none", "dead", "reaped"}
    /\ other \in {"none", "unwell", "healthy"} /\ told \in Nat /\ signals \in Nat /\ stray \in BOOLEAN

\* Where the wrapper is tells what it has done for its component.
Phase ==
    /\ exit \in {"no", "killed", "exit"} /\ (Running <=> pc # "gone")
    /\ mode = "wait" => pc \in {"configure", "build", "check", "gone"} /\ handlers = {}
                        /\ child \notin {"none", "reaped"}
    /\ mode = "wrap" /\ pc \in Before => child = "none"
    /\ mode = "wrap" /\ pc \in (Early \cup Late) \ {"leave"} => child \in Moods \cup {"dead"}
    /\ pc = "leave" => child = "reaped"

\* The handlers are there from one step on, and the pid before them.
Handled ==
    /\ handlers # {} => pid = TRUE
    /\ pc \in {"term", "int"} => pid = TRUE
    /\ pc = "int" => TERM \in handlers
    /\ mode = "wrap" /\ pc \in Late => TERM \in handlers /\ INT \in handlers

\* A component that is dead has a status.
Ended == child \in {"dead", "reaped"} => status.how \in {"code", "signal"}

\* READY=1 and the answer before it.
Told ==
    /\ pc \notin {"notify", "wait", "leave", "gone"} => served = "none" /\ told = 0
    /\ pc = "notify" => told = 0
    /\ pc = "notify" => served \in IF kind = "unix" THEN {"slow", "unwell", "healthy"}
                                   ELSE {"healthy"}

Left == mode = "wrap" /\ exit = "killed" /\ ChildAlive => diedAt \in Early

ReadyInv ==
    /\ Typed /\ Phase /\ Handled /\ Ended /\ Told /\ Left
    /\ ToldTruthfully /\ ExitMirrorsChild /\ StrayOnlyAtExit

\* The invariant holds before anything runs.
LEMMA ReadyInvInit == ReadyInit => ReadyInv
<1> SUFFICES ASSUME ReadyInit PROVE ReadyInv
  OBVIOUS
<1>1. Typed
  BY DEF ReadyInit, Typed, Before, Early, Late, Moods
<1>2. Phase /\ Handled /\ Ended /\ Told /\ Left
  BY DEF ReadyInit, Phase, Handled, Ended, Told, Left, Before, Early, Late, Running, Moods
<1>3. ToldTruthfully /\ ExitMirrorsChild /\ StrayOnlyAtExit
  BY DEF ReadyInit, ToldTruthfully, ExitMirrorsChild, StrayOnlyAtExit
<1> QED BY <1>1, <1>2, <1>3 DEF ReadyInv

\* Every step keeps the invariant.
LEMMA ReadyInvStep == ReadyInv /\ [ReadyNext]_vars => ReadyInv'
<1> SUFFICES ASSUME ReadyInv, [ReadyNext]_vars PROVE ReadyInv'
  OBVIOUS
<1> USE DEF ReadyInv, Typed, Phase, Handled, Ended, Told, Left, ToldTruthfully, ExitMirrorsChild,
            StrayOnlyAtExit, Before, Early, Late, Running, ChildAlive, Moods, component, signalled
<1>1. ASSUME NEW ok \in BOOLEAN, Configure(ok) PROVE ReadyInv'
  BY <1>1 DEF Configure, Exit
<1>2. ASSUME NEW ok \in BOOLEAN, BuildProbe(ok) PROVE ReadyInv'
  BY <1>2 DEF BuildProbe, Exit
<1>3. ASSUME NEW ok \in BOOLEAN, Spawn(ok) PROVE ReadyInv'
  BY <1>3 DEF Spawn, Exit
<1>4. CASE StorePid
  BY <1>4 DEF StorePid
<1>5. CASE Install(TERM, "term", "int")
  BY <1>5 DEF Install
<1>6. CASE Install(INT, "int", "trywait")
  BY <1>6 DEF Install
<1>7. CASE TryWait
  BY <1>7 DEF TryWait
<1>8. CASE LeaveWith
  BY <1>8 DEF LeaveWith, Exit, ExitCode
<1>9. CASE Check
  <2>1. CASE Again /\ Running /\ pc = "check" /\ UNCHANGED <<mode, kind, component, told, signalled>>
    BY <2>1 DEF Again
  <2>2. ASSUME NEW who \in Listeners, Running, pc = "check", kind # "badname",
               Counts(Health(who)), Answered(who),
               UNCHANGED <<mode, kind, component, told, signalled>>
        PROVE  ReadyInv'
    <3>1. served' \in {"slow", "unwell", "healthy"} /\ (kind = "http" => served' = "healthy")
      BY <2>2 DEF Answered, Counts, Listeners
    <3> QED BY <2>2, <3>1 DEF Answered, Exit
  <2>3. CASE /\ Running /\ pc = "check" /\ kind = "badname" /\ Exit(2) /\ UNCHANGED served
             /\ UNCHANGED <<mode, kind, component, told, signalled>>
    BY <2>3 DEF Exit
  <2> QED BY <1>9, <2>1, <2>2, <2>3, Zenon DEF Check
<1>10. ASSUME NEW sent \in BOOLEAN, Notify(sent) PROVE ReadyInv'
  BY <1>10 DEF Notify
<1>11. CASE Wait
  BY <1>11 DEF Wait
<1>12. ASSUME NEW sig \in {TERM, INT}, NEW whole \in BOOLEAN, Signal(sig, whole) PROVE ReadyInv'
  <2>1. /\ Running /\ signals' = signals + 1
        /\ UNCHANGED <<mode, kind, child, other, status, told, served, code, handlers, pid>>
        /\ stray' = (stray \/ ((sig \in handlers /\ pid) /\ child = "reaped"))
    BY <1>12 DEF Signal
  <2>2. child = "reaped" => pc = "leave"
    BY <2>1
  <2>3. CASE sig \in handlers
    <3>1. UNCHANGED <<exit, pc, diedAt>>
      BY <1>12, <2>3 DEF Signal
    <3> QED BY <2>1, <2>2, <3>1
  <2>4. CASE sig \notin handlers
    <3>1. exit' = "killed" /\ pc' = "gone" /\ diedAt' = pc
      BY <1>12, <2>4 DEF Signal
    <3>2. stray' = stray
      BY <2>1, <2>4
    <3>3. mode = "wrap" => pc \notin Late
      BY <2>4
    <3> QED BY <2>1, <2>2, <3>1, <3>2, <3>3
  <2> QED BY <2>3, <2>4
<1>13. ASSUME NEW c \in Codes, ChildEnds(c) PROVE ReadyInv'
  BY <1>13 DEF ChildEnds, Ends
<1>14. CASE ChildObeys
  BY <1>14 DEF ChildObeys, Ends
<1>15. ASSUME NEW m \in Moods, ChangeMood(m) PROVE ReadyInv'
  BY <1>15 DEF ChangeMood
<1>16. ASSUME NEW m \in {"none", "unwell", "healthy"}, OtherServes(m) PROVE ReadyInv'
  BY <1>16 DEF OtherServes
<1>17. CASE UNCHANGED vars
  BY <1>17 DEF vars
<1> QED BY <1>1, <1>2, <1>3, <1>4, <1>5, <1>6, <1>7, <1>8, <1>9, <1>10, <1>11, <1>12,
          <1>13, <1>14, <1>15, <1>16, <1>17, ZenonT(30) DEF ReadyNext, WrapperStep

\* The invariant holds always.
LEMMA ReadyInductive == ReadySpec => []ReadyInv
BY ReadyInvInit, ReadyInvStep, PTL DEF ReadySpec

\* ToldTruthfully: READY=1, and the good end of --wait, come after an answer
\* that counts.
THEOREM ReadyIsTrue == ReadySpec => []ToldTruthfully
<1>1. ReadyInv => ToldTruthfully
  BY DEF ReadyInv
<1> QED BY <1>1, ReadyInductive, PTL

\* ExitMirrorsChild: the wrapper's exit code is the component's.
THEOREM ExitIsTheChilds == ReadySpec => []ExitMirrorsChild
<1>1. ReadyInv => ExitMirrorsChild
  BY DEF ReadyInv
<1> QED BY <1>1, ReadyInductive, PTL

\* ReportsTrue: readiness and exit code, whenever signals arrive and however
\* the component ends.
THEOREM ReportsAreTrue == ReadySpec => []ReportsTrue
BY ReadyIsTrue, ExitIsTheChilds, PTL DEF ReportsTrue

\* OrphanCases: a component is left behind only by a wrapper killed before its
\* handlers are there, or by one whose probe died of its host.
THEOREM OrphansAreKnown == ReadySpec => []OrphanCases
<1>1. ReadyInv => OrphanCases
  BY DEF ReadyInv, Typed, Phase, Left, ExitMirrorsChild, OrphanCases, Running, ChildAlive,
         Early, Moods
<1> QED BY <1>1, ReadyInductive, PTL

\* StrayOnlyAtExit: no signal goes to a pid that was reaped before the wrapper
\* is about to exit.
THEOREM StraysAtExit == ReadySpec => []StrayOnlyAtExit
<1>1. ReadyInv => StrayOnlyAtExit
  BY DEF ReadyInv
<1> QED BY <1>1, ReadyInductive, PTL

\* NoSignalSwallowed: a signal that the wrapper survives reaches the component.
THEOREM SignalsArrive == ReadySpec => NoSignalSwallowed
<1>1. ASSUME ReadyInv, [ReadyNext]_vars, signals' > signals, Running', ChildAlive
      PROVE  inbox' # {}
  <2>1. PICK sig \in {TERM, INT}, whole \in BOOLEAN : Signal(sig, whole)
    <3>1. signals' # signals
      BY <1>1 DEF ReadyInv, Typed
    <3> QED BY <1>1, <3>1, ZenonT(30) DEF vars, signalled, ReadyNext, WrapperStep, Configure,
              BuildProbe, Spawn,
              StorePid, Install, TryWait, LeaveWith, Check, Notify, Wait, ChildObeys, ChildEnds,
              ChangeMood, OtherServes
  <2>2. sig \in handlers
    BY <1>1, <2>1 DEF Signal, Running
  <2>3. sig \in inbox'
    BY <1>1, <2>1, <2>2 DEF Signal, ReadyInv, Handled
  <2> QED BY <2>3
<1>2. ReadyInv /\ [ReadyNext]_vars
        => [signals' > signals /\ Running' /\ ChildAlive => inbox' # {}]_vars
  BY <1>1
<1> QED BY <1>2, ReadyInductive, PTL DEF ReadySpec, NoSignalSwallowed
=============================================================================
