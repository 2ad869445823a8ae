-------------------------------- MODULE Ready --------------------------------
(***************************************************************************)
(* kubenyx-ready (rust/kubenyx-ready/src/lib.rs): it spawns a component,   *)
(* forwards signals to it, tells systemd once the component's endpoint     *)
(* answers, and ends the way the component ends.  With --wait it only      *)
(* waits for the endpoint of a component that somebody else runs.          *)
(*                                                                         *)
(* A signal goes to the wrapper alone, or to the component as well as when *)
(* systemd stops a unit.  It may come before the handlers are installed,   *)
(* one of which is installed after the other, and after the component was  *)
(* reaped.  The endpoint is only a URL: another process may be the one     *)
(* that answers there.                                                     *)
(***************************************************************************)
EXTENDS Naturals, FiniteSets

CONSTANTS
    Codes,       \* exit codes of the component
    MaxSignals,  \* bound on signals
    MaxMoods     \* bound on changes of the component's health

ASSUME ReadyAssumption == Codes \subseteq 0 .. 127 /\ MaxSignals \in Nat /\ MaxMoods \in Nat

TERM == 15
INT == 2

VARIABLES
    mode,      \* "wrap" or "wait"
    kind,      \* the probe: "unix", "http", or "badname" for https with a host that
               \* is no server name
    pc,        \* the next step of the wrapper
    pid,       \* CHILD_PID is stored
    handlers,  \* signals with a handler
    child,     \* the component: its health, "none", "dead" or "reaped"
    other,     \* the health of another process at the endpoint, or "none"
    status,    \* how it ended
    inbox,     \* signals it was sent
    told,      \* READY=1 was sent this many times
    served,    \* the health of whoever gave the answer that counted
    exit,      \* whether the wrapper ended: "no", by "exit", or "killed" by a signal
    code,      \* its exit code
    diedAt,    \* its step when a signal killed it
    stray,     \* a signal was forwarded to a pid that was reaped
    signals,   \* signals so far
    moods      \* changes of health so far

vars == <<mode, kind, pc, pid, handlers, child, other, status, inbox, told, served, exit, code,
          diedAt, stray, signals, moods>>
component == <<child, other, status, inbox, moods>>
signalled == <<handlers, pid, diedAt, stray, signals>>

Moods == {"starting", "slow", "unwell", "healthy"}
NoStatus == [how |-> "none", n |-> 0]
Running == exit = "no"
ChildAlive == child \in Moods

\* With --wait the component is there already.
ReadyInit ==
    /\ mode \in {"wrap", "wait"} /\ kind \in {"unix", "http", "badname"}
    /\ pc = "configure" /\ pid = FALSE /\ handlers = {}
    /\ child = IF mode = "wrap" THEN "none" ELSE "starting"
    /\ other = "none" /\ status = NoStatus /\ inbox = {} /\ told = 0 /\ served = "none"
    /\ exit = "no" /\ code = 0 /\ diedAt = "none" /\ stray = FALSE /\ signals = 0 /\ moods = 0

------------------------------------------------------------------------------
(* The wrapper.                                                            *)

Exit(c) == exit' = "exit" /\ code' = c /\ pc' = "gone"

\* The flags: whatever is wrong with them ends in die.
Configure(ok) ==
    /\ Running /\ pc = "configure"
    /\ IF ok THEN pc' = "build" /\ UNCHANGED <<exit, code>> ELSE Exit(2)
    /\ UNCHANGED <<mode, kind, component, told, served, signalled>>

\* build_probe dies of a bad URL, an unreadable file or a missing --cacert.
BuildProbe(ok) ==
    /\ Running /\ pc = "build"
    /\ IF ok THEN pc' = (IF mode = "wrap" THEN "spawn" ELSE "check") /\ UNCHANGED <<exit, code>>
       ELSE Exit(2)
    /\ UNCHANGED <<mode, kind, component, told, served, signalled>>

Spawn(ok) ==
    /\ Running /\ pc = "spawn"
    /\ IF ok THEN pc' = "store" /\ child' = "starting" /\ UNCHANGED <<exit, code>>
       ELSE Exit(2) /\ child' = child
    /\ UNCHANGED <<mode, kind, other, status, inbox, moods, told, served, signalled>>

\* Mutant: CHILD_PID is not stored.
MutStorePid ==
    /\ Running /\ pc = "store"
    /\ pid' = FALSE /\ pc' = "term"
    /\ UNCHANGED <<mode, kind, component, told, served, exit, code, handlers, diedAt, stray, signals>>

StorePid ==
    /\ Running /\ pc = "store"
    /\ pid' = TRUE /\ pc' = "term"
    /\ UNCHANGED <<mode, kind, component, told, served, exit, code, handlers, diedAt, stray, signals>>

\* signal(SIGTERM, ...), then signal(SIGINT, ...).
Install(sig, step, next) ==
    /\ Running /\ pc = step
    /\ handlers' = handlers \cup {sig} /\ pc' = next
    /\ UNCHANGED <<mode, kind, component, told, served, exit, code, pid, diedAt, stray, signals>>

\* exit_code: a signal is reported the way a shell does.
ExitCode(st) == IF st.how = "code" THEN st.n ELSE 128 + st.n

\* Mutant: a component that was reaped is probed on.
MutTryWait ==
    /\ Running /\ pc = "trywait"
    /\ IF child = "dead" THEN child' = "reaped" /\ pc' = "check"
       ELSE child' = child /\ pc' = "check"
    /\ UNCHANGED <<mode, kind, other, status, inbox, moods, told, served, exit, code, signalled>>

\* try_wait finds the component gone and reaps it ...
TryWait ==
    /\ Running /\ pc = "trywait"
    /\ IF child = "dead" THEN child' = "reaped" /\ pc' = "leave"
       ELSE child' = child /\ pc' = "check"
    /\ UNCHANGED <<mode, kind, other, status, inbox, moods, told, served, exit, code, signalled>>

\* ... and the wrapper ends with its code.
LeaveWith ==
    /\ Running /\ pc = "leave"
    /\ Exit(ExitCode(status))
    /\ UNCHANGED <<mode, kind, component, told, served, signalled>>

\* Who accepts connections at the endpoint.
Health(who) == IF who = "child" THEN child ELSE other
Listeners == {who \in {"child", "other"} : Health(who) \in {"slow", "unwell", "healthy"}}

\* Mutant: any answer counts.
MutCounts(h) == kind = "unix" \/ h \in {"unwell", "healthy"}

\* Probe::check: a socket that accepts, or a 200 within the read timeout.
Counts(h) == kind = "unix" \/ h = "healthy"

\* A probe that failed: the loop looks at the component before the next one.
Again == pc' = (IF mode = "wait" THEN "check" ELSE "trywait") /\ UNCHANGED <<served, exit, code>>

\* The probe succeeded.
Answered(who) ==
    /\ served' = Health(who)
    /\ IF mode = "wait" THEN Exit(0) ELSE pc' = "notify" /\ UNCHANGED <<exit, code>>

\* Mutant: the component is not looked at between two probes.
MutCheck ==
    /\ Running /\ pc = "check"
    /\ \/ Listeners = {} /\ pc' = "check" /\ UNCHANGED <<served, exit, code>>
       \/ \E who \in Listeners :
            IF kind = "badname" THEN Exit(2) /\ UNCHANGED served
            ELSE IF Counts(Health(who)) THEN Answered(who)
            ELSE pc' = "check" /\ UNCHANGED <<served, exit, code>>
    /\ UNCHANGED <<mode, kind, component, told, signalled>>

\* One probe.  Once somebody accepts, an https probe dies of a host that is no
\* server name, with the component running.
Check ==
    /\ Running /\ pc = "check"
    /\ \/ Listeners = {} /\ Again
       \/ \E who \in Listeners :
            IF kind = "badname" THEN Exit(2) /\ UNCHANGED served
            ELSE IF Counts(Health(who)) THEN Answered(who)
            ELSE Again
    /\ UNCHANGED <<mode, kind, component, told, signalled>>

\* Mutant: the wrapper leaves once the component is ready.
MutNotifyLeave(sent) ==
    /\ Running /\ pc = "notify"
    /\ told' = (IF sent THEN told + 1 ELSE told) /\ Exit(0)
    /\ UNCHANGED <<mode, kind, component, served, signalled>>

\* sd_notify_ready: without NOTIFY_SOCKET, or when the send fails, nobody hears
\* and the wrapper goes on all the same.
Notify(sent) ==
    /\ Running /\ pc = "notify"
    /\ told' = (IF sent THEN told + 1 ELSE told) /\ pc' = "wait"
    /\ UNCHANGED <<mode, kind, component, served, exit, code, signalled>>

\* Once ready, the wrapper blocks until the component ends.
Wait ==
    /\ Running /\ pc = "wait" /\ child = "dead"
    /\ child' = "reaped" /\ pc' = "leave"
    /\ UNCHANGED <<mode, kind, other, status, inbox, moods, told, served, exit, code, signalled>>

------------------------------------------------------------------------------
(* Signals and the component.                                              *)

\* forward_signal, or death where no handler is installed.
Signal(sig, whole) ==
    /\ Running /\ signals < MaxSignals
    /\ signals' = signals + 1
    /\ LET forward == sig \in handlers /\ pid
           reaches == ChildAlive /\ (forward \/ (whole /\ mode = "wrap"))
       IN /\ inbox' = IF reaches THEN inbox \cup {sig} ELSE inbox
          /\ stray' = (stray \/ (forward /\ child = "reaped"))
    /\ IF sig \in handlers THEN UNCHANGED <<exit, pc, diedAt>>
       ELSE exit' = "killed" /\ pc' = "gone" /\ diedAt' = pc
    /\ UNCHANGED <<mode, kind, child, other, status, moods, told, served, code, handlers, pid>>

Ends(st) == child' = "dead" /\ status' = st

\* The component may end by itself, healthy or not.
ChildEnds(c) ==
    /\ ChildAlive /\ Ends([how |-> "code", n |-> c])
    /\ UNCHANGED <<mode, kind, pc, other, inbox, moods, told, served, exit, code, signalled>>

\* It does end when it was sent a signal.
ChildObeys ==
    /\ ChildAlive
    /\ \E sig \in inbox, c \in Codes :
         Ends([how |-> "signal", n |-> sig]) \/ Ends([how |-> "code", n |-> c])
    /\ UNCHANGED <<mode, kind, pc, other, inbox, moods, told, served, exit, code, signalled>>

ChangeMood(m) ==
    /\ ChildAlive /\ m # child /\ m # "starting" /\ moods < MaxMoods
    /\ child' = m /\ moods' = moods + 1
    /\ UNCHANGED <<mode, kind, pc, other, status, inbox, told, served, exit, code, signalled>>

\* Another process comes to the endpoint, changes its health, or goes.
OtherServes(m) ==
    /\ m # other /\ moods < MaxMoods
    /\ other' = m /\ moods' = moods + 1
    /\ UNCHANGED <<mode, kind, pc, child, status, inbox, told, served, exit, code, signalled>>

WrapperStep ==
    \/ \E ok \in BOOLEAN : Configure(ok) \/ BuildProbe(ok) \/ Spawn(ok)
    \/ StorePid \/ Install(TERM, "term", "int") \/ Install(INT, "int", "trywait")
    \/ TryWait \/ LeaveWith \/ Check \/ Wait
    \/ \E sent \in BOOLEAN : Notify(sent)

ReadyNext ==
    \/ WrapperStep \/ ChildObeys
    \/ \E sig \in {TERM, INT}, whole \in BOOLEAN : Signal(sig, whole)
    \/ \E c \in Codes : ChildEnds(c)
    \/ \E m \in Moods : ChangeMood(m)
    \/ \E m \in {"none", "unwell", "healthy"} : OtherServes(m)

\* The wrapper is scheduled, and the component obeys signals.
ReadySpec == ReadyInit /\ [][ReadyNext]_vars /\ WF_vars(WrapperStep) /\ WF_vars(ChildObeys)

------------------------------------------------------------------------------
(* Properties.                                                             *)

\* systemd hears of readiness, at most once, and --wait ends well, only after
\* somebody gave a good answer at the endpoint: a 200, or for a socket an
\* accepted connection.  Who gave it the code cannot tell.
ToldTruthfully ==
    /\ told \in {0, 1}
    /\ told = 1 \/ (mode = "wait" /\ exit = "exit" /\ code = 0) =>
           served \in IF kind = "unix" THEN {"slow", "unwell", "healthy"} ELSE {"healthy"}

\* A unit sees the component's own end: the wrapper's code is that of the
\* component it has reaped, 128 + n for a signal, so that 143 means a stop.
\* Otherwise the wrapper gave up, with 2 and without a word to systemd: before
\* there was a component, or in a probe whose host is no server name.
ExitMirrorsChild ==
    exit = "exit" =>
        \/ mode = "wrap" /\ code = 2 /\ told = 0 /\ (child = "none" \/ kind = "badname")
        \/ mode = "wrap" /\ child = "reaped"
           /\ code = IF status.how = "signal" THEN 128 + status.n ELSE status.n
        \/ mode = "wait" /\ code = IF served = "none" THEN 2 ELSE 0

\* What systemd hears of the component is true: that it is ready, and how it
\* ended.
ReportsTrue == ToldTruthfully /\ ExitMirrorsChild

\* The wrapper leaves its component behind, with no signal sent to it, in two
\* cases only: a signal kills the wrapper alone before its handler is
\* installed, or a probe dies of a host that is no server name.
OrphanCases ==
    mode = "wrap" /\ ~Running /\ ChildAlive /\ inbox = {} =>
        \/ exit = "killed" /\ diedAt \in {"store", "term", "int"}
        \/ exit = "exit" /\ kind = "badname" /\ told = 0

\* No signal is forwarded to a pid that another process may have by now, but
\* for one that arrives between the reaping and the exit.
StrayOnlyAtExit == stray => pc \in {"leave", "gone"} /\ child = "reaped"

\* A signal that the wrapper survives reaches the component while that runs.
NoSignalSwallowed ==
    [][signals' > signals /\ Running' /\ ChildAlive => inbox' # {}]_vars

\* A component that ends is followed by its wrapper, in every phase.
FollowsChild == (mode = "wrap" /\ child = "dead") ~> ~Running

=============================================================================
