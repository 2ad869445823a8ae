----------------------------- MODULE SnapResume -----------------------------
(***************************************************************************)
(* The processes of kubenyx-snap resume, cycle, mesh-resume and mesh-cycle *)
(* (rust/kubenyx-snap/src/lib.rs): a thread per node that spawns a VMM,    *)
(* enters it in the table of owned VMMs and loads its snapshot; the main   *)
(* thread, which joins them, waits for the apiserver and for a quorum, and *)
(* then lets the VMMs go or kills them; and the exit paths, die() on any   *)
(* thread and the signal handler, which sweep the table.  The table is a   *)
(* static array of atomics: every access to a slot is a step of its own.   *)
(*                                                                         *)
(* The single-VM verbs are a mesh of one node.  Actor 0 is the main thread,*)
(* 1 .. N are the threads of the nodes, N + 1 is the signal handler.       *)
(* Clocks of restored guests are set by the datagrams of send_time_pokes   *)
(* and by rust/kubenyx-clockstep/src/lib.rs.                               *)
(***************************************************************************)
EXTENDS Integers, FiniteSets

CONSTANTS
    N,          \* most nodes
    Sizes,      \* the sizes of mesh to start with, in 1 .. N
    Servers,    \* how many of the first nodes are servers
    Capacities, \* values of OWNED_MAX
    Stuck,      \* sets of nodes whose old socket file cannot be removed
    Rounds,     \* rounds of a cycle
    Pokes,      \* datagrams sent to each node
    MinStep,    \* clockstep's threshold
    MaxDelay,   \* the oldest a datagram gets
    Ages        \* how far behind a restored clock may be

ASSUME SnapResumeAssumption ==
    /\ N \in Nat \ {0} /\ Capacities \subseteq Nat \ {0} /\ Rounds \in Nat \ {0}
    /\ Sizes \subseteq 1 .. N /\ Stuck \subseteq SUBSET (1 .. N)
    /\ Servers \in Nat /\ Pokes \in Nat
    /\ MinStep \in Nat \ {0} /\ MaxDelay \in Nat /\ Ages \subseteq Int

VARIABLES
    verb,      \* "resume" or "cycle"
    size,      \* nodes of the mesh
    slots,     \* OWNED_MAX
    stuck,     \* those of this mesh
    round,     \* round of the cycle
    pc,        \* actor -> what it is about to do
    at,        \* actor -> the slot it looks at
    hand,      \* actor -> the pid it swapped out of the table, 0 for none
    table,     \* OWNED_VMMS: slot -> pid, 0 when free
    proc,      \* pid -> "none", "running", "zombie" or "reaped"
    sock,      \* node -> the pid that bound its API socket, 0 for no socket
    loaded,    \* node -> the pid its snapshot was loaded into, 0 for none
    child,     \* the node whose VMM the main thread is letting go or killing
    released,  \* pids that were left running on purpose
    sent,      \* node -> datagrams sent
    mute,      \* nodes whose datagram thread has no socket
    behind,    \* node -> how far its clock is behind
    stepped,   \* nodes whose clock a datagram has set or confirmed
    known,     \* pids that ever entered the table
    settled,   \* pids in the table when the first exit began
    sweepers,  \* actors that began an exit
    stray,     \* a signal was sent to a pid that was already reaped
    exit       \* how the process ended

procVars == <<round, pc, at, hand, table, proc, sock, loaded, child, released,
              known, settled, sweepers, stray, exit>>
clockVars == <<sent, mute, behind, stepped>>
vars == <<verb, size, slots, stuck, procVars, clockVars>>

Nodes == 1 .. N
Mesh == 1 .. size
Main == 0
Handler == N + 1
Actors == 0 .. N + 1
Pids == 1 .. N * Rounds
Earlier == N * Rounds + 1   \* a VMM that an earlier resume left running
Pid(n) == (round - 1) * N + n

Entered == {table[i] : i \in 1 .. slots} \ {0}

ResumeInit ==
    /\ verb \in {"resume", "cycle"} /\ size \in Sizes /\ slots \in Capacities /\ round = 1
    /\ pc = [a \in Actors |-> IF a = Main THEN "join" ELSE IF a \in 1 .. size THEN "spawn"
                              ELSE "off"]
    /\ at = [a \in Actors |-> 1] /\ hand = [a \in Actors |-> 0]
    /\ table = [i \in 1 .. slots |-> 0]
    /\ proc = [p \in 1 .. Earlier |-> IF p = Earlier THEN "running" ELSE "none"]
    /\ \/ sock = [n \in Nodes |-> 0] /\ stuck = {}
       \/ sock = [n \in Nodes |-> Earlier] /\ stuck \in Stuck
    /\ loaded = [n \in Nodes |-> 0]
    /\ child = 1 /\ released = {}
    /\ sent = [n \in Nodes |-> 0] /\ mute = {} /\ behind = [n \in Nodes |-> 0] /\ stepped = {}
    /\ known = {} /\ settled = {} /\ sweepers = {} /\ stray = FALSE /\ exit = "no"

Alive == exit = "no"

------------------------------------------------------------------------------
(* Leaving: die() and on_signal.                                           *)

\* kill_owned_vmm starts at the first slot.
StartSweep(a) ==
    /\ pc' = [pc EXCEPT ![a] = "sweep"]
    /\ at' = [at EXCEPT ![a] = 1]
    /\ settled' = IF sweepers = {} THEN Entered ELSE settled
    /\ sweepers' = sweepers \cup {a}

Die(a) ==
    /\ StartSweep(a)
    /\ UNCHANGED <<verb, size, slots, stuck, round, hand, table, proc, sock, loaded, child, released,
                   known, stray, exit, clockVars>>

\* SIGINT or SIGTERM, delivered to the main thread.
Signal ==
    /\ Alive /\ pc[Handler] = "off"
    /\ Die(Handler)

\* Mutant: the slot is read but not cleared.
MutSwap(a) ==
    /\ Alive /\ pc[a] = "sweep" /\ at[a] <= slots
    /\ hand' = [hand EXCEPT ![a] = table[at[a]]]
    /\ pc' = [pc EXCEPT ![a] = IF table[at[a]] # 0 THEN "kill" ELSE "sweep"]
    /\ at' = [at EXCEPT ![a] = IF table[at[a]] # 0 THEN @ ELSE @ + 1]
    /\ UNCHANGED <<verb, size, slots, stuck, round, table, proc, sock, loaded, child, released, known, settled, sweepers,
                   stray, exit, clockVars>>

\* swap(0) on one slot.
Swap(a) ==
    /\ Alive /\ pc[a] = "sweep" /\ at[a] <= slots
    /\ hand' = [hand EXCEPT ![a] = table[at[a]]]
    /\ table' = [table EXCEPT ![at[a]] = 0]
    /\ pc' = [pc EXCEPT ![a] = IF table[at[a]] # 0 THEN "kill" ELSE "sweep"]
    /\ at' = [at EXCEPT ![a] = IF table[at[a]] # 0 THEN @ ELSE @ + 1]
    /\ UNCHANGED <<verb, size, slots, stuck, round, proc, sock, loaded, child, released, known, settled, sweepers,
                   stray, exit, clockVars>>

\* SIGKILL to what was in it; die() also waits for it.
KillHand(a) ==
    /\ Alive /\ pc[a] = "kill"
    /\ stray' = (stray \/ proc[hand[a]] = "reaped")
    /\ proc' = [proc EXCEPT ![hand[a]] =
                  IF a = Handler /\ @ # "reaped" THEN "zombie" ELSE "reaped"]
    /\ hand' = [hand EXCEPT ![a] = 0]
    /\ pc' = [pc EXCEPT ![a] = "sweep"]
    /\ at' = [at EXCEPT ![a] = @ + 1]
    /\ UNCHANGED <<verb, size, slots, stuck, round, table, sock, loaded, child, released, known, settled, sweepers,
                   exit, clockVars>>

\* Mutant: the last slot is not swept.
MutLeave(a) ==
    /\ Alive /\ pc[a] = "sweep" /\ at[a] >= slots
    /\ exit' = IF a = Handler THEN "signal" ELSE "died"
    /\ UNCHANGED <<verb, size, slots, stuck, round, pc, at, hand, table, proc, sock, loaded, child, released,
                   known, settled, sweepers, stray, clockVars>>

\* exit(2) or _exit(130).
Leave(a) ==
    /\ Alive /\ pc[a] = "sweep" /\ at[a] > slots
    /\ exit' = IF a = Handler THEN "signal" ELSE "died"
    /\ UNCHANGED <<verb, size, slots, stuck, round, pc, at, hand, table, proc, sock, loaded, child, released,
                   known, settled, sweepers, stray, clockVars>>

------------------------------------------------------------------------------
(* The thread of node n.                                                   *)

\* remove_file on the node's socket, whose failure is ignored.
Unlinked(n) == IF n \in stuck THEN sock ELSE [sock EXCEPT ![n] = 0]

\* Mutant: a socket left behind is not removed.
MutSpawn(n) ==
    /\ Alive /\ pc[n] = "spawn"
    /\ proc' = [proc EXCEPT ![Pid(n)] = "running"]
    /\ pc' = [pc EXCEPT ![n] = "own"]
    /\ at' = [at EXCEPT ![n] = 1]
    /\ UNCHANGED <<verb, size, slots, stuck, round, hand, table, sock, loaded, child, released, known, settled,
                   sweepers, stray, exit, clockVars>>

\* A socket left behind is removed before the VMM is spawned.
Spawn(n) ==
    /\ Alive /\ pc[n] = "spawn"
    /\ sock' = Unlinked(n)
    /\ proc' = [proc EXCEPT ![Pid(n)] = "running"]
    /\ pc' = [pc EXCEPT ![n] = "own"]
    /\ at' = [at EXCEPT ![n] = 1]
    /\ UNCHANGED <<verb, size, slots, stuck, round, hand, table, loaded, child, released, known, settled, sweepers,
                   stray, exit, clockVars>>

\* Mutant: the slot is overwritten.
MutOwnVmm(n) ==
    /\ Alive /\ pc[n] = "own" /\ at[n] <= slots
    /\ IF at[n] <= slots
       THEN /\ table' = [table EXCEPT ![at[n]] = Pid(n)]
            /\ pc' = [pc EXCEPT ![n] = "sock"]
            /\ known' = known \cup {Pid(n)}
            /\ at' = at
       ELSE /\ at' = [at EXCEPT ![n] = @ + 1]
            /\ UNCHANGED <<table, pc, known>>
    /\ UNCHANGED <<verb, size, slots, stuck, round, hand, proc, sock, loaded, child, released, settled,
                   sweepers, stray, exit, clockVars>>

\* own_vmm: compare-and-exchange on one slot after the other.
OwnVmm(n) ==
    /\ Alive /\ pc[n] = "own" /\ at[n] <= slots
    /\ IF table[at[n]] = 0
       THEN /\ table' = [table EXCEPT ![at[n]] = Pid(n)]
            /\ pc' = [pc EXCEPT ![n] = "sock"]
            /\ known' = known \cup {Pid(n)}
            /\ at' = at
       ELSE /\ at' = [at EXCEPT ![n] = @ + 1]
            /\ UNCHANGED <<table, pc, known>>
    /\ UNCHANGED <<verb, size, slots, stuck, round, hand, proc, sock, loaded, child, released, settled,
                   sweepers, stray, exit, clockVars>>

SeeSock(n) ==
    /\ Alive /\ pc[n] = "sock" /\ sock[n] # 0
    /\ pc' = [pc EXCEPT ![n] = "load"]
    /\ UNCHANGED <<verb, size, slots, stuck, round, at, hand, table, proc, sock, loaded, child, released,
                   known, settled, sweepers, stray, exit, clockVars>>

\* PUT /snapshot/load to whoever bound the socket; the guest's clock is stale.
Load(n) ==
    /\ Alive /\ pc[n] = "load" /\ sock[n] # 0 /\ proc[sock[n]] = "running"
    /\ loaded' = [loaded EXCEPT ![n] = sock[n]]
    /\ pc' = [pc EXCEPT ![n] = "done"]
    /\ \E age \in Ages : behind' = [behind EXCEPT ![n] = age]
    /\ UNCHANGED <<verb, size, slots, stuck, round, at, hand, table, proc, sock, child, released, known, settled,
                   sweepers, stray, exit, sent, mute, stepped>>

\* The spawn fails, the table is full, the socket does not appear in time or
\* the load is refused.
ThreadDies(n) ==
    /\ Alive
    /\ \/ pc[n] \in {"spawn", "sock", "load"}
       \/ pc[n] = "own" /\ at[n] > slots
    /\ Die(n)

------------------------------------------------------------------------------
(* The main thread; it stands still while the handler runs on it.          *)

MainAt(step) == Alive /\ pc[Main] = step /\ pc[Handler] = "off"

JoinThreads ==
    /\ MainAt("join") /\ \A n \in Mesh : pc[n] = "done"
    /\ pc' = [pc EXCEPT ![Main] = "probe"]
    /\ UNCHANGED <<verb, size, slots, stuck, round, at, hand, table, proc, sock, loaded, child, released,
                   known, settled, sweepers, stray, exit, clockVars>>

Serving(n) == loaded[n] # 0 /\ proc[loaded[n]] = "running"

\* wait_api on the first node.
ProbeAnswers ==
    /\ MainAt("probe") /\ Serving(1)
    /\ pc' = [pc EXCEPT ![Main] = IF Servers > 1 /\ size > 1 THEN "quorum" ELSE "pokes"]
    /\ UNCHANGED <<verb, size, slots, stuck, round, at, hand, table, proc, sock, loaded, child, released,
                   known, settled, sweepers, stray, exit, clockVars>>

Quorum == LET S == {n \in Mesh : n <= Servers}
          IN 2 * Cardinality({n \in S : Serving(n)}) > Cardinality(S)

\* wait_quorum_write, on a mesh with several servers.
WriteCommits ==
    /\ MainAt("quorum") /\ Serving(1) /\ Quorum
    /\ pc' = [pc EXCEPT ![Main] = "pokes"]
    /\ UNCHANGED <<verb, size, slots, stuck, round, at, hand, table, proc, sock, loaded, child, released,
                   known, settled, sweepers, stray, exit, clockVars>>

\* Mutant: the main thread waits for a quorum without a deadline.
MutMainDies == MainAt("probe") /\ Die(Main)

MainDies == (MainAt("probe") \/ MainAt("quorum")) /\ Die(Main)

\* One thread per node sends its datagrams while the main thread goes on.  A
\* send that fails is ignored, and is a datagram lost.
SendPoke(n) ==
    /\ Alive /\ n \in Mesh \ mute /\ pc[Main] # "join" /\ sent[n] < Pokes
    /\ sent' = [sent EXCEPT ![n] = @ + 1]
    /\ UNCHANGED <<verb, size, slots, stuck, procVars, mute, behind, stepped>>

\* A thread that cannot bind its socket warns and ends.
BindFails(n) ==
    /\ Alive /\ n \in Mesh \ mute /\ pc[Main] # "join" /\ sent[n] = 0 /\ Pokes > 0
    /\ mute' = mute \cup {n}
    /\ UNCHANGED <<verb, size, slots, stuck, procVars, sent, behind, stepped>>

JoinPokes ==
    /\ MainAt("pokes") /\ \A n \in Mesh \ mute : sent[n] = Pokes
    /\ pc' = [pc EXCEPT ![Main] = IF verb = "resume" THEN "disown" ELSE "killwait"]
    /\ at' = [at EXCEPT ![Main] = 1]
    /\ child' = 1
    /\ UNCHANGED <<verb, size, slots, stuck, round, hand, table, proc, sock, loaded, released, known, settled,
                   sweepers, stray, exit, clockVars>>

\* cycle: kill_wait reaps the VMM before it is taken out of the table.
KillWait ==
    /\ MainAt("killwait")
    /\ stray' = (stray \/ proc[Pid(child)] = "reaped")
    /\ proc' = [proc EXCEPT ![Pid(child)] = "reaped"]
    /\ pc' = [pc EXCEPT ![Main] = "disown"]
    /\ at' = [at EXCEPT ![Main] = 1]
    /\ UNCHANGED <<verb, size, slots, stuck, round, hand, table, sock, loaded, child, released, known, settled,
                   sweepers, exit, clockVars>>

\* disown_vmm: compare-and-exchange on every slot.
DisownVmm ==
    /\ MainAt("disown") /\ at[Main] <= slots
    /\ table' = [table EXCEPT ![at[Main]] = IF @ = Pid(child) THEN 0 ELSE @]
    /\ released' = IF verb = "resume" /\ table[at[Main]] = Pid(child)
                   THEN released \cup {Pid(child)} ELSE released
    /\ at' = [at EXCEPT ![Main] = @ + 1]
    /\ UNCHANGED <<verb, size, slots, stuck, round, pc, hand, proc, sock, loaded, child, known, settled, sweepers,
                   stray, exit, clockVars>>

\* Then the next child; cycle also removes the socket.
NextChild ==
    /\ MainAt("disown") /\ at[Main] > slots /\ child < size
    /\ child' = child + 1
    /\ at' = [at EXCEPT ![Main] = 1]
    /\ pc' = [pc EXCEPT ![Main] = IF verb = "resume" THEN "disown" ELSE "killwait"]
    /\ sock' = IF verb = "cycle" THEN Unlinked(child) ELSE sock
    /\ UNCHANGED <<verb, size, slots, stuck, round, hand, table, proc, loaded, released, known, settled, sweepers,
                   stray, exit, clockVars>>

NextRound ==
    /\ MainAt("disown") /\ at[Main] > slots /\ child = size
    /\ verb = "cycle" /\ round < Rounds
    /\ round' = round + 1
    /\ sock' = Unlinked(child)
    /\ pc' = [a \in Actors |-> IF a = Main THEN "join" ELSE IF a \in Mesh THEN "spawn" ELSE pc[a]]
    /\ sent' = [n \in Nodes |-> 0] /\ mute' = {}
    /\ stepped' = {}
    /\ UNCHANGED <<verb, size, slots, stuck, at, hand, table, proc, loaded, child, released, known, settled,
                   sweepers, stray, exit, behind>>

Return ==
    /\ MainAt("disown") /\ at[Main] > slots /\ child = size
    /\ verb = "resume" \/ round = Rounds
    /\ exit' = "ok"
    /\ UNCHANGED <<verb, size, slots, stuck, round, pc, at, hand, table, proc, sock, loaded, child, released,
                   known, settled, sweepers, stray, clockVars>>

------------------------------------------------------------------------------
(* The VMMs and their guests.                                              *)

BindSock(n) ==
    /\ Alive /\ pc[n] # "spawn" /\ sock[n] = 0 /\ proc[Pid(n)] = "running"
    /\ sock' = [sock EXCEPT ![n] = Pid(n)]
    /\ UNCHANGED <<verb, size, slots, stuck, round, pc, at, hand, table, proc, loaded, child, released,
                   known, settled, sweepers, stray, exit, clockVars>>

VmmDies(p) ==
    /\ Alive /\ proc[p] = "running"
    /\ proc' = [proc EXCEPT ![p] = "zombie"]
    /\ UNCHANGED <<verb, size, slots, stuck, round, pc, at, hand, table, sock, loaded, child, released,
                   known, settled, sweepers, stray, exit, clockVars>>

Abs(x) == IF x < 0 THEN -x ELSE x

\* Mutant: the clock is stepped only when it is close.
MutClockStep(n, d) ==
    /\ Alive /\ sent[n] > 0 /\ Serving(n)
    /\ stepped' = stepped \cup {n}
    /\ behind' = [behind EXCEPT ![n] = IF Abs(@ - d) <= MinStep THEN d ELSE @]
    /\ UNCHANGED <<verb, size, slots, stuck, procVars, sent, mute>>

\* clockstep: a datagram of age d sets the clock to its time, unless the clock
\* is close to that already.  It may be lost, duplicated or overtaken; one whose
\* clock_settime fails changes as little as one that was lost.
ClockStep(n, d) ==
    /\ Alive /\ sent[n] > 0 /\ Serving(n)
    /\ stepped' = stepped \cup {n}
    /\ behind' = [behind EXCEPT ![n] = IF Abs(@ - d) >= MinStep THEN d ELSE @]
    /\ UNCHANGED <<verb, size, slots, stuck, procVars, sent, mute>>

SweepStep(a) == Swap(a) \/ KillHand(a) \/ Leave(a)
ThreadStep(n) ==
    Spawn(n) \/ OwnVmm(n) \/ SeeSock(n) \/ Load(n) \/ ThreadDies(n) \/ SweepStep(n)
MainStep ==
    \/ JoinThreads \/ ProbeAnswers \/ WriteCommits \/ MainDies \/ JoinPokes
    \/ KillWait \/ DisownVmm \/ NextChild \/ NextRound \/ Return
    \/ pc[Handler] = "off" /\ SweepStep(Main)
HandlerStep == Signal \/ SweepStep(Handler)

ResumeNext ==
    \/ \E n \in Mesh : ThreadStep(n) \/ BindSock(n) \/ SendPoke(n) \/ BindFails(n)
                       \/ \E d \in 0 .. MaxDelay : ClockStep(n, d)
    \/ MainStep \/ HandlerStep
    \/ \E p \in Pids : VmmDies(p)

\* Threads run, and a signal handler that has begun goes on.
ResumeFairness ==
    /\ \A n \in Nodes : WF_vars(ThreadStep(n)) /\ WF_vars(SendPoke(n) \/ BindFails(n))
    /\ WF_vars(MainStep) /\ WF_vars(SweepStep(Handler))

ResumeSpec == ResumeInit /\ [][ResumeNext]_vars /\ ResumeFairness

------------------------------------------------------------------------------
(* Properties.                                                             *)

\* No VMM that was entered in the table is ever lost sight of: while it runs
\* it is in a slot, in the hands of an actor that is about to kill it, or was
\* let go on purpose.  Threads claim and clear slots while others sweep.
Tracked ==
    \A p \in known :
        proc[p] = "running" => p \in Entered \cup released \cup {hand[a] : a \in Actors}

\* "Every exit path must kill them": when die() or a signal ends the process
\* and nobody else was on the way out, no VMM survives that was in the table
\* when the exit began.  (One that is still to be entered does survive, and so
\* may one that a second actor swapped out but had not killed yet.)
ExitKillsOwned ==
    exit \in {"died", "signal"} =>
        \A a \in Actors : sweepers = {a} => \A p \in settled : proc[p] # "running"

\* A verb that returns has done its work: resume lets every node's own VMM go,
\* with the snapshot in it and no thread still sending datagrams; cycle leaves
\* none.  Only where the old socket could not be removed may the snapshot be in
\* the VMM that bound it, and only a thread without a socket has sent less.
ReturnsSound ==
    exit = "ok" =>
        /\ Entered = {} /\ sweepers = {}
        /\ IF verb = "cycle" THEN \A p \in Pids : proc[p] # "running"
           ELSE \A n \in Mesh : /\ Pid(n) \in released /\ proc[Pid(n)] # "reaped"
                                /\ n \notin stuck => loaded[n] = Pid(n)
                                /\ n \notin mute => sent[n] = Pokes

\* A pid that was reaped, and may belong to another process, is signalled in
\* one case only: a signal between kill_wait and disown_vmm of a cycle.
NoStrayKill ==
    stray => verb = "cycle" /\ pc[Main] = "disown" /\ Handler \in sweepers

\* Once one datagram has been applied, a guest's clock is as close as the threshold
\* and the age of datagrams allow, in whatever order others arrive.
ClockClose ==
    \A n \in stepped : -MinStep < behind[n] /\ behind[n] < MinStep + MaxDelay

\* Every wait has a deadline: the process ends.
Terminates == <>(exit # "no")
=============================================================================
