------------------------------ MODULE EtcdJoin ------------------------------
(***************************************************************************)
(* Membership of a multi-server etcd (modules/datastore.nix): the member   *)
(* guard and the join probe that run before etcd starts on a server, and   *)
(* the reconciler that brings declared servers in as learners.  A server   *)
(* boots fresh or with data, and is given another declaration while it     *)
(* runs; etcd and whole servers go down and come back.                     *)
(*                                                                         *)
(* etcd itself is external.  A cluster is named by the set of members it   *)
(* was founded with, from which etcd derives the cluster's identity; it    *)
(* answers and changes its membership while a majority of its voters runs. *)
(* Time is abstract: a deadline may pass whenever it is looked at.         *)
(***************************************************************************)
EXTENDS Integers, FiniteSets

CONSTANTS
    Settings,   \* what is deployed: [old, new, maxFaults]; old = {} is a first
                \* boot, maxFaults the bound on faults
    Streak      \* sweeps that must be refused by all in a row

Nodes == UNION {s.old \cup s.new : s \in Settings}

ASSUME JoinAssumption ==
    /\ Nodes \subseteq Nat \ {0} /\ IsFiniteSet(Nodes)
    /\ \A s \in Settings : s.new # {} /\ s.maxFaults \in Nat
    /\ Streak \in Nat \ {0}

VARIABLES
    setting,   \* what is deployed
    decl,      \* server -> the member set its configuration declares
    unit,      \* server -> where its etcd unit is
    data,      \* server -> the cluster its data directory belongs to, {} when empty
    rec,       \* server -> the member set recorded beside the data, {} for none
    ask,       \* server -> servers its probe has still to ask in this sweep
    hard,      \* server -> all asked in this sweep have refused
    streak,    \* server -> sweeps in a row that all refused
    saw,       \* server -> the cluster that answered it, until it has started in it
    target,    \* server -> the cluster that the probe decided on
    voters,    \* cluster -> its voting members
    learner,   \* cluster -> its learners
    named,     \* cluster -> members that have started and published a name
    loop,      \* cluster -> its only member still has a loopback URL
    task,      \* server -> where its reconciler is
    list,      \* server -> the member list its reconciler read
    faults     \* faults so far

vars == <<setting, decl, unit, data, rec, ask, hard, streak, saw, target, voters, learner,
          named, loop, task, list, faults>>
probe == <<ask, hard, streak, saw>>
clusters == <<voters, learner, named, loop>>
reconcile == <<task, list>>

MultiServer(n) == Cardinality(decl[n]) > 1
Others(n) == decl[n] \ {n}
First(s) == CHOOSE n \in s : \A m \in s : n <= m

\* The etcd of a single server listens on the loopback address only.
Listens(n) == unit[n] = "up" /\ MultiServer(n)
Running(n, c) == unit[n] = "up" /\ data[n] = c
Majority(s, all) == 2 * Cardinality(s) > Cardinality(all)
Quorate(c) == Majority({n \in voters[c] : Running(n, c)}, voters[c])

\* A voter of a cluster with a quorum answers health checks and member lists;
\* a learner, or a member without a quorum, does not.
Answers(p) == Listens(p) /\ Quorate(data[p]) /\ p \in voters[data[p]]

Clusters == (UNION {{s.old, s.new} : s \in Settings}) \ {{}}
NoList == [of |-> {}]

JoinInit ==
    /\ setting \in Settings
    /\ decl = [n \in Nodes |-> IF n \in setting.old THEN setting.old ELSE setting.new]
    /\ unit = [n \in Nodes |-> "off"]
    /\ data = [n \in Nodes |-> IF n \in setting.old THEN setting.old ELSE {}]
    /\ rec = [n \in Nodes |-> IF n \in setting.old /\ Cardinality(setting.old) > 1
                              THEN setting.old ELSE {}]
    /\ ask = [n \in Nodes |-> {}] /\ hard = [n \in Nodes |-> TRUE]
    /\ streak = [n \in Nodes |-> 0] /\ saw = [n \in Nodes |-> {}]
    /\ target = [n \in Nodes |-> {}]
    /\ voters = [c \in Clusters |-> c] /\ learner = [c \in Clusters |-> {}]
    /\ named = [c \in Clusters |-> IF c = setting.old THEN c ELSE {}]
    /\ loop = [c \in Clusters |-> c = setting.old /\ Cardinality(c) = 1]
    /\ task = [n \in Nodes |-> "off"] /\ list = [n \in Nodes |-> NoList]
    /\ faults = 0

------------------------------------------------------------------------------
(* The etcd unit: guard, probe, start.                                     *)

\* The probe of a server is a process: what it knew goes with it.
Forget(n) ==
    /\ ask' = [ask EXCEPT ![n] = {}] /\ hard' = [hard EXCEPT ![n] = TRUE]
    /\ streak' = [streak EXCEPT ![n] = 0]

Down(n) ==
    /\ unit' = [unit EXCEPT ![n] = "off"] /\ Forget(n)
    /\ target' = [target EXCEPT ![n] = {}] /\ UNCHANGED saw

\* The unit's start has failed: the reconciler, ordered after it, need not wait.
Released(n) == [task EXCEPT ![n] = IF @ = "off" /\ MultiServer(n) THEN "read" ELSE @]

\* systemd starts the unit; that of a single server has no guard and no probe.
Boot(n) ==
    /\ unit[n] = "off" /\ n \in setting.old \cup setting.new
    /\ unit' = [unit EXCEPT ![n] = IF MultiServer(n) THEN "guard" ELSE "start"]
    /\ target' = [target EXCEPT ![n] = decl[n]]
    /\ UNCHANGED <<setting, decl, data, rec, probe, clusters, reconcile, faults>>

\* Mutant: a set that grew is recorded at once.
MutGuardGrew(n) ==
    /\ unit[n] = "guard"
    /\ IF rec[n] # {} /\ ~(rec[n] \subseteq decl[n])
       THEN /\ unit' = [unit EXCEPT ![n] = "refused"] /\ task' = Released(n)
            /\ UNCHANGED <<rec, probe>>
       ELSE /\ rec' = [rec EXCEPT ![n] = decl[n]]
            /\ unit' = [unit EXCEPT ![n] = IF data[n] # {} THEN "start" ELSE "probe"]
            /\ ask' = [ask EXCEPT ![n] = IF data[n] # {} THEN {} ELSE Others(n)]
            /\ UNCHANGED <<hard, streak, saw, task>>
    /\ UNCHANGED <<setting, decl, data, target, clusters, list, faults>>

\* etcdMemberGuard, and the head of etcdJoinProbe: a directory with data needs
\* no decision.
Guard(n) ==
    /\ unit[n] = "guard"
    /\ IF rec[n] # {} /\ ~(rec[n] \subseteq decl[n])
       THEN /\ unit' = [unit EXCEPT ![n] = "refused"] /\ task' = Released(n)
            /\ UNCHANGED <<rec, probe>>
       ELSE /\ rec' = IF rec[n] = {} /\ data[n] = {} THEN [rec EXCEPT ![n] = decl[n]] ELSE rec
            /\ unit' = [unit EXCEPT ![n] = IF data[n] # {} THEN "start" ELSE "probe"]
            /\ ask' = [ask EXCEPT ![n] = IF data[n] # {} THEN {} ELSE Others(n)]
            /\ UNCHANGED <<hard, streak, saw, task>>
    /\ UNCHANGED <<setting, decl, data, target, clusters, list, faults>>

\* The client credentials are not there yet: the unit fails and is retried.
NoCredentials(n) ==
    /\ unit[n] = "guard" /\ data[n] = {}
    /\ rec' = IF rec[n] = {} THEN [rec EXCEPT ![n] = decl[n]] ELSE rec
    /\ Down(n) /\ task' = Released(n)
    /\ faults < setting.maxFaults /\ faults' = faults + 1
    /\ UNCHANGED <<setting, decl, data, clusters, list>>

\* One server after the other is asked.  Without a listener it refuses; a
\* connection that hangs, or an answer that is not healthy, is possible always.
Ask(n, p) ==
    /\ unit[n] = "probe" /\ ask[n] # {} /\ p = First(ask[n])
    /\ \/ /\ ~Listens(p) /\ ask' = [ask EXCEPT ![n] = @ \ {p}]
          /\ UNCHANGED <<unit, hard, streak, saw>>
       \/ /\ ask' = [ask EXCEPT ![n] = @ \ {p}] /\ hard' = [hard EXCEPT ![n] = FALSE]
          /\ UNCHANGED <<unit, streak, saw>>
       \/ /\ Answers(p)
          /\ unit' = [unit EXCEPT ![n] = "join"] /\ saw' = [saw EXCEPT ![n] = data[p]]
          /\ Forget(n)
    /\ UNCHANGED <<setting, decl, data, rec, target, clusters, reconcile, faults>>

\* The sweep is over; enough refusals in a row mean that all peers are fresh.
EndSweep(n) ==
    /\ unit[n] = "probe" /\ ask[n] = {}
    /\ LET s == IF hard[n] THEN streak[n] + 1 ELSE 0
       IN IF s >= Streak
          THEN unit' = [unit EXCEPT ![n] = "start"] /\ Forget(n)
          ELSE /\ ask' = [ask EXCEPT ![n] = Others(n)] /\ hard' = [hard EXCEPT ![n] = TRUE]
               /\ streak' = [streak EXCEPT ![n] = s] /\ UNCHANGED unit
    /\ UNCHANGED <<setting, decl, data, rec, saw, target, clusters, reconcile, faults>>

\* joinProbeSec have passed and nobody was healthy.
WindowEnds(n) ==
    /\ unit[n] = "probe" /\ ask[n] = Others(n)
    /\ unit' = [unit EXCEPT ![n] = "start"] /\ Forget(n)
    /\ UNCHANGED <<setting, decl, data, rec, saw, target, clusters, reconcile, faults>>

\* render_join: the member list of c shows this server.  Next to members that
\* have not started, a voter is a founder and starts with the declaration.
RenderJoin(n, p) ==
    LET c == data[p]
        nameless == (voters[c] \cup learner[c]) \ (named[c] \cup {n})
    IN /\ unit[n] = "join" /\ p \in Others(n) /\ Answers(p)
       /\ n \in voters[c] \cup learner[c]
       /\ nameless # {} => n \in voters[c]
       /\ target' = [target EXCEPT ![n] = IF nameless = {} THEN c ELSE decl[n]]
       /\ unit' = [unit EXCEPT ![n] = "start"]
       /\ UNCHANGED <<setting, decl, data, rec, probe, clusters, reconcile, faults>>

\* Mutant: the server bootstraps when the wait is over.
MutJoinExpires(n) ==
    /\ unit[n] = "join"
    /\ unit' = [unit EXCEPT ![n] = "start"]
    /\ UNCHANGED <<setting, decl, data, rec, probe, target, clusters, reconcile, faults>>

\* After 300 seconds the unit fails, and systemd starts it again.
JoinExpires(n) ==
    /\ unit[n] = "join"
    /\ Down(n) /\ task' = Released(n)
    /\ UNCHANGED <<setting, decl, data, rec, clusters, list, faults>>

\* Mutant: the member directory is not looked at.
MutStart(n) ==
    /\ unit[n] = "start"
    /\ unit' = [unit EXCEPT ![n] = "up"]
    /\ data' = [data EXCEPT ![n] = target[n]]
    /\ saw' = [saw EXCEPT ![n] = IF @ = data'[n] THEN {} ELSE @]
    /\ target' = [target EXCEPT ![n] = {}]
    /\ UNCHANGED <<setting, decl, rec, ask, hard, streak, clusters, reconcile, faults>>

\* etcd ignores the decision when it has data.
Start(n) ==
    /\ unit[n] = "start"
    /\ unit' = [unit EXCEPT ![n] = "up"]
    /\ data' = IF data[n] = {} THEN [data EXCEPT ![n] = target[n]] ELSE data
    /\ saw' = [saw EXCEPT ![n] = IF @ = data'[n] THEN {} ELSE @]
    /\ target' = [target EXCEPT ![n] = {}]
    /\ UNCHANGED <<setting, decl, rec, ask, hard, streak, clusters, reconcile, faults>>

\* A member that runs in a cluster with a quorum publishes its name.
Publish(n) ==
    LET c == data[n]
    IN /\ unit[n] = "up" /\ Quorate(c) /\ n \in (voters[c] \cup learner[c]) \ named[c]
       /\ named' = [named EXCEPT ![c] = @ \cup {n}]
       /\ UNCHANGED <<setting, decl, unit, data, rec, probe, target, voters, learner, loop,
                      reconcile, faults>>

------------------------------------------------------------------------------
(* The reconciler.                                                         *)

\* It is ordered after the etcd unit, which is up when /readyz is.
TaskStart(n) ==
    /\ task[n] = "off" /\ MultiServer(n) /\ Answers(n)
    /\ task' = [task EXCEPT ![n] = "read"]
    /\ UNCHANGED <<setting, decl, unit, data, rec, probe, target, clusters, list, faults>>

\* ctl: any declared server that answers.
Reaches(n) == {data[p] : p \in {q \in decl[n] : Answers(q)}}

ReadList(n) ==
    /\ task[n] = "read"
    /\ \E c \in Reaches(n) :
         list' = [list EXCEPT ![n] = [of |-> c, voters |-> voters[c], learner |-> learner[c],
                                      named |-> named[c], loop |-> loop[c]]]
    /\ task' = [task EXCEPT ![n] = "act"]
    /\ UNCHANGED <<setting, decl, unit, data, rec, probe, target, clusters, faults>>

\* One look at the list is over: forget it and read again after a while.
Again(n) == task' = [task EXCEPT ![n] = "read"] /\ list' = [list EXCEPT ![n] = NoList]

\* The member with a loopback URL moves it itself; the others wait.
MoveUrl(n) ==
    LET l == list[n]
    IN /\ task[n] = "act" /\ l.loop
       /\ loop' = [loop EXCEPT ![l.of] = IF n \in l.voters /\ l.of \in Reaches(n)
                                         THEN FALSE ELSE @]
       /\ Again(n)
       /\ UNCHANGED <<setting, decl, unit, data, rec, probe, target, voters, learner, named,
                      faults>>

\* A learner listed as started is promoted if its log is in sync, which etcd
\* checks; that it still runs, nobody checks.
Promote(n, synced) ==
    LET l == list[n]
        c == l.of
        m == First(l.learner)
        ok == m \in l.named /\ c \in Reaches(n) /\ m \in learner[c]
    IN /\ task[n] = "act" /\ ~l.loop /\ l.learner # {}
       /\ synced => ok
       /\ voters' = IF synced THEN [voters EXCEPT ![c] = @ \cup {m}] ELSE voters
       /\ learner' = IF synced THEN [learner EXCEPT ![c] = @ \ {m}] ELSE learner
       /\ Again(n)
       /\ UNCHANGED <<setting, decl, unit, data, rec, probe, target, named, loop, faults>>

\* Mutant: members are added as voters.
MutAddLearner(n) ==
    LET l == list[n]
        missing == decl[n] \ l.voters
    IN /\ task[n] = "act" /\ ~l.loop /\ l.learner = {} /\ missing # {}
       /\ \E c \in Clusters :
            /\ c \in Reaches(n) \/ c = l.of
            /\ voters' = IF c \in Reaches(n) /\ learner[c] = {}
                             /\ First(missing) \notin voters[c]
                          THEN [voters EXCEPT ![c] = @ \cup {First(missing)}] ELSE voters
       /\ Again(n)
       /\ UNCHANGED <<setting, decl, unit, data, rec, probe, target, learner, named, loop, faults>>

\* The first declared server that is missing is added as a learner; etcd takes
\* one learner at a time, and no member twice.
AddLearner(n) ==
    LET l == list[n]
        missing == decl[n] \ l.voters
    IN /\ task[n] = "act" /\ ~l.loop /\ l.learner = {} /\ missing # {}
       /\ \E c \in Clusters :
            /\ c \in Reaches(n) \/ c = l.of
            /\ learner' = IF c \in Reaches(n) /\ learner[c] = {}
                             /\ First(missing) \notin voters[c]
                          THEN [learner EXCEPT ![c] = {First(missing)}] ELSE learner
       /\ Again(n)
       /\ UNCHANGED <<setting, decl, unit, data, rec, probe, target, voters, named, loop, faults>>

\* Every declared server votes: recorded once all have started and nobody is
\* there who should not be.
Converge(n) ==
    LET l == list[n]
    IN /\ task[n] = "act" /\ ~l.loop /\ l.learner = {} /\ decl[n] \subseteq l.voters
       /\ IF decl[n] \subseteq l.named
          THEN /\ rec' = IF l.voters = decl[n] THEN [rec EXCEPT ![n] = decl[n]] ELSE rec
               /\ task' = [task EXCEPT ![n] = "done"] /\ list' = [list EXCEPT ![n] = NoList]
          ELSE Again(n) /\ UNCHANGED rec
       /\ UNCHANGED <<setting, decl, unit, data, probe, target, clusters, faults>>

\* After 900 seconds it gives up until the next boot or activation.
TaskExpires(n) ==
    /\ task[n] = "read" /\ faults < setting.maxFaults
    /\ task' = [task EXCEPT ![n] = "done"] /\ faults' = faults + 1
    /\ UNCHANGED <<setting, decl, unit, data, rec, probe, target, clusters, list>>

------------------------------------------------------------------------------
(* The operator and faults.                                                *)

\* A running server is given the new declaration: its units restart.
Activate(n) ==
    /\ n \in setting.old \cap setting.new /\ decl[n] # setting.new
    /\ decl' = [decl EXCEPT ![n] = setting.new]
    /\ Down(n) /\ task' = [task EXCEPT ![n] = "off"] /\ list' = [list EXCEPT ![n] = NoList]
    /\ UNCHANGED <<setting, data, rec, clusters, faults>>

\* etcd ends, and its unit is started again.
EtcdDies(n) ==
    /\ unit[n] = "up" /\ faults < setting.maxFaults
    /\ Down(n) /\ faults' = faults + 1
    /\ UNCHANGED <<setting, decl, data, rec, clusters, reconcile>>

\* The server reboots, with its disk.
Reboot(n) ==
    /\ unit[n] # "off" /\ faults < setting.maxFaults
    /\ Down(n) /\ faults' = faults + 1
    /\ task' = [task EXCEPT ![n] = "off"] /\ list' = [list EXCEPT ![n] = NoList]
    /\ UNCHANGED <<setting, decl, data, rec, clusters>>

UnitStep(n) ==
    \/ Boot(n) \/ Guard(n) \/ EndSweep(n) \/ WindowEnds(n) \/ JoinExpires(n) \/ Start(n)
    \/ \E p \in Nodes : Ask(n, p) \/ RenderJoin(n, p)
TaskStep(n) ==
    TaskStart(n) \/ ReadList(n) \/ MoveUrl(n) \/ AddLearner(n) \/ Converge(n)
    \/ \E synced \in BOOLEAN : Promote(n, synced)

JoinNext ==
    \E n \in Nodes :
        \/ UnitStep(n) \/ TaskStep(n) \/ Publish(n)
        \/ NoCredentials(n) \/ TaskExpires(n) \/ Activate(n) \/ EtcdDies(n) \/ Reboot(n)

JoinSpec == JoinInit /\ [][JoinNext]_vars

------------------------------------------------------------------------------
(* Properties.                                                             *)

\* The servers that join are a majority of the declared set on their own.
Overgrown ==
    setting.old # {} /\ Majority(setting.new \ setting.old, setting.new)

\* "A wedged join is recoverable, a second cluster is not": whoever was down,
\* silent or late while others probed, only the cluster that was there, or the
\* one declared on a first boot, ever has a quorum, unless the servers that
\* join outnumber the rest.  Then they may found a cluster of their own.
OneCluster ==
    \A c \in Clusters : Quorate(c) =>
        Overgrown \/ c = IF setting.old = {} THEN setting.new ELSE setting.old

\* "Once a healthy peer has answered we NEVER fall through to bootstrap" holds
\* of one attempt: a server whose probe was answered starts in the cluster that
\* answered, also when it starts with the declaration beside founders that have
\* not started yet.  The next attempt knows nothing of the answer and may found
\* a cluster after all; what it founds then never has a quorum.  Both hold
\* unless the servers that join outnumber the rest.
StaysWithHealthy ==
    [][Overgrown \/ \A n \in Nodes :
         /\ unit[n] = "join" /\ unit'[n] = "start" => data[n] = {} /\ target'[n] = saw[n]
         /\ saw'[n] # {} /\ data'[n] \notin {{}, saw'[n]} => ~Quorate(data[n])']_vars

\* "Unattended growth is safe at every intermediate step": a step of a
\* reconciler takes a cluster's quorum away only by promoting a learner whose
\* etcd has ended since it published its name.  Adding a member never does.
QuorumKept ==
    [][\A c \in Clusters : Quorate(c) /\ unit' = unit =>
         \/ Quorate(c)'
         \/ \E m \in (voters'[c] \ voters[c]) \cap named[c] : ~Running(m, c)]_vars

\* A record that the reconciler has written speaks of what is there: all of
\* the recorded members vote in the cluster of a server that had data.
RecordTruthful ==
    \A n \in setting.old : rec[n] # {} => rec[n] \subseteq voters[data[n]] \/ Overgrown

=============================================================================
