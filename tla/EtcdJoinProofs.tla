--------------------------- MODULE EtcdJoinProofs ---------------------------
(***************************************************************************)
(* Proofs about EtcdJoin for any deployments of any size, any number of    *)
(* sweeps and any number of faults.                                        *)
(***************************************************************************)
EXTENDS EtcdJoin, FiniteSetTheorems, WellFoundedInduction, TLAPS

\* A set of servers that is not empty has a first one.
LEMMA FirstIsThere == ASSUME NEW s \in SUBSET Nat, s # {} PROVE First(s) \in s
<1> DEFINE R == OpToRel(<, Nat)
<1>1. IsWellFoundedOn(R, Nat)
  BY Zenon, NatLessThanWellFounded
<1>2. PICK n \in s : \A m \in s : ~(<<m, n>> \in R)
  <2> HIDE DEF R
  <2> QED BY Zenon, <1>1, WFMin
<1>3. \A m \in s : n <= m
  <2> SUFFICES ASSUME NEW m \in s, ~(n <= m) PROVE <<m, n>> \in R
    BY Zenon, <1>2
  <2>1. m < n
    OBVIOUS
  <2>2. <<m, n>> \in Nat \X Nat /\ <<m, n>>[1] = m /\ <<m, n>>[2] = n
    OBVIOUS
  <2> QED BY <2>1, <2>2, Zenon DEF OpToRel
<1> QED BY <1>3, ZenonT(30) DEF First

\* The types, as far as the proofs need them.
Units == {"off", "guard", "probe", "join", "start", "up", "refused"}
MaybeCluster == Clusters \cup {{}}
Typed ==
    /\ setting \in Settings /\ decl \in [Nodes -> Clusters] /\ unit \in [Nodes -> Units]
    /\ data \in [Nodes -> MaybeCluster] /\ rec \in [Nodes -> MaybeCluster]
    /\ saw \in [Nodes -> MaybeCluster] /\ target \in [Nodes -> MaybeCluster]
    /\ voters \in [Clusters -> SUBSET Nodes] /\ learner \in [Clusters -> SUBSET Nodes]
    /\ task \in [Nodes -> {"off", "read", "act", "done"}]
    /\ list = [n \in Nodes |-> list[n]]
    /\ \A n \in Nodes : /\ unit[n] \in {"guard", "probe", "join", "start"} => target[n] # {}
                        /\ unit[n] = "up" => data[n] # {}

\* The cluster that was there, or that a first boot founds.
Home == IF setting.old = {} THEN setting.new ELSE setting.old

\* Membership in the derived constants.
LEMMA Members ==
    /\ \A x : x \in Nodes <=> \E s \in Settings : x \in s.old \cup s.new
    /\ \A c : c \in Clusters <=> c # {} /\ \E s \in Settings : c \in {s.old, s.new}
<1>1. \A x : x \in Nodes <=> \E s \in Settings : x \in s.old \cup s.new
  BY Zenon DEF Nodes
<1>2. \A c : c \in Clusters <=> c # {} /\ \E s \in Settings : c \in {s.old, s.new}
  <2> DEFINE U == UNION {{s.old, s.new} : s \in Settings}
  <2>1. \A c : c \in U <=> \E s \in Settings : c \in {s.old, s.new}
    BY Zenon
  <2>2. Clusters = U \ {{}}
    BY DEF Clusters
  <2> HIDE DEF U
  <2> QED BY <2>1, <2>2
<1> QED BY <1>1, <1>2

\* The clusters of a deployment.
LEMMA Deployed ==
    ASSUME setting \in Settings
    PROVE  /\ Home \in Clusters /\ Home # {} /\ setting.new \in Clusters /\ setting.new # {}
           /\ setting.old \subseteq Nodes /\ setting.new \subseteq Nodes
           /\ setting.old # {} => setting.old = Home
<1>1. setting.new # {}
  BY JoinAssumption
<1>2. setting.old \subseteq Nodes /\ setting.new \subseteq Nodes
  BY Members
<1> QED BY <1>1, <1>2, Members DEF Home

\* A cluster is a set of servers, never empty.
LEMMA ClustersAreNodes == \A c \in Clusters : c \subseteq Nodes /\ c # {}
BY Members

\* Sets of servers are finite.
LEMMA Finite == ASSUME NEW s \in SUBSET Nodes
                PROVE  IsFiniteSet(s) /\ Cardinality(s) \in Nat
BY Zenon, JoinAssumption, FS_Subset, FS_CardinalityType

-----------------------------------------------------------------------------
\* One more voter that runs leaves a majority a majority.
LEMMA OneMore ==
    ASSUME NEW v \in SUBSET Nodes, NEW r \in SUBSET v, NEW m \in Nodes, Majority(r, v)
    PROVE  Majority(r \cup {m}, v \cup {m})
<1>1. IsFiniteSet(r) /\ IsFiniteSet(v) /\ Cardinality(r) \in Nat /\ Cardinality(v) \in Nat
  BY Finite
<1>2. Cardinality(r \cup {m}) = IF m \in r THEN Cardinality(r) ELSE Cardinality(r) + 1
  BY Zenon, <1>1, FS_AddElement
<1>3. Cardinality(v \cup {m}) = IF m \in v THEN Cardinality(v) ELSE Cardinality(v) + 1
  BY Zenon, <1>1, FS_AddElement
<1> QED BY <1>1, <1>2, <1>3 DEF Majority

-----------------------------------------------------------------------------
(* Types.                                                                  *)

\* The first state is typed.
LEMMA TypedInit == JoinInit => Typed
<1> SUFFICES ASSUME JoinInit PROVE Typed
  OBVIOUS
<1>1. setting \in Settings /\ setting.new \in Clusters /\ (setting.old = {} \/ setting.old \in Clusters)
  BY Deployed DEF JoinInit, Home
<1>2. \A c \in Clusters : c \subseteq Nodes
  BY ClustersAreNodes
<1>3. \A n \in Nodes : n \in setting.old => setting.old \in Clusters
  BY <1>1
<1>4. decl \in [Nodes -> Clusters]
  BY <1>1, <1>3 DEF JoinInit
<1>5. /\ data \in [Nodes -> MaybeCluster] /\ rec \in [Nodes -> MaybeCluster]
      /\ saw \in [Nodes -> MaybeCluster] /\ target \in [Nodes -> MaybeCluster]
  BY <1>3 DEF JoinInit, MaybeCluster
<1>6. voters \in [Clusters -> SUBSET Nodes] /\ learner \in [Clusters -> SUBSET Nodes]
  BY <1>2 DEF JoinInit
<1> QED BY <1>1, <1>4, <1>5, <1>6 DEF JoinInit, Typed, Units

\* A server that answers is a server of a cluster.
LEMMA AnsweringCluster ==
    ASSUME Typed, NEW p \in Nodes, Answers(p)
    PROVE  data[p] \in Clusters /\ Quorate(data[p])
BY DEF Typed, Answers, Listens, MaybeCluster

\* What a reconciler reaches is a cluster with a quorum.
LEMMA ReachedCluster ==
    ASSUME Typed, NEW n \in Nodes, NEW c \in Reaches(n)
    PROVE  c \in Clusters /\ Quorate(c)
<1>1. decl[n] \subseteq Nodes
  BY ClustersAreNodes DEF Typed
<1>2. PICK p \in decl[n] : Answers(p) /\ c = data[p]
  BY DEF Reaches
<1> QED BY <1>1, <1>2, AnsweringCluster

\* The unit's steps.
LEMMA TypedUnit == ASSUME Typed, NEW n \in Nodes, UnitStep(n) PROVE Typed'
<1>1. \A c \in Clusters : c # {}
  BY ClustersAreNodes
<1>2. CASE Boot(n)
  BY <1>1, <1>2 DEF Boot, Typed, Units, MaybeCluster, probe, clusters, reconcile
<1>3. CASE Guard(n)
  BY <1>1, <1>3 DEF Guard, Released, Typed, Units, MaybeCluster, probe, clusters, reconcile
<1>4. CASE EndSweep(n)
  BY <1>1, <1>4 DEF EndSweep, Forget, Typed, Units, MaybeCluster, clusters, reconcile
<1>5. CASE WindowEnds(n)
  BY <1>1, <1>5 DEF WindowEnds, Forget, Typed, Units, MaybeCluster, clusters, reconcile
<1>6. CASE JoinExpires(n)
  BY <1>1, <1>6 DEF JoinExpires, Released, Down, Forget, Typed, Units, MaybeCluster, clusters
<1>7. CASE Start(n)
  BY <1>1, <1>7 DEF Start, Typed, Units, MaybeCluster, clusters, reconcile
<1>8. ASSUME NEW p \in Nodes, Ask(n, p) PROVE Typed'
  <2>1. /\ UNCHANGED <<setting, decl, data, rec, target, voters, learner, task, list>>
        /\ unit[n] = "probe"
        /\ \/ UNCHANGED <<unit, saw>>
           \/ /\ Answers(p) /\ unit' = [unit EXCEPT ![n] = "join"]
              /\ saw' = [saw EXCEPT ![n] = data[p]]
    BY <1>8 DEF Ask, clusters, reconcile
  <2> QED BY <2>1 DEF Typed, Units, MaybeCluster
<1>9. ASSUME NEW p \in Nodes, RenderJoin(n, p) PROVE Typed'
  <2>1. /\ UNCHANGED <<setting, decl, data, rec, saw, voters, learner, task, list>>
        /\ unit' = [unit EXCEPT ![n] = "start"] /\ Answers(p)
        /\ target' = [target EXCEPT ![n] = data[p]] \/ target' = [target EXCEPT ![n] = decl[n]]
    BY Zenon, <1>9 DEF RenderJoin, probe, clusters, reconcile
  <2>2. data[p] \in Clusters /\ decl[n] \in Clusters
    BY <2>1, AnsweringCluster DEF Typed
  <2> QED BY <1>1, <2>1, <2>2 DEF Typed, Units, MaybeCluster
<1> QED BY <1>2, <1>3, <1>4, <1>5, <1>6, <1>7, <1>8, <1>9 DEF UnitStep

\* What a reconciler's step may do.
LEMMA TaskEffect ==
    ASSUME Typed, NEW n \in Nodes, TaskStep(n)
    PROVE  /\ UNCHANGED <<setting, decl, unit, data, saw, target>>
           /\ task' \in [Nodes -> {"off", "read", "act", "done"}]
           /\ list' = [h \in Nodes |-> list'[h]]
           /\ \A h \in Nodes \ {n} : task'[h] = task[h] /\ list'[h] = list[h] /\ rec'[h] = rec[h]
           /\ \/ rec' = rec
              \/ /\ rec' = [rec EXCEPT ![n] = decl[n]]
                 /\ task[n] = "act" /\ decl[n] \subseteq list[n].voters
           /\ \/ voters' = voters
              \/ \E c \in Reaches(n), m \in Nodes :
                   /\ task[n] = "act" /\ c = list[n].of /\ m \in list[n].named
                   /\ voters' = [voters EXCEPT ![c] = @ \cup {m}]
           /\ learner' \in [Clusters -> SUBSET Nodes]
           /\ task'[n] = "act" =>
                \E c \in Reaches(n) : list'[n].of = c /\ list'[n].voters = voters[c]
<1> DEFINE Goal ==
           /\ UNCHANGED <<setting, decl, unit, data, saw, target>>
           /\ task' \in [Nodes -> {"off", "read", "act", "done"}]
           /\ list' = [h \in Nodes |-> list'[h]]
           /\ \A h \in Nodes \ {n} : task'[h] = task[h] /\ list'[h] = list[h] /\ rec'[h] = rec[h]
           /\ \/ rec' = rec
              \/ /\ rec' = [rec EXCEPT ![n] = decl[n]]
                 /\ task[n] = "act" /\ decl[n] \subseteq list[n].voters
           /\ \/ voters' = voters
              \/ \E c \in Reaches(n), m \in Nodes :
                   /\ task[n] = "act" /\ c = list[n].of /\ m \in list[n].named
                   /\ voters' = [voters EXCEPT ![c] = @ \cup {m}]
           /\ learner' \in [Clusters -> SUBSET Nodes]
           /\ task'[n] = "act" =>
                \E c \in Reaches(n) : list'[n].of = c /\ list'[n].voters = voters[c]
<1> USE DEF probe, clusters
<1>1. CASE TaskStart(n)
  BY <1>1 DEF TaskStart, Typed
<1>2. CASE ReadList(n)
  <2>1. PICK c \in Reaches(n) :
          list' = [list EXCEPT ![n] = [of |-> c, voters |-> voters[c], learner |-> learner[c],
                                       named |-> named[c], loop |-> loop[c]]]
    BY Zenon, <1>2 DEF ReadList
  <2>2. list'[n].of = c /\ list'[n].voters = voters[c]
    BY <2>1 DEF Typed
  <2>3. list' = [h \in Nodes |-> list'[h]] /\ \A h \in Nodes \ {n} : list'[h] = list[h]
    BY Zenon, <2>1 DEF Typed
  <2>4. /\ UNCHANGED <<setting, decl, unit, data, saw, target, rec, voters, learner>>
        /\ task' = [task EXCEPT ![n] = "act"]
    BY <1>2 DEF ReadList
  <2> QED BY <2>2, <2>3, <2>4 DEF Typed
<1>3. CASE MoveUrl(n)
  BY Zenon, <1>3 DEF MoveUrl, Again, Typed
<1>4. ASSUME NEW synced \in BOOLEAN, Promote(n, synced) PROVE Goal
  <2> DEFINE c == list[n].of
             m == First(list[n].learner)
  <2>1. /\ UNCHANGED <<setting, decl, unit, data, saw, target, rec>> /\ Again(n)
        /\ task[n] = "act"
        /\ \/ UNCHANGED <<voters, learner>>
           \/ /\ c \in Reaches(n) /\ m \in learner[c] /\ m \in list[n].named
              /\ voters' = [voters EXCEPT ![c] = @ \cup {m}]
              /\ learner' = [learner EXCEPT ![c] = @ \ {m}]
    BY <1>4 DEF Promote
  <2>2. c \in Reaches(n) => c \in Clusters
    BY ReachedCluster
  <2>3. learner' \in [Clusters -> SUBSET Nodes]
    BY <2>1, <2>2 DEF Typed
  <2>4. c \in Reaches(n) /\ m \in learner[c] => m \in Nodes
    BY <2>2 DEF Typed
  <2>5. \/ voters' = voters
        \/ \E d \in Reaches(n), x \in Nodes :
             /\ task[n] = "act" /\ d = list[n].of /\ x \in list[n].named
             /\ voters' = [voters EXCEPT ![d] = @ \cup {x}]
    BY <2>1, <2>4, Zenon
  <2> HIDE DEF c, m
  <2> QED BY <2>1, <2>3, <2>5, ZenonT(30) DEF Again, Typed
<1>5. CASE AddLearner(n)
  <2> DEFINE missing == decl[n] \ list[n].voters
  <2>1. /\ UNCHANGED <<setting, decl, unit, data, saw, target, rec, voters>> /\ Again(n)
        /\ missing # {}
        /\ learner' = learner
           \/ \E c \in Reaches(n) : learner' = [learner EXCEPT ![c] = {First(missing)}]
    BY <1>5, Zenon DEF AddLearner
  <2>2. missing \subseteq Nodes /\ Nodes \subseteq Nat
    BY ClustersAreNodes, JoinAssumption DEF Typed
  <2>3. First(missing) \in Nodes
    <3>1. missing \in SUBSET Nat
      BY <2>2
    <3>2. First(missing) \in missing
      BY <2>1, <3>1, FirstIsThere
    <3> QED BY <2>2, <3>2
  <2>4. learner' \in [Clusters -> SUBSET Nodes]
    BY <2>1, <2>3, ReachedCluster DEF Typed
  <2> QED BY <2>1, <2>4, ZenonT(30) DEF Again, Typed
<1>6. CASE Converge(n)
  BY <1>6 DEF Converge, Again, Typed
<1> QED BY <1>1, <1>2, <1>3, <1>4, <1>5, <1>6 DEF TaskStep

Fault(n) == Publish(n) \/ NoCredentials(n) \/ TaskExpires(n) \/ Activate(n) \/ EtcdDies(n) \/ Reboot(n)

\* What the operator, the faults and etcd itself may do.
FaultMoves(n) ==
    /\ UNCHANGED <<setting, data, voters, learner>>
    /\ decl' = decl \/ decl' = [decl EXCEPT ![n] = setting.new]
    /\ \/ UNCHANGED <<unit, saw, target>>
       \/ /\ unit' = [unit EXCEPT ![n] = "off"] /\ saw' = saw
          /\ target' = [target EXCEPT ![n] = {}]
    /\ rec' = rec \/ (data[n] = {} /\ rec' = [rec EXCEPT ![n] = decl[n]])
    /\ task' = task \/ \E t \in {"off", "read", "done"} : task' = [task EXCEPT ![n] = t]
    /\ list' = list \/ (task'[n] # "act" /\ list' = [list EXCEPT ![n] = NoList])

\* They do no more than that.
LEMMA FaultEffect == ASSUME Typed, NEW n \in Nodes, Fault(n) PROVE FaultMoves(n)
<1> USE DEF FaultMoves
<1> USE DEF probe, clusters, reconcile, Down
<1>1. CASE Publish(n)
  BY <1>1 DEF Publish
<1>2. CASE NoCredentials(n)
  BY Zenon, <1>2 DEF NoCredentials, Released, Typed
<1>3. CASE TaskExpires(n)
  BY <1>3 DEF TaskExpires
<1>4. CASE Activate(n)
  BY <1>4 DEF Activate, Typed
<1>5. CASE EtcdDies(n)
  BY <1>5 DEF EtcdDies
<1>6. CASE Reboot(n)
  BY <1>6 DEF Reboot, Typed
<1> QED BY <1>1, <1>2, <1>3, <1>4, <1>5, <1>6 DEF Fault

\* Every step keeps the types.
LEMMA TypedStep == ASSUME Typed, [JoinNext]_vars PROVE Typed'
<1>1. ASSUME NEW n \in Nodes, UnitStep(n) PROVE Typed'
  BY <1>1, TypedUnit
<1>2. ASSUME NEW n \in Nodes, TaskStep(n) PROVE Typed'
  <2>1. rec' \in [Nodes -> MaybeCluster]
    <3>1. rec' = rec \/ rec' = [rec EXCEPT ![n] = decl[n]]
      BY <1>2, TaskEffect
    <3> QED BY <3>1 DEF Typed, MaybeCluster
  <2>2. voters' \in [Clusters -> SUBSET Nodes]
    <3>1. \/ voters' = voters
          \/ \E c \in Reaches(n), m \in Nodes :
               /\ task[n] = "act" /\ c = list[n].of /\ m \in list[n].named
               /\ voters' = [voters EXCEPT ![c] = @ \cup {m}]
      BY <1>2, TaskEffect, Zenon
    <3> QED BY <3>1, ReachedCluster DEF Typed
  <2>3. /\ UNCHANGED <<setting, decl, unit, data, saw, target>>
        /\ task' \in [Nodes -> {"off", "read", "act", "done"}]
        /\ list' = [h \in Nodes |-> list'[h]] /\ learner' \in [Clusters -> SUBSET Nodes]
    BY <1>2, TaskEffect
  <2> QED BY <2>1, <2>2, <2>3 DEF Typed
<1>3. ASSUME NEW n \in Nodes, Fault(n) PROVE Typed'
  <2>1. setting.new \in Clusters
    BY Deployed DEF Typed
  <2>2. UNCHANGED <<setting, data, voters, learner>>
    BY <1>3, FaultEffect DEF FaultMoves
  <2>3. decl' \in [Nodes -> Clusters] /\ rec' \in [Nodes -> MaybeCluster]
    BY <1>3, <2>1, FaultEffect DEF FaultMoves, Typed, MaybeCluster
  <2>4. \/ UNCHANGED <<unit, saw, target>>
        \/ /\ unit' = [unit EXCEPT ![n] = "off"] /\ saw' = saw
           /\ target' = [target EXCEPT ![n] = {}]
    BY <1>3, FaultEffect DEF FaultMoves
  <2>5. /\ task' \in [Nodes -> {"off", "read", "act", "done"}]
        /\ list' = [h \in Nodes |-> list'[h]]
    BY <1>3, FaultEffect DEF FaultMoves, Typed
  <2>6. /\ unit' \in [Nodes -> Units] /\ saw' \in [Nodes -> MaybeCluster]
        /\ target' \in [Nodes -> MaybeCluster]
    BY <2>4 DEF Typed, Units, MaybeCluster
  <2>7. \A h \in Nodes : /\ unit'[h] \in {"guard", "probe", "join", "start"} => target'[h] # {}
                         /\ unit'[h] = "up" => data'[h] # {}
    BY <2>2, <2>4 DEF Typed
  <2> QED BY <2>2, <2>3, <2>5, <2>6, <2>7 DEF Typed
<1>4. CASE UNCHANGED vars
  BY <1>4 DEF vars, Typed
<1> QED BY <1>1, <1>2, <1>3, <1>4 DEF JoinNext, Fault

\* The types hold always.
LEMMA TypedInvariant == JoinSpec => []Typed
<1>1. Typed /\ [JoinNext]_vars => Typed'
  BY TypedStep
<1> QED BY <1>1, TypedInit, PTL DEF JoinSpec

-----------------------------------------------------------------------------
(* Names.                                                                  *)

\* Who has published a name in a cluster has that cluster's data, and what a
\* reconciler has read of the names is still so.
Names ==
    /\ named \in [Clusters -> SUBSET Nodes]
    /\ \A c \in Clusters : \A m \in named[c] : data[m] = c
    /\ \A n \in Nodes : task[n] = "act" =>
         list[n].of \in Clusters /\ list[n].named \subseteq named[list[n].of]

\* What the steps do to names and data.
LEMMA NamesMove ==
    ASSUME Typed, [JoinNext]_vars
    PROVE  /\ \/ named' = named
              \/ \E n \in Nodes : /\ data[n] \in Clusters
                                  /\ named' = [named EXCEPT ![data[n]] = @ \cup {n}]
           /\ \A n \in Nodes : data'[n] = data[n] \/ data[n] = {}
           /\ \A n \in Nodes : task'[n] = "act" =>
                \/ task[n] = "act" /\ list'[n] = list[n]
                \/ \E c \in Clusters : list'[n].of = c /\ list'[n].named = named[c]
<1> DEFINE Moved ==
             \A n \in Nodes : task'[n] = "act" =>
                \/ task[n] = "act" /\ list'[n] = list[n]
                \/ \E c \in Clusters : list'[n].of = c /\ list'[n].named = named[c]
<1>1. ASSUME NEW n \in Nodes, UnitStep(n)
      PROVE  named' = named /\ Moved /\ \A h \in Nodes : data'[h] = data[h] \/ data[h] = {}
  <2>1. named' = named /\ list' = list
    BY <1>1, ZenonT(30) DEF UnitStep, Boot, Guard, EndSweep, WindowEnds, JoinExpires, Start, Ask,
                            RenderJoin, clusters, reconcile
  <2>2. data' = data \/ (data[n] = {} /\ data' = [data EXCEPT ![n] = target[n]])
    BY <1>1, ZenonT(30) DEF UnitStep, Boot, Guard, EndSweep, WindowEnds, JoinExpires, Start, Ask,
                            RenderJoin
  <2>3. task' = task \/ task' = Released(n)
    BY <1>1, ZenonT(30) DEF UnitStep, Boot, Guard, EndSweep, WindowEnds, JoinExpires, Start, Ask,
                            RenderJoin, reconcile
  <2>4. \A h \in Nodes : task'[h] = "act" => task[h] = "act"
    BY <2>3 DEF Released, Typed
  <2>5. \A h \in Nodes : data'[h] = data[h] \/ data[h] = {}
    BY <2>2 DEF Typed
  <2> QED BY <2>1, <2>4, <2>5
<1>2. ASSUME NEW n \in Nodes, TaskStep(n) PROVE named' = named /\ Moved /\ data' = data
  <2>1. named' = named
    BY <1>2, ZenonT(30) DEF TaskStep, TaskStart, ReadList, MoveUrl, AddLearner, Converge, Promote,
                            clusters
  <2>2. data' = data /\ \A h \in Nodes \ {n} : task'[h] = task[h] /\ list'[h] = list[h]
    BY <1>2, TaskEffect
  <2>3. task'[n] = "act" => \E c \in Clusters : list'[n].of = c /\ list'[n].named = named[c]
    <3>1. CASE ReadList(n)
      <4>1. PICK c \in Reaches(n) :
              list' = [list EXCEPT ![n] = [of |-> c, voters |-> voters[c], learner |-> learner[c],
                                           named |-> named[c], loop |-> loop[c]]]
        BY Zenon, <3>1 DEF ReadList
      <4>2. list'[n].of = c /\ list'[n].named = named[c]
        BY <4>1 DEF Typed
      <4> QED BY <4>2, ReachedCluster
    <3>2. CASE ~ReadList(n)
      <4>1. \E t \in {"read", "done"} : task' = [task EXCEPT ![n] = t]
        BY <1>2, <3>2, ZenonT(30) DEF TaskStep, TaskStart, MoveUrl, AddLearner, Converge, Promote, Again
      <4> QED BY <4>1 DEF Typed
    <3> QED BY <3>1, <3>2
  <2> QED BY <2>1, <2>2, <2>3
<1>3. ASSUME NEW n \in Nodes, Fault(n)
      PROVE  /\ named' = named \/ (data[n] \in Clusters /\ named' = [named EXCEPT ![data[n]] = @ \cup {n}])
             /\ Moved /\ data' = data
  <2>1. CASE Publish(n)
    <3>1. data[n] \in Clusters
      BY <2>1 DEF Publish, Typed, MaybeCluster
    <3>2. named' = [named EXCEPT ![data[n]] = @ \cup {n}] /\ UNCHANGED <<task, list, data>>
      BY <2>1 DEF Publish, reconcile
    <3> QED BY <3>1, <3>2
  <2>2. CASE ~Publish(n)
    <3>1. named' = named /\ data' = data
      BY <1>3, <2>2 DEF Fault, NoCredentials, TaskExpires, Activate, EtcdDies, Reboot, clusters
    <3>2. task' = task \/ \E t \in {"off", "read", "done"} : task' = [task EXCEPT ![n] = t]
      BY <1>3, FaultEffect DEF FaultMoves
    <3>3. list' = list \/ (task'[n] # "act" /\ list' = [list EXCEPT ![n] = NoList])
      BY <1>3, FaultEffect DEF FaultMoves
    <3>4. \A h \in Nodes : task'[h] = "act" => task[h] = "act"
      BY <3>2 DEF Typed
    <3>5. \A h \in Nodes : task'[h] = "act" => list'[h] = list[h]
      BY <3>3 DEF Typed
    <3> QED BY <3>1, <3>4, <3>5
  <2> QED BY <2>1, <2>2
<1>4. CASE UNCHANGED vars
  BY <1>4 DEF vars
<1> QED BY <1>1, <1>2, <1>3, <1>4 DEF JoinNext, Fault

\* The names hold always.
LEMMA NamesInvariant == JoinSpec => [](Typed /\ Names)
<1>1. JoinInit => Names
  <2> SUFFICES ASSUME JoinInit PROVE Names
    OBVIOUS
  <2>1. named \in [Clusters -> SUBSET Nodes]
    BY ClustersAreNodes DEF JoinInit
  <2>2. ASSUME NEW c \in Clusters, NEW m \in named[c] PROVE data[m] = c
    <3>1. c = setting.old /\ m \in setting.old
      BY <2>2 DEF JoinInit
    <3>2. m \in Nodes
      BY <3>1, ClustersAreNodes
    <3> QED BY <3>1, <3>2 DEF JoinInit
  <2> QED BY <2>1, <2>2 DEF JoinInit, Names
<1>2. ASSUME Typed, Names, [JoinNext]_vars PROVE Names'
  <2>1. named' \in [Clusters -> SUBSET Nodes]
    BY <1>2, NamesMove DEF Names
  <2>2. ASSUME NEW c \in Clusters PROVE named[c] \subseteq named'[c]
    BY <1>2, NamesMove DEF Names
  <2>3. ASSUME NEW c \in Clusters, NEW m \in named'[c] PROVE data'[m] = c
    <3>1. m \in Nodes /\ c # {}
      BY <2>1, ClustersAreNodes
    <3>2. data[m] = c
      BY <1>2, NamesMove DEF Names
    <3> QED BY <1>2, <3>1, <3>2, NamesMove
  <2>4. ASSUME NEW n \in Nodes, task'[n] = "act"
        PROVE  list'[n].of \in Clusters /\ list'[n].named \subseteq named'[list'[n].of]
    <3>1. CASE task[n] = "act" /\ list'[n] = list[n]
      BY <1>2, <2>2, <3>1 DEF Names
    <3>2. CASE \E c \in Clusters : list'[n].of = c /\ list'[n].named = named[c]
      BY <2>2, <3>2
    <3> QED BY <1>2, <2>4, <3>1, <3>2, NamesMove
  <2> QED BY <2>1, <2>3, <2>4 DEF Names
<1> QED BY <1>1, <1>2, TypedInvariant, PTL DEF JoinSpec

-----------------------------------------------------------------------------
\* The steps that leave the units alone leave the data alone, and give a
\* cluster a voter only if that has published its name.
LEMMA VotersStep ==
    ASSUME Typed, Names, [JoinNext]_vars, unit' = unit
    PROVE  /\ data' = data
           /\ \/ voters' = voters
              \/ \E c \in Clusters : \E m \in named[c] :
                   voters' = [voters EXCEPT ![c] = @ \cup {m}]
<1>1. ASSUME NEW n \in Nodes, UnitStep(n) PROVE data' = data /\ voters' = voters
  <2>1. CASE Start(n)
    BY <2>1, SMTT(30) DEF Start, Typed
  <2>2. CASE ~Start(n)
    BY <1>1, <2>2 DEF UnitStep, Boot, Guard, Ask, EndSweep, WindowEnds, RenderJoin, JoinExpires,
                      clusters
  <2> QED BY <2>1, <2>2
<1>2. ASSUME NEW n \in Nodes, TaskStep(n)
      PROVE  data' = data /\ (voters' = voters \/ \E c \in Clusters : \E m \in named[c] :
               voters' = [voters EXCEPT ![c] = @ \cup {m}])
  <2>1. data' = data /\ (voters' = voters \/ \E c \in Reaches(n), m \in Nodes :
               /\ task[n] = "act" /\ c = list[n].of /\ m \in list[n].named
               /\ voters' = [voters EXCEPT ![c] = @ \cup {m}])
    BY <1>2, TaskEffect, Zenon
  <2>2. task[n] = "act" => list[n].of \in Clusters /\ list[n].named \subseteq named[list[n].of]
    BY DEF Names
  <2> QED BY <2>1, <2>2
<1>3. ASSUME NEW n \in Nodes, Fault(n) PROVE data' = data /\ voters' = voters
  BY <1>3, FaultEffect DEF FaultMoves
<1>4. CASE UNCHANGED vars
  BY <1>4 DEF vars
<1> QED BY <1>1, <1>2, <1>3, <1>4 DEF JoinNext, Fault

\* QuorumKept: members enter as learners and vote only once they have started,
\* so a reconciler takes a cluster's quorum away only with a learner that has
\* published its name and has ended since.
THEOREM GrowthKeepsQuorum == JoinSpec => QuorumKept
<1>1. ASSUME Typed, Names, [JoinNext]_vars, NEW c \in Clusters, Quorate(c), unit' = unit
      PROVE  \/ Quorate(c)'
             \/ \E m \in (voters'[c] \ voters[c]) \cap named[c] : ~Running(m, c)
  <2> DEFINE r == {n \in voters[c] : Running(n, c)}
  <2>1. voters[c] \in SUBSET Nodes /\ r \in SUBSET voters[c] /\ Majority(r, voters[c])
    BY <1>1 DEF Typed, Quorate
  <2>2. data' = data /\ \A n \in Nodes : Running(n, c)' <=> Running(n, c)
    BY <1>1, VotersStep DEF Running
  <2>3. ASSUME NEW m \in Nodes, Running(m, c), voters'[c] = voters[c] \cup {m}
        PROVE  Quorate(c)'
    <3>1. Majority(r \cup {m}, voters[c] \cup {m})
      BY <2>1, OneMore
    <3>2. {n \in voters'[c] : Running(n, c)'} = r \cup {m}
      BY <2>1, <2>2, <2>3
    <3> QED BY <2>3, <3>1, <3>2 DEF Quorate, Majority
  <2>4. ASSUME voters'[c] = voters[c] PROVE Quorate(c)'
    <3>1. {n \in voters'[c] : Running(n, c)'} = r
      BY <2>1, <2>2, <2>4
    <3> QED BY <2>1, <2>4, <3>1 DEF Quorate, Majority
  <2>5. \/ voters' = voters
        \/ \E d \in Clusters : \E m \in named[d] : voters' = [voters EXCEPT ![d] = @ \cup {m}]
    BY <1>1, VotersStep
  <2>6. voters'[c] = voters[c] \/ \E m \in named[c] : voters'[c] = voters[c] \cup {m}
    BY <1>1, <2>5 DEF Typed
  <2>7. ASSUME NEW m \in named[c], voters'[c] = voters[c] \cup {m}, m \notin voters[c],
               ~Running(m, c)
        PROVE  \E x \in (voters'[c] \ voters[c]) \cap named[c] : ~Running(x, c)
    BY <2>7
  <2>8. named[c] \subseteq Nodes
    BY <1>1 DEF Names
  <2>9. ASSUME NEW m \in named[c], voters'[c] = voters[c] \cup {m}, m \in voters[c]
        PROVE  voters'[c] = voters[c]
    BY <2>9
  <2> QED BY <2>3, <2>4, <2>6, <2>7, <2>8, <2>9
<1>2. Typed /\ Names /\ [JoinNext]_vars
        => [\A c \in Clusters : Quorate(c) /\ unit' = unit =>
              \/ Quorate(c)'
              \/ \E m \in (voters'[c] \ voters[c]) \cap named[c] : ~Running(m, c)]_vars
  BY <1>1
<1> QED BY <1>2, NamesInvariant, PTL DEF JoinSpec, QuorumKept

-----------------------------------------------------------------------------
(* One cluster.                                                            *)

\* A server holds the data of the cluster that was there, or of one that it
\* founded with the new declaration; only the former ever answered it.
At(n) ==
    /\ decl[n] \in {Home, setting.new}
    /\ data[n] \in {{}, Home, setting.new} /\ target[n] \in {{}, Home, setting.new}
    /\ n \in setting.old => data[n] = Home
    /\ unit[n] \in {"probe", "join"} => data[n] = {}
    /\ saw[n] \in {{}, Home} /\ (unit[n] = "join" => saw[n] = Home)

\* What a reconciler has read, and what is recorded, is there.
Known(n) ==
    /\ task[n] = "act" => list[n].of = Home /\ list[n].voters \subseteq voters[Home]
    /\ n \in setting.old /\ rec[n] # {} => rec[n] \subseteq voters[Home]

\* Only the cluster that was there changes, and its voters have its data.
Votes ==
    /\ \A c \in Clusters : c # Home => voters[c] = c
    /\ setting.old # {} => \A n \in voters[Home] : data[n] = Home

HomeInv == Votes /\ \A n \in Nodes : At(n) /\ Known(n)

\* Servers that found a cluster beside the one that was there are too few.
LEMMA OnlyHome ==
    ASSUME Typed, ~Overgrown, Votes, \A n \in Nodes : At(n), NEW c \in Clusters, Quorate(c)
    PROVE  c = Home
<1> SUFFICES ASSUME c # Home PROVE FALSE
  OBVIOUS
<1> DEFINE r == {n \in voters[c] : Running(n, c)}
<1>1. voters[c] = c /\ c \subseteq Nodes /\ c # {} /\ Majority(r, c)
  BY ClustersAreNodes DEF Votes, Quorate
<1>2. CASE c # setting.new
  <2>1. r = {}
    BY <1>1, <1>2 DEF At, Running
  <2>2. Cardinality(r) = 0 /\ Cardinality(c) \in Nat
    BY <1>1, <2>1, FS_EmptySet, Finite
  <2> QED BY <1>1, <2>2 DEF Majority
<1>3. CASE c = setting.new
  <2>1. setting.old # {}
    BY <1>3 DEF Home
  <2>2. r \subseteq setting.new \ setting.old
    BY <1>1, <1>3 DEF At, Running
  <2>3. setting.new \ setting.old \in SUBSET Nodes /\ r \in SUBSET Nodes /\ c \in SUBSET Nodes
    BY <1>1, <1>3, <2>2
  <2>4. /\ Cardinality(r) \in Nat /\ Cardinality(setting.new \ setting.old) \in Nat
        /\ Cardinality(c) \in Nat /\ IsFiniteSet(setting.new \ setting.old)
    BY <2>3, Finite
  <2>5. Cardinality(r) <= Cardinality(setting.new \ setting.old)
    BY <2>2, <2>4, FS_Subset
  <2>6. 2 * Cardinality(r) > Cardinality(c)
    BY <1>1 DEF Majority
  <2>7. ~(2 * Cardinality(setting.new \ setting.old) > Cardinality(c))
    BY <1>3, <2>1 DEF Overgrown, Majority
  <2> HIDE DEF r
  <2> QED BY <2>4, <2>5, <2>6, <2>7
<1> QED BY <1>2, <1>3

\* Whoever answers, and whatever a reconciler reaches, is the one cluster.
LEMMA HomeAnswers ==
    ASSUME Typed, ~Overgrown, Votes, \A n \in Nodes : At(n)
    PROVE  /\ \A p \in Nodes : Answers(p) => data[p] = Home
           /\ \A n \in Nodes : \A c \in Reaches(n) : c = Home
<1>1. \A p \in Nodes : Answers(p) => data[p] = Home
  BY OnlyHome, AnsweringCluster
<1>2. \A n \in Nodes : \A c \in Reaches(n) : c = Home
  BY OnlyHome, ReachedCluster, SMTT(30)
<1> QED BY <1>1, <1>2

\* The unit's steps.
LEMMA UnitAt ==
    ASSUME Typed, ~Overgrown, Votes, \A h \in Nodes : At(h), NEW n \in Nodes, UnitStep(n)
    PROVE  /\ At(n)' /\ UNCHANGED <<setting, decl, voters, list>>
           /\ data'[n] = data[n] \/ data[n] = {}
           /\ rec'[n] = rec[n] \/ data[n] = {}
           /\ task'[n] = task[n] \/ task'[n] # "act"
           /\ unit[n] = "join" /\ unit'[n] = "start" => target'[n] = Home
           /\ \A h \in Nodes \ {n} :
                /\ unit'[h] = unit[h] /\ data'[h] = data[h] /\ saw'[h] = saw[h]
                /\ target'[h] = target[h] /\ rec'[h] = rec[h] /\ task'[h] = task[h]
<1> DEFINE Frame ==
           /\ UNCHANGED <<setting, decl, voters, list>>
           /\ data'[n] = data[n] \/ data[n] = {}
           /\ rec'[n] = rec[n] \/ data[n] = {}
           /\ task'[n] = task[n] \/ task'[n] # "act"
           /\ unit[n] = "join" /\ unit'[n] = "start" => target'[n] = Home
           /\ \A h \in Nodes \ {n} :
                /\ unit'[h] = unit[h] /\ data'[h] = data[h] /\ saw'[h] = saw[h]
                /\ target'[h] = target[h] /\ rec'[h] = rec[h] /\ task'[h] = task[h]
<1> USE DEF probe, clusters, reconcile, Forget
<1>1. setting' = setting
  BY ZenonT(30) DEF UnitStep, Boot, Guard, EndSweep, WindowEnds, JoinExpires, Start, Ask, RenderJoin
<1>2. Home' = Home /\ Home # {} /\ setting.new # {}
  BY <1>1, Deployed DEF Home, Typed
<1>3. CASE Boot(n)
  BY <1>1, <1>2, <1>3 DEF Boot, At, Typed
<1>4. CASE Guard(n)
  <2>1. /\ UNCHANGED <<setting, decl, data, target, voters, list, saw>>
        /\ unit[n] = "guard" /\ unit'[n] \in {"refused", "start", "probe"}
        /\ unit'[n] = "probe" => data[n] = {}
        /\ rec'[n] = rec[n] \/ data[n] = {}
        /\ task'[n] = task[n] \/ task'[n] # "act"
        /\ \A h \in Nodes \ {n} : unit'[h] = unit[h] /\ rec'[h] = rec[h] /\ task'[h] = task[h]
    <3>1. unit \in [Nodes -> Units] /\ rec \in [Nodes -> MaybeCluster]
          /\ task \in [Nodes -> {"off", "read", "act", "done"}]
      BY DEF Typed
    <3>2. CASE rec[n] # {} /\ ~(rec[n] \subseteq decl[n])
      BY <1>4, <3>1, <3>2 DEF Guard, Released
    <3>3. CASE ~(rec[n] # {} /\ ~(rec[n] \subseteq decl[n]))
      BY <1>4, <3>1, <3>3 DEF Guard
    <3> QED BY Zenon, <3>2, <3>3
  <2>2. At(n)'
    <3>1. At(n)
      OBVIOUS
    <3> QED BY <1>1, <1>2, <2>1, <3>1 DEF At
  <2>3. UNCHANGED <<setting, decl, voters, list, data, saw, target>>
    BY <2>1
  <2> QED BY Zenon, <2>1, <2>2, <2>3
<1>5. CASE EndSweep(n)
  BY <1>1, <1>2, <1>5 DEF EndSweep, At, Typed
<1>6. CASE WindowEnds(n)
  BY <1>1, <1>2, <1>6 DEF WindowEnds, At, Typed
<1>7. CASE JoinExpires(n)
  BY <1>1, <1>2, <1>7 DEF JoinExpires, Released, Down, At, Typed
<1>8. CASE Start(n)
  BY <1>1, <1>2, <1>8 DEF Start, At, Typed
<1>9. ASSUME NEW p \in Nodes, Ask(n, p) PROVE At(n)' /\ Frame
  <2>1. /\ UNCHANGED <<setting, decl, data, rec, target, voters, task, list>> /\ unit[n] = "probe"
        /\ \/ UNCHANGED <<unit, saw>>
           \/ /\ Answers(p) /\ unit' = [unit EXCEPT ![n] = "join"]
              /\ saw' = [saw EXCEPT ![n] = data[p]]
    BY <1>9 DEF Ask
  <2>2. Answers(p) => data[p] = Home
    BY HomeAnswers
  <2> QED BY <1>1, <1>2, <2>1, <2>2 DEF At, Typed
<1>10. ASSUME NEW p \in Nodes, RenderJoin(n, p) PROVE At(n)' /\ Frame
  <2>1. /\ UNCHANGED <<setting, decl, data, rec, saw, voters, task, list>> /\ unit[n] = "join"
        /\ unit' = [unit EXCEPT ![n] = "start"] /\ Answers(p)
        /\ \/ target' = [target EXCEPT ![n] = data[p]]
           \/ target' = [target EXCEPT ![n] = decl[n]] /\ n \in voters[data[p]]
    BY <1>10, ZenonT(30) DEF RenderJoin
  <2>2. data[p] = Home
    BY <2>1, HomeAnswers
  <2>3. setting.old = {} \/ n \notin voters[Home]
    BY <1>2, <2>1 DEF At, Votes
  <2>4. target' = [target EXCEPT ![n] = Home]
    BY <2>1, <2>2, <2>3 DEF At, Home
  <2>5. unit'[n] = "start" /\ target'[n] = Home
    BY <2>1, <2>4 DEF Typed
  <2>6. At(n)'
    BY <1>1, <1>2, <2>1, <2>5 DEF At
  <2>7. \A h \in Nodes \ {n} : unit'[h] = unit[h] /\ target'[h] = target[h]
    BY <2>1, <2>4 DEF Typed
  <2> QED BY <2>1, <2>5, <2>6, <2>7
<1> QED BY Zenon, <1>3, <1>4, <1>5, <1>6, <1>7, <1>8, <1>9, <1>10 DEF UnitStep

\* In the first state the cluster that was there has its data and its record.
LEMMA HomeInit == JoinInit => HomeInv
<1> SUFFICES ASSUME JoinInit PROVE HomeInv
  OBVIOUS
<1>1. /\ setting.old # {} => setting.old = Home
      /\ setting.old = {} => setting.new = Home
      /\ Home \in Clusters /\ setting.old \subseteq Nodes
  BY Deployed DEF JoinInit, Home
<1>2. voters = [c \in Clusters |-> c] /\ voters[Home] = Home
  BY <1>1 DEF JoinInit
<1>3. ASSUME NEW n \in Nodes PROVE At(n) /\ Known(n)
  <2>1. /\ decl[n] = IF n \in setting.old THEN setting.old ELSE setting.new
        /\ data[n] = IF n \in setting.old THEN setting.old ELSE {}
        /\ unit[n] = "off" /\ saw[n] = {} /\ target[n] = {} /\ task[n] = "off"
        /\ rec[n] # {} => n \in setting.old /\ rec[n] = setting.old
    BY DEF JoinInit
  <2>2. n \in setting.old => setting.old = Home
    BY <1>1
  <2> QED BY <1>2, <2>1, <2>2 DEF At, Known
<1>4. Votes
  <2>1. \A c \in Clusters : c # Home => voters[c] = c
    BY <1>2
  <2>2. setting.old # {} => \A n \in voters[Home] : data[n] = Home
    BY <1>1, <1>2 DEF JoinInit
  <2> QED BY <2>1, <2>2 DEF Votes
<1> QED BY <1>3, <1>4 DEF HomeInv

\* A step of a unit.
LEMMA HomeUnit ==
    ASSUME Typed, ~Overgrown, HomeInv, NEW n \in Nodes, UnitStep(n) PROVE HomeInv'
<1> USE DEF HomeInv
<1>1. /\ At(n)' /\ UNCHANGED <<setting, decl, voters, list>>
      /\ data'[n] = data[n] \/ data[n] = {}
      /\ rec'[n] = rec[n] \/ data[n] = {}
      /\ task'[n] = task[n] \/ task'[n] # "act"
      /\ \A h \in Nodes \ {n} :
           /\ unit'[h] = unit[h] /\ data'[h] = data[h] /\ saw'[h] = saw[h]
           /\ target'[h] = target[h] /\ rec'[h] = rec[h] /\ task'[h] = task[h]
  BY UnitAt, Zenon
<1>2. Home' = Home /\ Home # {} /\ Home \in Clusters
  BY <1>1, Deployed DEF Home, Typed
<1>3. ASSUME NEW h \in Nodes PROVE At(h)'
  <2>1. CASE h = n
    BY <1>1, <2>1
  <2>2. CASE h # n
    BY Zenon, <1>1, <1>2, <2>2 DEF At
  <2> QED BY <2>1, <2>2, SMTT(30)
<1>4. ASSUME NEW h \in Nodes PROVE Known(h)'
  <2>1. At(h) /\ Known(h)
    BY SMTT(30)
  <2>2. CASE h = n
    <3>1. task'[n] = "act" => list'[n].of = Home /\ list'[n].voters \subseteq voters'[Home]
      BY <1>1, <2>1, <2>2 DEF Known
    <3>2. n \in setting.old /\ rec'[n] # {} => rec'[n] \subseteq voters[Home]
      BY <1>1, <1>2, <2>1, <2>2 DEF At, Known
    <3> QED BY Zenon, <1>1, <1>2, <2>2, <3>1, <3>2 DEF Known
  <2>3. CASE h # n
    BY <1>1, <1>2, <2>1, <2>3 DEF Known
  <2> QED BY <2>2, <2>3
<1>5. Votes'
  <2>1. voters[Home] \subseteq Nodes
    BY <1>2 DEF Typed
  <2> QED BY <1>1, <1>2, <2>1 DEF Votes
<1> QED BY <1>3, <1>4, <1>5

\* A step of a reconciler: what it reaches is the cluster that was there.
LEMMA HomeTask ==
    ASSUME Typed, Names, ~Overgrown, HomeInv, NEW n \in Nodes, TaskStep(n) PROVE HomeInv'
<1> USE DEF HomeInv
<1>1. UNCHANGED <<setting, decl, unit, data, saw, target>>
  BY TaskEffect
<1>2. Home' = Home /\ Home # {} /\ Home \in Clusters
  BY <1>1, Deployed DEF Home, Typed
<1>3. \A c \in Reaches(n) : c = Home
  BY HomeAnswers
<1>4. \/ voters' = voters
      \/ \E m \in Nodes : data[m] = Home /\ voters' = [voters EXCEPT ![Home] = @ \cup {m}]
  <2>1. \/ voters' = voters
        \/ \E c \in Reaches(n), m \in Nodes :
             /\ task[n] = "act" /\ c = list[n].of /\ m \in list[n].named
             /\ voters' = [voters EXCEPT ![c] = @ \cup {m}]
    BY TaskEffect, Zenon
  <2>2. task[n] = "act" => \A m \in list[n].named : data[m] = list[n].of
    BY DEF Names
  <2> QED BY <1>3, <2>1, <2>2
<1>5. voters[Home] \subseteq voters'[Home]
  BY <1>2, <1>4, SMTT(30) DEF Typed
<1>6. Votes'
  <2>1. \A c \in Clusters : c # Home => voters'[c] = c
    BY <1>2, <1>4 DEF Votes, Typed
  <2>2. setting.old # {} => \A m \in voters'[Home] : data[m] = Home
    BY <1>2, <1>4 DEF Votes, Typed
  <2> QED BY <1>1, <1>2, <2>1, <2>2 DEF Votes
<1>7. ASSUME NEW h \in Nodes PROVE At(h)'
  BY <1>1, <1>2 DEF At
<1>8. ASSUME NEW h \in Nodes PROVE Known(h)'
  <2>1. Known(h)
    BY SMTT(30)
  <2>2. CASE h # n
    <3>1. task'[h] = task[h] /\ list'[h] = list[h] /\ rec'[h] = rec[h]
      BY <2>2, TaskEffect, SMTT(30)
    <3> QED BY <1>1, <1>2, <1>5, <2>1, <3>1 DEF Known
  <2>3. CASE h = n
    <3>1. task'[n] = "act" => list'[n].of = Home /\ list'[n].voters = voters[Home]
      <4>1. task'[n] = "act" =>
              \E c \in Reaches(n) : list'[n].of = c /\ list'[n].voters = voters[c]
        BY TaskEffect
      <4> QED BY <1>3, <4>1
    <3>2. \/ rec'[n] = rec[n]
          \/ rec'[n] = decl[n] /\ task[n] = "act" /\ decl[n] \subseteq list[n].voters
      <4>1. \/ rec' = rec
            \/ /\ rec' = [rec EXCEPT ![n] = decl[n]]
               /\ task[n] = "act" /\ decl[n] \subseteq list[n].voters
        BY TaskEffect
      <4> QED BY <4>1 DEF Typed
    <3> QED BY <1>1, <1>2, <1>5, <2>1, <2>3, <3>1, <3>2 DEF Known
  <2> QED BY <2>2, <2>3
<1> QED BY <1>6, <1>7, <1>8

\* A step of the operator, a fault, or etcd's own.
LEMMA HomeFault == ASSUME Typed, HomeInv, NEW n \in Nodes, Fault(n) PROVE HomeInv'
<1> USE DEF HomeInv
<1>1. UNCHANGED <<setting, data, voters>>
  BY FaultEffect DEF FaultMoves
<1>2. Home' = Home /\ Home # {}
  BY <1>1, Deployed DEF Home, Typed
<1>3. decl' = decl \/ decl' = [decl EXCEPT ![n] = setting.new]
  BY FaultEffect DEF FaultMoves
<1>4. \/ UNCHANGED <<unit, saw, target>>
      \/ /\ unit' = [unit EXCEPT ![n] = "off"] /\ saw' = saw
         /\ target' = [target EXCEPT ![n] = {}]
  BY FaultEffect DEF FaultMoves
<1>5. ASSUME NEW h \in Nodes PROVE At(h)'
  BY <1>1, <1>2, <1>3, <1>4 DEF At, Typed
<1>6. ASSUME NEW h \in Nodes PROVE Known(h)'
  <2>1. At(h) /\ Known(h)
    OBVIOUS
  <2>2. rec'[h] = rec[h] \/ data[h] = {}
    <3>1. rec' = rec \/ (data[n] = {} /\ rec' = [rec EXCEPT ![n] = decl[n]])
      BY FaultEffect DEF FaultMoves
    <3> QED BY <3>1, SMTT(30) DEF Typed
  <2>3. task'[h] = "act" => task[h] = "act" /\ list'[h] = list[h]
    <3>1. task' = task \/ \E t \in {"off", "read", "done"} : task' = [task EXCEPT ![n] = t]
      BY FaultEffect DEF FaultMoves
    <3>2. list' = list \/ (task'[n] # "act" /\ list' = [list EXCEPT ![n] = NoList])
      BY FaultEffect DEF FaultMoves
    <3>3. task'[h] = "act" => task[h] = "act"
      BY <3>1 DEF Typed
    <3>4. task'[h] = "act" => list'[h] = list[h]
      BY <3>2 DEF Typed
    <3> QED BY <3>3, <3>4, SMTT(30)
  <2> QED BY <1>1, <1>2, <2>1, <2>2, <2>3, ZenonT(30) DEF Known, At
<1>7. Votes'
  BY <1>1, <1>2 DEF Votes
<1> QED BY <1>5, <1>6, <1>7, SMTT(30)

\* What is deployed never changes.
LEMMA SettingFixed == ASSUME Typed, [JoinNext]_vars PROVE setting' = setting
<1>1. ASSUME NEW n \in Nodes, UnitStep(n) PROVE setting' = setting
  BY <1>1, ZenonT(30)
    DEF UnitStep, Boot, Guard, EndSweep, WindowEnds, JoinExpires, Start, Ask, RenderJoin
<1>2. ASSUME NEW n \in Nodes, TaskStep(n) PROVE setting' = setting
  BY <1>2, TaskEffect, SMTT(30)
<1>3. ASSUME NEW n \in Nodes, Fault(n) PROVE setting' = setting
  BY <1>3, FaultEffect DEF FaultMoves
<1> QED BY <1>1, <1>2, <1>3 DEF JoinNext, Fault, vars

\* Every step.
LEMMA HomeStep ==
    ASSUME Typed, Names, Overgrown \/ HomeInv, [JoinNext]_vars PROVE (Overgrown \/ HomeInv)'
<1>1. setting' = setting
  BY SettingFixed
<1>2. CASE Overgrown
  BY <1>1, <1>2 DEF Overgrown
<1>3. CASE ~Overgrown
  <2>1. ASSUME NEW n \in Nodes, UnitStep(n) PROVE HomeInv'
    BY <1>3, <2>1, HomeUnit
  <2>2. ASSUME NEW n \in Nodes, TaskStep(n) PROVE HomeInv'
    BY <1>3, <2>2, HomeTask
  <2>3. ASSUME NEW n \in Nodes, Fault(n) PROVE HomeInv'
    BY <1>3, <2>3, HomeFault, SMTT(30)
  <2>4. CASE UNCHANGED vars
    BY <1>3, <2>4, ZenonT(30) DEF vars, HomeInv, Votes, At, Known, Home
  <2> QED BY <2>1, <2>2, <2>3, <2>4 DEF JoinNext, Fault
<1> QED BY <1>2, <1>3

\* The invariant holds in every deployment that does not grow too much.
LEMMA HomeInvariant == JoinSpec => [](Typed /\ (Overgrown \/ HomeInv))
<1>1. Typed /\ Names /\ (Overgrown \/ HomeInv) /\ [JoinNext]_vars => (Overgrown \/ HomeInv)'
  BY HomeStep
<1>2. JoinInit => Overgrown \/ HomeInv
  BY HomeInit
<1> QED BY <1>1, <1>2, NamesInvariant, PTL DEF JoinSpec

\* Two quorums never form: a cluster with a quorum is the one that was there,
\* or that the first boot founds, unless the joining servers are a majority.
THEOREM NoSecondCluster == JoinSpec => []OneCluster
<1>1. Typed /\ (Overgrown \/ HomeInv) => OneCluster
  BY OnlyHome DEF OneCluster, HomeInv, Home
<1> QED BY <1>1, HomeInvariant, PTL

\* StaysWithHealthy: within an attempt a server that was answered starts in the
\* cluster that answered, and what it founds in a later attempt never has a
\* quorum, unless the joining servers are a majority.
THEOREM AnsweredJoin == JoinSpec => StaysWithHealthy
<1> DEFINE Alone == Overgrown \/ \A n \in Nodes :
             saw[n] # {} /\ data[n] \notin {{}, saw[n]} => ~Quorate(data[n])
           Kept == Overgrown \/ \A n \in Nodes :
             /\ unit[n] = "join" /\ unit'[n] = "start" => data[n] = {} /\ target'[n] = saw[n]
             /\ saw'[n] # {} /\ data'[n] \notin {{}, saw'[n]} => ~Quorate(data[n])'
<1>1. Typed /\ (Overgrown \/ HomeInv) => Alone
  <2> SUFFICES ASSUME Typed, ~Overgrown, HomeInv, NEW n \in Nodes,
                      saw[n] # {}, data[n] \notin {{}, saw[n]}, Quorate(data[n])
               PROVE  FALSE
    OBVIOUS
  <2>1. saw[n] = Home /\ data[n] \in Clusters
    BY DEF HomeInv, At, Typed, MaybeCluster
  <2> QED BY <2>1, OnlyHome DEF HomeInv
<1>2. ASSUME Typed, ~Overgrown, HomeInv, [JoinNext]_vars, NEW n \in Nodes,
             unit[n] = "join", unit'[n] = "start"
      PROVE  data[n] = {} /\ target'[n] = saw[n]
  <2>1. data[n] = {} /\ saw[n] = Home
    BY <1>2 DEF HomeInv, At
  <2>2. target'[n] = Home
    <3>1. ASSUME NEW h \in Nodes, UnitStep(h) PROVE target'[n] = Home
      <4>1. Votes /\ \A i \in Nodes : At(i)
        BY <1>2, Zenon DEF HomeInv
      <4>2. CASE h = n
        BY <1>2, <3>1, <4>1, <4>2, UnitAt, Zenon
      <4>3. CASE h # n
        <5>1. \A i \in Nodes \ {h} : unit'[i] = unit[i]
          BY <1>2, <3>1, <4>1, UnitAt, Zenon
        <5> QED BY <1>2, <4>3, <5>1
      <4> QED BY <4>2, <4>3
    <3>2. ASSUME NEW h \in Nodes, TaskStep(h) PROVE unit' = unit
      BY <1>2, <3>2, TaskEffect, Zenon
    <3>3. ASSUME NEW h \in Nodes, Fault(h) PROVE unit'[n] # "start"
      <4>1. unit' = unit \/ unit' = [unit EXCEPT ![h] = "off"]
        BY <1>2, <3>3, FaultEffect DEF FaultMoves
      <4> QED BY <1>2, <4>1 DEF Typed
    <3>4. unit' # unit
      BY <1>2
    <3> QED BY <1>2, <3>1, <3>2, <3>3, <3>4 DEF JoinNext, Fault, vars
  <2> QED BY <2>1, <2>2
<1>3. Typed /\ (Overgrown \/ HomeInv) /\ [JoinNext]_vars /\ Alone' => [Kept]_vars
  <2> SUFFICES ASSUME Typed, ~Overgrown, HomeInv, [JoinNext]_vars, Alone' PROVE Kept
    OBVIOUS
  <2>1. ~Overgrown'
    BY SettingFixed DEF Overgrown, Majority
  <2> QED BY <1>2, <2>1
<1>4. StaysWithHealthy <=> [][Kept]_vars
  BY DEF StaysWithHealthy
<1> HIDE DEF Alone, Kept
<1> QED BY <1>1, <1>3, <1>4, HomeInvariant, PTL DEF JoinSpec

\* What a server's record of members names, votes in the server's cluster.
THEOREM RecordIsTrue == JoinSpec => []RecordTruthful
<1>1. Typed /\ (Overgrown \/ HomeInv) => RecordTruthful
  <2> SUFFICES ASSUME Typed, HomeInv, NEW n \in setting.old, rec[n] # {}
               PROVE  rec[n] \subseteq voters[data[n]]
    BY DEF RecordTruthful
  <2>1. n \in Nodes
    BY Deployed DEF Typed
  <2> QED BY <2>1 DEF HomeInv, At, Known
<1> QED BY <1>1, HomeInvariant, PTL
=============================================================================
