------------------------------ MODULE EtcdProofs ------------------------------
(***************************************************************************)
(* Proofs about etcd-mem: the store for every set of keys, leases and      *)
(* requests, the keep-alive streams beside it for any number of streams,   *)
(* and the Watch service (no gaps, order, refinement of WatchFeed) for     *)
(* every number of streams and handles and every channel capacity.         *)
(***************************************************************************)
EXTENDS EtcdWatch, EtcdKeepAlive, TLAPS

USE DEF NoEnd, OpenEnd

\* What a put does to the types.
LEMMA PutTypes ==
  ASSUME TypeOK, NEW op \in Ops, op.type = "put", DoPut(op)
  PROVE  /\ op.key \in Keys
         /\ kvs' \in [Keys -> Kv]
         /\ revision' = revision + 1
         /\ leases' \in [LeaseIds -> LeaseEntry]
         /\ \E e \in Event : /\ e.key = op.key /\ e.type = "PUT" /\ e.kv = kvs'[op.key]
                             /\ log' = Extend(log, revision + 1, {e})
                             /\ history' = Extend(history, revision + 1, {e})
         /\ \A k \in Keys : k # op.key => kvs'[k] = kvs[k]
         /\ kvs'[op.key].version > 0
         /\ stray' \subseteq Keys
<1> DEFINE prev == kvs[op.key]
           lease == IF op.ignore_lease THEN prev.lease ELSE op.lease
           entry == kvs'[op.key]
           e == [type |-> "PUT", key |-> op.key, kv |-> entry, prev |-> prev]
<1>1. /\ op.key \in Keys /\ op.value \in Nat /\ op.lease \in LeaseIds \cup {0}
      /\ op.ignore_value \in BOOLEAN /\ op.ignore_lease \in BOOLEAN
  BY StoreAssumption DEF OpTyped
<1>2. prev \in Kv /\ lease \in LeaseIds \cup {0}
  BY <1>1 DEF TypeOK, Kv
<1>3. entry \in Kv /\ entry.version > 0 /\ kvs' \in [Keys -> Kv]
      /\ \A k \in Keys : k # op.key => kvs'[k] = kvs[k]
  BY <1>1, <1>2, SMTT(30) DEF TypeOK, Kv, DoPut, NewKv, Present
<1>4. leases' \in [LeaseIds -> LeaseEntry]
  <2>1. Detach(leases, prev.lease, op.key) \in [LeaseIds -> LeaseEntry]
    BY Zenon, <1>1 DEF TypeOK, Detach, LeaseEntry
  <2>2. \A ls \in [LeaseIds -> LeaseEntry] :
          Attach(ls, lease, op.key) \in [LeaseIds -> LeaseEntry]
    BY <1>1 DEF Attach, LeaseEntry
  <2>3. NewKv(op, revision + 1).lease = lease
    BY DEF NewKv
  <2> QED BY <2>1, <2>2, <2>3 DEF DoPut
<1>5. e \in Event /\ e.key = op.key /\ e.type = "PUT" /\ e.kv = entry
  BY <1>1, <1>2, <1>3 DEF Event
<1>6. log' = Extend(log, revision + 1, {e}) /\ history' = Extend(history, revision + 1, {e})
  BY <1>1, ZenonT(30) DEF DoPut, Emit, TypeOK
<1>7. stray' \subseteq Keys
  BY Zenon, <1>1 DEF DoPut, TypeOK
<1> QED BY Zenon, <1>1, <1>3, <1>4, <1>5, <1>6, <1>7 DEF DoPut

\* One commit: the next revision, its batch appended to log and history, every
\* key with an event takes that event's outcome and the others stay.
Commits(events) ==
  /\ revision' = revision + 1
  /\ log' = Extend(log, revision + 1, events)
  /\ history' = Extend(history, revision + 1, events)
  /\ \A e \in events : kvs'[e.key] = Outcome(e)
  /\ \A k \in Keys : (\A e \in events : e.key # k) => kvs'[k] = kvs[k]

\* A put is a commit of one event.
LEMMA PutCommits ==
  ASSUME TypeOK, NEW op \in Ops, op.type = "put", DoPut(op)
  PROVE  \E events \in SUBSET Event : Commits(events)
<1>1. PICK e \in Event : /\ e.key = op.key /\ e.type = "PUT" /\ e.kv = kvs'[op.key]
                         /\ log' = Extend(log, revision + 1, {e})
                         /\ history' = Extend(history, revision + 1, {e})
  BY Zenon, PutTypes
<1>2. /\ revision' = revision + 1
      /\ \A k \in Keys : k # op.key => kvs'[k] = kvs[k]
  BY PutTypes
<1>3. kvs'[e.key] = Outcome(e)
  BY <1>1 DEF Outcome
<1>4. Commits({e})
  BY <1>1, <1>2, <1>3 DEF Commits
<1> QED BY <1>4

\* A deletion that matches a key is a commit of one event per key.
LEMMA DeleteCommits ==
  ASSUME TypeOK, NEW key, NEW end, DoDelete(key, end)
  PROVE  /\ kvs' \in [Keys -> Kv]
         /\ leases' \in [LeaseIds -> LeaseEntry]
         /\ stray' \subseteq Keys
         /\ \/ UNCHANGED <<kvs, revision, leases, log, history, stray>>
            \/ \E events \in SUBSET Event : Commits(events)
<1> DEFINE gone == {k \in Keys : Present(k) /\ InRange(k, key, end)}
           events == DeleteEvents(gone, revision + 1)
<1>1. CASE gone = {}
  <2>1. UNCHANGED <<kvs, revision, leases, log, history, stray>>
    BY <1>1 DEF DoDelete
  <2> QED BY <2>1 DEF TypeOK
<1>2. CASE gone # {}
  <2>1. /\ revision' = revision + 1
        /\ leases' = [i \in LeaseIds |->
             [leases[i] EXCEPT !.keys = {k \in @ : ~(k \in gone /\ kvs[k].lease = i)}]]
        /\ kvs' = [k \in Keys |-> IF k \in gone THEN NoKv ELSE kvs[k]]
        /\ log' = Extend(log, revision + 1, events)
        /\ history' = Extend(history, revision + 1, events)
    BY <1>2 DEF DoDelete, Emit
  <2>10. stray' \subseteq Keys
    BY <1>2 DEF DoDelete, TypeOK
  <2>2. NoKv \in Kv
    BY DEF NoKv, Kv
  <2>3. kvs' \in [Keys -> Kv]
    BY <2>1, <2>2 DEF TypeOK
  <2>4. leases' \in [LeaseIds -> LeaseEntry]
    BY Zenon, <2>1 DEF TypeOK, LeaseEntry
  <2>5. \A k \in gone : Tombstone(k, revision + 1) \in Kv
    BY DEF Tombstone, TypeOK, Kv
  <2>6. events \in SUBSET Event
    BY <2>5 DEF DeleteEvents, Event, TypeOK
  <2>7. \A e \in events : e.key \in gone /\ e.type = "DELETE"
    BY DEF DeleteEvents
  <2>8. \A k \in gone : \E e \in events : e.key = k
    <3> SUFFICES ASSUME NEW k \in gone PROVE \E e \in events : e.key = k
      OBVIOUS
    <3> DEFINE e == [type |-> "DELETE", key |-> k,
                     kv |-> Tombstone(k, revision + 1), prev |-> kvs[k]]
    <3>1. e \in events /\ e.key = k
      BY DEF DeleteEvents
    <3> QED BY Zenon, <3>1
  <2>9. Commits(events)
    <3>1. \A e \in events : kvs'[e.key] = Outcome(e)
      BY <2>1, <2>7 DEF Outcome
    <3>2. \A k \in Keys : (\A e \in events : e.key # k) => kvs'[k] = kvs[k]
      BY <2>1, <2>8
    <3> QED BY <2>1, <3>1, <3>2 DEF Commits
  <2> QED BY <2>3, <2>4, <2>6, <2>9, <2>10
<1> QED BY <1>1, <1>2

\* A commit keeps the types of log and history.
LEMMA CommitTypes ==
  ASSUME TypeOK, NEW events \in SUBSET Event, Commits(events)
  PROVE  /\ revision' \in Nat \ {0}
         /\ DOMAIN log' \subseteq Nat /\ DOMAIN history' \subseteq Nat
         /\ \A r \in DOMAIN log' : log'[r] \subseteq Event
         /\ \A r \in DOMAIN history' : history'[r] \subseteq Event
BY DEF TypeOK, Commits, Extend

\* A step that emits nothing.
Quiet == UNCHANGED <<kvs, revision, log, compact_revision, history>>

Compacts(rev) ==
  /\ rev > compact_revision
  /\ compact_revision' = rev
  /\ log' = [r \in Retained(rev) |-> log[r]]
  /\ UNCHANGED <<kvs, revision, history>>

\* Every step of the store commits one batch, compacts the log or emits nothing,
\* also the steps a transaction or a revocation takes under one lock.
LEMMA StepKinds ==
  ASSUME TypeOK, [StoreNext]_storeVars
  PROVE  \/ /\ \E events \in SUBSET Event : Commits(events)
            /\ UNCHANGED compact_revision
         \/ Quiet
         \/ \E rev \in CompactRevs : Compacts(rev)
<1>1. ASSUME NEW op \in Ops, Put(op)
      PROVE  (\E events \in SUBSET Event : Commits(events)) /\ UNCHANGED compact_revision
  BY <1>1, PutCommits DEF Put
<1>2. ASSUME NEW op \in Ops, DeleteRange(op)
      PROVE  (\E events \in SUBSET Event : Commits(events) /\ UNCHANGED compact_revision) \/ Quiet
  <2>1. DoDelete(op.key, op.end) /\ UNCHANGED compact_revision
    BY <1>2 DEF DeleteRange
  <2> QED BY <2>1, DeleteCommits DEF Quiet
<1>3. ASSUME ExecOp
      PROVE  (\E events \in SUBSET Event : Commits(events) /\ UNCHANGED compact_revision) \/ Quiet
  <2> DEFINE op == Head(todo)
  <2>1. op \in Ops /\ UNCHANGED compact_revision
    BY <1>3 DEF ExecOp, TypeOK
  <2>2. CASE op.type = "put" /\ DoPut(op)
    BY <2>1, <2>2, PutCommits
  <2>3. CASE DoDelete(op.key, op.end)
    BY <2>1, <2>3, DeleteCommits DEF Quiet
  <2>4. CASE UNCHANGED <<kvs, revision, leases, log, history, stray>>
    BY <2>1, <2>4 DEF Quiet
  <2> QED BY <1>3, <2>2, <2>3, <2>4 DEF ExecOp
<1>4. ASSUME NEW k \in Keys, DropKey(k)
      PROVE  (\E events \in SUBSET Event : Commits(events) /\ UNCHANGED compact_revision) \/ Quiet
  <2>1. DoDelete(k, NoEnd) /\ UNCHANGED compact_revision
    BY <1>4 DEF DropKey
  <2> QED BY <2>1, DeleteCommits DEF Quiet
<1>5. ASSUME NEW rev \in CompactRevs, Compact(rev)
      PROVE  Compacts(rev)
  BY <1>5 DEF Compact, Compacts
<1>6. ASSUME NEW op \in Ops, Txn(op)
      PROVE  Quiet
  BY <1>6 DEF Txn, Quiet
<1>7. ASSUME NEW id, NEW ttl, LeaseGrant(id, ttl)
      PROVE  Quiet
  BY <1>7 DEF LeaseGrant, Quiet
<1>8. ASSUME NEW id, LeaseRevoke(id) \/ LeaseKeepalive(id) \/ GcRevoke(id)
      PROVE  Quiet
  BY <1>8 DEF LeaseRevoke, LeaseKeepalive, GcRevoke, RemoveLease, Quiet
<1>9. ASSUME GcScan \/ Tick \/ UNCHANGED storeVars
      PROVE  Quiet
  BY <1>9 DEF GcScan, Tick, storeVars, Quiet
<1> QED BY <1>1, <1>2, <1>3, <1>4, <1>5, <1>6, <1>7, <1>8, <1>9 DEF StoreNext, Handlers

\* The types of what the service itself keeps: revisions, log and history.
RevTypes ==
  /\ revision \in Nat \ {0} /\ compact_revision \in Nat
  /\ DOMAIN log \subseteq Nat /\ DOMAIN history \subseteq Nat
  /\ \A r \in DOMAIN log : log[r] \subseteq Event
  /\ \A r \in DOMAIN history : history[r] \subseteq Event

\* The types of the entries and of the work in progress.
EntryTypes ==
  /\ kvs \in [Keys -> Kv]
  /\ leases \in [LeaseIds -> LeaseEntry]
  /\ next_lease_id \in Nat \ {0}
  /\ todo \in Seq(Ops)
  /\ doomed \subseteq Keys /\ expired \subseteq LeaseIds /\ revoking \in BOOLEAN
  /\ now \in Nat
  /\ stray \subseteq Keys

\* An empty list of operations.
LEMMA EmptyTodo == <<>> \in Seq(Ops)
OBVIOUS

\* A transaction runs operations the client sent.
LEMMA BranchTypes ==
  ASSUME NEW op \in Ops, op.type = "txn"
  PROVE  Branch(op) \in Seq(Ops)
<1>1. op.success \in Seq(Ops) /\ op.failure \in Seq(Ops)
  BY StoreAssumption DEF OpTyped
<1> QED BY <1>1 DEF Branch

\* Every step preserves the types.
LEMMA TypeStep ==
  ASSUME TypeOK, [StoreNext]_storeVars
  PROVE  TypeOK'
<1>1. RevTypes'
  <2>1. CASE Quiet
    BY <2>1 DEF Quiet, RevTypes, TypeOK
  <2>2. CASE UNCHANGED compact_revision /\ \E events \in SUBSET Event : Commits(events)
    BY <2>2, CommitTypes DEF RevTypes, TypeOK
  <2>3. ASSUME NEW rev \in CompactRevs, Compacts(rev)
        PROVE  RevTypes'
    BY <2>3, StoreAssumption DEF Compacts, Retained, RevTypes, TypeOK
  <2> QED BY <2>1, <2>2, <2>3, StepKinds
<1>2. EntryTypes'
  <2>1. ASSUME NEW op \in Ops, Put(op) PROVE EntryTypes'
    BY Zenon, <2>1, PutTypes DEF Put, EntryTypes, TypeOK
  <2>2. ASSUME NEW op \in Ops, DeleteRange(op) PROVE EntryTypes'
    <3>1. DoDelete(op.key, op.end)
      BY <2>2 DEF DeleteRange
    <3> QED BY <2>2, <3>1, DeleteCommits DEF DeleteRange, EntryTypes, TypeOK
  <2>3. ASSUME NEW op \in Ops, Txn(op) PROVE EntryTypes'
    BY Zenon, <2>3, BranchTypes DEF Txn, EntryTypes, TypeOK
  <2>4. ASSUME ExecOp PROVE EntryTypes'
    <3> DEFINE op == Head(todo)
    <3>1. op \in Ops /\ todo # <<>> /\ Tail(todo) \in Seq(Ops) /\ todo \in Seq(Ops)
      BY <2>4 DEF ExecOp, TypeOK
    <3>2. UNCHANGED <<compact_revision, next_lease_id, doomed, expired, revoking, now>>
      BY <2>4 DEF ExecOp
    <3>3. CASE op.type = "put" /\ DoPut(op) /\ todo' = Tail(todo)
      BY Zenon, <3>1, <3>2, <3>3, PutTypes DEF EntryTypes, TypeOK
    <3>4. CASE DoDelete(op.key, op.end) /\ todo' = Tail(todo)
      BY Zenon, <3>1, <3>2, <3>4, DeleteCommits DEF EntryTypes, TypeOK
    <3>5. CASE /\ todo' \in {<<>>, Tail(todo)}
               /\ UNCHANGED <<kvs, revision, leases, log, history, stray>>
      <4>1. todo' \in Seq(Ops)
        BY Zenon, <3>1, <3>5, EmptyTodo
      <4> QED BY <3>2, <3>5, <4>1 DEF EntryTypes, TypeOK
    <3>6. CASE /\ op.type = "txn" /\ todo' = Branch(op) \o Tail(todo)
               /\ UNCHANGED <<kvs, revision, leases, log, history, stray>>
      <4>1. Branch(op) \in Seq(Ops)
        BY <3>1, <3>6, BranchTypes
      <4>2. todo' \in Seq(Ops)
        BY <3>1, <3>6, <4>1
      <4> QED BY Zenon, <3>2, <3>6, <4>2 DEF EntryTypes, TypeOK
    <3> QED BY Zenon, <2>4, <3>3, <3>4, <3>5, <3>6 DEF ExecOp
  <2>5. ASSUME NEW rev \in CompactRevs, Compact(rev) PROVE EntryTypes'
    BY <2>5 DEF Compact, EntryTypes, TypeOK
  <2>6. ASSUME NEW id \in LeaseIds \cup {0}, NEW ttl \in Ttls, LeaseGrant(id, ttl)
        PROVE  EntryTypes'
    <3>1. ActualTtl(ttl) \in Nat \ {0}
      BY StoreAssumption DEF ActualTtl
    <3>2. leases' \in [LeaseIds -> LeaseEntry]
      BY <2>6, <3>1 DEF LeaseGrant, TypeOK, LeaseEntry
    <3>3. \A i \in LeaseIds : leases[i].keys \subseteq Keys
      BY DEF TypeOK, LeaseEntry
    <3>4. stray' \subseteq Keys
      BY Zenon, <2>6, <3>3 DEF LeaseGrant, TypeOK
    <3> QED BY <2>6, <3>2, <3>4 DEF LeaseGrant, EntryTypes, TypeOK
  <2>7. ASSUME NEW id \in LeaseIds, RemoveLease(id), expired' \subseteq LeaseIds,
               revoking' \in BOOLEAN
        PROVE  EntryTypes'
    <3>1. NoLease \in LeaseEntry /\ leases[id].keys \subseteq Keys
      BY DEF NoLease, LeaseEntry, TypeOK
    <3>2. leases' \in [LeaseIds -> LeaseEntry]
      BY <2>7, <3>1 DEF RemoveLease, TypeOK
    <3> QED BY <2>7, <3>1, <3>2 DEF RemoveLease, EntryTypes, TypeOK
  <2>8. ASSUME NEW id \in LeaseIds, LeaseRevoke(id) PROVE EntryTypes'
    BY <2>7, <2>8 DEF LeaseRevoke, TypeOK
  <2>9. ASSUME NEW id \in LeaseIds, GcRevoke(id) PROVE EntryTypes'
    BY Zenon, <2>7, <2>9 DEF GcRevoke, TypeOK
  <2>10. ASSUME NEW k \in Keys, DropKey(k) PROVE EntryTypes'
    <3>1. DoDelete(k, NoEnd)
      BY <2>10 DEF DropKey
    <3> QED BY <2>10, <3>1, DeleteCommits DEF DropKey, EntryTypes, TypeOK
  <2>11. ASSUME NEW id \in LeaseIds, LeaseKeepalive(id) PROVE EntryTypes'
    <3>1. now + leases[id].granted_ttl \in Nat
      BY DEF TypeOK, LeaseEntry
    <3>2. leases' \in [LeaseIds -> LeaseEntry]
      BY <2>11, <3>1, ZenonT(30) DEF LeaseKeepalive, TypeOK, LeaseEntry
    <3> QED BY <2>11, <3>2 DEF LeaseKeepalive, EntryTypes, TypeOK
  <2>12. ASSUME GcScan \/ Tick \/ UNCHANGED storeVars PROVE EntryTypes'
    BY <2>12 DEF GcScan, Tick, storeVars, EntryTypes, TypeOK
  <2> QED BY <2>1, <2>2, <2>3, <2>4, <2>5, <2>6, <2>8, <2>9, <2>10, <2>11, <2>12
          DEF StoreNext, Handlers
<1> QED BY <1>1, <1>2 DEF RevTypes, EntryTypes, TypeOK

\* The store starts well typed.
LEMMA TypeInit == Init => TypeOK
<1>1. NoKv \in Kv /\ NoLease \in LeaseEntry
  BY DEF NoKv, Kv, NoLease, LeaseEntry
<1> SUFFICES ASSUME Init PROVE TypeOK
  OBVIOUS
<1>2. kvs \in [Keys -> Kv] /\ leases \in [LeaseIds -> LeaseEntry]
  BY <1>1 DEF Init
<1>3. DOMAIN log = {} /\ DOMAIN history = {}
  BY DEF Init
<1>4. todo \in Seq(Ops)
  BY EmptyTodo DEF Init
<1>5. RevTypes
  BY <1>3 DEF Init, RevTypes
<1>6. /\ revoking \in BOOLEAN /\ doomed \subseteq Keys /\ expired \subseteq LeaseIds
      /\ stray \subseteq Keys
  BY Zenon DEF Init
<1>7. next_lease_id \in Nat \ {0} /\ now \in Nat
  BY DEF Init
<1> QED BY <1>2, <1>4, <1>5, <1>6, <1>7 DEF RevTypes, TypeOK

\* The store's variables keep their types under every sequence of requests,
\* transactions, revocations and expiry rounds.
THEOREM TypeCorrect == Spec => []TypeOK
BY TypeInit, TypeStep, PTL DEF Spec

-----------------------------------------------------------------------------
\* Every step keeps the log complete above the compaction revision.
LEMMA LogStep ==
  ASSUME TypeOK, LogComplete, [StoreNext]_storeVars
  PROVE  LogComplete'
<1>1. CASE Quiet
  BY <1>1 DEF Quiet, LogComplete
<1>2. ASSUME NEW events \in SUBSET Event, Commits(events), UNCHANGED compact_revision
      PROVE  LogComplete'
  <2>1. revision \in Nat \ {0} /\ revision' = revision + 1
    BY <1>2 DEF TypeOK, Commits
  <2>2. 2..revision' = 2..revision \cup {revision + 1}
    BY <2>1
  <2>3. DOMAIN history' = 2..revision'
    BY <1>2, <2>2 DEF Commits, Extend, LogComplete
  <2>4. DOMAIN log' = DOMAIN log \cup {revision + 1}
    BY <1>2 DEF Commits, Extend
  <2>5. \A r \in DOMAIN log' : log'[r] = history'[r]
    BY <1>2 DEF Commits, Extend, LogComplete
  <2> QED BY <1>2, <2>2, <2>3, <2>4, <2>5 DEF LogComplete
<1>3. ASSUME NEW rev \in CompactRevs, Compacts(rev)
      PROVE  LogComplete'
  <2>1. rev \in Int /\ compact_revision \in Nat
    BY StoreAssumption DEF TypeOK
  <2> QED BY <1>3, <2>1 DEF Compacts, Retained, LogComplete
<1> QED BY <1>1, <1>2, <1>3, StepKinds

\* The log starts complete.
LEMMA LogInit == Init => LogComplete
<1> SUFFICES ASSUME Init PROVE LogComplete
  OBVIOUS
<1>1. DOMAIN log = {} /\ DOMAIN history = {} /\ 2..revision = {}
  BY DEF Init
<1> QED BY <1>1 DEF LogComplete

\* Whatever is compacted, and however transactions, revocations and the expiry
\* task interleave, a replay from above the compaction revision has no holes.
THEOREM LogIsComplete == Spec => []LogComplete
<1>1. TypeOK /\ LogComplete /\ [StoreNext]_storeVars => LogComplete'
  BY LogStep
<1> QED BY <1>1, LogInit, TypeCorrect, PTL DEF Spec

-----------------------------------------------------------------------------
\* Every step keeps the contents equal to the replay of the history.
LEMMA ReplayStep ==
  ASSUME TypeOK, LogComplete, StateIsReplay, [StoreNext]_storeVars
  PROVE  StateIsReplay'
<1>1. CASE UNCHANGED <<kvs, history>>
  BY <1>1 DEF StateIsReplay, Touched
<1>2. ASSUME NEW events \in SUBSET Event, Commits(events)
      PROVE  StateIsReplay'
  <2> DEFINE rev == revision + 1
  <2> SUFFICES ASSUME NEW k \in Keys
               PROVE  \/ Touched(k)' = {} /\ kvs'[k] = NoKv
                      \/ \E r \in Touched(k)' :
                           /\ \A x \in Touched(k)' : x <= r
                           /\ \E e \in history'[r] : e.key = k /\ kvs'[k] = Outcome(e)
    BY DEF StateIsReplay
  <2>1. DOMAIN history = 2..revision /\ revision \in Nat
    BY DEF LogComplete, TypeOK
  <2>2. /\ DOMAIN history' = DOMAIN history \cup {rev}
        /\ history'[rev] = events
        /\ \A r \in DOMAIN history : r # rev /\ history'[r] = history[r]
    BY <1>2, <2>1 DEF Commits, Extend
  <2>3. \A x \in Touched(k)' : x = rev \/ x \in Touched(k)
    BY <2>2 DEF Touched
  <2>4. \A x \in Touched(k) : x \in Touched(k)' /\ x \in Nat /\ x < rev
    BY <2>1, <2>2 DEF Touched
  <2>5. CASE \E e \in events : e.key = k
    <3>1. PICK e \in events : e.key = k
      BY <2>5
    <3>2. rev \in Touched(k)'
      BY <2>2, <3>1 DEF Touched
    <3>3. kvs'[k] = Outcome(e)
      BY <1>2, <3>1 DEF Commits
    <3>4. \A x \in Touched(k)' : x <= rev
      BY <2>1, <2>3, <2>4
    <3> QED BY <2>2, <3>1, <3>2, <3>3, <3>4
  <2>6. CASE \A e \in events : e.key # k
    <3>1. Touched(k)' = Touched(k)
      BY <2>2, <2>3, <2>4, <2>6 DEF Touched
    <3>2. kvs'[k] = kvs[k]
      BY <1>2, <2>6 DEF Commits
    <3>3. \A r \in Touched(k) : history'[r] = history[r]
      BY <2>2 DEF Touched
    <3> QED BY <3>1, <3>2, <3>3 DEF StateIsReplay
  <2> QED BY <2>5, <2>6
<1> QED BY Zenon, <1>1, <1>2, StepKinds DEF Quiet, Compacts

\* A client that applies every batch in revision order holds the contents of the
\* store, for every mix of puts, range deletions, transactions and revocations.
THEOREM ContentsAreReplay == Spec => []StateIsReplay
<1>1. Init => StateIsReplay
  <2> SUFFICES ASSUME Init, NEW k \in Keys PROVE Touched(k) = {} /\ kvs[k] = NoKv
    BY DEF StateIsReplay
  <2>1. DOMAIN history = {} /\ kvs[k] = NoKv
    BY DEF Init
  <2> QED BY <2>1 DEF Touched
<1>2. TypeOK /\ LogComplete /\ StateIsReplay /\ [StoreNext]_storeVars => StateIsReplay'
  BY ReplayStep
<1> QED BY <1>1, <1>2, TypeCorrect, LogIsComplete, PTL DEF Spec

-----------------------------------------------------------------------------
\* The inductive strengthening of LeaseKeysSound: a transaction and a revocation
\* never own the mutex together, and an absent key carries no lease.
OneOwner == todo = <<>> \/ (doomed = {} /\ ~revoking)

AbsentIsNoKv == \A k \in Keys : Present(k) \/ kvs[k] = NoKv

LeaseInv == LeaseKeysSound /\ OneOwner /\ AbsentIsNoKv

\* A put moves its key to the list of its new lease.
LEMMA PutLeases ==
  ASSUME TypeOK, LeaseInv, NEW op \in Ops, op.type = "put", DoPut(op), doomed' = {}
  PROVE  LeaseKeysSound' /\ AbsentIsNoKv'
<1> DEFINE prev == kvs[op.key]
           lease == IF op.ignore_lease THEN prev.lease ELSE op.lease
<1>1. /\ op.key \in Keys
      /\ \A k \in Keys : k # op.key => kvs'[k] = kvs[k]
      /\ kvs'[op.key].version > 0
  BY Zenon, PutTypes
<1>2. kvs'[op.key].lease = lease
  BY Zenon, <1>1 DEF DoPut, NewKv, TypeOK
<1>3. \A i \in LeaseIds : leases[i].keys \subseteq Keys
  BY DEF TypeOK, LeaseEntry
<1>4. ASSUME NEW i \in LeaseIds, NEW k \in leases'[i].keys
      PROVE  kvs'[k].lease = i
  <2> DEFINE ls == Detach(leases, prev.lease, op.key)
  <2>1. ls[i].keys = IF i = prev.lease THEN leases[i].keys \ {op.key} ELSE leases[i].keys
    BY DEF Detach, TypeOK, LeaseEntry
  <2>2. op.key \notin ls[i].keys /\ ls[i].keys \subseteq leases[i].keys
    <3>1. op.key \in leases[i].keys => prev.lease = i
      BY Zenon DEF LeaseInv, LeaseKeysSound
    <3> HIDE DEF ls, prev
    <3> QED BY <2>1, <3>1
  <2>3. leases'[i].keys \subseteq ls[i].keys \cup (IF i = lease THEN {op.key} ELSE {})
    <3>1. ls[i] \in LeaseEntry
      BY <1>1, ZenonT(30) DEF Detach, TypeOK, LeaseEntry
    <3>2. leases' = Attach(ls, lease, op.key)
      BY Zenon DEF DoPut, NewKv
    <3> QED BY Zenon, <3>1, <3>2 DEF Attach, LeaseEntry
  <2>4. CASE k = op.key
    BY Zenon, <1>2, <2>2, <2>3, <2>4
  <2>5. CASE k # op.key
    <3>1. k \in leases[i].keys
      BY Zenon, <1>4, <2>2, <2>3, <2>5
    <3> QED BY Zenon, <1>1, <1>3, <2>5, <3>1 DEF LeaseInv, LeaseKeysSound
  <2> QED BY <2>4, <2>5
<1>5. AbsentIsNoKv'
  BY <1>1 DEF LeaseInv, AbsentIsNoKv, Present
<1> QED BY Zenon, <1>4, <1>5 DEF LeaseKeysSound

\* A deletion takes the keys it removes off the lists.
LEMMA DeleteLeases ==
  ASSUME TypeOK, LeaseInv, NEW key, NEW end, DoDelete(key, end),
         doomed' \subseteq doomed, \A k \in doomed' : ~InRange(k, key, end)
  PROVE  LeaseKeysSound' /\ AbsentIsNoKv'
<1> DEFINE gone == {k \in Keys : Present(k) /\ InRange(k, key, end)}
<1>1. CASE gone = {}
  <2>1. UNCHANGED <<kvs, leases>>
    BY <1>1 DEF DoDelete
  <2> QED BY <2>1 DEF LeaseInv, LeaseKeysSound, AbsentIsNoKv, Present
<1>2. CASE gone # {}
  <2>1. /\ leases' = [i \in LeaseIds |->
             [leases[i] EXCEPT !.keys = {k \in @ : ~(k \in gone /\ kvs[k].lease = i)}]]
        /\ kvs' = [k \in Keys |-> IF k \in gone THEN NoKv ELSE kvs[k]]
    BY <1>2 DEF DoDelete
  <2>2. \A i \in LeaseIds : leases'[i].keys =
           {k \in leases[i].keys : ~(k \in gone /\ kvs[k].lease = i)}
    BY Zenon, <2>1 DEF TypeOK, LeaseEntry
  <2>3. \A i \in LeaseIds : leases[i].keys \subseteq Keys
    BY DEF TypeOK, LeaseEntry
  <2>4. ASSUME NEW i \in LeaseIds, NEW k \in leases'[i].keys
        PROVE  kvs'[k].lease = i
    BY Zenon, <2>1, <2>2, <2>3 DEF LeaseInv, LeaseKeysSound
  <2>5. \A i \in LeaseIds : leases'[i].keys \cap doomed' = {}
    BY <2>2 DEF LeaseInv, LeaseKeysSound
  <2>6. \A k \in doomed' : k \in Keys /\ kvs'[k] = kvs[k]
    BY Zenon, <2>1 DEF TypeOK
  <2>7. \A k \in doomed' : Present(k)' /\ kvs'[k].lease # 0
    BY <2>6 DEF LeaseInv, LeaseKeysSound, Present
  <2>8. AbsentIsNoKv'
    BY Zenon, <2>1 DEF LeaseInv, AbsentIsNoKv, Present
  <2> QED BY <2>4, <2>5, <2>7, <2>8 DEF LeaseKeysSound
<1> QED BY Zenon, <1>1, <1>2

\* Removing a lease turns its list into the keys to delete.
LEMMA RemoveLeases ==
  ASSUME TypeOK, LeaseInv, NEW id \in LeaseIds, RemoveLease(id)
  PROVE  LeaseKeysSound' /\ AbsentIsNoKv'
<1>1. /\ UNCHANGED kvs
      /\ doomed' = leases[id].keys
      /\ \A i \in LeaseIds : leases'[i].keys = IF i = id THEN {} ELSE leases[i].keys
  BY Zenon DEF RemoveLease, NoLease, TypeOK
<1>2. \A k \in leases[id].keys : k \in Keys /\ kvs[k].lease = id /\ id # 0
  BY Zenon, StoreAssumption DEF LeaseInv, LeaseKeysSound, TypeOK, LeaseEntry
<1>3. \A k \in leases[id].keys : Present(k)
  BY <1>2 DEF LeaseInv, AbsentIsNoKv, NoKv
<1>4. \A i \in LeaseIds : leases'[i].keys \cap doomed' = {}
  BY <1>1, <1>2 DEF LeaseInv, LeaseKeysSound
<1> QED BY Zenon, <1>1, <1>2, <1>3, <1>4 DEF LeaseInv, LeaseKeysSound, AbsentIsNoKv, Present

\* Every step preserves LeaseInv.
LEMMA LeaseStep ==
  ASSUME TypeOK, LeaseInv, [StoreNext]_storeVars
  PROVE  LeaseInv'
<1>1. ASSUME UNCHANGED <<kvs, doomed>>,
             \A i \in LeaseIds : leases'[i].keys \subseteq leases[i].keys
      PROVE  LeaseKeysSound' /\ AbsentIsNoKv'
  BY <1>1 DEF LeaseInv, LeaseKeysSound, AbsentIsNoKv, Present
<1>2. ASSUME NEW op \in Ops, Put(op) PROVE LeaseInv'
  <2>1. doomed' = {} /\ todo' = <<>> /\ DoPut(op) /\ op.type = "put"
    BY <1>2 DEF Put, Accepting, MutexFree
  <2> QED BY <2>1, PutLeases DEF LeaseInv, OneOwner
<1>3. ASSUME NEW op \in Ops, DeleteRange(op) PROVE LeaseInv'
  <2>1. doomed' = {} /\ todo' = <<>> /\ DoDelete(op.key, op.end)
    BY <1>3 DEF DeleteRange, Accepting, MutexFree
  <2>2. LeaseKeysSound' /\ AbsentIsNoKv'
    BY <2>1, DeleteLeases
  <2> QED BY <2>1, <2>2 DEF LeaseInv, OneOwner
<1>4. ASSUME NEW op \in Ops, Txn(op) PROVE LeaseInv'
  <2>1. UNCHANGED <<kvs, leases, doomed>> /\ doomed' = {} /\ ~revoking'
    BY Zenon, <1>4 DEF Txn, Accepting, MutexFree
  <2> QED BY <1>1, <2>1 DEF LeaseInv, OneOwner
<1>5. ASSUME ExecOp PROVE LeaseInv'
  <2> DEFINE op == Head(todo)
  <2>1. op \in Ops /\ doomed = {} /\ doomed' = {} /\ ~revoking'
    BY <1>5 DEF ExecOp, TypeOK, LeaseInv, OneOwner
  <2>2. CASE op.type = "put" /\ DoPut(op)
    BY <2>1, <2>2, PutLeases DEF LeaseInv, OneOwner
  <2>3. CASE DoDelete(op.key, op.end)
    <3>1. LeaseKeysSound' /\ AbsentIsNoKv'
      BY <2>1, <2>3, DeleteLeases
    <3> QED BY <2>1, <3>1 DEF LeaseInv, OneOwner
  <2>4. CASE UNCHANGED <<kvs, revision, leases, log, history, stray>>
    BY <1>1, <2>1, <2>4 DEF LeaseInv, OneOwner
  <2> QED BY Zenon, <1>5, <2>2, <2>3, <2>4 DEF ExecOp
<1>6. ASSUME NEW rev \in CompactRevs, Compact(rev) PROVE LeaseInv'
  <2>1. UNCHANGED <<kvs, leases, doomed, todo, revoking>>
    BY <1>6 DEF Compact
  <2> QED BY <1>1, <2>1 DEF LeaseInv, OneOwner
<1>7. ASSUME NEW id \in LeaseIds \cup {0}, NEW ttl \in Ttls, LeaseGrant(id, ttl)
      PROVE  LeaseInv'
  <2>1. UNCHANGED <<kvs, doomed, todo, revoking>>
    BY Zenon, <1>7 DEF LeaseGrant
  <2>2. \A i \in LeaseIds : leases'[i].keys \subseteq leases[i].keys
    BY <1>7 DEF LeaseGrant, TypeOK
  <2> QED BY Zenon, <1>1, <2>1, <2>2 DEF LeaseInv, OneOwner
<1>8. ASSUME NEW id \in LeaseIds, LeaseRevoke(id) \/ GcRevoke(id) PROVE LeaseInv'
  <2>1. RemoveLease(id) /\ todo = <<>> /\ todo' = <<>>
    BY <1>8 DEF LeaseRevoke, GcRevoke, RemoveLease, MutexFree
  <2> QED BY Zenon, <2>1, RemoveLeases DEF LeaseInv, OneOwner
<1>9. ASSUME NEW k \in Keys, DropKey(k) PROVE LeaseInv'
  <2>1. DoDelete(k, NoEnd) /\ doomed' = doomed \ {k} /\ UNCHANGED <<todo, revoking>>
    BY <1>9 DEF DropKey
  <2>2. \A j \in doomed' : ~InRange(j, k, NoEnd)
    BY <2>1, StoreAssumption DEF InRange
  <2>3. LeaseKeysSound' /\ AbsentIsNoKv'
    BY <2>1, <2>2, DeleteLeases
  <2> QED BY <2>1, <2>3 DEF LeaseInv, OneOwner
<1>10. ASSUME NEW id \in LeaseIds, LeaseKeepalive(id) PROVE LeaseInv'
  <2>1. UNCHANGED <<kvs, doomed, todo, revoking>>
    BY <1>10 DEF LeaseKeepalive
  <2>2. \A i \in LeaseIds : leases'[i].keys = leases[i].keys
    BY <1>10 DEF LeaseKeepalive, TypeOK, LeaseEntry
  <2> QED BY <1>1, <2>1, <2>2 DEF LeaseInv, OneOwner
<1>11. ASSUME GcScan \/ Tick \/ UNCHANGED storeVars PROVE LeaseInv'
  <2>1. UNCHANGED <<kvs, leases, doomed, todo, revoking>>
    BY <1>11 DEF GcScan, Tick, storeVars
  <2> QED BY Zenon, <1>1, <2>1 DEF LeaseInv, OneOwner
<1> QED BY Zenon, <1>2, <1>3, <1>4, <1>5, <1>6, <1>7, <1>8, <1>9, <1>10, <1>11 DEF StoreNext, Handlers

\* Initially no lease has keys and nobody owns the mutex.
LEMMA LeaseInit == Init => LeaseInv
<1> SUFFICES ASSUME Init PROVE LeaseInv
  OBVIOUS
<1>1. /\ \A k \in Keys : kvs[k] = NoKv
      /\ \A i \in LeaseIds : leases[i].keys = {}
      /\ doomed = {} /\ todo = <<>>
  BY DEF Init, NoLease
<1> QED BY <1>1 DEF LeaseInv, LeaseKeysSound, OneOwner, AbsentIsNoKv

\* The strengthened invariant holds.
LEMMA LeaseInvariant == Spec => []LeaseInv
<1>1. TypeOK /\ LeaseInv /\ [StoreNext]_storeVars => LeaseInv'
  BY LeaseStep
<1> QED BY <1>1, LeaseInit, TypeCorrect, PTL DEF Spec

\* The key lists of the leases stay exact: lease_revoke and the expiry task only
\* delete keys that carry the lease they revoke, even when keys move between
\* leases, ids are granted again and a stale expiry list is worked off.
THEOREM LeaseListsSound == Spec => []LeaseKeysSound
<1>1. LeaseInv => LeaseKeysSound
  BY DEF LeaseInv
<1> QED BY <1>1, LeaseInvariant, PTL

-----------------------------------------------------------------------------
\* A put under a live lease, or under none, leaves every key with its lease; one
\* under a lease that does not exist makes its key a stray.
LEMMA PutKeepsLeased ==
  ASSUME TypeOK, KeysDieWithLease, NEW op \in Ops, op.type = "put", DoPut(op),
         doomed = {}
  PROVE  KeysDieWithLease'
<1> DEFINE prev == kvs[op.key]
           lease == IF op.ignore_lease THEN prev.lease ELSE op.lease
           ls == Detach(leases, prev.lease, op.key)
<1>2. /\ op.key \in Keys /\ op.lease \in LeaseIds \cup {0}
      /\ \A k \in Keys : k # op.key => kvs'[k] = kvs[k]
  BY Zenon, PutTypes, StoreAssumption DEF OpTyped
<1>3. /\ kvs'[op.key].lease = lease /\ leases' = Attach(ls, lease, op.key)
      /\ stray' = IF lease = 0 \/ Live(lease) THEN stray \ {op.key} ELSE stray \cup {op.key}
  <2>1. NewKv(op, revision + 1).lease = lease
    BY DEF NewKv
  <2> QED BY Zenon, <1>2, <2>1 DEF DoPut, TypeOK
<1>4. \A k \in Keys : kvs[k].lease \in LeaseIds \cup {0}
  BY DEF TypeOK, Kv
<1>5. \A i \in LeaseIds : /\ ls[i].granted_ttl = leases[i].granted_ttl
                           /\ leases[i].keys \ {op.key} \subseteq ls[i].keys
  BY DEF Detach, TypeOK, LeaseEntry
<1>6. \A i \in LeaseIds : ls[i] \in LeaseEntry
  BY Zenon, <1>2 DEF Detach, TypeOK, LeaseEntry
<1>7. ASSUME NEW i \in LeaseIds
      PROVE  /\ leases'[i].granted_ttl = leases[i].granted_ttl
             /\ leases[i].keys \ {op.key} \subseteq leases'[i].keys
             /\ i = lease /\ Live(i) => op.key \in leases'[i].keys
  <2> HIDE DEF ls
  <2>1. leases'[i] = IF i = lease /\ ls[i].granted_ttl > 0
                     THEN [ls[i] EXCEPT !.keys = @ \cup {op.key}] ELSE ls[i]
    BY <1>3, <1>7 DEF Attach
  <2>2. ls[i] \in LeaseEntry
    BY <1>6, <1>7
  <2>3. /\ leases'[i].granted_ttl = ls[i].granted_ttl
        /\ ls[i].keys \subseteq leases'[i].keys
        /\ i = lease /\ ls[i].granted_ttl > 0 => op.key \in leases'[i].keys
    BY <2>1, <2>2 DEF LeaseEntry
  <2> QED BY Zenon, <1>5, <1>7, <2>3 DEF Live
<1>8. lease \in LeaseIds \cup {0}
  BY <1>2, <1>4
<1> SUFFICES ASSUME NEW k \in Keys, kvs'[k].lease # 0
             PROVE  \/ /\ leases'[kvs'[k].lease].granted_ttl > 0
                       /\ k \in leases'[kvs'[k].lease].keys
                    \/ k \in stray'
  BY Zenon DEF KeysDieWithLease, Live
<1> HIDE DEF lease, ls
<1>9. CASE k = op.key /\ Live(lease)
  <2>1. kvs'[k].lease = lease /\ lease \in LeaseIds /\ Live(lease)
    BY <1>3, <1>8, <1>9
  <2>2. leases'[lease].granted_ttl = leases[lease].granted_ttl
    BY Zenon, <1>7, <2>1
  <2>3. op.key \in leases'[lease].keys
    BY Zenon, <1>7, <2>1
  <2> QED BY <1>9, <2>1, <2>2, <2>3 DEF Live
<1>11. CASE k = op.key /\ ~Live(lease)
  BY Zenon, <1>3, <1>11
<1>12. CASE k # op.key /\ k \in stray
  BY <1>3, <1>12
<1>10. CASE k # op.key /\ k \notin stray
  <2>1. kvs'[k] = kvs[k] /\ kvs[k].lease \in LeaseIds
    BY Zenon, <1>2, <1>4, <1>10
  <2>2. Live(kvs[k].lease) /\ k \in leases[kvs[k].lease].keys
    BY Zenon, <1>10, <2>1 DEF KeysDieWithLease
  <2>3. leases'[kvs[k].lease].granted_ttl = leases[kvs[k].lease].granted_ttl
    BY Zenon, <1>7, <2>1
  <2>4. k \in leases'[kvs[k].lease].keys
    BY <1>7, <1>10, <2>1, <2>2
  <2> QED BY Zenon, <2>1, <2>2, <2>3, <2>4 DEF Live
<1> QED BY Zenon, <1>9, <1>10, <1>11, <1>12

\* A deletion leaves the keys that remain with their leases.
LEMMA DeleteKeepsLeased ==
  ASSUME TypeOK, KeysDieWithLease, NEW key, NEW end, DoDelete(key, end),
         \A k \in doomed : k \in doomed' \/ (Present(k) /\ InRange(k, key, end))
  PROVE  KeysDieWithLease'
<1> DEFINE gone == {k \in Keys : Present(k) /\ InRange(k, key, end)}
<1>1. CASE gone = {}
  <2>1. UNCHANGED <<kvs, leases, stray>> /\ doomed \cap Keys \subseteq doomed'
    BY Zenon, <1>1 DEF DoDelete
  <2> QED BY <2>1 DEF KeysDieWithLease, Live
<1>2. CASE gone # {}
  <2>1. /\ leases' = [i \in LeaseIds |->
             [leases[i] EXCEPT !.keys = {k \in @ : ~(k \in gone /\ kvs[k].lease = i)}]]
        /\ kvs' = [k \in Keys |-> IF k \in gone THEN NoKv ELSE kvs[k]]
        /\ stray' = stray \ gone
    BY <1>2 DEF DoDelete
  <2>2. \A i \in LeaseIds :
           /\ leases'[i].granted_ttl = leases[i].granted_ttl
           /\ leases'[i].keys = {k \in leases[i].keys : ~(k \in gone /\ kvs[k].lease = i)}
    BY <2>1 DEF TypeOK, LeaseEntry
  <2>3. ASSUME NEW k \in Keys, kvs'[k].lease # 0
        PROVE  k \notin gone /\ kvs'[k] = kvs[k] /\ kvs[k].lease \in LeaseIds
    BY Zenon, <2>1, <2>3 DEF NoKv, TypeOK, Kv
  <2>4. ASSUME NEW k \in Keys, kvs'[k].lease # 0
        PROVE  \/ leases'[kvs'[k].lease].granted_ttl > 0 /\ k \in leases'[kvs'[k].lease].keys
               \/ k \in doomed' \/ k \in stray'
    <3>1. k \notin gone /\ kvs'[k] = kvs[k] /\ kvs[k].lease \in LeaseIds
      BY Zenon, <2>3, <2>4
    <3>2. \/ leases[kvs[k].lease].granted_ttl > 0 /\ k \in leases[kvs[k].lease].keys
          \/ k \in doomed \/ k \in stray
      BY Zenon, <2>4, <3>1 DEF KeysDieWithLease, Live
    <3>3. (k \in doomed => k \in doomed') /\ (k \in stray => k \in stray')
      BY Zenon, <2>1, <3>1
    <3> HIDE DEF gone
    <3> QED BY Zenon, <2>2, <3>1, <3>2, <3>3
  <2> QED BY <2>4 DEF KeysDieWithLease, Live
<1> QED BY Zenon, <1>1, <1>2

\* Removing a lease dooms all its keys.
LEMMA RemoveKeepsLeased ==
  ASSUME TypeOK, KeysDieWithLease, doomed = {}, NEW id \in LeaseIds, RemoveLease(id)
  PROVE  KeysDieWithLease'
<1>1. /\ UNCHANGED <<kvs, stray>>
      /\ doomed' = leases[id].keys
      /\ \A i \in LeaseIds : i # id => leases'[i] = leases[i]
  BY DEF RemoveLease, TypeOK
<1>2. \A k \in Keys : kvs[k].lease \in LeaseIds \cup {0}
  BY Zenon DEF TypeOK, Kv
<1> SUFFICES ASSUME NEW k \in Keys, kvs[k].lease # 0
             PROVE  \/ leases'[kvs[k].lease].granted_ttl > 0 /\ k \in leases'[kvs[k].lease].keys
                    \/ k \in doomed' \/ k \in stray'
  BY Zenon, <1>1 DEF KeysDieWithLease, Live
<1>3. kvs[k].lease \in LeaseIds
  BY Zenon, <1>2
<1>4. \/ leases[kvs[k].lease].granted_ttl > 0 /\ k \in leases[kvs[k].lease].keys
      \/ k \in stray
  BY Zenon DEF KeysDieWithLease, Live
<1> QED BY Zenon, <1>1, <1>3, <1>4

\* Every step preserves KeysDieWithLease.
LEMMA LeasedStep ==
  ASSUME TypeOK, LeaseInv, KeysDieWithLease, [StoreNext]_storeVars
  PROVE  KeysDieWithLease'
<1>1. ASSUME UNCHANGED <<kvs, leases, doomed, stray>> PROVE KeysDieWithLease'
  BY Zenon, <1>1 DEF KeysDieWithLease, Live
<1>2. ASSUME NEW op \in Ops, Put(op) PROVE KeysDieWithLease'
  <2>1. doomed = {} /\ DoPut(op) /\ op.type = "put"
    BY Zenon, <1>2 DEF Put, Accepting, MutexFree
  <2> QED BY Zenon, <2>1, PutKeepsLeased
<1>3. ASSUME NEW op \in Ops, DeleteRange(op) PROVE KeysDieWithLease'
  <2>1. doomed = {} /\ DoDelete(op.key, op.end)
    BY Zenon, <1>3 DEF DeleteRange, Accepting, MutexFree
  <2> QED BY Zenon, <2>1, DeleteKeepsLeased
<1>4. ASSUME ExecOp PROVE KeysDieWithLease'
  <2> DEFINE op == Head(todo)
  <2>1. op \in Ops /\ doomed = {} /\ UNCHANGED doomed
    BY <1>4 DEF ExecOp, TypeOK, LeaseInv, OneOwner
  <2>2. CASE op.type = "put" /\ DoPut(op)
    BY Zenon, <2>1, <2>2, PutKeepsLeased
  <2>3. CASE DoDelete(op.key, op.end)
    BY Zenon, <2>1, <2>3, DeleteKeepsLeased
  <2>4. CASE UNCHANGED <<kvs, revision, leases, log, history, stray>>
    BY <1>1, <2>1, <2>4
  <2> QED BY Zenon, <1>4, <2>2, <2>3, <2>4 DEF ExecOp
<1>5. ASSUME NEW id \in LeaseIds \cup {0}, NEW ttl \in Ttls, LeaseGrant(id, ttl)
      PROVE  KeysDieWithLease'
  <2> DEFINE actual == IF id = 0 THEN next_lease_id ELSE id
  <2>1. /\ UNCHANGED <<kvs, doomed>>
        /\ \A i \in LeaseIds : i # actual => leases'[i] = leases[i]
        /\ stray' = stray \cup leases[actual].keys
    BY Zenon, <1>5 DEF LeaseGrant, TypeOK
  <2> HIDE DEF actual
  <2>2. \A k \in Keys : kvs[k].lease \in LeaseIds \cup {0}
    BY Zenon DEF TypeOK, Kv
  <2>3. ASSUME NEW k \in Keys, kvs'[k].lease # 0
        PROVE  \/ leases'[kvs'[k].lease].granted_ttl > 0 /\ k \in leases'[kvs'[k].lease].keys
               \/ k \in doomed' \/ k \in stray'
    <3>1. kvs'[k] = kvs[k] /\ kvs[k].lease \in LeaseIds /\ kvs[k].lease # 0
      BY Zenon, <2>1, <2>2, <2>3
    <3>2. CASE k \in doomed \/ k \in stray
      BY Zenon, <2>1, <3>2
    <3>3. CASE leases[kvs[k].lease].granted_ttl > 0 /\ k \in leases[kvs[k].lease].keys
      BY Zenon, <2>1, <3>1, <3>3
    <3> QED BY Zenon, <3>1, <3>2, <3>3 DEF KeysDieWithLease, Live
  <2> QED BY Zenon, <2>3 DEF KeysDieWithLease, Live
<1>6. ASSUME NEW id \in LeaseIds, LeaseRevoke(id) PROVE KeysDieWithLease'
  <2>1. doomed = {} /\ RemoveLease(id)
    BY Zenon, <1>6 DEF LeaseRevoke, MutexFree
  <2> QED BY Zenon, <2>1, RemoveKeepsLeased
<1>7. ASSUME NEW id \in LeaseIds, GcRevoke(id) PROVE KeysDieWithLease'
  <2>1. doomed = {} /\ RemoveLease(id)
    BY Zenon, <1>7 DEF GcRevoke
  <2> QED BY Zenon, <2>1, RemoveKeepsLeased
<1>8. ASSUME NEW k \in Keys, DropKey(k) PROVE KeysDieWithLease'
  <2>1. DoDelete(k, NoEnd) /\ doomed' = doomed \ {k} /\ k \in doomed
    BY Zenon, <1>8 DEF DropKey
  <2>2. Present(k) /\ InRange(k, k, NoEnd)
    BY <2>1 DEF LeaseInv, LeaseKeysSound, InRange
  <2>3. \A j \in doomed : j \in doomed' \/ (Present(j) /\ InRange(j, k, NoEnd))
    BY Zenon, <2>1, <2>2
  <2> QED BY <2>1, <2>3, DeleteKeepsLeased
<1>9. ASSUME NEW id \in LeaseIds, LeaseKeepalive(id) PROVE KeysDieWithLease'
  <2>1. /\ UNCHANGED <<kvs, doomed, stray>>
        /\ \A i \in LeaseIds : /\ leases'[i].keys = leases[i].keys
                               /\ leases'[i].granted_ttl = leases[i].granted_ttl
    BY Zenon, <1>9 DEF LeaseKeepalive, TypeOK, LeaseEntry
  <2>2. \A k \in Keys : kvs[k].lease \in LeaseIds \cup {0}
    BY Zenon DEF TypeOK, Kv
  <2> QED BY <2>1, <2>2 DEF KeysDieWithLease, Live
<1>10. ASSUME NEW op, Txn(op) PROVE KeysDieWithLease'
  BY <1>1, <1>10 DEF Txn
<1>11. ASSUME NEW rev, Compact(rev) PROVE KeysDieWithLease'
  BY <1>1, <1>11 DEF Compact
<1>12. ASSUME GcScan \/ Tick \/ UNCHANGED storeVars PROVE KeysDieWithLease'
  BY <1>1, <1>12 DEF GcScan, Tick, storeVars
<1> QED BY Zenon, <1>2, <1>3, <1>4, <1>5, <1>6, <1>7, <1>8, <1>9, <1>10, <1>11, <1>12
        DEF StoreNext, Handlers

\* Whatever clients send, a key outlives its lease only when it was put under a
\* lease that did not exist or lease_grant overwrote the lease: transactions,
\* moves between leases, revocations and stale expiry lists leave none behind.
THEOREM LeasedKeysDie == Spec => []KeysDieWithLease
<1>1. Init => KeysDieWithLease
  <2>1. Init => \A k \in Keys : kvs[k].lease = 0
    BY DEF Init, NoKv
  <2> QED BY Zenon, <2>1 DEF KeysDieWithLease
<1>2. TypeOK /\ LeaseInv /\ KeysDieWithLease /\ [StoreNext]_storeVars => KeysDieWithLease'
  BY LeasedStep
<1> QED BY <1>1, <1>2, TypeCorrect, LeaseInvariant, PTL DEF Spec

(***************************************************************************)
(* The store beside its keep-alive streams is a store: what is proved of   *)
(* the store alone holds with any number of streams of any capacity.       *)
(***************************************************************************)
\* A request on a stream is a renewal, or changes nothing in the store.
LEMMA KeepAliveIsStore ==
  ASSUME NEW s \in KaStreams, NEW id \in LeaseIds, KeepAlive(s, id)
  PROVE  StoreNext \/ UNCHANGED storeVars
BY Zenon DEF KeepAlive, Renew, StoreNext

\* Every step beside the streams is one of the store's, or none of its own.
LEMMA KeepAliveStep == [KaNext]_kaVars => [StoreNext]_storeVars
<1> SUFFICES ASSUME [KaNext]_kaVars PROVE StoreNext \/ UNCHANGED storeVars
  OBVIOUS
<1>1. CASE Unblocked /\ Handlers
  BY Zenon, <1>1 DEF StoreNext
<1>2. CASE Tick
  BY Zenon, <1>2 DEF StoreNext
<1>3. ASSUME NEW s \in KaStreams, OpenKeepAlive(s) \/ Send(s) \/ Read(s) \/ Close(s)
      PROVE  UNCHANGED storeVars
  BY Zenon, <1>3 DEF OpenKeepAlive, Send, Read, Close
<1>4. CASE UNCHANGED kaVars
  BY <1>4 DEF kaVars
<1> QED BY Zenon, <1>1, <1>2, <1>3, <1>4, KeepAliveIsStore DEF KaNext

\* The store beside its keep-alive streams implements the store's own
\* specification: a task that waits for its client with the mutex in hand delays
\* the other handlers and changes nothing else, so every invariant proved of the
\* store holds beside any number of streams.
THEOREM StreamsAddNothing == KaSpec => Spec
<1>1. KaInit => Init
  BY Zenon DEF KaInit
<1> QED BY <1>1, KeepAliveStep, PTL DEF KaSpec, Spec

------------------------------------------------------------------------------
(* The Watch service.                                                      *)

HIDE DEF NoEnd, OpenEnd

\* The composition only adds steps that leave the store alone.
LEMMA WatchIsStore == [WNext]_vars => [StoreNext]_storeVars
<1>1. WatchNext => UNCHANGED storeVars
  BY DEF WatchNext, OpenStream, CreateWatch, CancelWatch, Disconnect,
         RecvBatch, RecvLagged
<1> QED BY Zenon, <1>1 DEF WNext, vars

\* Behaviours of the Watch service are behaviours of the store.
LEMMA WatchImpliesStore == WSpec => Spec
<1>1. WInit => Init
  BY Zenon DEF WInit
<1> QED BY <1>1, WatchIsStore, PTL DEF WSpec, Spec

\* A new handle is well typed.
LEMMA NewHandleType ==
  ASSUME TypeOK, NEW s \in Streams, NEW id \in Nat, NEW req \in WatchReqs
  PROVE  NewHandle(s, id, req) \in Handle
<1>1. req \in [watch_id : Nat, start : Nat, key : Keys, end : Keys \cup {NoEnd, OpenEnd},
               filter : SUBSET {"PUT", "DELETE"}]
  BY Zenon, WatchAssumption
<1>2. \A revs : Wanted(req, log, revs) \subseteq revs
  BY Zenon DEF Wanted
<1>3. EventsSince(req.start - 1) \subseteq Nat
  BY Zenon DEF EventsSince, TypeOK
<1> DEFINE replayed == IF req.start > 0 THEN EventsSince(req.start - 1) ELSE {}
           got == Wanted(req, log, replayed)
<1>4. got \in SUBSET Nat
  BY Zenon, <1>2, <1>3
<1>5. revision \in Nat /\ req.start \in Nat
  BY <1>1 DEF TypeOK
<1>6. /\ s \in Streams \cup {0} /\ req.key \in Keys \cup {0}
      /\ req.end \in Keys \cup {NoEnd, OpenEnd} /\ req.filter \in SUBSET {"PUT", "DELETE"}
  BY Zenon, <1>1
<1>7. NewHandle(s, id, req) =
        [stream |-> s, id |-> id, key |-> req.key, end |-> req.end, filter |-> req.filter,
         delivered_through |-> revision, start |-> req.start, born |-> revision,
         got |-> got, ordered |-> TRUE]
  BY Zenon DEF NewHandle
<1> HIDE DEF replayed, got
<1> QED BY <1>4, <1>5, <1>6, <1>7 DEF Handle

\* Delivering a batch keeps the type and the identity of a handle.
LEMMA DeliverType ==
  ASSUME NEW h \in Handle, NEW r \in Nat
  PROVE  /\ Deliver(h, r) \in Handle
         /\ Deliver(h, r).stream = h.stream
         /\ r > h.delivered_through =>
              LET new == Wanted(h, history, {r})
                  d == Deliver(h, r)
              IN  /\ d.delivered_through = r /\ d.got = h.got \cup new
                  /\ d.ordered = (h.ordered /\ \A n \in new, o \in h.got : o < n)
                  /\ d.start = h.start /\ d.born = h.born /\ d.key = h.key
                  /\ d.end = h.end /\ d.filter = h.filter
<1>1. CASE r <= h.delivered_through
  BY <1>1 DEF Deliver, Handle
<1>2. CASE r > h.delivered_through
  <2>1. Wanted(h, history, {r}) \subseteq Nat
    BY DEF Wanted
  <2> DEFINE new == Wanted(h, history, {r})
             good == h.ordered /\ \A n \in new, o \in h.got : o < n
             d == [h EXCEPT !.delivered_through = r, !.got = h.got \cup new, !.ordered = good]
  <2>2. Deliver(h, r) = d
    BY <1>2 DEF Deliver, Handle
  <2>3. good \in BOOLEAN
    OBVIOUS
  <2> HIDE DEF new, good
  <2>4. d \in Handle
    BY <2>1, <2>3, ZenonT(30) DEF Handle, new
  <2>5. /\ d.delivered_through = r /\ d.got = h.got \cup new
        /\ d.start = h.start /\ d.born = h.born /\ d.key = h.key
        /\ d.end = h.end /\ d.filter = h.filter /\ d.stream = h.stream
    BY DEF Handle
  <2>6. d.ordered = good
    BY Zenon DEF Handle
  <2> QED BY <1>2, <2>2, <2>4, <2>5, <2>6 DEF new, good
<1>3. r \in Nat /\ h.delivered_through \in Nat
  BY Zenon DEF Handle
<1>4. r <= h.delivered_through \/ r > h.delivered_through
  BY <1>3
<1> QED BY Zenon, <1>1, <1>2, <1>4

\* Every step preserves the types of the Watch service.
LEMMA WTypeStep ==
  ASSUME TypeOK, WTypeOK, [WNext]_vars
  PROVE  WTypeOK'
<1>0. NoWatch \in Handle
  BY Zenon DEF NoWatch, Handle, NoEnd
<1>1. ASSUME NEW s \in Streams, OpenStream(s) PROVE WTypeOK'
  <2>1. revision + 1 \in Nat /\ 1 \in Nat
    BY DEF TypeOK
  <2> QED BY Zenon, <1>1, <2>1 DEF OpenStream, WTypeOK
<1>2. ASSUME NEW s \in Streams, NEW w \in Watches, NEW req \in WatchReqs, CreateWatch(s, w, req)
      PROVE  WTypeOK'
  <2> DEFINE wid == IF req.watch_id # 0 THEN req.watch_id ELSE next_watch_id[s]
  <2>1. wid \in Nat
    BY WatchAssumption DEF WTypeOK
  <2>2. NewHandle(s, wid, req) \in Handle
    BY Zenon, <2>1, NewHandleType
  <2>3. watch' \in [Watches -> Handle]
    BY Zenon, <1>2, <2>2 DEF CreateWatch, WTypeOK
  <2>4. next_watch_id' \in [Streams -> Nat]
    BY <1>2 DEF CreateWatch, WTypeOK
  <2> QED BY <1>2, <2>3, <2>4 DEF CreateWatch, WTypeOK
<1>3. ASSUME NEW s \in Streams, NEW id, CancelWatch(s, id) PROVE WTypeOK'
  BY <1>0, <1>3 DEF CancelWatch, WTypeOK
<1>5. ASSUME NEW s \in Streams, Disconnect(s) PROVE WTypeOK'
  BY Zenon, <1>0, <1>5 DEF Disconnect, WTypeOK
<1>6. ASSUME NEW s \in Streams, RecvBatch(s) PROVE WTypeOK'
  <2>1. \A w \in Watches : Deliver(watch[w], cursor[s]) \in Handle
    BY Zenon, DeliverType DEF WTypeOK
  <2> QED BY <1>6, <2>1 DEF RecvBatch, WTypeOK
<1>7. ASSUME NEW s \in Streams, RecvLagged(s) PROVE WTypeOK'
  <2>1. revision + 1 - Capacity \in Nat
    BY <1>7, WatchAssumption DEF RecvLagged, Behind, WTypeOK, TypeOK
  <2> QED BY <1>0, <1>7, <2>1 DEF RecvLagged, WTypeOK
<1>8. ASSUME UNCHANGED watchVars PROVE WTypeOK'
  BY <1>8 DEF watchVars, WTypeOK
<1> QED BY Zenon, <1>1, <1>2, <1>3, <1>5, <1>6, <1>7, <1>8 DEF WNext, WatchNext, vars

\* The Watch service keeps its types.
THEOREM WTypeCorrect == WSpec => []WTypeOK
<1>1. WInit => WTypeOK
  <2>1. 0 \in Nat /\ 1 \in Nat
    OBVIOUS
  <2>2. NoWatch \in Handle
    BY Zenon, <2>1 DEF NoWatch, Handle, NoEnd
  <2> QED BY Zenon, <2>1, <2>2 DEF WInit, WTypeOK
<1>2. TypeOK /\ WTypeOK /\ [WNext]_vars => WTypeOK'
  BY Zenon, WTypeStep
<1> QED BY <1>1, <1>2, WatchImpliesStore, TypeCorrect, PTL DEF WSpec

-----------------------------------------------------------------------------
\* The first revision a handle is sent.
First(h) == IF 0 < h.start /\ h.start <= h.born THEN h.start ELSE h.born + 1

LEMMA FirstType ==
  ASSUME NEW h \in Handle
  PROVE  First(h) \in Nat
BY DEF First, Handle

\* The inductive invariant, one handle at a time.  cur is the revision its stream
\* receives next: whatever the handle lacks is still to come from the receiver.
HandleInv(h, cur, rev, hist) ==
  /\ 0 < cur /\ cur <= h.delivered_through + 1
  /\ 0 < h.delivered_through /\ h.delivered_through <= rev
  /\ 0 < First(h) /\ First(h) <= h.delivered_through + 1
  /\ h.got = Wanted(h, hist, {r \in DOMAIN hist : First(h) <= r /\ r <= h.delivered_through})
  /\ h.ordered

WInv ==
  /\ \A s \in Streams : cursor[s] <= revision + 1
  /\ \A w \in Watches :
       \/ watch[w] = NoWatch
       \/ /\ watch[w].stream \in Streams
          /\ HandleInv(watch[w], cursor[watch[w].stream], revision, history)

\* A commit leaves the handles as good as they were.
LEMMA HandleStays ==
  ASSUME NEW h \in Handle, NEW cur \in Nat, NEW rev \in Nat, NEW rev2 \in Nat,
         NEW hist, NEW hist2, HandleInv(h, cur, rev, hist), rev <= rev2,
         DOMAIN hist = 2..rev, DOMAIN hist2 = 2..rev2,
         \A r \in 2..rev : hist2[r] = hist[r]
  PROVE  HandleInv(h, cur, rev2, hist2)
<1> DEFINE span(f) == {r \in DOMAIN f : First(h) <= r /\ r <= h.delivered_through}
<1>1. h.delivered_through \in Nat /\ First(h) \in Nat /\ h.delivered_through <= rev
  BY Zenon, FirstType DEF Handle, HandleInv
<1>2. span(hist) = span(hist2)
  BY <1>1
<1>3. \A r \in span(hist) : hist2[r] = hist[r]
  OBVIOUS
<1>4. Wanted(h, hist, span(hist)) = Wanted(h, hist2, span(hist2))
  BY Zenon, <1>2, <1>3 DEF Wanted
<1> QED BY <1>1, <1>4 DEF HandleInv

\* A new handle has been replayed everything from its start to now: the request
\* was not rejected, so the log holds every revision from start on.
LEMMA NewHandleInv ==
  ASSUME TypeOK, LogComplete, NEW s \in Streams, NEW id \in Nat, NEW req \in WatchReqs,
         ~(req.start > 0 /\ req.start <= compact_revision),
         NEW cur \in Nat, 0 < cur, cur <= revision + 1
  PROVE  HandleInv(NewHandle(s, id, req), cur, revision, history)
<1> DEFINE h == NewHandle(s, id, req)
           span == {r \in DOMAIN history : First(h) <= r /\ r <= h.delivered_through}
           replayed == IF req.start > 0 THEN EventsSince(req.start - 1) ELSE {}
<1>1. /\ req.start \in Nat /\ revision \in Nat \ {0} /\ compact_revision \in Nat
  BY Zenon, WatchAssumption DEF TypeOK
<1>2. /\ h.delivered_through = revision /\ h.ordered
      /\ h.start = req.start /\ h.born = revision
      /\ h.got = Wanted(req, log, replayed)
      /\ h.key = req.key /\ h.end = req.end /\ h.filter = req.filter
  BY Zenon DEF NewHandle
<1> HIDE DEF h
<1>9. First(h) = IF req.start > 0 /\ req.start <= revision THEN req.start ELSE revision + 1
  BY <1>2 DEF First
<1>3. DOMAIN history = 2..revision /\ DOMAIN log \subseteq 2..revision
  BY Zenon DEF LogComplete
<1>4. replayed = span
  <2>1. CASE req.start > 0
    <3>1. \A r \in 2..revision : r >= req.start => r \in DOMAIN log
      BY <1>1, <2>1 DEF LogComplete
    <3>2. EventsSince(req.start - 1) = {r \in 2..revision : r >= req.start}
      BY <1>1, <1>3, <3>1 DEF EventsSince
    <3> QED BY <1>1, <1>2, <1>3, <1>9, <2>1, <3>2
  <2>2. CASE req.start = 0
    BY <1>1, <1>2, <1>3, <1>9, <2>2
  <2> QED BY <1>1, <2>1, <2>2
<1>5. \A r \in replayed : log[r] = history[r]
  BY Zenon DEF EventsSince, LogComplete
<1>6. \A e : Matches(req, e) <=> Matches(h, e)
  BY Zenon, <1>2 DEF Matches
<1>7. Wanted(req, log, replayed) = Wanted(h, history, span)
  BY <1>4, <1>5, <1>6 DEF Wanted
<1>8. h.got = Wanted(h, history, span)
  BY Zenon, <1>2, <1>7
<1> QED BY SMTT(20), <1>1, <1>2, <1>8, <1>9 DEF HandleInv, h

\* Receiving the batch of revision cur brings a handle to cur, or leaves one that
\* replay already took further; either way it now has everything up to cur.
LEMMA DeliverInv ==
  ASSUME NEW h \in Handle, NEW cur \in Nat, NEW rev \in Nat, cur <= rev,
         DOMAIN history = 2..rev, HandleInv(h, cur, rev, history)
  PROVE  /\ HandleInv(Deliver(h, cur), cur + 1, rev, history)
         /\ Deliver(h, cur).delivered_through \in {h.delivered_through, h.delivered_through + 1}
         /\ Deliver(h, cur).delivered_through = IF cur <= h.delivered_through
              THEN h.delivered_through ELSE h.delivered_through + 1
<1>1. h.delivered_through \in Nat /\ First(h) \in Nat
  BY Zenon, FirstType DEF Handle
<1>2. CASE cur <= h.delivered_through
  <2>1. Deliver(h, cur) = h
    BY <1>2 DEF Deliver
  <2>2. 0 < cur + 1 /\ cur + 1 <= h.delivered_through + 1
    BY SMTT(20), <1>1, <1>2
  <2> QED BY <1>2, <2>1, <2>2 DEF HandleInv
<1>3. CASE cur > h.delivered_through
  <2> DEFINE d == Deliver(h, cur)
             new == Wanted(h, history, {cur})
             before == {r \in DOMAIN history : First(h) <= r /\ r <= h.delivered_through}
             after == {r \in DOMAIN history : First(h) <= r /\ r <= cur}
  <2>1. cur = h.delivered_through + 1 /\ 0 < h.delivered_through /\ 0 < First(h)
        /\ First(h) <= cur
    BY <1>1, <1>3 DEF HandleInv
  <2>2. /\ d.delivered_through = cur /\ d.got = h.got \cup new /\ First(d) = First(h)
        /\ d.key = h.key /\ d.end = h.end /\ d.filter = h.filter
    BY <1>3, DeliverType, ZenonT(30) DEF First
  <2>3. d.ordered = (h.ordered /\ \A n \in new, o \in h.got : o < n)
    BY Zenon, <1>3, DeliverType
  <2> HIDE DEF d
  <2>4. after = before \cup {cur}
    BY SMTT(20), <1>1, <2>1
  <2>5. \A e : Matches(h, e) <=> Matches(d, e)
    BY <2>2 DEF Matches
  <2>6. h.got = Wanted(h, history, before)
    BY Zenon DEF HandleInv
  <2>7. d.got = Wanted(d, history, after)
    BY Zenon, <2>2, <2>4, <2>5, <2>6 DEF Wanted
  <2>8. \A n \in new, o \in h.got : o < n
    BY <1>1, <2>1, <2>6 DEF Wanted
  <2>9. d.ordered
    BY <2>3, <2>8, ZenonT(30) DEF HandleInv
  <2>10. HandleInv(d, cur + 1, rev, history)
    <3>1. after = {r \in DOMAIN history : First(d) <= r /\ r <= d.delivered_through}
      BY Zenon, <2>2
    <3>2. /\ 0 < cur + 1 /\ cur + 1 <= d.delivered_through + 1
          /\ 0 < d.delivered_through /\ d.delivered_through <= rev
          /\ 0 < First(d) /\ First(d) <= d.delivered_through + 1
      BY SMTT(20), <1>1, <2>1, <2>2
    <3> HIDE DEF after
    <3>3. d.got = Wanted(d, history, {r \in DOMAIN history : First(d) <= r /\ r <= d.delivered_through})
      BY Zenon, <2>7, <3>1
    <3> QED BY Zenon, <2>9, <3>2, <3>3 DEF HandleInv
  <2> QED BY SMTT(20), <1>1, <1>3, <2>1, <2>2, <2>10 DEF d
<1> QED BY <1>1, <1>2, <1>3

\* Every step preserves WInv.
LEMMA WStep ==
  ASSUME TypeOK, LogComplete, WTypeOK, WInv, [WNext]_vars, LogComplete', TypeOK'
  PROVE  WInv'
<1>1. /\ revision \in Nat \ {0} /\ DOMAIN history = 2..revision
      /\ \A w \in Watches : watch[w] \in Handle
      /\ \A s \in Streams : cursor[s] \in Nat /\ s # 0
  BY Zenon, WatchAssumption DEF TypeOK, LogComplete, WTypeOK
<1>2. ASSUME UNCHANGED <<revision, history>>, NEW s \in Streams,
             \A t \in Streams : t # s => cursor'[t] = cursor[t],
             cursor'[s] <= revision + 1,
             \A w \in Watches : \/ watch'[w] = NoWatch
                                \/ watch'[w] = watch[w] /\ watch[w].stream # s
                                \/ /\ watch'[w].stream = s
                                   /\ HandleInv(watch'[w], cursor'[s], revision, history)
      PROVE  WInv'
  <2>1. \A t \in Streams : cursor'[t] <= revision' + 1
    BY Zenon, <1>2 DEF WInv
  <2>2. ASSUME NEW w \in Watches
        PROVE  \/ watch'[w] = NoWatch
               \/ /\ watch'[w].stream \in Streams
                  /\ HandleInv(watch'[w], cursor'[watch'[w].stream], revision', history')
    BY Zenon, <1>2 DEF WInv
  <2> QED BY Zenon, <2>1, <2>2 DEF WInv, HandleInv, Wanted, Matches, InRange
<1>3. ASSUME StoreNext, UNCHANGED watchVars PROVE WInv'
  <2>1. /\ revision' \in Nat /\ revision <= revision' /\ DOMAIN history' = 2..revision'
        /\ \A r \in 2..revision : history'[r] = history[r]
    <3>1. CASE UNCHANGED <<revision, history>>
      BY <1>1, <3>1
    <3>2. ASSUME NEW events \in SUBSET Event, Commits(events)
          PROVE  /\ revision' = revision + 1
                 /\ \A r \in 2..revision : history'[r] = history[r]
      BY SMTT(20), <1>1, <3>2 DEF Commits, Extend
    <3>3. [StoreNext]_storeVars /\ DOMAIN history' = 2..revision' /\ revision' \in Nat
      BY Zenon, <1>3 DEF LogComplete, TypeOK
    <3> QED BY <1>1, <3>1, <3>2, <3>3, StepKinds DEF Quiet, Compacts
  <2>2. ASSUME NEW w \in Watches, watch[w] # NoWatch
        PROVE  /\ watch[w].stream \in Streams
               /\ HandleInv(watch[w], cursor[watch[w].stream], revision', history')
    BY Zenon, <1>1, <2>1, <2>2, HandleStays DEF WInv
  <2>3. watch' = watch /\ cursor' = cursor
    BY <1>3 DEF watchVars
  <2>4. \A t \in Streams : cursor'[t] <= revision' + 1
    BY SMTT(20), <1>1, <2>1, <2>3 DEF WInv
  <2> QED BY Zenon, <2>2, <2>3, <2>4 DEF WInv, HandleInv, Wanted, Matches, InRange
<1>4. ASSUME NEW s \in Streams, OpenStream(s) PROVE WInv'
  <2>1. UNCHANGED <<revision, history, watch>> /\ cursor' = [cursor EXCEPT ![s] = revision + 1]
    BY Zenon, <1>4 DEF OpenStream, storeVars
  <2>2. ASSUME NEW w \in Watches, watch[w] # NoWatch PROVE watch[w].stream # s
    <3>1. cursor[s] = 0
      BY <1>4 DEF OpenStream, Open
    <3>2. 0 < cursor[watch[w].stream]
      BY <2>2, ZenonT(30) DEF WInv, HandleInv
    <3> QED BY <3>1, <3>2
  <2>3. cursor'[s] = revision + 1 /\ \A t \in Streams : t # s => cursor'[t] = cursor[t]
    BY <2>1 DEF WTypeOK
  <2>4. cursor'[s] <= revision + 1
    BY <1>1, <2>3
  <2> QED BY Zenon, <1>2, <2>1, <2>2, <2>3, <2>4
<1>5. ASSUME NEW s \in Streams, NEW w \in Watches, NEW req \in WatchReqs, CreateWatch(s, w, req)
      PROVE  WInv'
  <2> DEFINE wid == IF req.watch_id # 0 THEN req.watch_id ELSE next_watch_id[s]
             h == NewHandle(s, wid, req)
  <2>1. UNCHANGED <<revision, history, cursor>> /\ cursor[s] # 0
    BY Zenon, <1>5 DEF CreateWatch, storeVars, Open
  <2>2. CASE req.start > 0 /\ req.start <= compact_revision
    <3>1. watch' = watch
      BY <1>5, <2>2 DEF CreateWatch
    <3> QED BY Zenon, <2>1, <3>1 DEF WInv, HandleInv, Wanted, Matches, InRange
  <2>3. CASE ~(req.start > 0 /\ req.start <= compact_revision)
    <3>1. wid \in Nat
      BY Zenon, WatchAssumption DEF WTypeOK
    <3>2. HandleInv(h, cursor[s], revision, history)
      <4>1. cursor[s] <= revision + 1 /\ cursor[s] \in Nat
        BY Zenon, <1>1 DEF WInv, WTypeOK
      <4> QED BY <1>1, <2>1, <2>3, <3>1, <4>1, NewHandleInv
    <3>3. h.stream = s
      BY Zenon DEF NewHandle
    <3>4. watch' = [watch EXCEPT ![w] = h]
      BY <1>5, <2>3 DEF CreateWatch
    <3> HIDE DEF h
    <3>5. watch'[w] = h /\ \A v \in Watches : v # w => watch'[v] = watch[v]
      BY <3>4 DEF WTypeOK
    <3>6. \A v \in Watches : \/ watch'[v] = NoWatch
                             \/ watch'[v] = watch[v] /\ watch[v].stream # s
                             \/ /\ watch'[v].stream = s
                                /\ HandleInv(watch'[v], cursor'[s], revision, history)
      BY Zenon, <2>1, <3>2, <3>3, <3>5 DEF WInv
    <3> QED BY Zenon, <1>2, <2>1, <3>6 DEF WInv
  <2> QED BY Zenon, <2>2, <2>3
<1>6. ASSUME NEW s \in Streams, UNCHANGED <<revision, history>>,
             \A t \in Streams : t # s => cursor'[t] = cursor[t],
             cursor'[s] <= revision + 1,
             \A w \in Watches : watch'[w] = IF watch[w].stream = s THEN NoWatch ELSE watch[w]
      PROVE  WInv'
  BY <1>2, <1>6
<1>7. ASSUME NEW s \in Streams, NEW id, CancelWatch(s, id) PROVE WInv'
  <2>1. UNCHANGED <<revision, history, cursor>>
    BY <1>7 DEF CancelWatch, storeVars
  <2>2. \A w \in Watches : watch'[w] = NoWatch \/ watch'[w] = watch[w]
    BY Zenon, <1>7 DEF CancelWatch
  <2> QED BY <2>1, <2>2, Zenon DEF WInv
<1>9. ASSUME NEW s \in Streams, Disconnect(s) PROVE WInv'
  <2>1. /\ UNCHANGED <<revision, history>> /\ cursor' = [cursor EXCEPT ![s] = 0]
        /\ \A w \in Watches : watch'[w] = IF watch[w].stream = s THEN NoWatch ELSE watch[w]
    BY Zenon, <1>9 DEF Disconnect, storeVars
  <2> QED BY <1>1, <1>6, <2>1 DEF WTypeOK
<1>10. ASSUME NEW s \in Streams, RecvLagged(s) PROVE WInv'
  <2>1. /\ UNCHANGED <<revision, history>>
        /\ cursor' = [cursor EXCEPT ![s] = revision + 1 - Capacity]
        /\ \A w \in Watches : watch'[w] = IF watch[w].stream = s THEN NoWatch ELSE watch[w]
    BY Zenon, <1>10 DEF RecvLagged, storeVars
  <2>2. cursor'[s] = revision + 1 - Capacity /\ \A t \in Streams : t # s => cursor'[t] = cursor[t]
    BY Zenon, <2>1 DEF WTypeOK
  <2>3. cursor'[s] <= revision' + 1
    BY SMTT(20), <1>1, <2>1, <2>2, WatchAssumption
  <2> QED BY Zenon, <1>6, <2>1, <2>2, <2>3
<1>11. ASSUME NEW s \in Streams, RecvBatch(s) PROVE WInv'
  <2>1. /\ UNCHANGED <<revision, history>>
        /\ cursor' = [cursor EXCEPT ![s] = @ + 1]
        /\ cursor[s] <= revision
    BY SMTT(20), <1>1, <1>11 DEF RecvBatch, Behind, storeVars
  <2>2. cursor'[s] = cursor[s] + 1 /\ \A t \in Streams : t # s => cursor'[t] = cursor[t]
    BY Zenon, <2>1 DEF WTypeOK
  <2>3. ASSUME NEW w \in Watches, watch[w].stream = s, watch[w] # NoWatch
        PROVE  /\ watch'[w].stream = s
               /\ HandleInv(watch'[w], cursor'[s], revision, history)
    <3>1. watch'[w] = Deliver(watch[w], cursor[s])
      BY <1>11, <2>3 DEF RecvBatch
    <3>2. HandleInv(watch[w], cursor[s], revision, history)
      BY Zenon, <2>3 DEF WInv
    <3>3. watch[w] \in Handle /\ cursor[s] \in Nat /\ revision \in Nat
      BY <1>1
    <3>4. HandleInv(Deliver(watch[w], cursor[s]), cursor[s] + 1, revision, history)
      BY Zenon, <1>1, <2>1, <3>2, <3>3, DeliverInv
    <3>5. Deliver(watch[w], cursor[s]).stream = watch[w].stream
      BY Zenon, <3>3, DeliverType
    <3> QED BY Zenon, <2>2, <2>3, <3>1, <3>4, <3>5
  <2>4. \A w \in Watches : watch[w].stream # s => watch'[w] = watch[w]
    BY Zenon, <1>11 DEF RecvBatch
  <2>5. NoWatch.stream # s
    BY <1>1 DEF NoWatch
  <2> QED BY SMTT(20), <1>1, <1>2, <2>1, <2>2, <2>3, <2>4, <2>5
<1>12. ASSUME UNCHANGED vars PROVE WInv'
  <2>1. UNCHANGED <<revision, history, cursor, watch>>
    BY <1>12 DEF vars, storeVars, watchVars
  <2> QED BY <2>1, Zenon DEF WInv
<1> QED BY Zenon, <1>3, <1>4, <1>5, <1>7, <1>9, <1>10, <1>11, <1>12 DEF WNext, WatchNext

\* The strengthened invariant holds.
LEMMA WInvariant == WSpec => []WInv
<1>1. WInit => WInv
  BY DEF WInit, Init, WInv
<1>2. /\ TypeOK /\ LogComplete /\ WTypeOK /\ WInv /\ [WNext]_vars
      /\ LogComplete' /\ TypeOK'
      => WInv'
  BY WStep
<1> QED BY <1>1, <1>2, WatchImpliesStore, TypeCorrect, LogIsComplete, WTypeCorrect, PTL
        DEF WSpec

\* The revisions asked for and the premature ones are those from the first on.
LEMMA SentIs ==
  ASSUME NEW h \in Handle, DOMAIN history = 2..revision
  PROVE  Asked(h) \cup Premature(h)
           = {r \in DOMAIN history : First(h) <= r /\ r <= h.delivered_through}
<1>1. h.start \in Nat /\ h.born \in Nat /\ h.delivered_through \in Nat
  BY DEF Handle
<1>2. ASSUME NEW r \in DOMAIN history
      PROVE  r \in Asked(h) \cup Premature(h) <=> First(h) <= r /\ r <= h.delivered_through
  <2>1. r \in Int
    BY <1>2
  <2> QED BY <1>1, <1>2, <2>1 DEF Asked, Premature, First
<1>3. Asked(h) \cup Premature(h) \subseteq DOMAIN history
  BY Zenon DEF Asked, Premature
<1> QED BY Zenon, <1>2, <1>3

\* A live handle has delivered exactly the matching revisions it stands for, for
\* every channel capacity and however replay, compaction, lag and cancellation
\* interleave with the writers: "no gaps".
THEOREM WatchGapFree == WSpec => []GapFree
<1>1. ASSUME WInv, WTypeOK, LogComplete, TypeOK, NEW w \in Watches, On(w)
      PROVE  watch[w].got = Wanted(watch[w], history, Asked(watch[w]) \cup Premature(watch[w]))
  <2>1. NoWatch.stream = 0
    BY DEF NoWatch
  <2>2. watch[w] # NoWatch
    BY <1>1, <2>1 DEF On
  <2>3. HandleInv(watch[w], cursor[watch[w].stream], revision, history)
    BY <1>1, <2>2, Zenon DEF WInv
  <2>4. Asked(watch[w]) \cup Premature(watch[w])
          = {r \in DOMAIN history : First(watch[w]) <= r /\ r <= watch[w].delivered_through}
    <3>1. watch[w] \in Handle /\ DOMAIN history = 2..revision
      BY Zenon, <1>1 DEF WTypeOK, LogComplete
    <3> QED BY Zenon, <3>1, SentIs
  <2> QED BY <2>3, <2>4, Zenon DEF HandleInv
<1>2. WInv /\ WTypeOK /\ LogComplete /\ TypeOK => GapFree
  BY <1>1, Zenon DEF GapFree
<1> QED BY <1>2, WInvariant, WatchImpliesStore, TypeCorrect, LogIsComplete, WTypeCorrect, PTL

\* No handle is ever sent a revision twice or out of order.
THEOREM WatchInOrder == WSpec => []InOrder
<1>1. ASSUME WInv, NEW w \in Watches PROVE watch[w].ordered
  <2>1. CASE watch[w] = NoWatch
    <3>1. NoWatch.ordered
      BY DEF NoWatch
    <3> QED BY <2>1, <3>1, Zenon
  <2>2. CASE HandleInv(watch[w], cursor[watch[w].stream], revision, history)
    BY <2>2, Zenon DEF HandleInv
  <2> QED BY <1>1, <2>1, <2>2, Zenon DEF WInv
<1>2. WInv => InOrder
  BY <1>1 DEF InOrder
<1> QED BY <1>2, WInvariant, PTL

\* ExactDelivery, both together: across replay, lag and cancellation a live
\* handle was sent every matching revision, in order and once.
THEOREM WatchExact == WSpec => []ExactDelivery
BY WatchGapFree, WatchInOrder, PTL DEF ExactDelivery

\* The receiver of a stream never overtakes a handle.
THEOREM WatchCursorCovers == WSpec => []CursorCovers
<1>1. WInv => CursorCovers
  <2> SUFFICES ASSUME WInv PROVE CursorCovers
    OBVIOUS
  <2>1. ASSUME NEW w \in Watches, On(w)
        PROVE  LET h == watch[w]
               IN  /\ Open(h.stream)
                   /\ cursor[h.stream] <= h.delivered_through + 1
                   /\ h.delivered_through <= revision
    <3>1. HandleInv(watch[w], cursor[watch[w].stream], revision, history)
      BY SMTT(20), <2>1 DEF WInv, On, NoWatch
    <3>2. cursor[watch[w].stream] # 0
      BY <3>1, SMTT(30) DEF HandleInv
    <3> QED BY Zenon, <3>1, <3>2 DEF HandleInv, Open
  <2> QED BY Zenon, <2>1 DEF WInv, CursorCovers
<1> QED BY <1>1, WInvariant, PTL

-----------------------------------------------------------------------------
\* Each step of the Watch service is a step of the abstract feed or a stutter.
LEMMA FeedStep ==
  ASSUME TypeOK, LogComplete, WTypeOK, WInv, [WNext]_vars
  PROVE  [Feed!FeedNext]_<<revision, [w \in Watches |-> watch[w].delivered_through]>>
<1> DEFINE pos == [w \in Watches |-> watch[w].delivered_through]
           next == [w \in Watches |-> watch'[w].delivered_through]
<1>1. /\ revision \in Nat \ {0} /\ DOMAIN history = 2..revision
      /\ \A w \in Watches : watch[w] \in Handle
      /\ \A s \in Streams : cursor[s] \in Nat /\ s # 0
  BY Zenon, WatchAssumption DEF TypeOK, LogComplete, WTypeOK
<1>2. NoWatch.delivered_through = 0
  BY DEF NoWatch
<1>3. ASSUME UNCHANGED <<revision, watch>>
      PROVE  UNCHANGED <<revision, [w \in Watches |-> watch[w].delivered_through]>>
  BY Zenon, <1>3
<1>4. ASSUME StoreNext, UNCHANGED watchVars
      PROVE  [Feed!FeedNext]_<<revision, [w \in Watches |-> watch[w].delivered_through]>>
  <2>1. revision' = revision \/ revision' = revision + 1
    BY <1>4, StepKinds DEF Quiet, Compacts, Commits
  <2>2. watch' = watch
    BY <1>4 DEF watchVars
  <2>3. CASE revision' = revision
    BY Zenon, <1>3, <2>2, <2>3
  <2>4. CASE revision' = revision + 1
    <3>1. Feed!Commit
      BY <2>2, <2>4 DEF Feed!Commit
    <3> QED BY <3>1 DEF Feed!FeedNext
  <2> QED BY Zenon, <2>1, <2>3, <2>4
<1>5. ASSUME NEW W \in SUBSET Watches, revision' = revision,
             \A w \in Watches : watch'[w] = IF w \in W THEN NoWatch ELSE watch[w]
      PROVE  Feed!FeedNext
  <2>1. Feed!Drop(W)
    BY Zenon, <1>2, <1>5 DEF Feed!Drop, Feed!Off
  <2> QED BY Zenon, <2>1 DEF Feed!FeedNext
<1>6. ASSUME NEW s \in Streams, NEW w \in Watches, NEW req \in WatchReqs, CreateWatch(s, w, req)
      PROVE  [Feed!FeedNext]_<<revision, [v \in Watches |-> watch[v].delivered_through]>>
  <2> DEFINE wid == IF req.watch_id # 0 THEN req.watch_id ELSE next_watch_id[s]
  <2>1. revision' = revision
    BY <1>6 DEF CreateWatch, storeVars
  <2>2. CASE watch' = watch
    BY <1>3, <2>1, <2>2, SMTT(30)
  <2>3. CASE watch' = [watch EXCEPT ![w] = NewHandle(s, wid, req)]
    <3>1. NewHandle(s, wid, req).delivered_through = revision
      BY Zenon DEF NewHandle
    <3>2. watch[w].delivered_through = 0
      BY Zenon, <1>1, <1>2, <1>6 DEF CreateWatch, On, WInv
    <3>3. \A v \in Watches : watch'[v].delivered_through =
             IF v = w THEN revision ELSE watch[v].delivered_through
      BY <2>3, <3>1 DEF WTypeOK
    <3>4. Feed!Join(w)
      BY <2>1, <3>2, <3>3, ZenonT(30) DEF Feed!Join, Feed!Off
    <3> QED BY Zenon, <3>4 DEF Feed!FeedNext
  <2> QED BY Zenon, <1>6, <2>2, <2>3 DEF CreateWatch
<1>7. ASSUME NEW s \in Streams, RecvBatch(s) PROVE Feed!FeedNext
  <2> DEFINE W == {w \in Watches : watch[w].stream = s /\ cursor[s] > watch[w].delivered_through}
  <2>1. revision' = revision /\ cursor[s] <= revision
    <3>1. revision' = revision /\ revision + 1 - cursor[s] > 0
      BY <1>7 DEF RecvBatch, Behind, storeVars
    <3>2. revision \in Nat /\ cursor[s] \in Nat
      BY <1>1
    <3> QED BY <3>1, <3>2
  <2>2. ASSUME NEW w \in Watches, watch[w].stream = s
        PROVE  /\ watch[w].delivered_through \in Nat \ {0}
               /\ watch'[w].delivered_through = IF cursor[s] <= watch[w].delivered_through
                    THEN watch[w].delivered_through ELSE watch[w].delivered_through + 1
               /\ cursor[s] <= watch[w].delivered_through + 1
    <3>1. HandleInv(watch[w], cursor[s], revision, history)
      <4>1. watch[w] # NoWatch
        <5>1. NoWatch.stream = 0
          BY Zenon DEF NoWatch
        <5> QED BY Zenon, <1>1, <2>2, <5>1
      <4> QED BY <2>2, <4>1, Zenon DEF WInv
    <3>2. watch'[w] = Deliver(watch[w], cursor[s])
      BY Zenon, <1>7, <2>2 DEF RecvBatch
    <3>3. watch[w].delivered_through \in Nat \ {0} /\ cursor[s] <= watch[w].delivered_through + 1
      <4>1. /\ 0 < watch[w].delivered_through /\ cursor[s] <= watch[w].delivered_through + 1
        BY Zenon, <3>1 DEF HandleInv
      <4>2. watch[w].delivered_through \in Nat
        BY Zenon, <1>1 DEF Handle
      <4> QED BY <4>1, <4>2
    <3>4. watch[w] \in Handle /\ cursor[s] \in Nat /\ revision \in Nat
      BY <1>1
    <3>5. DOMAIN history = 2..revision /\ cursor[s] <= revision
      BY Zenon, <1>1, <2>1
    <3>6. Deliver(watch[w], cursor[s]).delivered_through =
            IF cursor[s] <= watch[w].delivered_through
            THEN watch[w].delivered_through ELSE watch[w].delivered_through + 1
      BY Zenon, <3>1, <3>4, <3>5, DeliverInv
    <3> QED BY <3>2, <3>3, <3>6, Zenon
  <2>3. \A w \in Watches : watch[w].stream # s => watch'[w] = watch[w]
    BY Zenon, <1>7 DEF RecvBatch
  <2>4. \A w \in Watches : watch'[w].delivered_through =
           IF w \in W THEN watch[w].delivered_through + 1 ELSE watch[w].delivered_through
    BY SMTT(20), <1>1, <2>2, <2>3
  <2>5. \A w \in W : watch[w].delivered_through # 0 /\ watch[w].delivered_through < revision
    BY SMTT(20), <1>1, <2>1, <2>2
  <2> HIDE DEF W
  <2>6. W \in SUBSET Watches
    BY DEF W
  <2>7. ASSUME NEW V \in SUBSET Watches, V = W PROVE Feed!FeedNext
    <3>1. Feed!Advance(V)
      BY Zenon, <2>1, <2>4, <2>5, <2>7 DEF Feed!Advance, Feed!Off
    <3> QED BY Zenon, <3>1 DEF Feed!FeedNext
  <2> QED BY <2>6, <2>7
<1>8. ASSUME NEW s \in Streams, OpenStream(s)
      PROVE  UNCHANGED <<revision, [w \in Watches |-> watch[w].delivered_through]>>
  BY Zenon, <1>3, <1>8 DEF OpenStream, storeVars
<1>9. ASSUME NEW s \in Streams, NEW id, CancelWatch(s, id) PROVE Feed!FeedNext
  <2> DEFINE W == {w \in Watches : watch[w].stream = s /\ watch[w].id = id}
  <2>1. revision' = revision
    BY Zenon, <1>9 DEF CancelWatch, storeVars
  <2>2. \A w \in Watches : watch'[w] = IF w \in W THEN NoWatch ELSE watch[w]
    BY <1>9 DEF CancelWatch
  <2>3. W \in SUBSET Watches
    OBVIOUS
  <2> HIDE DEF W
  <2> QED BY Zenon, <1>5, <2>1, <2>2, <2>3
<1>10. ASSUME NEW s \in Streams, Disconnect(s) \/ RecvLagged(s) PROVE Feed!FeedNext
  <2> DEFINE W == {w \in Watches : watch[w].stream = s}
  <2>1. revision' = revision
    BY Zenon, <1>10 DEF Disconnect, RecvLagged, storeVars
  <2>2. \A w \in Watches : watch'[w] = IF w \in W THEN NoWatch ELSE watch[w]
    BY <1>10 DEF Disconnect, RecvLagged
  <2>3. W \in SUBSET Watches
    OBVIOUS
  <2> HIDE DEF W
  <2> QED BY Zenon, <1>5, <2>1, <2>2, <2>3
<1>11. ASSUME UNCHANGED vars
       PROVE  UNCHANGED <<revision, [w \in Watches |-> watch[w].delivered_through]>>
  BY <1>3, <1>11 DEF vars, storeVars, watchVars
<1> QED BY Zenon, <1>4, <1>6, <1>7, <1>8, <1>9, <1>10, <1>11 DEF WNext, WatchNext

\* The Watch service implements the abstract feed: a handle is taken through the
\* committed revisions one at a time, and leaves only by being dropped.
THEOREM WatchImplementsFeed == WSpec => FeedSpec
<1>1. WInit => Feed!FeedInit
  BY SMTT(20) DEF WInit, Init, NoWatch, Feed!FeedInit, Feed!Off
<1>2. TypeOK /\ LogComplete /\ WTypeOK /\ WInv /\ [WNext]_vars
      => [Feed!FeedNext]_<<revision, [w \in Watches |-> watch[w].delivered_through]>>
  BY Zenon, FeedStep
<1> QED BY <1>1, <1>2, WatchImpliesStore, TypeCorrect, LogIsComplete, WTypeCorrect,
           WInvariant, PTL DEF WSpec, FeedSpec, Feed!FeedSpec

=============================================================================
