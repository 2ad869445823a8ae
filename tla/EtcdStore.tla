----------------------------- MODULE EtcdStore -----------------------------
(***************************************************************************)
(* The in-memory etcd store (rust/etcd-mem/src/store.rs), the RPC handlers *)
(* that call it (svc.rs) and the lease expiry task (lib.rs).               *)
(*                                                                         *)
(* Every handler takes the store's mutex for the whole of its work, so a   *)
(* handler that performs one store operation is one step.  Transactions,   *)
(* lease revocation and the expiry task perform several operations under   *)
(* one lock.  Each operation sends its own broadcast batch, which a watch  *)
(* stream may receive before the lock is released, so these handlers are   *)
(* one step per operation: todo, doomed and revoking hold what the owner   *)
(* of the mutex has still to do, and MutexFree says that nobody owns it.   *)
(*                                                                         *)
(* Data: keys are positive numbers in byte order, values are numbers with  *)
(* 0 the empty value, and an absent key is the record NoKv, whose zeroes   *)
(* are the defaults the code substitutes for a missing entry.  Batches are *)
(* sets of events (at most one per key), the key list of a lease is a set. *)
(***************************************************************************)
EXTENDS Integers, Sequences, FiniteSets

CONSTANTS
  Keys,        \* keys clients use, ordered as the BTreeMap orders them
  Ops,         \* put, delete, range and txn requests clients send
  CompactRevs, \* revisions clients ask to compact
  LeaseIds,    \* ids of leases, client-chosen or allocated
  Ttls,        \* time-to-live values clients ask for
  MaxRevision, \* bound: no request is accepted from this revision on
  MaxTime      \* bound: the clock stops here

NoEnd == 0
OpenEnd == -1

KvFields == {"value", "create_revision", "mod_revision", "version", "lease"}

OpTyped(op) ==
  \/ /\ op.type = "put"
     /\ op.key \in Keys /\ op.value \in Nat /\ op.lease \in LeaseIds \cup {0}
     /\ op.ignore_value \in BOOLEAN /\ op.ignore_lease \in BOOLEAN
  \/ /\ op.type \in {"delete", "range"}
     /\ op.key \in Keys /\ op.end \in Keys \cup {NoEnd, OpenEnd}
  \/ /\ op.type = "txn"
     /\ op.success \in Seq(Ops) /\ op.failure \in Seq(Ops)

ASSUME StoreAssumption ==
  /\ Keys \subseteq Nat \ {0}
  /\ LeaseIds \subseteq Nat \ {0}
  /\ Ttls \subseteq Int
  /\ CompactRevs \subseteq Int
  /\ \A op \in Ops : OpTyped(op)

VARIABLES
  kvs,              \* Store.kvs
  revision,         \* Store.revision
  compact_revision, \* Store.compact_revision
  log,              \* Store.log: revision -> the events of that revision
  leases,           \* Store.leases; granted_ttl = 0 marks an absent entry
  next_lease_id,    \* Store.next_lease_id
  todo,             \* operations the transaction in progress has still to run
  doomed,           \* keys the revocation in progress has still to delete
  expired,          \* the expiry task's list, taken under an earlier lock
  revoking,         \* the expiry task owns the mutex
  now,              \* the monotonic clock, in seconds
  history,          \* auxiliary: every batch emitted, never compacted
  stray             \* auxiliary: keys put under a lease that did not exist,
                    \* or whose lease was granted again while it lived

storeVars == <<kvs, revision, compact_revision, log, leases, next_lease_id,
               todo, doomed, expired, revoking, now, history, stray>>

(***************************************************************************)
(* Core types                                                              *)
(***************************************************************************)
NoKv == [value |-> 0, create_revision |-> 0, mod_revision |-> 0,
         version |-> 0, lease |-> 0]

Kv == [value : Nat, create_revision : Nat, mod_revision : Nat,
       version : Nat, lease : LeaseIds \cup {0}]

Event == [type : {"PUT", "DELETE"}, key : Keys, kv : Kv, prev : Kv]

NoLease == [granted_ttl |-> 0, deadline |-> 0, keys |-> {}]

LeaseEntry == [granted_ttl : Nat, deadline : Nat, keys : SUBSET Keys]

Present(k) == kvs[k].version > 0
Live(id) == leases[id].granted_ttl > 0

MutexFree == todo = <<>> /\ doomed = {} /\ ~revoking

Init ==
  /\ kvs = [k \in Keys |-> NoKv]
  /\ revision = 1
  /\ compact_revision = 0
  /\ log = [r \in {} |-> {}]
  /\ leases = [id \in LeaseIds |-> NoLease]
  /\ next_lease_id = 1
  /\ todo = <<>>
  /\ doomed = {}
  /\ expired = {}
  /\ revoking = FALSE
  /\ now = 0
  /\ history = [r \in {} |-> {}]
  /\ stray = {}

(***************************************************************************)
(* Ranges.  BTreeMap::range panics when the start lies above the end.      *)
(***************************************************************************)
InRange(k, key, end) ==
  \/ end = NoEnd /\ k = key
  \/ end = OpenEnd /\ k >= key
  \/ end \in Keys /\ key <= k /\ k < end

RangePanics(key, end) == end \in Keys /\ key > end

(***************************************************************************)
(* emit: append to the log; the batch is also broadcast (EtcdWatch).       *)
(***************************************************************************)
Extend(f, r, events) ==
  [x \in DOMAIN f \cup {r} |-> IF x = r THEN events ELSE f[x]]

Emit(rev, events) ==
  /\ log' = Extend(log, rev, events)
  /\ history' = Extend(history, rev, events)

(***************************************************************************)
(* put                                                                     *)
(***************************************************************************)
\* Mutant: a put leaves the key in the list of the lease it had before.
MutDetach(ls, id, key) == ls

\* Drop key from the list of lease id (no effect when there is no such lease).
Detach(ls, id, key) ==
  [i \in LeaseIds |-> IF i = id THEN [ls[i] EXCEPT !.keys = @ \ {key}] ELSE ls[i]]

\* Mutant: only the first key of a lease is registered.
MutAttach(ls, id, key) ==
  [i \in LeaseIds |-> IF i = id /\ ls[i].granted_ttl > 0 /\ ls[i].keys = {}
                      THEN [ls[i] EXCEPT !.keys = {key}] ELSE ls[i]]

\* Add key to the list of lease id, if there is such a lease.
Attach(ls, id, key) ==
  [i \in LeaseIds |-> IF i = id /\ ls[i].granted_ttl > 0
                      THEN [ls[i] EXCEPT !.keys = @ \cup {key}] ELSE ls[i]]

NewKv(op, rev) ==
  LET prev == kvs[op.key]
  IN  [value |-> IF op.ignore_value THEN prev.value ELSE op.value,
       create_revision |-> IF Present(op.key) THEN prev.create_revision ELSE rev,
       mod_revision |-> rev,
       version |-> prev.version + 1,
       lease |-> IF op.ignore_lease THEN prev.lease ELSE op.lease]

DoPut(op) ==
  LET rev   == revision + 1
      prev  == kvs[op.key]
      entry == NewKv(op, rev)
  IN  /\ revision' = rev
      /\ leases' = Attach(Detach(leases, prev.lease, op.key), entry.lease, op.key)
      /\ kvs' = [kvs EXCEPT ![op.key] = entry]
      /\ Emit(rev, {[type |-> "PUT", key |-> op.key, kv |-> entry, prev |-> prev]})
      /\ stray' = IF entry.lease = 0 \/ Live(entry.lease)
                  THEN stray \ {op.key} ELSE stray \cup {op.key}

(***************************************************************************)
(* delete_range: one revision for all keys, none when no key matches       *)
(***************************************************************************)
Tombstone(k, rev) ==
  [value |-> 0, create_revision |-> kvs[k].create_revision, mod_revision |-> rev,
   version |-> 0, lease |-> 0]

\* Mutant: a range deletion reports its first key only.
MutDeleteEvents(gone, rev) ==
  {[type |-> "DELETE", key |-> k, kv |-> Tombstone(k, rev), prev |-> kvs[k]] :
     k \in {j \in gone : \A i \in gone : j <= i}}

DeleteEvents(gone, rev) ==
  {[type |-> "DELETE", key |-> k, kv |-> Tombstone(k, rev), prev |-> kvs[k]] : k \in gone}

DoDelete(key, end) ==
  LET rev  == revision + 1
      gone == {k \in Keys : Present(k) /\ InRange(k, key, end)}
  IN  IF gone = {}
      THEN UNCHANGED <<kvs, revision, leases, log, history, stray>>
      ELSE /\ revision' = rev
           /\ leases' = [i \in LeaseIds |->
                [leases[i] EXCEPT !.keys = {k \in @ : ~(k \in gone /\ kvs[k].lease = i)}]]
           /\ kvs' = [k \in Keys |-> IF k \in gone THEN NoKv ELSE kvs[k]]
           /\ Emit(rev, DeleteEvents(gone, rev))
           /\ stray' = stray \ gone

(***************************************************************************)
(* The KV service                                                          *)
(***************************************************************************)
Accepting == MutexFree /\ revision < MaxRevision

Put(op) ==
  /\ Accepting /\ op.type = "put"
  /\ DoPut(op)
  /\ UNCHANGED <<compact_revision, next_lease_id, todo, doomed, expired,
                 revoking, now>>

DeleteRange(op) ==
  /\ Accepting /\ op.type = "delete" /\ ~RangePanics(op.key, op.end)
  /\ DoDelete(op.key, op.end)
  /\ UNCHANGED <<compact_revision, next_lease_id, todo, doomed, expired,
                 revoking, now>>

\* A missing key compares as zero, an unknown target as true, and an unknown
\* result as EQUAL.
EvalCompare(c) ==
  \/ c.target \notin KvFields
  \/ LET v == kvs[c.key][c.target]
     IN  \/ c.result \notin {"GREATER", "LESS", "NOT_EQUAL"} /\ v = c.operand
         \/ c.result = "GREATER" /\ v > c.operand
         \/ c.result = "LESS" /\ v < c.operand
         \/ c.result = "NOT_EQUAL" /\ v # c.operand

Branch(op) ==
  IF \A c \in op.compare : EvalCompare(c) THEN op.success ELSE op.failure

Txn(op) ==
  /\ Accepting /\ op.type = "txn"
  /\ todo' = Branch(op)
  /\ UNCHANGED <<kvs, revision, compact_revision, log, leases, next_lease_id,
                 doomed, expired, revoking, now, history, stray>>

\* exec_op.  A range that panics unwinds the handler: the mutex is released
\* and the operations already executed stay.
ExecOp ==
  /\ todo # <<>>
  /\ LET op == Head(todo)
     IN  \/ /\ op.type = "put"
            /\ DoPut(op)
            /\ todo' = Tail(todo)
         \/ /\ op.type = "delete" /\ ~RangePanics(op.key, op.end)
            /\ DoDelete(op.key, op.end)
            /\ todo' = Tail(todo)
         \/ /\ op.type = "range" /\ ~RangePanics(op.key, op.end)
            /\ todo' = Tail(todo)
            /\ UNCHANGED <<kvs, revision, leases, log, history, stray>>
         \/ /\ op.type \in {"delete", "range"} /\ RangePanics(op.key, op.end)
            /\ todo' = <<>>
            /\ UNCHANGED <<kvs, revision, leases, log, history, stray>>
         \/ /\ op.type = "txn"
            /\ todo' = Branch(op) \o Tail(todo)
            /\ UNCHANGED <<kvs, revision, leases, log, history, stray>>
  /\ UNCHANGED <<compact_revision, next_lease_id, doomed, expired, revoking,
                 now>>

\* Mutant: compaction is off by one.
MutRetained(rev) == {r \in DOMAIN log : r > rev + 1}

Retained(rev) == {r \in DOMAIN log : r > rev}

Compact(rev) ==
  /\ MutexFree
  /\ rev > compact_revision
  /\ compact_revision' = rev
  /\ log' = [r \in Retained(rev) |-> log[r]]
  /\ UNCHANGED <<kvs, revision, leases, next_lease_id, todo, doomed, expired,
                 revoking, now, history, stray>>

(***************************************************************************)
(* The Lease service                                                       *)
(***************************************************************************)

ActualTtl(ttl) == IF ttl > 1 THEN ttl ELSE 1

\* An existing entry with the same id is overwritten, its key list included;
\* an allocated id may be one that a client chose before.
LeaseGrant(id, ttl) ==
  LET actual_id == IF id = 0 THEN next_lease_id ELSE id
  IN  /\ MutexFree
      /\ actual_id \in LeaseIds
      /\ next_lease_id' = IF id = 0 THEN next_lease_id + 1 ELSE next_lease_id
      /\ leases' = [leases EXCEPT ![actual_id] =
                      [granted_ttl |-> ActualTtl(ttl),
                       deadline |-> now + ActualTtl(ttl), keys |-> {}]]
      /\ stray' = stray \cup leases[actual_id].keys
      /\ UNCHANGED <<kvs, revision, compact_revision, log, todo, doomed,
                     expired, revoking, now, history>>

\* The first half of lease_revoke; DropKey is its loop.
RemoveLease(id) ==
  /\ leases' = [leases EXCEPT ![id] = NoLease]
  /\ doomed' = leases[id].keys
  /\ UNCHANGED <<kvs, revision, compact_revision, log, next_lease_id, todo,
                 now, history, stray>>

LeaseRevoke(id) ==
  /\ MutexFree /\ Live(id)
  /\ RemoveLease(id)
  /\ UNCHANGED <<expired, revoking>>

DropKey(k) ==
  /\ k \in doomed
  /\ doomed' = doomed \ {k}
  /\ DoDelete(k, NoEnd)
  /\ UNCHANGED <<compact_revision, next_lease_id, todo, expired, revoking,
                 now>>

LeaseKeepalive(id) ==
  /\ MutexFree /\ Live(id)
  /\ leases' = [leases EXCEPT ![id].deadline = now + leases[id].granted_ttl]
  /\ UNCHANGED <<kvs, revision, compact_revision, log, next_lease_id, todo,
                 doomed, expired, revoking, now, history, stray>>

(***************************************************************************)
(* The lease expiry task: the list of expired leases is taken under one    *)
(* lock and revoked, in id order, under a second one.                      *)
(***************************************************************************)
Expired(id) == Live(id) /\ leases[id].deadline <= now

GcScan ==
  /\ MutexFree /\ expired = {}
  /\ expired' = {id \in LeaseIds : Expired(id)}
  /\ UNCHANGED <<kvs, revision, compact_revision, log, leases, next_lease_id,
                 todo, doomed, revoking, now, history, stray>>

\* Mutant: the expiry task keeps the mutex after its last revocation.
MutGcRevoke(id) ==
  /\ todo = <<>> /\ doomed = {}
  /\ id \in expired /\ \A other \in expired : id <= other
  /\ expired' = expired \ {id}
  /\ revoking' = TRUE
  /\ RemoveLease(id)

GcRevoke(id) ==
  /\ todo = <<>> /\ doomed = {}
  /\ id \in expired /\ \A other \in expired : id <= other
  /\ expired' = expired \ {id}
  /\ revoking' = (expired' # {})
  /\ RemoveLease(id)

Tick ==
  /\ now < MaxTime
  /\ now' = now + 1
  /\ UNCHANGED <<kvs, revision, compact_revision, log, leases, next_lease_id,
                 todo, doomed, expired, revoking, history, stray>>

\* What needs the mutex besides the renewal of a lease.
Handlers ==
  \/ \E op \in Ops : Put(op) \/ DeleteRange(op) \/ Txn(op)
  \/ ExecOp
  \/ \E rev \in CompactRevs : Compact(rev)
  \/ \E id \in LeaseIds \cup {0}, ttl \in Ttls : LeaseGrant(id, ttl)
  \/ \E id \in LeaseIds : LeaseRevoke(id) \/ GcRevoke(id)
  \/ \E k \in Keys : DropKey(k)
  \/ GcScan

StoreNext ==
  \/ Handlers
  \/ \E id \in LeaseIds : LeaseKeepalive(id)
  \/ Tick

Spec == Init /\ [][StoreNext]_storeVars

(***************************************************************************)
(* Properties                                                              *)
(***************************************************************************)
\* Every variable has its type, and revisions lie in the past.
TypeOK ==
  /\ kvs \in [Keys -> Kv]
  /\ revision \in Nat \ {0} /\ compact_revision \in Nat
  /\ DOMAIN log \subseteq Nat /\ DOMAIN history \subseteq Nat
  /\ \A r \in DOMAIN log : log[r] \subseteq Event
  /\ \A r \in DOMAIN history : history[r] \subseteq Event
  /\ leases \in [LeaseIds -> LeaseEntry]
  /\ next_lease_id \in Nat \ {0}
  /\ todo \in Seq(Ops)
  /\ doomed \subseteq Keys /\ expired \subseteq LeaseIds /\ revoking \in BOOLEAN
  /\ now \in Nat
  /\ stray \subseteq Keys

\* A key listed under a lease carries that lease, and a key a revocation has
\* still to delete carried the revoked lease: put and delete_range keep the
\* lists exact, so lease_revoke never deletes a key that moved elsewhere.
LeaseKeysSound ==
  /\ \A id \in LeaseIds : \A k \in leases[id].keys : kvs[k].lease = id
  /\ \A id \in LeaseIds : leases[id].keys \cap doomed = {}
  /\ \A k \in doomed : Present(k) /\ kvs[k].lease # 0

\* What an event leaves behind.
Outcome(e) == IF e.type = "PUT" THEN e.kv ELSE NoKv

Touched(k) == {r \in DOMAIN history : \E e \in history[r] : e.key = k}

\* Replaying the emitted batches yields the store: each key is what the last
\* event on it left, so a client that applies every event has the contents.
StateIsReplay ==
  \A k \in Keys :
    \/ Touched(k) = {} /\ kvs[k] = NoKv
    \/ \E r \in Touched(k) :
         /\ \A x \in Touched(k) : x <= r
         /\ \E e \in history[r] : e.key = k /\ kvs[k] = Outcome(e)

\* The log holds, unchanged, every batch after the compaction revision, and
\* revisions have no holes: a replay from any later revision is complete.
LogComplete ==
  /\ DOMAIN history = 2..revision
  /\ DOMAIN log \subseteq DOMAIN history
  /\ \A r \in DOMAIN log : log[r] = history[r]
  /\ \A r \in 2..revision : r > compact_revision => r \in DOMAIN log

\* A key outlives its lease in two ways only: it was put under a lease that did
\* not exist, or lease_grant overwrote its lease.  Otherwise it is in the list
\* of the live lease it names, or the revocation in progress is about to delete
\* it, whatever transactions, moves between leases and stale expiry lists did.
KeysDieWithLease ==
  \A k \in Keys : kvs[k].lease # 0 =>
    \/ Live(kvs[k].lease) /\ k \in leases[kvs[k].lease].keys
    \/ k \in doomed
    \/ k \in stray

=============================================================================
