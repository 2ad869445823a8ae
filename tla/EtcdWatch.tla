----------------------------- MODULE EtcdWatch -----------------------------
(***************************************************************************)
(* The Watch service (rust/etcd-mem/src/svc.rs) on top of the store.       *)
(*                                                                         *)
(* Each Watch RPC is a task with its own receiver on the store's broadcast *)
(* channel and a list of watch handles.  The channel keeps the last        *)
(* Capacity batches; a receiver that fell further behind is told so and    *)
(* continues with the oldest batch still kept.  A handler step after its   *)
(* lock section touches task-local state only, so each select arm is one   *)
(* step, taken at its lock section.  Responses go to the client in order   *)
(* through an mpsc channel; a full one delays the next step of the task.   *)
(* A progress request only reads the revision, so it is not a step here.   *)
(*                                                                         *)
(* A handle carries four auxiliary fields: the start its request asked for *)
(* (start; the code does not keep it), the revision at its creation (born),*)
(* the revisions delivered on it (got), and whether they came in           *)
(* increasing order, none twice (ordered).                                 *)
(***************************************************************************)
EXTENDS EtcdStore

CONSTANTS
  Streams,    \* Watch RPCs
  Watches,    \* places for watch handles
  WatchReqs,  \* create requests clients send
  Capacity,   \* batches the broadcast channel keeps
  MaxWatchId  \* bound: a stream allocates no watch id above this one

ASSUME WatchAssumption ==
  /\ Streams \subseteq Nat \ {0}
  /\ Capacity \in Nat \ {0}
  /\ MaxWatchId \in Nat
  /\ WatchReqs \subseteq [watch_id : Nat, start : Nat, key : Keys,
                          end : Keys \cup {NoEnd, OpenEnd},
                          filter : SUBSET {"PUT", "DELETE"}]

VARIABLES
  cursor,        \* the revision each receiver reads next, 0 for no stream
  next_watch_id, \* the next id each stream allocates
  watch          \* the watch handles

watchVars == <<cursor, next_watch_id, watch>>
vars == <<storeVars, watchVars>>

Handle == [stream : Streams \cup {0}, id : Nat, key : Keys \cup {0},
           end : Keys \cup {NoEnd, OpenEnd}, filter : SUBSET {"PUT", "DELETE"},
           delivered_through : Nat, start : Nat, born : Nat, got : SUBSET Nat,
           ordered : BOOLEAN]

NoWatch == [stream |-> 0, id |-> 0, key |-> 0, end |-> 0, filter |-> {},
            delivered_through |-> 0,
            start |-> 0, born |-> 0, got |-> {}, ordered |-> TRUE]

On(w) == watch[w].stream # 0
Open(s) == cursor[s] # 0

WInit ==
  /\ Init
  /\ cursor = [s \in Streams |-> 0]
  /\ next_watch_id = [s \in Streams |-> 1]
  /\ watch = [w \in Watches |-> NoWatch]

\* The stream task starts: subscribe under the lock.
OpenStream(s) ==
  /\ MutexFree /\ ~Open(s)
  /\ cursor' = [cursor EXCEPT ![s] = revision + 1]
  /\ next_watch_id' = [next_watch_id EXCEPT ![s] = 1]
  /\ UNCHANGED <<storeVars, watch>>

Matches(h, e) == e.type \notin h.filter /\ InRange(e.key, h.key, h.end)

\* The revisions of batches, among revs, with an event the handle wants.
Wanted(h, batches, revs) == {r \in revs : \E e \in batches[r] : Matches(h, e)}

\* Mutant: the replay misses the first revision.
MutEventsSince(start) == {r \in DOMAIN log : r > start + 1}

EventsSince(start) == {r \in DOMAIN log : r > start}

\* The handle a create request makes.  Replay covers the log from start on;
\* everything up to the current revision counts as delivered.
NewHandle(s, id, req) ==
  LET replayed == IF req.start > 0 THEN EventsSince(req.start - 1) ELSE {}
  IN  [stream |-> s, id |-> id, key |-> req.key, end |-> req.end,
       filter |-> req.filter, delivered_through |-> revision,
       start |-> req.start, born |-> revision,
       got |-> Wanted(req, log, replayed), ordered |-> TRUE]

CreateWatch(s, w, req) ==
  LET wid == IF req.watch_id # 0 THEN req.watch_id ELSE next_watch_id[s]
  IN  /\ Open(s) /\ MutexFree /\ ~On(w)
      /\ next_watch_id[s] <= MaxWatchId
      /\ next_watch_id' = IF req.watch_id # 0 THEN next_watch_id
                          ELSE [next_watch_id EXCEPT ![s] = @ + 1]
      /\ watch' = IF req.start > 0 /\ req.start <= compact_revision
                  THEN watch
                  ELSE [watch EXCEPT ![w] = NewHandle(s, wid, req)]
      /\ UNCHANGED <<storeVars, cursor>>

\* handles.retain: every handle of the stream with that id goes.
CancelWatch(s, id) ==
  /\ Open(s)
  /\ watch' = [w \in Watches |-> IF watch[w].stream = s /\ watch[w].id = id
                                 THEN NoWatch ELSE watch[w]]
  /\ UNCHANGED <<storeVars, cursor, next_watch_id>>

\* The client went away: the task ends and its handles with it.
Disconnect(s) ==
  /\ Open(s)
  /\ cursor' = [cursor EXCEPT ![s] = 0]
  /\ watch' = [w \in Watches |-> IF watch[w].stream = s THEN NoWatch ELSE watch[w]]
  /\ UNCHANGED <<storeVars, next_watch_id>>

Behind(s) == revision + 1 - cursor[s]

\* One batch offered to one handle.
Deliver(h, r) ==
  IF r <= h.delivered_through THEN h
  ELSE LET new == Wanted(h, history, {r})
       IN  [h EXCEPT !.delivered_through = r,
                     !.got = @ \cup new,
                     !.ordered = @ /\ \A n \in new, o \in h.got : o < n]

\* Mutant: a lag of exactly the channel's capacity is not received.
MutRecvBatch(s) ==
  /\ Open(s) /\ Behind(s) > 0 /\ Behind(s) < Capacity
  /\ cursor' = [cursor EXCEPT ![s] = @ + 1]
  /\ watch' = [w \in Watches |-> IF watch[w].stream = s
                                 THEN Deliver(watch[w], cursor[s]) ELSE watch[w]]
  /\ UNCHANGED <<storeVars, next_watch_id>>

RecvBatch(s) ==
  /\ Open(s) /\ Behind(s) > 0 /\ Behind(s) <= Capacity
  /\ cursor' = [cursor EXCEPT ![s] = @ + 1]
  /\ watch' = [w \in Watches |-> IF watch[w].stream = s
                                 THEN Deliver(watch[w], cursor[s]) ELSE watch[w]]
  /\ UNCHANGED <<storeVars, next_watch_id>>

\* Mutant: lag is logged and the stream goes on.
MutRecvLagged(s) ==
  /\ Open(s) /\ Behind(s) > Capacity
  /\ cursor' = [cursor EXCEPT ![s] = revision + 1 - Capacity]
  /\ UNCHANGED <<storeVars, next_watch_id, watch>>

\* RecvError::Lagged: every handle is cancelled.
RecvLagged(s) ==
  /\ Open(s) /\ Behind(s) > Capacity
  /\ cursor' = [cursor EXCEPT ![s] = revision + 1 - Capacity]
  /\ watch' = [w \in Watches |-> IF watch[w].stream = s THEN NoWatch ELSE watch[w]]
  /\ UNCHANGED <<storeVars, next_watch_id>>

WatchNext ==
  \E s \in Streams :
    \/ OpenStream(s)
    \/ \E w \in Watches, req \in WatchReqs : CreateWatch(s, w, req)
    \/ \E w \in Watches : watch[w].stream = s /\ CancelWatch(s, watch[w].id)
    \/ Disconnect(s)
    \/ RecvBatch(s)
    \/ RecvLagged(s)

WNext == WatchNext \/ (StoreNext /\ UNCHANGED watchVars)

WSpec == WInit /\ [][WNext]_vars

\* A stream task keeps receiving as long as its client drains the responses.
WFairness ==
  /\ \A s \in Streams : WF_vars(RecvBatch(s) \/ RecvLagged(s))

WFairSpec == WSpec /\ WFairness

(***************************************************************************)
(* Properties                                                              *)
(***************************************************************************)
\* Every variable of the Watch service has its type.
WTypeOK ==
  /\ cursor \in [Streams -> Nat]
  /\ next_watch_id \in [Streams -> Nat]
  /\ watch \in [Watches -> Handle]

\* The revisions up to delivered_through that the request asked for: from its
\* start on, where 0 is "from now".
Asked(h) == {r \in DOMAIN history :
               /\ r <= h.delivered_through
               /\ IF h.start > 0 THEN h.start <= r ELSE h.born < r}

\* The revisions that a start in the future does not hold back, although they
\* lie before it: the handle has no start, so the broadcast arm cannot tell.
Premature(h) == {r \in DOMAIN history :
                   r <= h.delivered_through /\ h.born < r /\ r < h.start}

\* No gaps: a live handle has delivered exactly the matching revisions that were
\* asked for, up to delivered_through, and the premature ones, across replay,
\* compaction of the log, lag of the broadcast channel and other handles.
GapFree ==
  \A w \in Watches : On(w) =>
    LET h == watch[w] IN h.got = Wanted(h, history, Asked(h) \cup Premature(h))

\* In order and once: no handle is sent a revision that is not above all
\* revisions sent on it before, although replay and broadcast overlap.
InOrder == \A w \in Watches : watch[w].ordered

\* What a client is sent: every matching revision it asked for, in order and
\* once, and nothing else unless its start was in the future, in which case it
\* is sent every matching revision since the handle was created.
ExactDelivery == GapFree /\ InOrder

\* The receiver never runs ahead of a handle, and no handle ahead of the store:
\* what is still in the channel or lost from it is what the handle lacks.
CursorCovers ==
  /\ \A s \in Streams : cursor[s] <= revision + 1
  /\ \A w \in Watches : On(w) =>
       LET h == watch[w]
       IN  /\ Open(h.stream)
           /\ cursor[h.stream] <= h.delivered_through + 1
           /\ h.delivered_through <= revision

\* The Watch service implements the abstract feed: every handle moves through
\* the revisions one by one until it is dropped.
Feed == INSTANCE WatchFeed WITH
  Watchers <- Watches,
  committed <- revision,
  pos <- [w \in Watches |-> watch[w].delivered_through]

FeedSpec == Feed!FeedSpec

\* Every live handle is brought up to each revision, or its client is told that
\* it was cancelled.
CatchesUp ==
  \A w \in Watches, r \in 2..MaxRevision :
    On(w) /\ revision >= r ~> ~On(w) \/ watch[w].delivered_through >= r

=============================================================================
