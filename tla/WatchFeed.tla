----------------------------- MODULE WatchFeed -----------------------------
(***************************************************************************)
(* What a watch promises, without streams, channels or locks.              *)
(*                                                                         *)
(* Revisions are committed one after another.  A watcher that is on has    *)
(* been told everything up to pos[w]; it is only ever taken to the next    *)
(* revision, never past one, and it may be dropped at any time (its client *)
(* is told, and starts again).                                             *)
(***************************************************************************)
EXTENDS Integers

CONSTANT Watchers

VARIABLES
  committed, \* the last committed revision
  pos        \* the revision up to which each watcher has been told, or Off

Off == 0

FeedInit ==
  /\ committed = 1
  /\ pos = [w \in Watchers |-> Off]

Commit ==
  /\ committed' = committed + 1
  /\ UNCHANGED pos

\* A watcher joins once the history it asked for has been replayed to it.
Join(w) ==
  /\ pos[w] = Off
  /\ pos' = [pos EXCEPT ![w] = committed]
  /\ UNCHANGED committed

\* Some watchers learn of the revision after the last one they know.
Advance(W) ==
  /\ \A w \in W : pos[w] # Off /\ pos[w] < committed
  /\ pos' = [w \in Watchers |-> IF w \in W THEN pos[w] + 1 ELSE pos[w]]
  /\ UNCHANGED committed

Drop(W) ==
  /\ pos' = [w \in Watchers |-> IF w \in W THEN Off ELSE pos[w]]
  /\ UNCHANGED committed

FeedNext ==
  \/ Commit
  \/ \E w \in Watchers : Join(w)
  \/ \E W \in SUBSET Watchers : Advance(W) \/ Drop(W)

FeedSpec == FeedInit /\ [][FeedNext]_<<committed, pos>>
=============================================================================
