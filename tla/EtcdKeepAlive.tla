--------------------------- MODULE EtcdKeepAlive ---------------------------
(***************************************************************************)
(* The keep-alive streams of rust/etcd-mem/src/svc.rs beside the rest of   *)
(* the store.  A stream's task answers through a channel of bounded        *)
(* capacity, and it waits for room in that channel while it owns the       *)
(* store's mutex: until the client reads or goes away, every handler and   *)
(* the expiry task wait with it.                                           *)
(***************************************************************************)
EXTENDS EtcdStore

CONSTANTS
  KaStreams,  \* keep-alive streams
  KaCapacity, \* responses the channel of a stream holds
  Nobody      \* no stream owns the mutex

ASSUME KeepAliveAssumption == KaCapacity \in Nat /\ Nobody \notin KaStreams

VARIABLES
  owner,     \* the stream that owns the mutex while it waits for room
  open,      \* streams whose client is there
  buffered   \* stream -> responses the client has not read yet

streamVars == <<owner, open, buffered>>
kaVars == <<storeVars, streamVars>>

KaInit ==
  /\ Init
  /\ owner = Nobody /\ open = {} /\ buffered = [s \in KaStreams |-> 0]

\* Another handler, or the expiry task, makes a step.
Unblocked == owner = Nobody /\ UNCHANGED streamVars

\* lease_keep_alive.
OpenKeepAlive(s) ==
  /\ s \notin open /\ owner # s
  /\ open' = open \cup {s} /\ buffered' = [buffered EXCEPT ![s] = 0]
  /\ UNCHANGED <<storeVars, owner>>

\* The store's part: a lease that does not exist is only reported.
Renew(id) ==
  \/ LeaseKeepalive(id)
  \/ MutexFree /\ ~Live(id) /\ UNCHANGED storeVars

\* One request is handled; without room for the response the task keeps the
\* mutex.
KeepAlive(s, id) ==
  /\ owner = Nobody /\ s \in open
  /\ Renew(id)
  /\ IF buffered[s] < KaCapacity
     THEN buffered' = [buffered EXCEPT ![s] = @ + 1] /\ UNCHANGED owner
     ELSE owner' = s /\ UNCHANGED buffered
  /\ UNCHANGED open

\* The pending send finds room, or fails because the receiver was dropped.
Send(s) ==
  /\ owner = s /\ (s \in open => buffered[s] < KaCapacity)
  /\ owner' = Nobody
  /\ buffered' = IF s \in open THEN [buffered EXCEPT ![s] = @ + 1] ELSE buffered
  /\ UNCHANGED <<storeVars, open>>

\* The client reads a response, or goes away.
Read(s) ==
  /\ s \in open /\ buffered[s] > 0
  /\ buffered' = [buffered EXCEPT ![s] = @ - 1]
  /\ UNCHANGED <<storeVars, owner, open>>

Close(s) ==
  /\ s \in open
  /\ open' = open \ {s}
  /\ UNCHANGED <<storeVars, owner, buffered>>

KaNext ==
  \/ Unblocked /\ Handlers
  \/ Tick /\ UNCHANGED streamVars
  \/ \E s \in KaStreams : \/ OpenKeepAlive(s) \/ Send(s) \/ Read(s) \/ Close(s)
                        \/ \E id \in LeaseIds : KeepAlive(s, id)

\* The owner of the mutex runs to completion, the clock advances, and tokio's
\* mutex is first come first served, so the expiry task gets it although other
\* handlers keep taking it.  A task whose send can go on is scheduled.  Nothing
\* makes a client read.
KaFairness ==
  /\ WF_kaVars(Unblocked /\ ExecOp)
  /\ \A k \in Keys : WF_kaVars(Unblocked /\ DropKey(k))
  /\ SF_kaVars(Unblocked /\ GcScan)
  /\ \A id \in LeaseIds : SF_kaVars(Unblocked /\ GcRevoke(id))
  /\ WF_kaVars(Tick /\ UNCHANGED streamVars)
  /\ \A s \in KaStreams : WF_kaVars(Send(s))

KaSpec == KaInit /\ [][KaNext]_kaVars /\ KaFairness

(***************************************************************************)
(* Property                                                                *)
(***************************************************************************)
\* A stream's task holds the mutex and its connected client has left no room.
Wedged == \E s \in KaStreams : owner = s /\ s \in open /\ buffered[s] >= KaCapacity

\* The expiry task gets to every lease that is past its deadline and not renewed,
\* unless from some point on one client neither reads nor goes away while its
\* keep-alive task owns the mutex: that alone stops it.
ExpiredLeaseRevoked ==
  []<>~Wedged => \A id \in LeaseIds : Expired(id) ~> ~Expired(id)

=============================================================================
