# Kubenyx in TLA+

Kubenyx boots small Kubernetes clusters from Nix-built images. Its own code is a
set of Rust tools (one multicall binary) and NixOS modules around unmodified
Kubernetes components. This directory holds TLA+ models of the parts of that code
that keep state and meet concurrency, failures or restarts, the TLC runs that
check them on small instances, and proofs checked by TLAPS that hold for every
instance. `PROJECT.json` is the index: components, runs, mutants, the map from
definitions to source lines, findings, hazards and theorems.

## The system and its parts

| Part | Source | State | Operations and interactions |
| --- | --- | --- | --- |
| etcd-mem store | `rust/etcd-mem/src/store.rs`, `svc.rs`, `lib.rs` | key-value entries, revision, event log, leases | put, delete_range, txn, compact, lease RPCs under one tokio mutex; an expiry task takes the same mutex twice per round; every mutation is appended to a log and broadcast |
| etcd-mem Watch | `svc.rs` | per stream: broadcast receiver, handles | create (with replay), cancel, progress; receives batches, may lag |
| etcd-mem keep-alive | `svc.rs` | bounded response channel | renews leases while holding the mutex across a send |
| load balancer | `rust/kubenyx-lb` | health of backends, connections, drain flag | probe thread, accept loop, one thread pair per connection, signal handler |
| PKI | `rust/kubenyx-pki` | key, certificate and fingerprint files | idempotent issuing at each boot, a custody channel between server and agents |
| snapshots | `rust/kubenyx-snap` | owned VMM processes, snapshot files, manifests | take, resume, cycle, for one VM and for a mesh; signal cleanup; identity gate |
| readiness wrapper | `rust/kubenyx-ready` | child process, notified flag | spawn, probe, forward signals, notify |
| clock stepping | `rust/kubenyx-clockstep` | the guest's clock | datagrams after a resume |
| etcd membership | `modules/datastore.nix` | member list, data directory, join state | join probe before start, member guard, reconciler, on every server at once |
| launcher | `lib/microvm.nix`, `guests/microvm.nix` | VM processes | ordered boot and shutdown |
| declarative modules, libraries, packages | `modules/*.nix`, `lib/*.nix`, `pkgs/*.nix` | none at run time | evaluated at build time |

What makes them hard: several operations under one lock whose effects are visible
before it is released; a list taken under one lock and used under another; replay
that overlaps with a live feed; a bounded channel that drops its oldest batches;
requests in an order no client library would send; signals and crashes between two
writes; members that start, join and disappear while others decide about them.
`PROJECT.json` lists each such hazard at its line.

## Modules

- **EtcdStore**: the store, the handlers that change it and the expiry task. Handlers
  that perform one store operation are one step. `Txn`, `LeaseRevoke` and the expiry
  task perform several; each operation is broadcast at once and may be received before
  the mutex is released, so these are one step per operation (`ExecOp`, `DropKey`,
  `GcRevoke`), and `MutexFree` keeps everyone else out until `todo`, `doomed` and
  `revoking` say that the owner is done. A panic in a range query (start above end)
  ends the transaction and leaves what was executed. `history` (every batch ever
  emitted) and `stray` (the keys that were put under a lease that did not exist, or whose
  lease was granted again) are auxiliary.
- **EtcdWatch** extends EtcdStore with stream tasks. `cursor[s]` is the revision the
  stream's broadcast receiver reads next; since every revision is one batch, the
  channel's contents are determined by `revision` and `Capacity`. The auxiliary fields
  `start`, `born`, `got` and `ordered` of a handle record what the client asked for, at
  which revision, and what it was sent.
- **WatchFeed**: the abstract specification. A store commits revisions; a watcher joins
  at the current one, advances one revision at a time with others, or is dropped. It
  cannot skip.
- **LoadBalancer**: the probe thread, the accept loop, the two pumps of each connection and
  the signal handler of `kubenyx-lb`, which share atomics only; every step is one atomic
  access or one system call that decides something. A handler reads the flags of the
  backends one at a time before it orders them, and a spawn may panic. The failure counter
  keeps its width (`FailsMod` stands for 2^32). The environment changes backends, connects,
  closes or wedges peers, sends the signal and lets time pass.
- **PkiServer**: `kubenyx-pki` as server and as `mint-ca`. A file is absent, old or new
  because `write_private` renames a synced temporary file; one step per file written,
  and `Crash` between any two. Key pairs are numbered in the order of their generation,
  so "this certificate belongs to that key" is an equation. Renewal windows,
  configurations and trust roots, new ones or former ones (`kept`), are events of the
  environment. The auxiliary `torn` records what a killed run was reissuing a leaf for.
- **PkiAgent**: the agent's renderer, the path unit that starts it, and an operator who
  ships the credential directory file by file.
- **EtcdKeepAlive** extends EtcdStore with keep-alive streams. A stream's task renews the
  lease and then waits for room in a bounded channel with the mutex in hand (`owner`);
  every step of the store happens only when nobody waits like that.
- **SnapIdentity**: what a snapshot is keyed to and the rules that compare it with a host,
  as operators without state. CPUs, templates and builds are members of small sets; a
  template's digest ignores the layout of its file, as the canonical text does.
- **SnapTake**: `take`, `take --sock` and `mesh-take` step by step on one directory that
  is used again. Guests count events and learn of each other's, so that "consistent cut"
  is a statement about the counts in the snapshot files. A command fails or is killed
  between any two steps, and a VMM that was asked for a snapshot goes on writing it.
  Resuming is the gate's decision; a resumed VMM has no configuration file, and the kill at
  the end of a mesh's take may miss VMMs.
- **SnapResume**: the threads of the resume verbs, `die()` and the signal handler over the
  table of owned VMMs, one atomic access at a time; the joins, probes and deadlines of the
  main thread; the datagrams for the guests' clocks and the loop of `kubenyx-clockstep`.
- **Ready**: the readiness wrapper, with signals that arrive before, between and after the
  installation of its two handlers and around the reaping of the component.
- **Custody**: `kubenyx-pki serve`, the `ca-fetch` unit of every server and the start of
  its PKI. A connection is queued, served, counted or failed; its client gets the bundle,
  gives up or vanishes. A bundle is a number of files in archive order.
- **EtcdJoin**: the member guard, the join probe and the reconciler of `datastore.nix`, on
  every server at once. A cluster is named by the member set it was founded with, because
  etcd derives the cluster id from it; etcd itself is external (quorum, learners, one
  learner at a time, published names). `setting` is the deployment: a first boot, a growth
  from one or from several servers, or a shrink. A server that is configured as the only
  one listens on loopback and answers nobody else.
- **MCEtcdStore**, **MCEtcdKeepAlive**, **MCEtcdWatch**, **MCLoadBalancer**,
  **MCPkiServer**, **MCSnapTake**, **MCEtcdJoin**: request sets, deployments, restricted
  environments and bounds for TLC. The other modules are checked as they are.
- **EtcdProofs** (the store, the keep-alive streams and the Watch service),
  **LoadBalancerProofs**, **PkiServerProofs**, **SnapResumeProofs**, **SnapTakeProofs**,
  **ReadyProofs**, **CustodyProofs**, **EtcdJoinProofs**: theorems and proofs.

Keys are numbers in byte order and values are numbers. An absent entry is the record
of zeroes that the code's `unwrap_or` defaults amount to. The clock counts seconds.

## Runs

| Run | Shows |
| --- | --- |
| `store_kv` | The log is a complete and faithful history: replaying it yields the contents (`StateIsReplay`), revisions have no holes and survive compaction (`LogComplete`). With arbitrary clients a lease lists, and a revocation deletes, only keys that carry it (`LeaseKeysSound`), and a key outlives its lease only when it was put under a lease that did not exist or its lease was granted again (`KeysDieWithLease`). Requests include nested transactions and one that panics half way. |
| `store_lease` | Beside all other handlers and a keep-alive stream whose task waits for its client with the mutex in hand, the expiry task gets to every lease past its deadline, unless one client never reads again and never goes away (`ExpiredLeaseRevoked`). |
| `watch` | A live handle has been sent every matching revision that was asked for, in order and once, and nothing else but the revisions that a start in the future does not hold back (`ExactDelivery`); the service refines `WatchFeed`; a handle reaches every revision or is cancelled (`CatchesUp`). |
| `lb_health` | A backend is evicted after exactly the threshold of consecutive failures and readmitted on the first success, whatever the interleaving; a client that gets its descriptors and threads is dropped only when every backend refused it, although its handler read the flags one by one while probes stored them; `pick_order` is sound for every combination of flags. |
| `lb_drain` | After the signal no connection is cut before the full timeout, although the flag is visible before the deadline, unless the main thread panics; the process ends even with idle peers and with an `ACTIVE` that panics have left too high; health flags come to agree with backends that stay as they are. |
| `pki` | After crashes, renewals, configurations and trust roots, new or former ones, a run that finishes leaves leaves, packages and kubeconfigs sound and current. The exception is a leaf that a killed run was reissuing for another configuration or CA than the present ones (`Returned`; see Known differences). A run leaves current leaves alone and, left alone, always finishes. |
| `snap_take` | Snapshots of one take are a consistent cut, whatever died meanwhile (`SameTakeConsistent`); until the next take begins, a manifest stands for whole files of its own take, and its addresses are those the launcher gave (`ManifestTrue`). A file of the manifest's own take that is restored without an override runs on the VMM that wrote it, if that is recorded, and on the same locked CPU features or under its template (`GateSound`); files that a later, killed take left beside an old manifest are admitted and are not covered. What can run where it was taken is admitted (`RestorableWhereTaken`). |
| `snap_resume` | No VMM in the table is lost sight of (`Tracked`); an exit with nobody else on the way out kills all that were in the table (`ExitKillsOwned`); a verb that returns has done its work, with every snapshot in the VMM its own thread spawned, unless the old socket could not be removed, and with all datagrams sent, unless there was no socket to send from (`ReturnsSound`); a reaped pid is signalled in one narrow window only (`NoStrayKill`); clocks end up close (`ClockClose`); the process ends (`Terminates`). |
| `custody` | No server comes up on part of a bundle (`NoPartialTrust`), none waits for ever (`EveryServerDecides`), and, as long as no client gives up and no server starts over, the count means that all servers have the bundle (`CountMeansLanded`). |
| `ready` | What systemd hears is true: readiness follows a good answer at the endpoint, whoever gave it, and the exit status is the component's or says that the wrapper gave up unannounced (`ReportsTrue`); every signal the wrapper survives is forwarded (`NoSignalSwallowed`); a component is left behind in two cases, a signal before both handlers are installed and a probe that dies of a host that is no server name (`OrphanCases`); a reaped pid is signalled only between the reaping and the exit (`StrayOnlyAtExit`); a component that ends is followed (`FollowsChild`). |
| `membership` | Only the cluster that was there (or the declared one, on a first boot) ever has a quorum, unless the joining servers are a majority of the new set (`OneCluster`); under the same condition an attempt that was answered starts in the cluster that answered, and what a later attempt founds instead has no quorum (`StaysWithHealthy`); the members recorded by a server that had data vote (`RecordTruthful`); a reconciler step costs a quorum only by promoting a learner that has stopped (`QuorumKept`). |

One run ends in a counterexample, against a sentence in the code's comments:

| Run | Sentence | What happens |
| --- | --- | --- |
| `pki_reship` | `modules/pki.nix:163` "re-render kubeconfigs whenever the shipped credential directory changes" | a key that arrives after its certificate was rendered is never embedded |

### Known differences

Here the code does something else than a comment says or a reader may expect, and no run
is devoted to it. All of it is in the models unless the entry says otherwise; where a
property makes an exception for it, the entry names the property.

Store and Watch:

- `store.rs:522` "caller should call lease_revoke on each" expired lease: a lease renewed
  between the expiry task's two locks is revoked all the same.
- `store.rs:7` "keys attached to an expired lease are deleted": granting an id that is in
  use, which includes an id that `lease_grant` allocates itself (`store.rs:464-472`),
  empties its key list, and the keys stay. `KeysDieWithLease` names these keys (`stray`).
- `store.rs:4` "Txn counts as one": every operation of a transaction takes a revision of
  its own.
- `svc.rs:173` "deliver events with rev >= start_revision": a watch that starts in the
  future is sent the revisions from now on. `ExactDelivery` names them (`Premature`).
- `svc.rs:383`: a keep-alive task waits for room in its channel with the store's mutex in
  hand; a client that stays connected and does not read stops every handler and the
  expiry task. It is the premise of `ExpiredLeaseRevoked` (`Wedged`).

Load balancer:

- `kubenyx-lb/src/lib.rs:14` "a wedged receiver cannot pin a thread forever": the write
  timeout ends one pump, the other keeps the connection and its thread until the drain.
- `lib.rs:509` "exiting here would turn pressure into an outage" is about accept errors;
  `thread::spawn` panics when there is no room for a thread. In the accept loop
  (`lib.rs:497`) this ends the process, for a handler (`lib.rs:403`) it leaves `ACTIVE` too
  high, and the drain then takes its whole timeout. `DrainGrace` and `RefusedByAll` do not
  speak of connections lost that way.

Readiness wrapper:

- `kubenyx-ready/src/lib.rs:172`: a probe over TLS to a host that is no server name ends the
  wrapper and leaves the component running, unannounced; so does a signal between the spawn
  and the handlers. These are the two cases of `OrphanCases`.

PKI and custody:

- `kubenyx-pki/src/lib.rs:820` "Mint ... the service-account keypair", "re-running ... is
  safe": killed between `sa.key` and `sa.pub`, no later run writes `sa.pub`. `Converges`
  counts such a run as finished.
- `kubenyx-pki/src/lib.rs:344` "restoring a different CA must cascade into leaf
  reissuance": a run that is killed while it reissues a leaf for a new CA or a new
  configuration leaves the former fingerprint beside a new key, or a new key and
  certificate. When the former CA and configuration come back, the next run takes the leaf
  for current. `FinishedSound` and `KubeconfigSound` make this exception (`Returned`).
- `serve`'s count is of transfers: a client that gave up after its bundle was sent, or a
  server that rebooted, may be counted twice. `CountMeansLanded` is conditional for it.

Snapshots:

- `kubenyx-snap/src/lib.rs:58-60` "Every exit path — die(), SIGINT, SIGTERM — must kill
  them": a VMM between its spawn and its entry in the table (`lib.rs:1829-1830`) survives,
  so does the one whose thread finds the table full, and one that a second sweeper has
  swapped out but not yet killed may. `ExitKillsOwned` speaks of the table and one sweeper.
- `lib.rs:1862` "the joins before returning guarantee delivery": they guarantee that the
  datagrams were sent, unless the thread found no socket to bind, and datagrams are lost.
- `lib.rs:1816` ignores a failing removal of the old socket: the snapshot may then be
  loaded into the VMM that bound it. `ReturnsSound` excludes such nodes (`stuck`).
- A take that is killed after its first snapshot and before its manifest leaves an earlier
  manifest over newer files, and a resume admits them by the old identity. `GateSound` and
  `ManifestTrue` speak of the files of the manifest's own take.
- A resumed VMM has no `--config-file` (`lib.rs:1217-1221`), so a take from it is keyed to
  the host although its guest was booted under a template.
- `kill_mesh_vmms` (`lib.rs:1665`) compares working directories with the path as given and
  does not wait: VMMs of a finished `mesh-take` may still be there.

Membership:

- `modules/datastore.nix:146` speaks of "three consecutive sweeps", the loop at line 247
  waits for five. The model has `Streak` for either.
- `modules/datastore.nix:157` says that a lone bootstrap is pinned to the set the real
  cluster was born from. In a growth the declared set is the new one: a server that joins
  and meets only refusals founds a cluster with another identity. It has no quorum (this
  is `OneCluster`), but the server needs a wipe to join. When the joining servers are a
  majority of the new set (one server that becomes three), two of them may found a cluster
  with a quorum. A growth by a minority is safe.
- `modules/datastore.nix:135` "Once a healthy peer has answered we NEVER fall through to
  bootstrap": a join that expires forgets that it was answered, and the next attempt may
  bootstrap. `StaysWithHealthy` speaks of one attempt, and of the quorum afterwards.
- `modules/datastore.nix:412` "unattended growth is safe at every intermediate step": a
  learner whose etcd ended after it was in sync is promoted all the same, and a growth from
  one server to two then has no quorum until it is back. `QuorumKept` makes this exception.
- A server without data records its declaration before it has joined
  (`modules/datastore.nix:120`). `RecordTruthful` speaks of servers that had data.
- A shrink to one server has no guard, since a single server runs neither guard nor probe.

**Bounds.** Store and Watch: two keys are enough for ranges, moves between leases and a
transaction that touches both; `MaxRevision` 4 lets a key be created, replaced and deleted
and lets a small channel (`Capacity`) overflow. `MaxRevision` stops new requests, never a
transaction or revocation that has begun. Two leases allow a key to move and an id to be
granted again; compaction at 2 and at 6 is in the past and in the future of the store.
`MaxTime` stops the clock, `MaxWatchId` the allocation of watch ids. Load balancer: two
backends show rotation, eviction of one and of all; one connection is enough because
connections interact only through `ACTIVE`, the cursor and a panic of the main thread (the
proofs cover any number); `FailsMod` just above the threshold makes the counter wrap. PKI:
two CAs with a leaf each tell "its own CA" from "the other one", and `MaxEvents` 4 allows a
crash in the recovery from a crash after a change of trust roots, and the return of a
configuration or a CA; the first bundle that a run with shipped roots waits for does not
count. Snapshots: one VM on three hosts (two differ in a feature that locks nothing) with
two firecracker builds, a server with an agent, and two servers with disks that outlive the
VMs or not; two takes, so that files of both can meet in one directory; templates in two
layouts. Resume: two nodes, a table with room for both and one without, two rounds of a
cycle, and one node whose old socket may be impossible to remove. Ready: two signals meet in
every pair of windows, three changes of health lead to an answer and away from it. Custody:
two servers, four connections and two restarts or reboots allow each server a retry after a
transfer that was counted. Membership: three servers are the smallest set where a minority
joins a majority; two refused sweeps stand for five, since nothing depends on the number;
two faults allow a fault during the recovery from another, a growth from one to two and a
shrink have three, and the growth from one to three, by far the largest, has one.

**Deadlock** is not checked where a run may really come to an end: the balancer after its
exit or crash, the snapshot verbs, the wrapper after its exit, the CA hand-over, and a membership
in which every server is up, or refused, and every reconciler is done.

**Fairness.** The owner of the mutex runs to completion (weak fairness of the next operation
of a transaction or revocation) and the clock advances. The expiry task gets the mutex
although others keep taking it (strong fairness): tokio's mutex is first come, first served.
A stream task keeps receiving while its client reads (weak fairness). Nothing is assumed of
other clients. Each thread of the load balancer keeps running and time passes; nothing is
assumed of peers, backends or the signal, and accepting a waiting client is not assumed
either. The PKI unit is started again after a crash (every boot and activation starts it)
and a run goes on. Beside keep-alive streams, a task whose send can go on is scheduled (weak
fairness); that clients read is not assumed, and what happens if one never does is the
premise of `ExpiredLeaseRevoked`. The threads of the resume verbs and the signal handler are
scheduled, and their waits have deadlines in the code; nothing is assumed of VMMs, which may
never answer. The readiness wrapper is scheduled and the component obeys a signal that it
was sent. `serve` and every `ca-fetch` unit are scheduled; both have deadlines. `snap_take`
and `membership` assume no fairness: their properties are safety properties.

## Proofs

`EtcdProofs` proves of the store, for any keys, requests, leases and bounds: `TypeCorrect`,
`LogIsComplete`, `ContentsAreReplay`, `LeaseListsSound` and `LeasedKeysDie`, all of them for
arbitrary clients. `LogComplete` and `StateIsReplay` need each other only one way:
that revisions have no holes makes the revision being emitted the last one that touches
its key. `LeaseKeysSound` is strengthened by the fact that an absent key carries no
lease and that a revoked lease's keys are in no other list. `KeysDieWithLease` rests on it:
a key leaves the list of its lease with the lease itself, into `doomed`, or by being
overwritten, and the auxiliary `stray` holds exactly the keys for which the code has no list.
Every step beside any number of keep-alive streams is a step of the store or leaves it alone
(`StreamsAddNothing`), so that all of this holds there as well.

Of the Watch service it proves, for any number of streams, handles and any capacity:
`WTypeCorrect`, `WatchExact` (from `WatchGapFree` and `WatchInOrder`), `WatchCursorCovers`
and the refinement `WatchImplementsFeed`. The inductive invariant `WInv` says of each handle
that its stream's cursor is at most one past `delivered_through`, that this is at most the
store's revision, and that `got` is exactly what the handle wants from its first revision
(`First`: its start, or the one after its creation) up to `delivered_through`; what was asked
for and what is premature together are just these revisions. Without the bound on the cursor
a lag could hide a revision from a handle that stays alive.

`LoadBalancerProofs` proves `HealthTracked`, `GraceKept` and `ActiveCounts` for any
number of backends and connections, any threshold and counter width. `HealthInv` relates
the failure counter to the number of consecutive failures up to the threshold;
`DrainInv` says that once the deadline is stored, what is left until it and what has
passed since the signal add up to at least the timeout; `ActiveInv` counts the connections
that have a thread or whose spawn panicked.
`PickOrderHolds` and `RefusalIsLast` are about `pick_order`. The model writes its two
filters without recursion: the kept positions are a set, and the one listed at i is the one
with i kept positions up to it (`Rank`). That a rank exists for each i is a pigeonhole
argument on cardinalities (`RankGrows`, `RankOnto`); `MCLoadBalancer` has TLC compare the
definition with the filter of the library. `DialInv` then says that a connection's order
still holds every backend that has not refused it, so an empty rest means all have; that the
flags were read one by one does not matter, since every combination of them yields all
backends.

`PkiServerProofs` proves `PkiTypeCorrect`, `PkiRootsPaired`, `PkiFinishedSound`,
`PkiKubeconfigSound` and the action property `PkiIdempotent` for any number of CAs,
leaves, configurations and events, with former configurations and trust roots coming back.
The invariant `PkiInv` has at its centre `TrustInv`: a leaf that is not being reissued and is
not due matches its fingerprint (`Match`), unless a run that wanted something else was killed
in the middle of it. The auxiliary `torn` records what that run wanted; it is cleared when a
later run writes the fingerprint. `TrustInv` is inductive only together with the facts that
a fingerprint names a CA and means that key and certificate are there (`BackedInv`), that CA
keys in the directory and in former bundles belong to their certificates and are older than
the next one (`RootsPaired`, `KeptInv`, `OrderInv`), and that the issuers in memory are those
in the directory (`HeldInv`). `ProgressInv` and `KcInv` carry soundness, or the exception
`Returned`, through the run; `CleanInv` gives `PkiIdempotent`.

Assumptions are the named ASSUMEs on the constants: requests are well typed and keys
and lease ids are positive; thresholds and timeouts are in range; every leaf has an
issuer; configurations are positive numbers.

`ReadyProofs` proves `ReportsTrue`, `OrphanCases`, `StrayOnlyAtExit` and
`NoSignalSwallowed` for any exit codes and any number of signals and changes of health. The
invariant `ReadyInv` ties the wrapper's step to what exists at that step: which handlers
are installed and that the pid was stored before them, whether the component is there or
reaped, and what the wrapper knew when it ended. Without `Handled` a signal could be
survived with no pid to forward it to.

`CustodyProofs` proves, for any number of servers, files, connections and restarts,
`NoPartialTrust`, `OkMeansBundle` (a unit that succeeded left the whole bundle unless its
extraction was interrupted) and `CountMeansLanded`. `OnDisk` says what each state of a unit
means for the files on that server's disk. The count is a counting argument: while nobody
gives up or starts over, every server connects once, so `done` is the cardinality of the
set of servers that were counted (`OnceEach`), and a set of servers with as many members as
there are servers is all of them.

`EtcdJoinProofs` proves, for deployments of any size, any number of sweeps and faults,
`QuorumKept`, `OneCluster`, `RecordTruthful` and, unless the joining servers are a majority,
`StaysWithHealthy`. `QuorumKept` is arithmetic: a voter that is added runs, in which case
both sides of the majority grow by one, or it has published its name and stopped; `Names`
says that whoever has published a name in a cluster has its data. `HomeInv` says that a
server's data is that of the cluster that was there or of one founded with the new
declaration, that whoever was answered has no data yet, that only the cluster that was there
changes its members, all of whom have its data, and that what reconcilers have read or
recorded is still there. Its core is `OnlyHome`: a cluster founded with the new declaration
can only be run by servers that were not in the old one, and those are no majority. For
`StaysWithHealthy` the condition is needed: with five servers of which four join, founders
of a second cluster may answer.

`SnapResumeProofs` proves `Tracked`, `ExitKillsOwned`, `ReturnsSound`, `NoStrayKill` and
`ClockClose` for any number of nodes, rounds and datagrams and any size of the table. The
invariant `ResumeInv` is built in layers, each preserved with the help of those before it:
- `PhaseInv`: the main thread is past the joins only when all threads ended well, so that
  nobody but the handler can sweep beside it; an actor has a pid in its hand exactly while
  it is about to kill it.
- `PlaceInv`: a pid is in one slot or one hand, belongs to a node of this round that has
  claimed it, and, while the main thread lets VMMs go, to a node not dealt with yet.
  Compare-and-exchange on a free slot and `swap(0)` are what keeps it.
- `KnownInv`, `LifeInv`, `SockInv`, `DoneInv`: what has entered the table, which VMMs can
  run at all, that a thread's socket is its own VMM's, and that a cycle has reaped what it
  is done with. `Tracked` follows.
- `HeldInv`: until somebody leaves, each claimed VMM is in the table, released or done with;
  past the last node none can still be in the table, and `ReturnsSound` follows.
- `ReapInv`: a reaped pid is in a slot or hand only between `kill_wait` and `disown_vmm`;
  `NoStrayKill` follows, because only the handler can sweep then.
- `AheadInv`: what a lone sweeper has to kill is in its hand or ahead of it. The slot it has
  just swapped may be claimed again; `AheadInv` needs that the new pid is not one of those
  that were in the table when the exit began. `ExitKillsOwned` follows.
- `ClockInv`: datagrams are sent after the loads, so no load sets back a clock that was set.

TLC checked each layer as an invariant of the instance of `snap_resume`.

`SnapTakeProofs` proves `SameTakeConsistent`, `ManifestTrue`, `RestorableWhereTaken` and the
action property `GateSound` for meshes of any size, any builds and hosts, any number of takes
and any counts. The invariant `TakeInv` follows the data from the guests to the gate:
- `VmInv`, `HeardInv`, `KnowInv`: the VMs of a mesh are restored together or not at all, a
  guest is gone with the last VM, and no guest that runs knows of more than has happened. The
  last holds of a single VM that was resumed only because it has nobody to hear from.
- `StepInv`, `FileInv`, `CopyInv`: from the first snapshot of a take on, its nodes are paused
  or gone, a file of this take is of one of its nodes, and it holds what that node still is.
  A new snapshot therefore fits those already made, and `SameTakeConsistent` follows. Without
  the clause that a paused node may only be lost, a guest could go on between two snapshots.
- `ManifestInv`: until it is written, the manifest is of an earlier take; so no file it stands
  for is overwritten before the next take begins. With the addresses, which are right because
  a mesh has a server and a take names some of its nodes (`AddressOf`), this is `ManifestTrue`.
- `IdentityInv`: what was identified is what every file of the take was made with, although
  the VMM is looked up after the snapshot and may be gone by then; a VMM that is gone yields
  an identity that does not depend on its build.
Two lemmas are about the gate: lines are read back as they were written (`ParseWritten`), and
what they say is the host's fingerprint or the template's digest (`Recorded`). From these
`GateChecks` and `GateOpens` give the two directions, `GateSound` and `RestorableWhereTaken`.
TLC checked each part of `TakeInv` as an invariant of the instance of `snap_take`.

Assumptions about these parts: sets of servers are finite, servers are numbered from 1,
every deployment declares a server, exit codes are below 128, `ca.key` is a file of the
bundle, and no stream is `Nobody`; there is at least one node, slot and round, and meshes have
between one and all of the nodes; where snapshots are taken a mesh has a server, builds and
template files are records of their fields, and `None` is no VMM, fingerprint or template.

Only model-checked: the liveness properties (TLAPS does not reason about fairness). The types
of the modules with proofs are proved as part of the invariants, not checked by a run.

## Not modelled

- The **launcher** (`lib/microvm.nix`, and the shell in `guests/microvm.nix` apart from
  `ca-fetch`) builds taps and bridges and starts one firecracker per node, in sequence. What
  it does to other parts is in their models: it serves the CA bundle (Custody) and boots,
  stops and loses VMs (SnapTake, SnapResume).
- **etcd-mem's process**: socket set-up, readiness line and shutdown are sequential I/O, and
  the store is in memory, so nothing survives them. Read-only RPCs and the rendering of
  responses change no state.
- The **dispatcher** and the **TLS builder** have no state.
- The **declarative NixOS modules, libraries, packages and benchmarks** are evaluated before
  anything runs.
- Details of modelled parts: a `--firecracker` that is a script which starts another binary
  (SnapIdentity takes the path for the binary that runs); `serve` being killed, or its `tar`
  failing, in the middle of a transfer (Custody); a readiness probe that hangs (it is one
  step of Ready); renewal windows longer than the life of
  a leaf (PkiServer takes a new leaf not to be due).
- **etcd, firecracker, systemd, curl and the kernel** are external and appear only as far as
  the code relies on them. In EtcdJoin a disk that is wiped while its server stays a member
  is left out, since etcd decides what becomes of such a member. Liveness of
  a growth is not checked: the graph with fairness is out of TLC's reach at three servers.
