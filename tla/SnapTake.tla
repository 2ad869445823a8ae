------------------------------ MODULE SnapTake ------------------------------
(***************************************************************************)
(* kubenyx-snap take, take --sock and mesh-take, and what the resume verbs *)
(* admit (rust/kubenyx-snap/src/lib.rs).                                   *)
(*                                                                         *)
(* The guests of a mesh count events and learn of each other's; a snapshot *)
(* holds the counts of the moment its node was paused.  One command runs   *)
(* at a time, on one snapshot directory that every take reuses; it may     *)
(* fail or be killed between any two of its steps, and a VMM that was      *)
(* asked for a snapshot goes on writing it.                                *)
(*                                                                         *)
(* A node is <<role, number>> with role 0 for servers and 1 for agents.    *)
(* The single-VM verbs work on a mesh of one node.                         *)
(***************************************************************************)
EXTENDS SnapIdentity

CONSTANTS
    Settings,    \* where the verbs are used: [servers, agents, builds, cpus],
                 \* with builds a set of [vmm, config, posture]: a firecracker
                 \* binary, its CPU template if any, and what its disks are
    Texts,       \* CPU templates a resume may name
    MaxTakes,    \* bound on takes
    MaxClock     \* bound on a guest's events

AllBuilds == UNION {w.builds : w \in Settings}
AllCpus == UNION {w.cpus : w \in Settings}

\* A mesh has a server; builds are records, and None is none of the values that
\* are told apart from it.
ASSUME SnapTakeAssumption ==
    /\ \A w \in Settings : w.servers \in Nat \ {0} /\ w.agents \in Nat
    /\ \A b \in AllBuilds :
         /\ b = [vmm |-> b.vmm, config |-> b.config, posture |-> b.posture]
         /\ b.vmm # None
         /\ b.config # None =>
              /\ b.config = [text |-> b.config.text, layout |-> b.config.layout]
              /\ Template(b.config.text) # None
    /\ \A c \in AllCpus : Fingerprint(c) # None

VARIABLES
    setting,   \* where the verbs are used
    vm,        \* node -> state of its VM
    build,     \* what the VMs were started with, None without any
    cpu,       \* the host's CPU
    clk,       \* node -> events of its guest
    seen,      \* node -> node -> events of the other it knows of
    file,      \* node -> its snapshot on disk
    manifest,  \* the manifest on disk
    pc,        \* the step of the running command, "idle" without one
    verb,      \* the running command
    nodes,     \* the nodes it works on
    todo,      \* those it has not finished in the current step
    takes,     \* number of the last take
    ident,     \* the identity it found
    restored   \* what the resume that started the VMs was given

vars == <<setting, vm, build, cpu, clk, seen, file, manifest, pc, verb,
          nodes, todo, takes, ident, restored>>
guests == <<clk, seen>>
command == <<pc, verb, nodes, todo, takes, ident>>
world == <<setting, cpu>>

Members(m) == ({0} \X (1 .. m.servers)) \cup ({1} \X (1 .. m.agents))
AllNodes == UNION {Members(w) : w \in Settings}
mesh == Members(setting)
Servers(s) == {n \in s : n[1] = 0}
Single == Cardinality(mesh) = 1

\* mesh_order_key: servers before agents, then by number.
Precedes(n, m) == n[1] < m[1] \/ (n[1] = m[1] /\ n[2] < m[2])

\* conventional_ip: agents pack after the servers that were counted.
ConventionalIp(n, servers) == IF n[1] = 0 THEN 1 + n[2] ELSE 1 + servers + n[2]

NoFile == [take |-> 0]
NoManifest == [take |-> 0, nodes |-> {}, lines |-> {}]
NoIdentity == [k \in Fields |-> None]
NoRestore == [taken |-> None]
Vmms == {b.vmm : b \in setting.builds}

SnapInit ==
    /\ setting \in Settings
    /\ vm = [n \in AllNodes |-> "gone"]
    /\ build = None /\ cpu \in setting.cpus
    /\ clk = [n \in AllNodes |-> 0]
    /\ seen = [n \in AllNodes |-> [m \in AllNodes |-> 0]]
    /\ file = [n \in AllNodes |-> NoFile]
    /\ manifest = NoManifest
    /\ pc = "idle" /\ verb = None /\ nodes = {} /\ todo = {} /\ takes = 0
    /\ ident = NoIdentity /\ restored = NoRestore

------------------------------------------------------------------------------
(* The VMs and their guests.                                               *)

Fresh ==
    /\ vm' = [n \in AllNodes |-> IF n \in mesh THEN "running" ELSE "gone"]
    /\ build' \in setting.builds
    /\ clk' = [n \in AllNodes |-> 0]
    /\ seen' = [n \in AllNodes |-> [m \in AllNodes |-> 0]]
    /\ restored' = NoRestore

AllGone == \A n \in mesh : vm[n] = "gone"

\* The launcher boots the mesh, or a runner the single VM.
Launch ==
    /\ pc = "idle" /\ AllGone
    /\ Fresh
    /\ UNCHANGED <<world, file, manifest, command>>

GuestEvent(n) ==
    /\ vm[n] = "running" /\ clk[n] < MaxClock
    /\ clk' = [clk EXCEPT ![n] = @ + 1]
    /\ UNCHANGED <<world, vm, build, seen, file, manifest, command, restored>>

\* A message of m arrives; m may have been paused since it was sent.
Hear(n, m) ==
    /\ vm[n] = "running" /\ m # n
    /\ \E e \in seen[n][m] + 1 .. clk[m] : seen' = [seen EXCEPT ![n][m] = e]
    /\ UNCHANGED <<world, vm, build, clk, file, manifest, command, restored>>

\* The VMs of s are gone; what is left of the guests is with the others.
Lose(s) ==
    /\ vm' = [n \in AllNodes |-> IF n \in s THEN "gone" ELSE vm[n]]
    /\ IF \A n \in AllNodes : vm'[n] = "gone"
       THEN /\ build' = None /\ restored' = NoRestore
            /\ clk' = [n \in AllNodes |-> 0]
            /\ seen' = [n \in AllNodes |-> [m \in AllNodes |-> 0]]
       ELSE UNCHANGED <<build, restored, guests>>

\* A VMM crashes.
VmDies(n) ==
    /\ vm[n] # "gone" /\ Lose({n})
    /\ UNCHANGED <<world, file, manifest, command>>

\* The operator stops the mesh, or moves the directory to another host.
Stop ==
    /\ pc = "idle" /\ ~AllGone /\ Lose(mesh)
    /\ UNCHANGED <<world, file, manifest, command>>

Move ==
    /\ pc = "idle" /\ AllGone
    /\ cpu' \in setting.cpus \ {cpu}
    /\ UNCHANGED <<setting, vm, build, guests, file, manifest, command, restored>>

------------------------------------------------------------------------------
(* The takes.                                                              *)

Begin(v, s, step) ==
    /\ pc = "idle" /\ takes < MaxTakes
    /\ verb' = v /\ nodes' = s /\ todo' = s /\ pc' = step
    /\ takes' = takes + 1 /\ ident' = NoIdentity

\* cmd_take --runner boots the VM itself and waits for its marker.
TakeRunner ==
    /\ Single /\ AllGone
    /\ Begin("take", mesh, "marker")
    /\ Fresh
    /\ UNCHANGED <<world, file, manifest>>

SeeMarker ==
    /\ pc = "marker" /\ pc' = "pause"
    /\ UNCHANGED <<world, vm, build, guests, file, manifest, verb, nodes, todo, takes,
                   ident, restored>>

TakeAttached ==
    /\ Single /\ ~AllGone
    /\ Begin("attached", mesh, "pause")
    /\ UNCHANGED <<world, vm, build, guests, file, manifest, restored>>

\* assert_volatile_mesh_take; the launcher writes its manifest for several
\* servers only.
VolatileEnough(s) == Cardinality(Servers(s)) <= 1 \/ build.posture = "volatile"

\* cmd_mesh_take on all nodes or on those that flags name.
MeshTake(s) ==
    /\ ~Single /\ s # {} /\ \A n \in s : vm[n] \in {"running", "paused"}
    /\ VolatileEnough(s)
    /\ Begin("mesh-take", s, "pause")
    /\ UNCHANGED <<world, vm, build, guests, file, manifest, restored>>

\* Mutant: every node is paused, snapshotted and let go on its own.
MutPause(n) ==
    /\ pc = "pause" /\ n \in todo
    /\ \A m \in todo : ~Precedes(m, n)
    /\ vm[n] \in {"running", "paused"}
    /\ file' = [file EXCEPT ![n] =
         [take |-> takes, whole |-> TRUE, clk |-> clk[n], seen |-> seen[n],
          build |-> build, cpu |-> cpu]]
    /\ pc' = IF todo = {n} THEN "create" ELSE "pause"
    /\ todo' = todo \ {n}
    /\ UNCHANGED <<world, vm, build, guests, manifest, verb, nodes, takes, ident, restored>>

\* The nodes are paused one by one, and all of them before any snapshot.
Pause(n) ==
    /\ pc = "pause" /\ n \in todo
    /\ \A m \in todo : ~Precedes(m, n)
    /\ vm[n] \in {"running", "paused"}
    /\ vm' = [vm EXCEPT ![n] = "paused"]
    /\ IF todo = {n}
       THEN pc' = "create" /\ todo' = nodes
       ELSE pc' = "pause" /\ todo' = todo \ {n}
    /\ UNCHANGED <<world, build, guests, file, manifest, verb, nodes, takes, ident, restored>>

Writing(n) == file[n].take > 0 /\ ~file[n].whole /\ vm[n] = "paused"

\* A thread per node asks for its snapshot; the VMM opens the files ...
Create(n) ==
    /\ pc = "create" /\ n \in todo
    /\ vm[n] = "paused" /\ file[n].take # takes /\ ~Writing(n)
    /\ file' = [file EXCEPT ![n] =
         [take |-> takes, whole |-> FALSE, clk |-> clk[n], seen |-> seen[n],
          build |-> build, cpu |-> cpu]]
    /\ UNCHANGED <<world, vm, build, guests, manifest, command, restored>>

\* ... and fills them, also when nobody waits for it any more.
Fill(n) ==
    /\ Writing(n)
    /\ file' = [file EXCEPT ![n].whole = TRUE]
    /\ todo' = IF pc = "create" /\ file[n].take = takes THEN todo \ {n} ELSE todo
    /\ UNCHANGED <<world, vm, build, guests, manifest, pc, verb, nodes, takes, ident, restored>>

\* Mutant: the threads are not joined.
MutJoined ==
    /\ pc = "create"
    /\ pc' = IF verb = "attached" THEN "resume" ELSE "identify"
    /\ UNCHANGED <<world, vm, build, guests, file, manifest, verb, nodes, todo, takes,
                   ident, restored>>

\* All threads have joined.
Joined ==
    /\ pc = "create" /\ todo = {}
    /\ pc' = IF verb = "attached" THEN "resume" ELSE "identify"
    /\ UNCHANGED <<world, vm, build, guests, file, manifest, verb, nodes, todo, takes,
                   ident, restored>>

\* An attached take lets the VM go on.
Unpause ==
    /\ pc = "resume" /\ pc' = "identify"
    /\ \A n \in nodes : vm[n] = "paused"
    /\ vm' = [n \in AllNodes |-> IF n \in nodes THEN "running" ELSE vm[n]]
    /\ UNCHANGED <<world, build, guests, file, manifest, verb, nodes, todo, takes, ident,
                   restored>>

\* Only a runner's path is a closure; a VMM that is gone is not found.
Identify ==
    /\ pc = "identify" /\ pc' = "truncate"
    /\ \E found \in BOOLEAN :
         /\ found => \E n \in nodes : vm[n] # "gone"
         /\ ident' = TakeIdentity(IF verb = "take" THEN "runner" ELSE None, found, build, cpu)
    /\ UNCHANGED <<world, vm, build, guests, file, manifest, verb, nodes, todo, takes, restored>>

\* fs::write: the old manifest is gone before the new one is there.
Truncate ==
    /\ pc = "truncate" /\ pc' = "write"
    /\ manifest' = NoManifest
    /\ UNCHANGED <<world, vm, build, guests, file, verb, nodes, todo, takes, ident, restored>>

\* mesh_nodes: from the manifest that the launcher writes for several servers,
\* else by counting the servers found, at least one.
Address(n) ==
    ConventionalIp(n, IF Cardinality(Servers(mesh)) > 1 THEN Cardinality(Servers(mesh))
                      ELSE IF Servers(nodes) = {} THEN 1 ELSE Cardinality(Servers(nodes)))

NodeLines == IF Single THEN {} ELSE {<<n, Address(n)>> : n \in nodes}

WriteManifest ==
    /\ pc = "write"
    /\ pc' = IF verb = "attached" THEN "done" ELSE "kill"
    /\ manifest' = [take |-> takes, nodes |-> NodeLines, lines |-> IdentityLines(ident)]
    /\ UNCHANGED <<world, vm, build, guests, file, verb, nodes, todo, takes, ident, restored>>

\* kill_wait waits for its child; kill_mesh_vmms does not, and passes over a VMM
\* whose working directory is spelled otherwise than the argument.
Kill ==
    /\ pc = "kill" /\ pc' = "done"
    /\ \E s \in IF verb = "take" THEN {nodes} ELSE SUBSET nodes : Lose(s)
    /\ UNCHANGED <<world, file, manifest, verb, nodes, todo, takes, ident>>

\* The process is gone with all it knew.
Ended == pc' = "idle" /\ verb' = None /\ nodes' = {} /\ todo' = {} /\ ident' = NoIdentity

Finish ==
    /\ pc = "done" /\ Ended
    /\ UNCHANGED <<world, vm, build, guests, file, manifest, takes, restored>>

\* die() or a signal: only a VM that the command booted itself is killed.
Die ==
    /\ pc # "idle" /\ Ended
    /\ Lose(IF verb = "take" THEN nodes ELSE {})
    /\ UNCHANGED <<world, file, manifest, takes>>

\* The command is killed outright.
Crash ==
    /\ pc # "idle" /\ Ended
    /\ UNCHANGED <<world, vm, build, guests, file, manifest, takes, restored>>

------------------------------------------------------------------------------
(* resume and mesh-resume, as far as the snapshot directory is concerned.  *)

\* read_manifest: a mesh verb needs node lines.
Targets == IF Single THEN mesh ELSE {l[1] : l \in manifest.nodes}

\* The gate, then the load of every file; a VMM takes a whole file only.  It is
\* started without a configuration, so a later take finds no template in it.
Resume(vmm, resolved, arg, allow) ==
    LET template == ResolveTemplateSpec(arg) IN
    /\ pc = "idle" /\ AllGone /\ Targets # {}
    /\ Admits(manifest.lines, IF resolved THEN vmm ELSE None, cpu, template, allow)
    /\ \A n \in Targets : file[n].take > 0 /\ file[n].whole
    /\ vm' = [n \in AllNodes |->
                IF n \in Targets THEN IF Single THEN "running" ELSE "restored" ELSE "gone"]
    /\ clk' = [n \in AllNodes |-> IF n \in Targets THEN file[n].clk ELSE clk[n]]
    /\ seen' = [n \in AllNodes |-> IF n \in Targets THEN file[n].seen ELSE seen[n]]
    /\ \E n \in Targets : build' = [file[n].build EXCEPT !.vmm = vmm, !.config = None]
    /\ restored' = [taken |-> manifest.take, vmm |-> vmm, template |-> template,
                    checked |-> resolved /\ ~allow]
    /\ UNCHANGED <<world, file, manifest, command>>

TemplateArgs == {None} \cup [file : BOOLEAN, text : Texts, layout : {0}]

Command ==
    \/ TakeRunner \/ SeeMarker \/ TakeAttached
    \/ \E s \in SUBSET mesh : MeshTake(s)
    \/ \E n \in nodes : Pause(n) \/ Create(n)
    \/ Joined \/ Unpause \/ Identify \/ Truncate \/ WriteManifest \/ Kill \/ Finish
    \/ Die \/ Crash
    \/ \E v \in Vmms, r \in BOOLEAN, a \in TemplateArgs, allow \in BOOLEAN :
         Resume(v, r, a, allow)

Environment ==
    \/ Launch \/ Stop \/ Move
    \/ \E n \in mesh : GuestEvent(n) \/ VmDies(n) \/ Fill(n) \/ \E m \in mesh : Hear(n, m)

SnapNext == Command \/ Environment

SnapSpec == SnapInit /\ [][SnapNext]_vars

------------------------------------------------------------------------------
(* Properties.                                                             *)

\* Snapshots of one take form a consistent cut: no guest knows of an event
\* that the snapshot of the node it happened on does not hold.  Pausing every
\* node before any snapshot is what makes it so, whatever died in between.
SameTakeConsistent ==
    \A n, m \in AllNodes :
        /\ file[n].take > 0 /\ file[n].take = file[m].take
        => file[n].seen[m] <= file[m].clk

\* As long as no later take has begun, the manifest of a take stands for whole
\* files of that very take on all of its nodes.
ManifestCoversFiles ==
    manifest.take > 0 /\ manifest.take = takes =>
        \A n \in Targets : file[n].take = takes /\ file[n].whole

\* The addresses in a mesh manifest are the ones the launcher gave the nodes,
\* although only some of the nodes were taken.
AddressesRight ==
    \A l \in manifest.nodes :
        l[2] = IF l[1][1] = 0 THEN 1 + l[1][2]
               ELSE 1 + Cardinality(Servers(mesh)) + l[1][2]

\* A manifest is true of the files beside it and of the nodes it names.
ManifestTrue == ManifestCoversFiles /\ AddressesRight

\* A file that the resume verbs restore without --allow-identity-mismatch runs on
\* the VMM build that wrote it if the take could tell, and either on a CPU with
\* the same locked features or under the CPU template of the VMM it was taken
\* from.  This is said of the files the manifest was written for: those of a
\* later take that was killed before its manifest are admitted by the old one.
GateStep ==
    /\ restored' # restored /\ restored'.taken # None
    /\ restored'.checked /\ restored'.taken > 0
    => \A n \in {m \in Targets : file[m].take = restored'.taken} :
         LET f == file[n]
         IN /\ \/ Fingerprint(f.cpu) = Fingerprint(cpu)
               \/ /\ f.build.config # None
                  /\ restored'.template = TemplateHash(f.build.config)
            /\ \/ ParseIdentity(manifest.lines).vmm = None
               \/ f.build.vmm = restored'.vmm

\* GateStep holds of every step: the gate is applied to what is then loaded.
GateSound == [][GateStep]_vars

\* The gate is no stricter than it says: on a host with the same locked
\* features and with the same VMM, a finished snapshot is admitted when the
\* template it is keyed to is named, however the template's file is laid out.
RestorableWhereTaken ==
    manifest.take > 0 /\ manifest.take = takes =>
        \A n \in Targets :
            LET f == file[n]
                keyed == ParseIdentity(manifest.lines).cpu[1] = "template:"
                arg == [f.build.config EXCEPT !.layout = 0]
            IN Fingerprint(f.cpu) = Fingerprint(cpu) =>
                 Admits(manifest.lines, f.build.vmm, cpu,
                        IF keyed THEN TemplateHash(arg) ELSE None, FALSE)

=============================================================================
