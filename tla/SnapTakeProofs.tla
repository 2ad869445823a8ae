--------------------------- MODULE SnapTakeProofs ---------------------------
(***************************************************************************)
(* Proofs about SnapTake for meshes of any size, any builds and hosts and  *)
(* any number of takes: snapshots of one take fit together, a manifest is  *)
(* true of them, and the identity gate is neither too lax nor too strict.  *)
(***************************************************************************)
EXTENDS SnapTake, FiniteSetTheorems, TLAPS

------------------------------------------------------------------------------
(* The inductive invariant.                                                *)

Steps == {"idle", "marker", "pause", "create", "resume", "identify", "truncate", "write",
          "kill", "done"}

\* The builds of the settings, and what a resume with another binary makes of them.
Builds == [vmm : {b.vmm : b \in AllBuilds}, config : {b.config : b \in AllBuilds} \cup {None},
           posture : {b.posture : b \in AllBuilds}]

Clocks == [AllNodes -> Nat]
Snapshot == [take : Nat \ {0}, whole : BOOLEAN, clk : Nat, seen : Clocks, build : Builds,
             cpu : AllCpus]

NoneLives == \A n \in AllNodes : vm[n] = "gone"
NoneRestored == \A n \in AllNodes : vm[n] # "restored"

TypeInv ==
    /\ setting \in Settings /\ cpu \in AllCpus /\ pc \in Steps
    /\ vm \in [AllNodes -> {"gone", "running", "paused", "restored"}]
    /\ clk \in Clocks /\ seen \in [AllNodes -> Clocks]
    /\ file \in [AllNodes -> Snapshot \cup {NoFile}]
    /\ nodes \subseteq mesh /\ todo \subseteq nodes
    /\ takes \in Nat /\ manifest.take \in Nat
    /\ manifest.nodes \subseteq mesh \X Nat

\* VMs are restored all together or not at all, and only the nodes of the mesh
\* have any.  Without a VM there is no guest, and with one there is a build.
VmInv ==
    /\ \A n \in AllNodes : n \notin mesh => vm[n] = "gone"
    /\ NoneRestored \/ \A n \in AllNodes : vm[n] \in {"restored", "gone"}
    /\ Single => NoneRestored
    /\ NoneLives => \A n, m \in AllNodes : clk[n] = 0 /\ seen[n][m] = 0
    /\ NoneLives \/ build \in Builds

\* Nobody hears from itself or from outside.
HeardInv ==
    \A n, m \in AllNodes : m = n \/ m \notin mesh =>
        seen[n][m] = 0 /\ (file[n].take > 0 => file[n].seen[m] = 0)

\* Nobody knows of more than has happened.  A restored mesh may be of different
\* takes; its guests do not run in this model.
KnowInv == NoneRestored => \A n, m \in AllNodes : seen[n][m] <= clk[m]

\* The steps of a take.
StepInv ==
    /\ pc # "idle" => takes > 0 /\ NoneRestored /\ (Single => nodes = mesh)
    /\ pc = "marker" => todo = nodes
    /\ pc = "pause" => \A n \in nodes \ todo : vm[n] \in {"paused", "gone"}
    /\ pc = "create" => \A n \in nodes : vm[n] \in {"paused", "gone"}

\* The files of the running take and of earlier ones.
FileInv ==
    /\ \A n \in AllNodes : file[n].take <= takes
    /\ pc \in {"marker", "pause"} => \A n \in AllNodes : file[n].take < takes
    /\ pc = "create" => \A n \in AllNodes : file[n].take = takes => n \in nodes
    /\ pc = "create" => \A n \in nodes \ todo : file[n].take = takes /\ file[n].whole
    /\ pc \in {"resume", "identify", "truncate", "write"} =>
         \A n \in nodes : file[n].take = takes /\ file[n].whole

\* While snapshots are made nothing moves: a file is what its node still is,
\* as long as there is any VM.
CopyInv ==
    /\ pc = "create" /\ ~NoneLives =>
         \A n \in AllNodes : file[n].take = takes => file[n].clk = clk[n] /\ file[n].seen = seen[n]
    /\ pc \in {"create", "resume", "identify"} =>
         \A n \in AllNodes : file[n].take = takes =>
             file[n].cpu = cpu /\ (NoneLives \/ file[n].build = build)

\* The manifest is of an earlier take until it is written.
ManifestInv ==
    /\ manifest.take <= takes
    /\ pc \notin {"idle", "kill", "done"} => manifest.take < takes
    /\ ManifestCoversFiles

\* What an identity says is what the snapshot was made with.
IdentityOf(id, f) ==
    \E found \in BOOLEAN, closure \in {None, "runner"} :
        id = TakeIdentity(closure, found, f.build, f.cpu)

LinesOf(lines, f) ==
    \E found \in BOOLEAN, closure \in {None, "runner"} :
        lines = IdentityLines(TakeIdentity(closure, found, f.build, f.cpu))

IdentityInv ==
    /\ pc \in {"truncate", "write"} => \A n \in nodes : IdentityOf(ident, file[n])
    /\ manifest.take > 0 =>
         \A n \in Targets : file[n].take = manifest.take => LinesOf(manifest.lines, file[n])

TakeInv ==
    /\ TypeInv /\ VmInv /\ HeardInv /\ KnowInv /\ StepInv /\ FileInv /\ CopyInv
    /\ SameTakeConsistent /\ ManifestInv /\ AddressesRight /\ IdentityInv

------------------------------------------------------------------------------
(* What stays, and which actions change what.                              *)

\* Nothing moves the directory to another mesh.
LEMMA Fixed ==
  ASSUME SnapNext
  PROVE  setting' = setting /\ mesh' = mesh /\ (Single' <=> Single) /\ Vmms' = Vmms
<1>1. setting' = setting
  BY Zenon
     DEF SnapNext, Command, Environment, TakeRunner, SeeMarker, TakeAttached, MeshTake, Pause,
         Create, Joined, Unpause, Identify, Truncate, WriteManifest, Kill, Finish, Die, Crash,
         Resume, Launch, Stop, Move, GuestEvent, VmDies, Fill, Hear, world
<1> QED BY Zenon, <1>1 DEF mesh, Single, Vmms

\* The VMs and their guests.
LEMMA GuestChanges ==
  ASSUME nodes \subseteq mesh, SnapNext
  PROVE  \/ UNCHANGED <<vm, build, clk, seen, restored>>
         \/ pc = "idle" /\ AllGone /\ Fresh
         \/ \E s \in SUBSET mesh : Lose(s)
         \/ \E n \in mesh : GuestEvent(n) \/ \E m \in mesh : Hear(n, m)
         \/ \E n \in nodes : Pause(n)
         \/ Unpause
         \/ \E v \in Vmms, r \in BOOLEAN, a \in TemplateArgs, allow \in BOOLEAN :
              Resume(v, r, a, allow)
<1>1. ASSUME SeeMarker \/ TakeAttached \/ Joined \/ Identify \/ Truncate \/ WriteManifest
             \/ Finish \/ Crash \/ Move
      PROVE  UNCHANGED <<vm, build, clk, seen, restored>>
  BY <1>1 DEF SeeMarker, TakeAttached, Joined, Identify, Truncate, WriteManifest, Finish,
              Crash, Move, guests
<1>2. ASSUME NEW s, MeshTake(s) PROVE UNCHANGED <<vm, build, clk, seen, restored>>
  BY <1>2 DEF MeshTake, guests
<1>3. ASSUME NEW n, Create(n) \/ Fill(n) PROVE UNCHANGED <<vm, build, clk, seen, restored>>
  BY <1>3 DEF Create, Fill, guests
<1>4. ASSUME Launch \/ TakeRunner PROVE pc = "idle" /\ AllGone /\ Fresh
  BY Zenon, <1>4 DEF Launch, TakeRunner, Begin
<1>5. ASSUME Stop \/ Kill \/ Die PROVE \E s \in SUBSET mesh : Lose(s)
  <2>1. mesh \in SUBSET mesh /\ nodes \in SUBSET mesh /\ {} \in SUBSET mesh
    BY Zenon
  <2>2. (IF verb = "take" THEN nodes ELSE {}) \in SUBSET mesh
    BY Zenon, <2>1
  <2>3. (IF verb = "take" THEN {nodes} ELSE SUBSET nodes) \in SUBSET (SUBSET mesh)
    BY Zenon
  <2> QED BY Zenon, <1>5, <2>1, <2>2, <2>3 DEF Stop, Kill, Die
<1>6. ASSUME NEW n \in mesh, VmDies(n) PROVE \E s \in SUBSET mesh : Lose(s)
  <2>1. {n} \in SUBSET mesh
    BY Zenon
  <2> QED BY Zenon, <1>6, <2>1 DEF VmDies
<1> QED BY Zenon, <1>1, <1>2, <1>3, <1>4, <1>5, <1>6 DEF SnapNext, Command, Environment

\* The files.
LEMMA FileChanges ==
  ASSUME SnapNext
  PROVE  file' = file \/ (\E n \in nodes : Create(n)) \/ (\E n \in mesh : Fill(n))
<1>1. ASSUME TakeRunner \/ SeeMarker \/ TakeAttached \/ Joined \/ Unpause \/ Identify
             \/ Truncate \/ WriteManifest \/ Kill \/ Finish \/ Die \/ Crash \/ Launch \/ Stop
             \/ Move
      PROVE  file' = file
  BY Zenon, <1>1 DEF TakeRunner, SeeMarker, TakeAttached, Joined, Unpause, Identify, Truncate,
              WriteManifest, Kill, Finish, Die, Crash, Launch, Stop, Move
<1>2. ASSUME NEW s, MeshTake(s) PROVE file' = file
  BY Zenon, <1>2 DEF MeshTake
<1>3. ASSUME NEW n, Pause(n) \/ GuestEvent(n) \/ VmDies(n) PROVE file' = file
  BY Zenon, <1>3 DEF Pause, GuestEvent, VmDies
<1>4. ASSUME NEW n, NEW m, Hear(n, m) PROVE file' = file
  BY Zenon, <1>4 DEF Hear
<1>5. ASSUME NEW v, NEW r, NEW a, NEW allow, Resume(v, r, a, allow) PROVE file' = file
  BY Zenon, <1>5 DEF Resume
<1> QED BY Zenon, <1>1, <1>2, <1>3, <1>4, <1>5 DEF SnapNext, Command, Environment

\* The manifest.
LEMMA ManifestChanges ==
  ASSUME SnapNext
  PROVE  manifest' = manifest \/ Truncate \/ WriteManifest
<1>1. ASSUME TakeRunner \/ SeeMarker \/ TakeAttached \/ Joined \/ Unpause \/ Identify
             \/ Kill \/ Finish \/ Die \/ Crash \/ Launch \/ Stop \/ Move
      PROVE  manifest' = manifest
  BY Zenon, <1>1 DEF TakeRunner, SeeMarker, TakeAttached, Joined, Unpause, Identify,
              Kill, Finish, Die, Crash, Launch, Stop, Move
<1>2. ASSUME NEW s, MeshTake(s) PROVE manifest' = manifest
  BY Zenon, <1>2 DEF MeshTake
<1>3. ASSUME NEW n, Pause(n) \/ GuestEvent(n) \/ VmDies(n) \/ Create(n) \/ Fill(n)
      PROVE  manifest' = manifest
  BY Zenon, <1>3 DEF Pause, GuestEvent, VmDies, Create, Fill
<1>4. ASSUME NEW n, NEW m, Hear(n, m) PROVE manifest' = manifest
  BY Zenon, <1>4 DEF Hear
<1>5. ASSUME NEW v, NEW r, NEW a, NEW allow, Resume(v, r, a, allow)
      PROVE  manifest' = manifest
  BY Zenon, <1>5 DEF Resume
<1> QED BY Zenon, <1>1, <1>2, <1>3, <1>4, <1>5 DEF SnapNext, Command, Environment

\* The command.
LEMMA CommandChanges ==
  ASSUME SnapNext
  PROVE  \/ UNCHANGED command
         \/ TakeRunner \/ TakeAttached \/ (\E s \in SUBSET mesh : MeshTake(s))
         \/ SeeMarker \/ (\E n \in nodes : Pause(n)) \/ (\E n \in mesh : Fill(n)) \/ Joined
         \/ Unpause \/ Identify \/ Truncate \/ WriteManifest \/ Kill
         \/ Ended /\ takes' = takes
<1>1. ASSUME Finish \/ Die \/ Crash PROVE Ended /\ takes' = takes
  BY Zenon, <1>1 DEF Finish, Die, Crash
<1>2. ASSUME Launch \/ Stop \/ Move PROVE UNCHANGED command
  BY Zenon, <1>2 DEF Launch, Stop, Move
<1>3. ASSUME NEW n, GuestEvent(n) \/ VmDies(n) \/ Create(n) PROVE UNCHANGED command
  BY Zenon, <1>3 DEF GuestEvent, VmDies, Create
<1>4. ASSUME NEW n, NEW m, Hear(n, m) PROVE UNCHANGED command
  BY Zenon, <1>4 DEF Hear
<1>5. ASSUME NEW v, NEW r, NEW a, NEW allow, Resume(v, r, a, allow) PROVE UNCHANGED command
  BY Zenon, <1>5 DEF Resume
<1> QED BY Zenon, <1>1, <1>2, <1>3, <1>4, <1>5 DEF SnapNext, Command, Environment

------------------------------------------------------------------------------
(* Types.                                                                  *)

\* The nodes of this mesh are among those of all settings.
LEMMA MeshNodes ==
  ASSUME setting \in Settings
  PROVE  mesh \subseteq AllNodes
BY Zenon DEF mesh, AllNodes

\* A file that is there has all the fields of a snapshot.
LEMMA FileTypes ==
  ASSUME TypeInv, NEW n \in AllNodes
  PROVE  /\ file[n].take \in Nat
         /\ file[n].take > 0 =>
              /\ file[n] \in Snapshot
              /\ file[n].whole \in BOOLEAN /\ file[n].clk \in Nat /\ file[n].seen \in Clocks
              /\ file[n].build \in Builds /\ file[n].cpu \in AllCpus
<1>1. file[n] \in Snapshot \/ file[n] = NoFile
  BY Zenon DEF TypeInv
<1>2. CASE file[n] \in Snapshot
  BY Zenon, <1>2 DEF Snapshot
<1>3. CASE file[n] = NoFile
  <2>1. file[n].take = 0
    BY <1>3 DEF NoFile
  <2> QED BY <2>1
<1> QED BY Zenon, <1>1, <1>2, <1>3

\* A resume only names nodes of the mesh.
LEMMA TargetsInMesh ==
  ASSUME manifest.nodes \subseteq mesh \X Nat
  PROVE  Targets \subseteq mesh
<1>1. \A l \in mesh \X Nat : l[1] \in mesh
  BY Zenon
<1> QED BY Zenon, <1>1 DEF Targets

\* What a fresh mesh makes of the VMs and their guests.
LEMMA FreshEffect ==
  ASSUME setting \in Settings, Fresh
  PROVE  /\ vm' \in [AllNodes -> {"gone", "running", "paused", "restored"}]
         /\ \A n \in AllNodes : vm'[n] = IF n \in mesh THEN "running" ELSE "gone"
         /\ clk' \in Clocks /\ seen' \in [AllNodes -> Clocks]
         /\ \A n, m \in AllNodes : clk'[n] = 0 /\ seen'[n][m] = 0
         /\ build' \in Builds /\ restored' = NoRestore
<1>1. 0 \in Nat
  OBVIOUS
<1>2. \A n \in AllNodes : vm'[n] = IF n \in mesh THEN "running" ELSE "gone"
  BY Zenon DEF Fresh
<1>3. vm' \in [AllNodes -> {"gone", "running", "paused", "restored"}]
  BY Zenon DEF Fresh
<1>4. /\ clk' \in Clocks /\ seen' \in [AllNodes -> Clocks]
      /\ \A n, m \in AllNodes : clk'[n] = 0 /\ seen'[n][m] = 0
  BY Zenon, <1>1 DEF Fresh, Clocks
<1>5. build' \in AllBuilds
  BY Zenon DEF Fresh, AllBuilds
<1>6. build' \in Builds
  <2>1. build' = [vmm |-> build'.vmm, config |-> build'.config, posture |-> build'.posture]
    BY Zenon, <1>5, SnapTakeAssumption
  <2> QED BY <1>5, <2>1 DEF Builds
<1> QED BY Zenon, <1>2, <1>3, <1>4, <1>6 DEF Fresh

\* What a loss leaves of them.
LEMMA LoseEffect ==
  ASSUME TypeInv, NEW s, Lose(s)
  PROVE  /\ vm' \in [AllNodes -> {"gone", "running", "paused", "restored"}]
         /\ \A n \in AllNodes : vm'[n] = "gone" \/ (vm'[n] = vm[n] /\ n \notin s)
         /\ clk' \in Clocks /\ seen' \in [AllNodes -> Clocks]
         /\ NoneLives' => \A n, m \in AllNodes : clk'[n] = 0 /\ seen'[n][m] = 0
         /\ ~NoneLives' => UNCHANGED <<build, clk, seen, restored>>
         /\ NoneLives' => restored' = NoRestore
<1>1. 0 \in Nat
  OBVIOUS
<1>2. /\ vm' \in [AllNodes -> {"gone", "running", "paused", "restored"}]
      /\ \A n \in AllNodes : vm'[n] = "gone" \/ (vm'[n] = vm[n] /\ n \notin s)
  BY Zenon DEF Lose, TypeInv
<1>3. CASE NoneLives'
  <2>1. /\ clk' = [n \in AllNodes |-> 0] /\ restored' = NoRestore
        /\ seen' = [n \in AllNodes |-> [m \in AllNodes |-> 0]]
    BY Zenon, <1>3 DEF Lose, NoneLives
  <2>2. clk' \in Clocks /\ seen' \in [AllNodes -> Clocks]
    BY Zenon, <1>1, <2>1 DEF Clocks
  <2>3. \A n, m \in AllNodes : clk'[n] = 0 /\ seen'[n][m] = 0
    BY Zenon, <2>1
  <2> QED BY Zenon, <1>2, <1>3, <2>1, <2>2, <2>3
<1>4. CASE ~NoneLives'
  BY <1>2, <1>4 DEF Lose, NoneLives, guests, TypeInv
<1> QED BY Zenon, <1>3, <1>4

\* What a resume makes of them.
LEMMA ResumeEffect ==
  ASSUME TypeInv, NEW v \in Vmms, NEW r, NEW a, NEW allow, Resume(v, r, a, allow)
  PROVE  /\ Targets \subseteq mesh /\ Targets # {} /\ mesh \subseteq AllNodes
         /\ \A n \in Targets : file[n].take > 0
         /\ vm' \in [AllNodes -> {"gone", "running", "paused", "restored"}]
         /\ \A n \in AllNodes : vm'[n] =
              IF n \in Targets THEN IF Single THEN "running" ELSE "restored" ELSE "gone"
         /\ clk' \in Clocks /\ seen' \in [AllNodes -> Clocks]
         /\ \A n \in AllNodes : /\ clk'[n] = IF n \in Targets THEN file[n].clk ELSE clk[n]
                                /\ seen'[n] = IF n \in Targets THEN file[n].seen ELSE seen[n]
         /\ build' \in Builds
<1>1. Targets \subseteq mesh /\ mesh \subseteq AllNodes
  BY Zenon, TargetsInMesh, MeshNodes DEF TypeInv
<1>2. Targets # {} /\ \A n \in Targets : file[n].take > 0
  BY Zenon DEF Resume
<1>3. \A n \in Targets : /\ file[n].clk \in Nat /\ file[n].seen \in Clocks
                         /\ file[n].build \in Builds
  BY Zenon, <1>1, <1>2, FileTypes
<1>4. vm' \in [AllNodes -> {"gone", "running", "paused", "restored"}]
  BY Zenon DEF Resume
<1>5. \A n \in AllNodes : vm'[n] =
        IF n \in Targets THEN IF Single THEN "running" ELSE "restored" ELSE "gone"
  BY Zenon DEF Resume
<1>6. \A n \in AllNodes : /\ clk'[n] = IF n \in Targets THEN file[n].clk ELSE clk[n]
                          /\ seen'[n] = IF n \in Targets THEN file[n].seen ELSE seen[n]
  BY Zenon DEF Resume
<1>7. \A n \in AllNodes : clk[n] \in Nat /\ seen[n] \in Clocks
  BY Zenon DEF TypeInv, Clocks
<1>8. clk' \in Clocks
  <2>1. \A n \in AllNodes : clk'[n] \in Nat
    BY Zenon, <1>3, <1>6, <1>7
  <2> QED BY Zenon, <2>1 DEF Clocks, Resume
<1>9. seen' \in [AllNodes -> Clocks]
  <2>1. \A n \in AllNodes : seen'[n] \in Clocks
    BY Zenon, <1>3, <1>6, <1>7
  <2> QED BY Zenon, <2>1 DEF Resume
<1>10. build' \in Builds
  <2>1. v \in {b.vmm : b \in AllBuilds}
    BY Zenon DEF Vmms, AllBuilds, TypeInv
  <2>2. PICK n \in Targets : build' = [file[n].build EXCEPT !.vmm = v, !.config = None]
    BY Zenon DEF Resume
  <2>3. file[n].build \in Builds
    BY Zenon, <1>3
  <2> QED BY Zenon, <2>1, <2>2, <2>3 DEF Builds
<1> QED BY Zenon, <1>1, <1>2, <1>4, <1>5, <1>6, <1>8, <1>9, <1>10

\* The VMs and their guests keep their types.
LEMMA GuestTypes ==
  ASSUME TypeInv, SnapNext
  PROVE  /\ vm' \in [AllNodes -> {"gone", "running", "paused", "restored"}]
         /\ clk' \in Clocks /\ seen' \in [AllNodes -> Clocks]
<1>1. /\ vm \in [AllNodes -> {"gone", "running", "paused", "restored"}]
      /\ clk \in Clocks /\ seen \in [AllNodes -> Clocks] /\ setting \in Settings
      /\ nodes \subseteq mesh
  BY Zenon DEF TypeInv
<1>2. ASSUME UNCHANGED <<vm, build, clk, seen, restored>>
      PROVE  UNCHANGED <<vm, clk, seen>>
  BY Zenon, <1>2
<1>3. ASSUME NEW n \in mesh, GuestEvent(n)
      PROVE  vm' = vm /\ seen' = seen /\ clk' \in Clocks
  <2>1. \A k \in Nat : k + 1 \in Nat
    OBVIOUS
  <2>2. vm' = vm /\ seen' = seen /\ clk' = [clk EXCEPT ![n] = clk[n] + 1]
    BY Zenon, <1>3 DEF GuestEvent
  <2>3. n \in AllNodes
    BY Zenon, <1>1, MeshNodes
  <2> QED BY Zenon, <1>1, <2>1, <2>2, <2>3 DEF Clocks
<1>4. ASSUME NEW n \in mesh, NEW m \in mesh, Hear(n, m)
      PROVE  vm' = vm /\ clk' = clk /\ seen' \in [AllNodes -> Clocks]
  <2>1. vm' = vm /\ clk' = clk
    BY Zenon, <1>4 DEF Hear
  <2>2. PICK e \in seen[n][m] + 1 .. clk[m] : seen' = [seen EXCEPT ![n][m] = e]
    BY Zenon, <1>4 DEF Hear
  <2>3. n \in AllNodes /\ m \in AllNodes
    BY Zenon, <1>1, MeshNodes
  <2>4. e \in Nat
    <3>1. seen[n][m] \in Nat /\ clk[m] \in Nat
      BY Zenon, <1>1, <2>3 DEF Clocks
    <3> QED BY <2>2, <3>1
  <2>5. [seen[n] EXCEPT ![m] = e] \in Clocks
    BY Zenon, <1>1, <2>3, <2>4 DEF Clocks
  <2>6. seen' = [seen EXCEPT ![n] = [seen[n] EXCEPT ![m] = e]]
    BY <2>2
  <2> QED BY Zenon, <1>1, <2>1, <2>3, <2>5, <2>6
<1>5. ASSUME NEW n \in nodes, Pause(n)
      PROVE  /\ clk' = clk /\ seen' = seen
             /\ vm' \in [AllNodes -> {"gone", "running", "paused", "restored"}]
  BY Zenon, <1>1, <1>5 DEF Pause, guests
<1>6. ASSUME Unpause
      PROVE  /\ clk' = clk /\ seen' = seen
             /\ vm' \in [AllNodes -> {"gone", "running", "paused", "restored"}]
  BY Zenon, <1>1, <1>6 DEF Unpause, guests
<1>7. ASSUME Fresh
      PROVE  /\ vm' \in [AllNodes -> {"gone", "running", "paused", "restored"}]
             /\ clk' \in Clocks /\ seen' \in [AllNodes -> Clocks]
  BY Zenon, <1>1, <1>7, FreshEffect
<1>8. ASSUME NEW s, Lose(s)
      PROVE  /\ vm' \in [AllNodes -> {"gone", "running", "paused", "restored"}]
             /\ clk' \in Clocks /\ seen' \in [AllNodes -> Clocks]
  BY Zenon, <1>8, LoseEffect
<1>9. ASSUME NEW v \in Vmms, NEW r, NEW a, NEW allow, Resume(v, r, a, allow)
      PROVE  /\ vm' \in [AllNodes -> {"gone", "running", "paused", "restored"}]
             /\ clk' \in Clocks /\ seen' \in [AllNodes -> Clocks]
  BY Zenon, <1>9, ResumeEffect
<1> QED BY Zenon, <1>1, <1>2, <1>3, <1>4, <1>5, <1>6, <1>7, <1>8, <1>9, GuestChanges

\* A mesh is finite and has a server.
LEMMA MeshFinite ==
  ASSUME setting \in Settings
  PROVE  /\ IsFiniteSet(mesh)
         /\ \A n \in mesh : n[1] \in {0, 1} /\ n[2] \in Nat
         /\ Servers(mesh) # {}
<1>1. setting.servers \in Nat \ {0} /\ setting.agents \in Nat
  BY Zenon, SnapTakeAssumption
<1>2. IsFiniteSet(1 .. setting.servers) /\ IsFiniteSet(1 .. setting.agents)
  <2>1. 1 \in Int /\ setting.servers \in Int /\ setting.agents \in Int
    BY <1>1
  <2> QED BY Zenon, <2>1, FS_Interval
<1>3. IsFiniteSet({0} \X (1 .. setting.servers)) /\ IsFiniteSet({1} \X (1 .. setting.agents))
  BY Zenon, <1>2, FS_Product, FS_Singleton
<1>4. IsFiniteSet(mesh)
  BY Zenon, <1>3, FS_Union DEF mesh, Members
<1>5. \A n \in mesh : n[1] \in {0, 1} /\ n[2] \in Nat
  BY <1>1 DEF mesh, Members
<1>6. 1 \in 1 .. setting.servers
  BY <1>1
<1>7. <<0, 1>> \in mesh
  BY Zenon, <1>6 DEF mesh, Members
<1> QED BY Zenon, <1>4, <1>5, <1>7 DEF Servers

\* However many of the servers a take names, the address it writes for a node
\* is the one the launcher gave it.
LEMMA AddressOf ==
  ASSUME setting \in Settings, nodes \subseteq mesh, NEW n \in nodes
  PROVE  /\ Address(n) \in Nat
         /\ Address(n) = IF n[1] = 0 THEN 1 + n[2]
                         ELSE 1 + Cardinality(Servers(mesh)) + n[2]
<1> DEFINE all == Cardinality(Servers(mesh))
           some == Cardinality(Servers(nodes))
           counted == IF all > 1 THEN all ELSE IF Servers(nodes) = {} THEN 1 ELSE some
<1>1. Servers(nodes) \in SUBSET Servers(mesh) /\ Servers(mesh) \in SUBSET mesh
  BY Zenon DEF Servers
<1>2. IsFiniteSet(Servers(mesh)) /\ IsFiniteSet(Servers(nodes)) /\ some <= all
  <2>1. IsFiniteSet(Servers(mesh))
    BY Zenon, <1>1, MeshFinite, FS_Subset
  <2> QED BY Zenon, <1>1, <2>1, FS_Subset
<1>3. /\ all \in Nat /\ some \in Nat
      /\ all # 0 /\ (Servers(nodes) # {} => some # 0)
  BY Zenon, <1>2, MeshFinite, FS_CardinalityType, FS_EmptySet
<1>4. counted = all
  <2> HIDE DEF all, some
  <2> QED BY <1>2, <1>3
<1>5. n[1] \in {0, 1} /\ n[2] \in Nat
  BY Zenon, MeshFinite
<1>6. Address(n) = ConventionalIp(n, all)
  BY Zenon, <1>4 DEF Address
<1> QED BY <1>3, <1>5, <1>6 DEF ConventionalIp

\* What a VMM writes.
LEMMA CreateEffect ==
  ASSUME TypeInv, VmInv, StepInv, NEW n \in nodes, Create(n)
  PROVE  LET f == [take |-> takes, whole |-> FALSE, clk |-> clk[n], seen |-> seen[n],
                   build |-> build, cpu |-> cpu]
         IN  /\ f \in Snapshot /\ file' = [file EXCEPT ![n] = f]
             /\ n \in AllNodes /\ n \in mesh /\ n \in todo /\ vm[n] = "paused"
             /\ ~NoneLives /\ NoneRestored
             /\ pc = "create" /\ takes > 0 /\ file[n].take # takes
             /\ UNCHANGED <<setting, cpu, vm, build, clk, seen, manifest, pc, verb, nodes,
                            todo, takes, ident, restored>>
<1> DEFINE f == [take |-> takes, whole |-> FALSE, clk |-> clk[n], seen |-> seen[n],
                 build |-> build, cpu |-> cpu]
<1>1. n \in mesh /\ n \in AllNodes
  BY Zenon, MeshNodes DEF TypeInv
<1>2. /\ n \in todo /\ vm[n] = "paused" /\ pc = "create" /\ file[n].take # takes
      /\ file' = [file EXCEPT ![n] = f]
  BY Zenon DEF Create
<1>3. ~NoneLives
  BY Zenon, <1>1, <1>2 DEF NoneLives
<1>4. takes > 0 /\ NoneRestored
  BY Zenon, <1>2 DEF StepInv
<1>5. takes \in Nat \ {0}
  BY <1>4 DEF TypeInv
<1>6. build \in Builds
  BY Zenon, <1>3 DEF VmInv
<1>7. clk[n] \in Nat /\ seen[n] \in Clocks /\ cpu \in AllCpus
  BY Zenon, <1>1 DEF TypeInv, Clocks
<1>8. f \in Snapshot
  BY Zenon, <1>5, <1>6, <1>7 DEF Snapshot
<1>9. UNCHANGED <<setting, cpu, vm, build, clk, seen, manifest, pc, verb, nodes,
                  todo, takes, ident, restored>>
  BY Zenon DEF Create, world, guests, command
<1> QED BY Zenon, <1>1, <1>2, <1>3, <1>4, <1>8, <1>9

\* Filling a file makes it whole and changes nothing else of it.
LEMMA FillEffect ==
  ASSUME TypeInv, NEW n \in mesh, Fill(n)
  PROVE  /\ n \in AllNodes /\ file[n].take > 0 /\ file[n] \in Snapshot
         /\ file'[n].whole /\ file'[n] \in Snapshot
         /\ file'[n].take = file[n].take /\ file'[n].clk = file[n].clk
         /\ file'[n].seen = file[n].seen /\ file'[n].build = file[n].build
         /\ file'[n].cpu = file[n].cpu
         /\ \A m \in AllNodes : m # n => file'[m] = file[m]
         /\ file' \in [AllNodes -> Snapshot \cup {NoFile}]
         /\ todo' = IF pc = "create" /\ file[n].take = takes THEN todo \ {n} ELSE todo
         /\ UNCHANGED <<setting, cpu, vm, build, clk, seen, manifest, pc, verb, nodes, takes,
                        ident, restored>>
<1>1. n \in AllNodes
  BY Zenon, MeshNodes DEF TypeInv
<1>2. file[n].take > 0 /\ file' = [file EXCEPT ![n] = [file[n] EXCEPT !.whole = TRUE]]
  BY DEF Fill, Writing
<1>3. file[n] \in Snapshot
  BY Zenon, <1>1, <1>2, FileTypes
<1>4. file \in [AllNodes -> Snapshot \cup {NoFile}]
  BY Zenon DEF TypeInv
<1>5. file'[n] = [file[n] EXCEPT !.whole = TRUE] /\ \A m \in AllNodes : m # n => file'[m] = file[m]
  BY Zenon, <1>1, <1>2, <1>4
<1>6. /\ file'[n].whole /\ file'[n] \in Snapshot
      /\ file'[n].take = file[n].take /\ file'[n].clk = file[n].clk
      /\ file'[n].seen = file[n].seen /\ file'[n].build = file[n].build
      /\ file'[n].cpu = file[n].cpu
  BY Zenon, <1>3, <1>5 DEF Snapshot
<1>7. file' \in [AllNodes -> Snapshot \cup {NoFile}]
  BY Zenon, <1>1, <1>2, <1>4, <1>5, <1>6
<1>8. /\ todo' = IF pc = "create" /\ file[n].take = takes THEN todo \ {n} ELSE todo
      /\ UNCHANGED <<setting, cpu, vm, build, clk, seen, manifest, pc, verb, nodes, takes,
                     ident, restored>>
  BY Zenon DEF Fill, world, guests
<1> QED BY Zenon, <1>1, <1>2, <1>3, <1>5, <1>6, <1>7, <1>8

\* The command keeps its types.
LEMMA CommandTypes ==
  ASSUME TypeInv, SnapNext
  PROVE  pc' \in Steps /\ nodes' \subseteq mesh /\ todo' \subseteq nodes' /\ takes' \in Nat
<1>1. pc \in Steps /\ nodes \subseteq mesh /\ todo \subseteq nodes /\ takes \in Nat
  BY Zenon DEF TypeInv
<1>2. takes + 1 \in Nat
  BY <1>1
<1>3. ASSUME NEW v, NEW s \in SUBSET mesh, NEW step \in Steps, Begin(v, s, step)
      PROVE  pc' \in Steps /\ nodes' \subseteq mesh /\ todo' \subseteq nodes' /\ takes' \in Nat
  BY Zenon, <1>2, <1>3 DEF Begin
<1>4. "marker" \in Steps /\ "pause" \in Steps /\ mesh \in SUBSET mesh
  BY Zenon DEF Steps
<1>5. ASSUME TakeRunner \/ TakeAttached \/ (\E s \in SUBSET mesh : MeshTake(s))
      PROVE  pc' \in Steps /\ nodes' \subseteq mesh /\ todo' \subseteq nodes' /\ takes' \in Nat
  BY Zenon, <1>3, <1>4, <1>5 DEF TakeRunner, TakeAttached, MeshTake
<1>6. ASSUME NEW n, Pause(n)
      PROVE  pc' \in Steps /\ nodes' = nodes /\ todo' \subseteq nodes' /\ takes' = takes
  BY Zenon, <1>1, <1>6 DEF Pause, Steps
<1>7. ASSUME SeeMarker \/ Joined \/ Unpause \/ Identify \/ Truncate \/ WriteManifest \/ Kill
      PROVE  pc' \in Steps /\ nodes' = nodes /\ todo' = todo /\ takes' = takes
  BY Zenon, <1>7 DEF SeeMarker, Joined, Unpause, Identify, Truncate, WriteManifest, Kill, Steps
<1>8. ASSUME NEW n \in mesh, Fill(n)
      PROVE  pc' = pc /\ nodes' = nodes /\ todo' \subseteq todo /\ takes' = takes
  BY Zenon, <1>8, FillEffect
<1>9. ASSUME Ended, takes' = takes
      PROVE  pc' \in Steps /\ nodes' = {} /\ todo' = {} /\ takes' = takes
  BY Zenon, <1>9 DEF Ended, Steps
<1>10. ASSUME UNCHANGED command
       PROVE  pc' = pc /\ nodes' = nodes /\ todo' = todo /\ takes' = takes
  BY Zenon, <1>10 DEF command
<1> QED BY Zenon, <1>1, <1>5, <1>6, <1>7, <1>8, <1>9, <1>10, CommandChanges

\* The files and the manifest keep their types.
LEMMA DiskTypes ==
  ASSUME TypeInv, VmInv, StepInv, SnapNext
  PROVE  /\ file' \in [AllNodes -> Snapshot \cup {NoFile}]
         /\ manifest'.take \in Nat /\ manifest'.nodes \subseteq mesh \X Nat
<1>1. /\ file \in [AllNodes -> Snapshot \cup {NoFile}]
      /\ manifest.take \in Nat /\ manifest.nodes \subseteq mesh \X Nat
      /\ setting \in Settings /\ nodes \subseteq mesh /\ takes \in Nat
  BY Zenon DEF TypeInv
<1>2. file' \in [AllNodes -> Snapshot \cup {NoFile}]
  <2>1. ASSUME NEW n \in nodes, Create(n) PROVE file' \in [AllNodes -> Snapshot \cup {NoFile}]
    BY Zenon, <1>1, <2>1, CreateEffect
  <2>2. ASSUME NEW n \in mesh, Fill(n) PROVE file' \in [AllNodes -> Snapshot \cup {NoFile}]
    BY Zenon, <2>2, FillEffect
  <2> QED BY Zenon, <1>1, <2>1, <2>2, FileChanges
<1>3. manifest'.take \in Nat /\ manifest'.nodes \subseteq mesh \X Nat
  <2>1. CASE Truncate
    BY <2>1 DEF Truncate, NoManifest
  <2>2. CASE WriteManifest
    <3>1. NodeLines \subseteq mesh \X Nat
      <4>1. \A n \in nodes : n \in mesh /\ Address(n) \in Nat
        BY Zenon, <1>1, AddressOf
      <4>2. \A n \in nodes : <<n, Address(n)>> \in mesh \X Nat
        BY Zenon, <4>1
      <4> QED BY Zenon, <4>2 DEF NodeLines
    <3>2. manifest'.take = takes /\ manifest'.nodes = NodeLines
      BY <2>2 DEF WriteManifest
    <3> QED BY Zenon, <1>1, <3>1, <3>2
  <2> QED BY Zenon, <1>1, <2>1, <2>2, ManifestChanges
<1> QED BY Zenon, <1>2, <1>3

\* Every step keeps the types.
LEMMA TypeStep ==
  ASSUME TypeInv, VmInv, StepInv, SnapNext
  PROVE  TypeInv'
<1>1. setting' \in Settings /\ setting' = setting /\ mesh' = mesh
  BY Zenon, Fixed DEF TypeInv
<1>2. cpu' \in AllCpus
  <2>1. CASE Move
    BY Zenon, <1>1, <2>1 DEF Move, AllCpus
  <2>2. CASE ~Move
    <3>1. cpu' = cpu
      BY Zenon, <2>2
         DEF SnapNext, Command, Environment, TakeRunner, SeeMarker, TakeAttached, MeshTake,
             Pause, Create, Joined, Unpause, Identify, Truncate, WriteManifest, Kill, Finish,
             Die, Crash, Resume, Launch, Stop, GuestEvent, VmDies, Fill, Hear, world
    <3> QED BY Zenon, <3>1 DEF TypeInv
  <2> QED BY Zenon, <2>1, <2>2
<1> QED BY Zenon, <1>1, <1>2, GuestTypes, CommandTypes, DiskTypes DEF TypeInv

------------------------------------------------------------------------------
(* The VMs and what their guests know.                                     *)

\* The verbs that start VMs find none, on the mesh or elsewhere.
LEMMA AllGoneNone ==
  ASSUME VmInv, AllGone
  PROVE  NoneLives
BY Zenon DEF VmInv, AllGone, NoneLives

\* A VM that runs or is paused was not restored into a mesh, nor were others.
LEMMA LiveNotRestored ==
  ASSUME VmInv, NEW n \in AllNodes, vm[n] \in {"running", "paused"}
  PROVE  NoneRestored /\ ~NoneLives /\ build \in Builds
<1>1. vm[n] # "gone" /\ vm[n] # "restored"
  BY Zenon
<1> QED BY Zenon, <1>1 DEF VmInv, NoneLives

\* Every step preserves VmInv.
LEMMA VmStep ==
  ASSUME TypeInv, VmInv, StepInv, SnapNext
  PROVE  VmInv'
<1>0. /\ mesh' = mesh /\ (Single' <=> Single) /\ nodes \subseteq mesh /\ setting \in Settings
      /\ mesh \subseteq AllNodes
  BY Zenon, Fixed, MeshNodes DEF TypeInv
<1>1. ASSUME UNCHANGED <<vm, build, clk, seen, restored>> PROVE VmInv'
  BY Zenon, <1>0, <1>1 DEF VmInv, NoneRestored, NoneLives
<1>2. ASSUME AllGone, Fresh PROVE VmInv'
  <2>1. \A n \in AllNodes : vm'[n] = IF n \in mesh THEN "running" ELSE "gone"
    BY Zenon, <1>0, <1>2, FreshEffect
  <2>2. \A n \in AllNodes : vm'[n] # "restored"
    BY Zenon, <2>1
  <2>3. /\ \A n, m \in AllNodes : clk'[n] = 0 /\ seen'[n][m] = 0
        /\ build' \in Builds
    BY Zenon, <1>0, <1>2, FreshEffect
  <2> QED BY Zenon, <1>0, <2>1, <2>2, <2>3 DEF VmInv, NoneRestored, NoneLives
<1>3. ASSUME NEW s \in SUBSET mesh, Lose(s) PROVE VmInv'
  <2>1. /\ \A n \in AllNodes : vm'[n] = "gone" \/ vm'[n] = vm[n]
        /\ NoneLives' => \A n, m \in AllNodes : clk'[n] = 0 /\ seen'[n][m] = 0
        /\ ~NoneLives' => build' = build
    BY Zenon, <1>3, LoseEffect
  <2>2. NoneRestored => NoneRestored'
    BY Zenon, <2>1 DEF NoneRestored
  <2>3. ~NoneLives' => ~NoneLives
    BY Zenon, <2>1 DEF NoneLives
  <2>4. ~NoneLives' => build' \in Builds
    BY Zenon, <2>1, <2>3 DEF VmInv
  <2>5. NoneRestored' \/ \A n \in AllNodes : vm'[n] \in {"restored", "gone"}
    BY Zenon, <2>1, <2>2 DEF VmInv
  <2>6. \A n \in AllNodes : n \notin mesh => vm'[n] = "gone"
    BY Zenon, <2>1 DEF VmInv
  <2>7. Single => NoneRestored'
    BY Zenon, <2>2 DEF VmInv
  <2> QED BY Zenon, <1>0, <2>1, <2>4, <2>5, <2>6, <2>7 DEF VmInv
\* One VM of several changes between running and paused.
<1>4. ASSUME vm' \in [AllNodes -> {"gone", "running", "paused", "restored"}], NEW n \in mesh,
             vm[n] \in {"running", "paused"}, vm'[n] \in {"running", "paused"},
             \A m \in AllNodes : vm'[m] = vm[m]
                 \/ (m \in mesh /\ vm[m] # "restored" /\ vm'[m] \in {"running", "paused"}),
             build' = build
      PROVE  VmInv'
  <2>1. NoneRestored /\ build \in Builds
    BY Zenon, <1>0, <1>4, LiveNotRestored
  <2>2. NoneRestored'
    BY Zenon, <1>4, <2>1 DEF NoneRestored
  <2>3. ~NoneLives'
    BY Zenon, <1>0, <1>4 DEF NoneLives
  <2>4. \A m \in AllNodes : m \notin mesh => vm'[m] = "gone"
    BY Zenon, <1>4 DEF VmInv
  <2> QED BY Zenon, <1>0, <1>4, <2>1, <2>2, <2>3, <2>4 DEF VmInv
<1>5. vm' \in [AllNodes -> {"gone", "running", "paused", "restored"}]
  BY Zenon, GuestTypes
<1>6. ASSUME NEW n \in mesh, GuestEvent(n) \/ \E m \in mesh : Hear(n, m) PROVE VmInv'
  <2>1. vm[n] = "running" /\ vm' = vm /\ build' = build
    BY Zenon, <1>6 DEF GuestEvent, Hear
  <2>2. vm[n] \in {"running", "paused"} /\ vm'[n] \in {"running", "paused"}
    BY Zenon, <2>1
  <2>3. \A m \in AllNodes : vm'[m] = vm[m]
    BY Zenon, <2>1
  <2> QED BY Zenon, <1>4, <1>5, <2>1, <2>2, <2>3
<1>7. ASSUME NEW n \in nodes, Pause(n) PROVE VmInv'
  <2>1. vm[n] \in {"running", "paused"} /\ vm' = [vm EXCEPT ![n] = "paused"] /\ build' = build
    BY Zenon, <1>7 DEF Pause
  <2>2. n \in mesh /\ n \in AllNodes
    BY Zenon, <1>0
  <2>3. vm'[n] = "paused" /\ \A m \in AllNodes : m # n => vm'[m] = vm[m]
    BY Zenon, <2>1, <2>2 DEF TypeInv
  <2>4. \A m \in AllNodes : vm'[m] = vm[m]
           \/ (m \in mesh /\ vm[m] # "restored" /\ vm'[m] \in {"running", "paused"})
    <3>1. vm[n] # "restored" /\ vm'[n] \in {"running", "paused"}
      BY Zenon, <2>1, <2>3
    <3> QED BY Zenon, <2>2, <2>3, <3>1
  <2>5. vm'[n] \in {"running", "paused"}
    BY Zenon, <2>3
  <2> QED BY Zenon, <1>4, <1>5, <2>1, <2>2, <2>4, <2>5
<1>8. ASSUME Unpause PROVE VmInv'
  <2>1. /\ \A n \in nodes : vm[n] = "paused"
        /\ vm' = [n \in AllNodes |-> IF n \in nodes THEN "running" ELSE vm[n]] /\ build' = build
    BY Zenon, <1>8 DEF Unpause
  <2>2. CASE nodes = {}
    <3>1. vm' = vm
      BY Zenon, <2>1, <2>2 DEF TypeInv
    <3>2. UNCHANGED <<clk, seen>>
      BY Zenon, <1>8 DEF Unpause, guests
    <3> QED BY Zenon, <1>0, <2>1, <3>1, <3>2 DEF VmInv, NoneRestored, NoneLives
  <2>3. ASSUME NEW n \in nodes PROVE VmInv'
    <3>1. n \in mesh /\ n \in AllNodes
      BY Zenon, <1>0
    <3>2. \A m \in AllNodes : vm'[m] = vm[m]
             \/ (m \in mesh /\ vm[m] # "restored" /\ vm'[m] \in {"running", "paused"})
      <4>1. \A m \in nodes : vm[m] # "restored" /\ m \in mesh /\ m \in AllNodes
        BY Zenon, <1>0, <2>1
      <4>2. \A m \in nodes : vm'[m] \in {"running", "paused"}
        BY Zenon, <2>1, <4>1
      <4>3. \A m \in AllNodes : m \notin nodes => vm'[m] = vm[m]
        BY Zenon, <2>1
      <4> QED BY Zenon, <4>1, <4>2, <4>3
    <3>3. vm[n] \in {"running", "paused"} /\ vm'[n] \in {"running", "paused"}
      BY Zenon, <2>1, <3>1
    <3> QED BY Zenon, <1>4, <1>5, <2>1, <3>1, <3>2, <3>3
  <2> QED BY Zenon, <2>2, <2>3
<1>9. ASSUME NEW v \in Vmms, NEW r, NEW a, NEW allow, Resume(v, r, a, allow) PROVE VmInv'
  <2>1. /\ Targets \subseteq mesh /\ Targets # {}
        /\ \A n \in AllNodes : vm'[n] =
             IF n \in Targets THEN IF Single THEN "running" ELSE "restored" ELSE "gone"
        /\ build' \in Builds
    BY Zenon, <1>9, ResumeEffect
  <2>2. \A n \in AllNodes : n \notin mesh => vm'[n] = "gone"
    BY Zenon, <2>1
  <2>3. Single => \A n \in AllNodes : vm'[n] # "restored"
    BY Zenon, <2>1
  <2>4. ~Single => \A n \in AllNodes : vm'[n] \in {"restored", "gone"}
    BY Zenon, <2>1
  <2>5. ~NoneLives'
    BY Zenon, <1>0, <2>1 DEF NoneLives
  <2> QED BY Zenon, <1>0, <2>1, <2>2, <2>3, <2>4, <2>5 DEF VmInv, NoneRestored
<1> QED BY Zenon, <1>0, <1>1, <1>2, <1>3, <1>6, <1>7, <1>8, <1>9, GuestChanges

\* What a message changes.
LEMMA HearEffect ==
  ASSUME TypeInv, NEW n \in mesh, NEW m \in mesh, Hear(n, m)
  PROVE  /\ m # n /\ vm[n] = "running" /\ UNCHANGED <<vm, build, clk, file, restored>>
         /\ n \in AllNodes /\ m \in AllNodes
         /\ \A i, j \in AllNodes : seen'[i][j] = seen[i][j] \/ (i = n /\ j = m)
         /\ \A i \in AllNodes : i # n => seen'[i] = seen[i]
         /\ seen'[n][m] <= clk[m]
<1>1. n \in AllNodes /\ m \in AllNodes
  BY Zenon, MeshNodes DEF TypeInv
<1>2. m # n /\ vm[n] = "running" /\ UNCHANGED <<vm, build, clk, file, restored>>
  BY Zenon DEF Hear
<1>3. PICK e \in seen[n][m] + 1 .. clk[m] : seen' = [seen EXCEPT ![n][m] = e]
  BY Zenon DEF Hear
<1>4. seen \in [AllNodes -> Clocks] /\ seen[n][m] \in Nat /\ clk[m] \in Nat
  BY Zenon, <1>1 DEF TypeInv, Clocks
<1>5. e <= clk[m]
  BY <1>3, <1>4
<1>6. seen' = [seen EXCEPT ![n] = [seen[n] EXCEPT ![m] = e]]
  BY <1>3
<1>7. seen'[n] = [seen[n] EXCEPT ![m] = e] /\ \A i \in AllNodes : i # n => seen'[i] = seen[i]
  BY Zenon, <1>1, <1>4, <1>6
<1>8. seen'[n][m] = e /\ \A j \in AllNodes : j # m => seen'[n][j] = seen[n][j]
  BY Zenon, <1>1, <1>4, <1>7 DEF Clocks
<1> QED BY Zenon, <1>1, <1>2, <1>5, <1>7, <1>8

\* Every step preserves HeardInv.
LEMMA HeardStep ==
  ASSUME TypeInv, VmInv, StepInv, HeardInv, SnapNext
  PROVE  HeardInv'
<1>0. /\ mesh' = mesh /\ nodes \subseteq mesh /\ mesh \subseteq AllNodes /\ setting \in Settings
  BY Zenon, Fixed, MeshNodes DEF TypeInv
<1>1. ASSUME NEW n \in AllNodes, NEW m \in AllNodes, m = n \/ m \notin mesh
      PROVE  seen'[n][m] = 0
  <2>1. seen[n][m] = 0 /\ (file[n].take > 0 => file[n].seen[m] = 0)
    BY Zenon, <1>1 DEF HeardInv
  <2>2. CASE UNCHANGED <<vm, build, clk, seen, restored>>
    BY Zenon, <2>1, <2>2
  <2>3. CASE Fresh
    BY Zenon, <1>0, <2>3, FreshEffect
  <2>4. ASSUME NEW s \in SUBSET mesh, Lose(s) PROVE seen'[n][m] = 0
    <3>1. NoneLives' => seen'[n][m] = 0
      BY Zenon, <2>4, LoseEffect
    <3>2. ~NoneLives' => seen' = seen
      BY Zenon, <2>4, LoseEffect
    <3> QED BY Zenon, <2>1, <3>1, <3>2
  <2>5. ASSUME NEW i \in mesh, GuestEvent(i) PROVE seen'[n][m] = 0
    BY Zenon, <2>1, <2>5 DEF GuestEvent
  <2>6. ASSUME NEW i \in mesh, NEW j \in mesh, Hear(i, j) PROVE seen'[n][m] = 0
    <3>1. i # j /\ (seen'[n][m] = seen[n][m] \/ (n = i /\ m = j))
      <4>1. /\ j # i
            /\ \A p, q \in AllNodes : seen'[p][q] = seen[p][q] \/ (p = i /\ q = j)
        BY Zenon, <2>6, HearEffect
      <4> QED BY Zenon, <4>1
    <3> QED BY Zenon, <1>1, <2>1, <3>1
  <2>7. ASSUME NEW i \in nodes, Pause(i) PROVE seen'[n][m] = 0
    BY Zenon, <2>1, <2>7 DEF Pause, guests
  <2>8. CASE Unpause
    BY Zenon, <2>1, <2>8 DEF Unpause, guests
  <2>9. ASSUME NEW v \in Vmms, NEW r, NEW a, NEW allow, Resume(v, r, a, allow)
        PROVE  seen'[n][m] = 0
    <3>1. /\ n \in Targets => file[n].take > 0
          /\ seen'[n] = IF n \in Targets THEN file[n].seen ELSE seen[n]
      BY Zenon, <2>9, ResumeEffect
    <3> QED BY Zenon, <2>1, <3>1
  <2> QED BY Zenon, <1>0, <2>2, <2>3, <2>4, <2>5, <2>6, <2>7, <2>8, <2>9, GuestChanges
<1>2. ASSUME NEW n \in AllNodes, NEW m \in AllNodes, m = n \/ m \notin mesh, file'[n].take > 0
      PROVE  file'[n].seen[m] = 0
  <2>1. seen[n][m] = 0 /\ (file[n].take > 0 => file[n].seen[m] = 0)
    BY Zenon, <1>2 DEF HeardInv
  <2>2. CASE file' = file
    BY Zenon, <1>2, <2>1, <2>2
  <2>3. ASSUME NEW i \in nodes, Create(i) PROVE file'[n].seen[m] = 0
    <3> DEFINE f == [take |-> takes, whole |-> FALSE, clk |-> clk[i], seen |-> seen[i],
                     build |-> build, cpu |-> cpu]
    <3>1. file' = [file EXCEPT ![i] = f] /\ f.seen = seen[i]
      BY Zenon, <2>3, CreateEffect
    <3> HIDE DEF f
    <3>2. file'[n] = IF n = i THEN f ELSE file[n]
      BY Zenon, <3>1 DEF TypeInv
    <3>3. CASE n = i
      BY Zenon, <2>1, <3>1, <3>2, <3>3
    <3>4. CASE n # i
      <4>1. file'[n] = file[n]
        BY Zenon, <3>2, <3>4
      <4> QED BY Zenon, <1>2, <2>1, <4>1
    <3> QED BY Zenon, <3>3, <3>4
  <2>4. ASSUME NEW i \in mesh, Fill(i) PROVE file'[n].seen[m] = 0
    <3>1. file'[n].take = file[n].take /\ file'[n].seen = file[n].seen
      BY Zenon, <2>4, FillEffect
    <3> QED BY Zenon, <1>2, <2>1, <3>1
  <2> QED BY Zenon, <2>2, <2>3, <2>4, FileChanges
<1> QED BY Zenon, <1>0, <1>1, <1>2 DEF HeardInv

\* Every step preserves KnowInv.
LEMMA KnowStep ==
  ASSUME TypeInv, VmInv, StepInv, HeardInv, KnowInv, SnapNext, TypeInv', HeardInv'
  PROVE  KnowInv'
<1>0. /\ mesh' = mesh /\ nodes \subseteq mesh /\ mesh \subseteq AllNodes /\ setting \in Settings
  BY Zenon, Fixed, MeshNodes DEF TypeInv
<1>1. \A n, m \in AllNodes : /\ clk[n] \in Nat /\ seen[n][m] \in Nat
                             /\ clk'[n] \in Nat /\ seen'[n][m] \in Nat
  BY Zenon DEF TypeInv, Clocks
<1>2. ASSUME NoneRestored, UNCHANGED <<clk, seen>> PROVE KnowInv'
  BY Zenon, <1>2 DEF KnowInv
<1>3. ASSUME \A n, m \in AllNodes : clk'[n] = 0 /\ seen'[n][m] = 0 PROVE KnowInv'
  <2>1. 0 <= 0
    OBVIOUS
  <2> QED BY Zenon, <1>3, <2>1 DEF KnowInv
<1>4. ASSUME UNCHANGED <<vm, build, clk, seen, restored>> PROVE KnowInv'
  BY Zenon, <1>4 DEF KnowInv, NoneRestored
<1>5. ASSUME Fresh PROVE KnowInv'
  BY Zenon, <1>0, <1>3, <1>5, FreshEffect
<1>6. ASSUME NEW s \in SUBSET mesh, Lose(s) PROVE KnowInv'
  <2>1. NoneLives' => \A n, m \in AllNodes : clk'[n] = 0 /\ seen'[n][m] = 0
    BY Zenon, <1>6, LoseEffect
  <2>2. /\ ~NoneLives' => clk' = clk /\ seen' = seen
        /\ \A n \in AllNodes : vm'[n] = "gone" \/ vm'[n] = vm[n]
    BY Zenon, <1>6, LoseEffect
  <2>3. ASSUME ~NoneLives', NoneRestored' PROVE NoneRestored
    <3>1. PICK n \in AllNodes : vm'[n] # "gone"
      BY Zenon, <2>3 DEF NoneLives
    <3>2. vm[n] # "gone" /\ vm[n] # "restored"
      BY Zenon, <2>2, <2>3, <3>1 DEF NoneRestored
    <3> QED BY Zenon, <3>2 DEF VmInv
  <2>4. CASE ~NoneRestored'
    BY Zenon, <2>4 DEF KnowInv
  <2> QED BY Zenon, <1>2, <1>3, <2>1, <2>2, <2>3, <2>4
<1>7. ASSUME NEW n \in mesh, GuestEvent(n) PROVE KnowInv'
  <2>1. /\ vm[n] = "running" /\ vm' = vm /\ seen' = seen
        /\ clk' = [clk EXCEPT ![n] = clk[n] + 1]
    BY Zenon, <1>7 DEF GuestEvent
  <2>2. \A m \in AllNodes : clk[m] <= clk'[m]
    <3>1. \A m \in AllNodes : clk'[m] = IF m = n THEN clk[n] + 1 ELSE clk[m]
      BY Zenon, <2>1 DEF TypeInv, Clocks
    <3> QED BY <1>1, <3>1
  <2>3. NoneRestored
    <3>1. vm[n] \in {"running", "paused"}
      BY Zenon, <2>1
    <3> QED BY Zenon, <1>0, <3>1, LiveNotRestored
  <2>4. \A i, j \in AllNodes : seen'[i][j] <= clk'[j]
    <3>1. \A i, j \in AllNodes : seen[i][j] <= clk[j] /\ seen'[i][j] = seen[i][j]
      BY Zenon, <2>1, <2>3 DEF KnowInv
    <3> QED BY <1>1, <2>2, <3>1
  <2> QED BY Zenon, <2>4 DEF KnowInv
<1>8. ASSUME NEW n \in mesh, NEW m \in mesh, Hear(n, m) PROVE KnowInv'
  <2>1. /\ vm[n] = "running" /\ clk' = clk /\ seen'[n][m] <= clk[m]
        /\ \A i, j \in AllNodes : seen'[i][j] = seen[i][j] \/ (i = n /\ j = m)
    BY Zenon, <1>8, HearEffect
  <2>2. NoneRestored
    <3>1. vm[n] \in {"running", "paused"}
      BY Zenon, <2>1
    <3> QED BY Zenon, <1>0, <3>1, LiveNotRestored
  <2> QED BY Zenon, <2>1, <2>2 DEF KnowInv
<1>9. ASSUME (\E n \in nodes : Pause(n)) \/ Unpause PROVE KnowInv'
  <2>1. pc # "idle" /\ clk' = clk /\ seen' = seen
    BY Zenon, <1>9 DEF Pause, Unpause, guests
  <2> QED BY Zenon, <1>2, <2>1 DEF StepInv
<1>10. ASSUME NEW v \in Vmms, NEW r, NEW a, NEW allow, Resume(v, r, a, allow) PROVE KnowInv'
  <2>1. /\ Targets \subseteq mesh /\ Targets # {}
        /\ \A n \in AllNodes : vm'[n] =
             IF n \in Targets THEN IF Single THEN "running" ELSE "restored" ELSE "gone"
        /\ \A n \in AllNodes : seen'[n] = IF n \in Targets THEN file[n].seen ELSE seen[n]
    BY Zenon, <1>10, ResumeEffect
  <2>2. CASE ~Single
    <3>1. ~NoneRestored'
      BY Zenon, <1>0, <2>1, <2>2 DEF NoneRestored
    <3> QED BY Zenon, <3>1 DEF KnowInv
  <2>3. CASE Single
    <3>1. PICK x : mesh = {x}
      BY Zenon, <1>0, <2>3, MeshFinite, FS_Singleton DEF Single
    <3>2. Targets = mesh
      BY Zenon, <2>3 DEF Targets
    <3>3. NoneLives
      BY Zenon, <1>10, AllGoneNone DEF Resume
    <3>4. ASSUME NEW n \in AllNodes, NEW m \in AllNodes PROVE seen'[n][m] = 0
      <4>1. CASE m = n \/ m \notin mesh
        BY Zenon, <1>0, <4>1 DEF HeardInv
      <4>2. CASE m # n /\ m \in mesh
        <5>1. n \notin Targets
          BY Zenon, <3>1, <3>2, <4>2
        <5>2. seen'[n] = seen[n]
          BY Zenon, <2>1, <5>1
        <5> QED BY Zenon, <3>3, <5>2 DEF VmInv
      <4> QED BY Zenon, <4>1, <4>2
    <3>5. \A n, m \in AllNodes : seen'[n][m] <= clk'[m]
      BY <1>1, <3>4
    <3> QED BY Zenon, <3>5 DEF KnowInv
  <2> QED BY Zenon, <2>2, <2>3
<1> QED BY Zenon, <1>0, <1>4, <1>5, <1>6, <1>7, <1>8, <1>9, <1>10, GuestChanges

------------------------------------------------------------------------------
(* A running take.                                                         *)

\* What happens to the VMs and their guests while a command runs.
LEMMA BusyGuests ==
  ASSUME TypeInv, VmInv, StepInv, SnapNext, pc # "idle"
  PROVE  /\ NoneRestored' /\ cpu' = cpu
         /\ ~NoneLives' => ~NoneLives /\ build' = build
         /\ ~Unpause => \A n \in AllNodes :
              vm'[n] = vm[n] \/ vm'[n] = "gone" \/ (n \in nodes /\ vm'[n] = "paused")
         /\ ~NoneLives' => \A n \in AllNodes :
              vm[n] # "running" => clk'[n] = clk[n] /\ seen'[n] = seen[n]
<1> DEFINE Loss == \A n \in AllNodes :
              vm'[n] = vm[n] \/ vm'[n] = "gone" \/ (n \in nodes /\ vm'[n] = "paused")
           Kept == \A n \in AllNodes :
              vm[n] # "running" => clk'[n] = clk[n] /\ seen'[n] = seen[n]
           Goal == /\ NoneRestored'
                   /\ ~NoneLives' => ~NoneLives /\ build' = build
                   /\ ~Unpause => Loss
                   /\ ~NoneLives' => Kept
<1>1. /\ nodes \subseteq mesh /\ mesh \subseteq AllNodes /\ NoneRestored
      /\ clk \in [AllNodes -> Nat]
  BY Zenon, MeshNodes DEF TypeInv, StepInv, Clocks
<1>2. cpu' = cpu
  BY Zenon
     DEF SnapNext, Command, Environment, TakeRunner, SeeMarker, TakeAttached, MeshTake,
         Pause, Create, Joined, Unpause, Identify, Truncate, WriteManifest, Kill, Finish,
         Die, Crash, Resume, Launch, Stop, Move, GuestEvent, VmDies, Fill, Hear, world
<1>3. ASSUME UNCHANGED <<vm, build, clk, seen, restored>> PROVE Goal
  BY Zenon, <1>1, <1>3 DEF NoneRestored, NoneLives
<1>4. ASSUME NEW s \in SUBSET mesh, Lose(s) PROVE Goal
  <2>1. /\ \A n \in AllNodes : vm'[n] = "gone" \/ vm'[n] = vm[n]
        /\ ~NoneLives' => UNCHANGED <<build, clk, seen, restored>>
    BY Zenon, <1>4, LoseEffect
  <2>2. ~NoneLives' => ~NoneLives
    BY Zenon, <2>1 DEF NoneLives
  <2>3. NoneRestored'
    BY Zenon, <1>1, <2>1 DEF NoneRestored
  <2> QED BY Zenon, <2>1, <2>2, <2>3
<1>5. ASSUME NEW n \in mesh, GuestEvent(n) PROVE Goal
  <2>1. /\ vm[n] = "running" /\ vm' = vm /\ build' = build /\ seen' = seen
        /\ clk' = [clk EXCEPT ![n] = clk[n] + 1]
    BY Zenon, <1>5 DEF GuestEvent
  <2>2. \A m \in AllNodes : m # n => clk'[m] = clk[m]
    BY Zenon, <1>1, <2>1
  <2>3. NoneRestored' /\ (NoneLives' <=> NoneLives)
    BY Zenon, <1>1, <2>1 DEF NoneRestored, NoneLives
  <2>4. Kept
    BY Zenon, <2>1, <2>2
  <2> QED BY Zenon, <2>1, <2>3, <2>4
<1>6. ASSUME NEW n \in mesh, NEW m \in mesh, Hear(n, m) PROVE Goal
  <2>1. /\ vm[n] = "running" /\ vm' = vm /\ build' = build /\ clk' = clk
        /\ \A i \in AllNodes : i # n => seen'[i] = seen[i]
    BY Zenon, <1>6, HearEffect
  <2>2. NoneRestored' /\ (NoneLives' <=> NoneLives)
    BY Zenon, <1>1, <2>1 DEF NoneRestored, NoneLives
  <2>3. Kept
    BY Zenon, <2>1
  <2> QED BY Zenon, <2>1, <2>2, <2>3
<1>7. ASSUME NEW n \in nodes, Pause(n) PROVE Goal
  <2>1. /\ vm' = [vm EXCEPT ![n] = "paused"] /\ build' = build /\ clk' = clk /\ seen' = seen
        /\ vm[n] \in {"running", "paused"}
    BY Zenon, <1>7 DEF Pause, guests
  <2>2. \A m \in AllNodes : IF m = n THEN vm'[m] = "paused" ELSE vm'[m] = vm[m]
    BY Zenon, <2>1 DEF TypeInv
  <2>3. NoneRestored'
    BY Zenon, <1>1, <2>2 DEF NoneRestored
  <2>4. ~NoneLives
    BY Zenon, <1>1, <2>1 DEF NoneLives
  <2>5. Loss
    BY Zenon, <2>2
  <2> QED BY Zenon, <2>1, <2>3, <2>4, <2>5
<1>8. ASSUME Unpause PROVE Goal
  <2>1. /\ \A n \in nodes : vm[n] = "paused"
        /\ vm' = [n \in AllNodes |-> IF n \in nodes THEN "running" ELSE vm[n]]
        /\ build' = build /\ clk' = clk /\ seen' = seen
    BY Zenon, <1>8 DEF Unpause, guests
  <2>2. \A n \in AllNodes : IF n \in nodes THEN vm'[n] = "running" ELSE vm'[n] = vm[n]
    BY Zenon, <2>1
  <2>3. NoneRestored'
    BY Zenon, <1>1, <2>2 DEF NoneRestored
  <2>4. NoneLives => NoneLives'
    BY Zenon, <1>1, <2>1, <2>2 DEF NoneLives
  <2> QED BY Zenon, <1>8, <2>1, <2>3, <2>4
<1>9. ASSUME NEW v, NEW r, NEW a, NEW allow, Resume(v, r, a, allow) PROVE FALSE
  BY Zenon, <1>9 DEF Resume
<1>10. Goal
  <2> HIDE DEF Goal
  <2> QED BY Zenon, <1>1, <1>3, <1>4, <1>5, <1>6, <1>7, <1>8, <1>9, GuestChanges
<1> QED BY Zenon, <1>2, <1>10

\* A take begins with nothing restored, and on the whole of a mesh of one.
LEMMA BeginEffect ==
  ASSUME TypeInv, VmInv, SnapNext,
         TakeRunner \/ TakeAttached \/ (\E s \in SUBSET mesh : MeshTake(s))
  PROVE  /\ pc = "idle" /\ takes' = takes + 1 /\ todo' = nodes' /\ NoneRestored'
         /\ (Single => nodes' = mesh) /\ pc' \in {"marker", "pause"}
         /\ file' = file /\ manifest' = manifest
<1>0. setting \in Settings /\ mesh \subseteq AllNodes
  BY Zenon, MeshNodes DEF TypeInv
<1>1. CASE TakeRunner
  <2>1. Fresh /\ Begin("take", mesh, "marker") /\ file' = file /\ manifest' = manifest
    BY Zenon, <1>1 DEF TakeRunner
  <2>2. NoneRestored'
    <3>1. \A n \in AllNodes : vm'[n] = IF n \in mesh THEN "running" ELSE "gone"
      BY Zenon, <1>0, <2>1, FreshEffect
    <3> QED BY Zenon, <3>1 DEF NoneRestored
  <2> QED BY Zenon, <2>1, <2>2 DEF Begin
<1>2. CASE TakeAttached
  <2>1. /\ Single /\ Begin("attached", mesh, "pause") /\ vm' = vm
        /\ file' = file /\ manifest' = manifest
    BY Zenon, <1>2 DEF TakeAttached
  <2>2. NoneRestored'
    BY Zenon, <2>1 DEF VmInv, NoneRestored
  <2> QED BY Zenon, <2>1, <2>2 DEF Begin
<1>3. ASSUME NEW s \in SUBSET mesh, MeshTake(s)
      PROVE  /\ pc = "idle" /\ takes' = takes + 1 /\ todo' = nodes' /\ NoneRestored'
             /\ (Single => nodes' = mesh) /\ pc' \in {"marker", "pause"}
             /\ file' = file /\ manifest' = manifest
  <2>1. /\ ~Single /\ s # {} /\ (\A n \in s : vm[n] \in {"running", "paused"})
        /\ Begin("mesh-take", s, "pause") /\ vm' = vm
        /\ file' = file /\ manifest' = manifest
    BY Zenon, <1>3 DEF MeshTake
  <2>2. NoneRestored
    <3>1. PICK n \in s : vm[n] \in {"running", "paused"}
      BY Zenon, <2>1
    <3>2. n \in AllNodes
      BY Zenon, <1>0
    <3> QED BY Zenon, <3>1, <3>2, LiveNotRestored
  <2>3. NoneRestored'
    BY Zenon, <2>1, <2>2 DEF NoneRestored
  <2> QED BY Zenon, <2>1, <2>3 DEF Begin
<1> QED BY Zenon, <1>1, <1>2, <1>3

\* Every step preserves StepInv.
LEMMA StepStep ==
  ASSUME TypeInv, VmInv, StepInv, SnapNext
  PROVE  StepInv'
<1>0. /\ mesh' = mesh /\ (Single' <=> Single) /\ nodes \subseteq mesh /\ mesh \subseteq AllNodes
      /\ todo \subseteq nodes /\ takes \in Nat
  BY Zenon, Fixed, MeshNodes DEF TypeInv
<1>1. pc # "idle" => /\ takes > 0 /\ (Single => nodes = mesh)
                     /\ NoneRestored'
                     /\ ~Unpause => \A n \in AllNodes :
                          vm'[n] = vm[n] \/ vm'[n] = "gone" \/ (n \in nodes /\ vm'[n] = "paused")
  BY Zenon, BusyGuests DEF StepInv
<1>2. pc # "idle" /\ ~Unpause => \A n \in nodes :
        vm[n] \in {"paused", "gone"} => vm'[n] \in {"paused", "gone"}
  BY Zenon, <1>0, <1>1
<1>3. ASSUME UNCHANGED command PROVE StepInv'
  <2>1. pc' = pc /\ nodes' = nodes /\ todo' = todo /\ takes' = takes
    BY Zenon, <1>3 DEF command
  <2>2. ~Unpause
    BY Zenon, <2>1 DEF Unpause
  <2> QED BY Zenon, <1>0, <1>1, <1>2, <2>1, <2>2 DEF StepInv
<1>4. ASSUME TakeRunner \/ TakeAttached \/ (\E s \in SUBSET mesh : MeshTake(s))
      PROVE  StepInv'
  <2>1. /\ takes' = takes + 1 /\ todo' = nodes' /\ NoneRestored'
        /\ (Single => nodes' = mesh) /\ pc' \in {"marker", "pause"}
    BY Zenon, <1>4, BeginEffect
  <2>2. takes' > 0
    BY <1>0, <2>1
  <2> QED BY Zenon, <1>0, <2>1, <2>2 DEF StepInv
<1>5. ASSUME SeeMarker PROVE StepInv'
  BY Zenon, <1>0, <1>1, <1>5 DEF SeeMarker, StepInv
<1>6. ASSUME NEW n \in nodes, Pause(n) PROVE StepInv'
  <2>1. /\ pc = "pause" /\ n \in todo /\ nodes' = nodes /\ takes' = takes
        /\ vm' = [vm EXCEPT ![n] = "paused"]
        /\ IF todo = {n} THEN pc' = "create" /\ todo' = nodes
                         ELSE pc' = "pause" /\ todo' = todo \ {n}
    BY Zenon, <1>6 DEF Pause
  <2>2. \A m \in nodes : (m \notin todo \/ m = n) => vm'[m] \in {"paused", "gone"}
    <3>1. vm'[n] = "paused"
      BY Zenon, <1>0, <2>1 DEF TypeInv
    <3>2. ~Unpause
      BY Zenon, <2>1 DEF Unpause
    <3>3. \A m \in nodes : m \notin todo => vm'[m] \in {"paused", "gone"}
      BY Zenon, <1>2, <2>1, <3>2 DEF StepInv
    <3> QED BY Zenon, <3>1, <3>3
  <2>3. CASE todo = {n}
    <3>1. pc' = "create" /\ \A m \in nodes : vm'[m] \in {"paused", "gone"}
      BY Zenon, <2>1, <2>2, <2>3
    <3> QED BY Zenon, <1>0, <1>1, <2>1, <3>1 DEF StepInv
  <2>4. CASE todo # {n}
    <3>1. pc' = "pause" /\ \A m \in nodes \ todo' : vm'[m] \in {"paused", "gone"}
      BY Zenon, <2>1, <2>2, <2>4
    <3> QED BY Zenon, <1>0, <1>1, <2>1, <3>1 DEF StepInv
  <2> QED BY Zenon, <2>3, <2>4
<1>7. ASSUME NEW n \in mesh, Fill(n) PROVE StepInv'
  <2>1. /\ pc' = pc /\ nodes' = nodes /\ takes' = takes /\ vm' = vm
        /\ pc # "create" => todo' = todo
    BY Zenon, <1>7, FillEffect
  <2> QED BY Zenon, <1>0, <1>1, <2>1 DEF StepInv
<1>8. ASSUME Joined \/ Unpause \/ Identify \/ Truncate \/ WriteManifest \/ Kill PROVE StepInv'
  <2>1. /\ pc # "idle" /\ nodes' = nodes /\ takes' = takes
        /\ pc' \in {"resume", "identify", "truncate", "write", "kill", "done"}
    BY Zenon, <1>8 DEF Joined, Unpause, Identify, Truncate, WriteManifest, Kill
  <2>2. pc' # "marker" /\ pc' # "pause" /\ pc' # "create"
    BY Zenon, <2>1
  <2> QED BY Zenon, <1>0, <1>1, <2>1, <2>2 DEF StepInv
<1>9. ASSUME Ended PROVE StepInv'
  BY Zenon, <1>9 DEF Ended, StepInv
<1> QED BY Zenon, <1>3, <1>4, <1>5, <1>6, <1>7, <1>8, <1>9, CommandChanges

\* Every step preserves FileInv.
LEMMA FileStep ==
  ASSUME TypeInv, VmInv, StepInv, FileInv, SnapNext
  PROVE  FileInv'
<1>0. /\ nodes \subseteq mesh /\ mesh \subseteq AllNodes /\ todo \subseteq nodes /\ takes \in Nat
      /\ \A n \in AllNodes : file[n].take \in Nat
  BY Zenon, MeshNodes, FileTypes DEF TypeInv
<1>1. ASSUME file' = file, UNCHANGED command PROVE FileInv'
  BY Zenon, <1>1 DEF command, FileInv
<1>2. ASSUME TakeRunner \/ TakeAttached \/ (\E s \in SUBSET mesh : MeshTake(s))
      PROVE  FileInv'
  <2>1. takes' = takes + 1 /\ pc' \in {"marker", "pause"} /\ file' = file
    BY Zenon, <1>2, BeginEffect
  <2>2. \A n \in AllNodes : file[n].take <= takes
    BY Zenon DEF FileInv
  <2>3. \A n \in AllNodes : file'[n].take <= takes' /\ file'[n].take < takes'
    BY <1>0, <2>1, <2>2
  <2>4. pc' # "create" /\ pc' \notin {"resume", "identify", "truncate", "write"}
    BY Zenon, <2>1
  <2> QED BY Zenon, <2>3, <2>4 DEF FileInv
<1>3. ASSUME SeeMarker PROVE FileInv'
  BY Zenon, <1>3 DEF SeeMarker, FileInv
<1>4. ASSUME NEW n \in nodes, Pause(n) PROVE FileInv'
  <2>1. /\ pc = "pause" /\ nodes' = nodes /\ takes' = takes /\ file' = file
        /\ IF todo = {n} THEN pc' = "create" /\ todo' = nodes
                         ELSE pc' = "pause" /\ todo' = todo \ {n}
    BY Zenon, <1>4 DEF Pause
  <2>2. \A m \in AllNodes : file[m].take <= takes /\ file[m].take < takes
    BY Zenon, <2>1 DEF FileInv
  <2>3. \A m \in AllNodes : file[m].take # takes
    BY <1>0, <2>2
  <2>4. CASE todo = {n}
    BY Zenon, <2>1, <2>2, <2>3, <2>4 DEF FileInv
  <2>5. CASE todo # {n}
    BY Zenon, <2>1, <2>2, <2>5 DEF FileInv
  <2> QED BY Zenon, <2>4, <2>5
<1>5. ASSUME Joined PROVE FileInv'
  <2>1. /\ pc = "create" /\ todo = {} /\ nodes' = nodes /\ takes' = takes /\ file' = file
        /\ pc' \in {"resume", "identify"}
    BY Zenon, <1>5 DEF Joined
  <2>2. \A n \in nodes : file[n].take = takes /\ file[n].whole
    BY Zenon, <2>1 DEF FileInv
  <2>3. pc' \notin {"marker", "pause"} /\ pc' # "create"
    BY Zenon, <2>1
  <2> QED BY Zenon, <2>1, <2>2, <2>3 DEF FileInv
<1>6. ASSUME Unpause \/ Identify \/ Truncate PROVE FileInv'
  <2>1. /\ pc \in {"resume", "identify", "truncate"} /\ nodes' = nodes /\ takes' = takes
        /\ file' = file /\ pc' \in {"identify", "truncate", "write"}
    BY Zenon, <1>6 DEF Unpause, Identify, Truncate
  <2>2. \A n \in nodes : file[n].take = takes /\ file[n].whole
    BY Zenon, <2>1 DEF FileInv
  <2>3. pc' \notin {"marker", "pause"} /\ pc' # "create"
    BY Zenon, <2>1
  <2> QED BY Zenon, <2>1, <2>2, <2>3 DEF FileInv
<1>7. ASSUME WriteManifest \/ Kill \/ (Ended /\ takes' = takes /\ file' = file) PROVE FileInv'
  <2>1. takes' = takes /\ file' = file /\ pc' \in {"kill", "done", "idle"}
    BY Zenon, <1>7 DEF WriteManifest, Kill, Ended
  <2>2. /\ pc' \notin {"marker", "pause"} /\ pc' # "create"
        /\ pc' \notin {"resume", "identify", "truncate", "write"}
    BY Zenon, <2>1
  <2> QED BY Zenon, <2>1, <2>2 DEF FileInv
<1>8. ASSUME NEW n \in nodes, Create(n) PROVE FileInv'
  <2> DEFINE f == [take |-> takes, whole |-> FALSE, clk |-> clk[n], seen |-> seen[n],
                   build |-> build, cpu |-> cpu]
  <2>1. /\ file' = [file EXCEPT ![n] = f] /\ f.take = takes /\ n \in todo /\ pc = "create"
        /\ pc' = pc /\ nodes' = nodes /\ todo' = todo /\ takes' = takes
    BY Zenon, <1>8, CreateEffect
  <2> HIDE DEF f
  <2>2. file'[n].take = takes /\ \A m \in AllNodes : m # n => file'[m] = file[m]
    BY Zenon, <1>0, <2>1 DEF TypeInv
  <2>3. takes <= takes
    BY <1>0
  <2> QED BY Zenon, <1>0, <2>1, <2>2, <2>3 DEF FileInv
<1>9. ASSUME NEW n \in mesh, Fill(n) PROVE FileInv'
  <2>1. /\ pc' = pc /\ nodes' = nodes /\ takes' = takes
        /\ todo' = IF pc = "create" /\ file[n].take = takes THEN todo \ {n} ELSE todo
        /\ file'[n].take = file[n].take /\ file'[n].whole
        /\ \A m \in AllNodes : m # n => file'[m] = file[m]
    BY Zenon, <1>9, FillEffect
  <2>2. \A m \in AllNodes : file'[m].take = file[m].take /\ (file[m].whole => file'[m].whole)
    BY Zenon, <2>1
  <2>3. ASSUME pc = "create", NEW m \in nodes \ todo'
        PROVE  file'[m].take = takes /\ file'[m].whole
    <3>1. CASE m \notin todo
      BY Zenon, <1>0, <2>2, <2>3, <3>1 DEF FileInv
    <3>2. CASE m \in todo
      BY Zenon, <2>1, <2>3, <3>2
    <3> QED BY Zenon, <3>1, <3>2
  <2> QED BY Zenon, <1>0, <2>1, <2>2, <2>3 DEF FileInv
<1>10. (\E n \in nodes : Create(n)) \/ (\E n \in mesh : Fill(n)) \/ file' = file
  BY Zenon, FileChanges
<1> QED BY Zenon, <1>1, <1>2, <1>3, <1>4, <1>5, <1>6, <1>7, <1>8, <1>9, <1>10, CommandChanges

\* A file is new, or it is what it was but for being whole.
LEMMA FileKept ==
  ASSUME TypeInv, VmInv, StepInv, SnapNext, NEW n \in AllNodes
  PROVE  \/ /\ n \in nodes /\ Create(n)
            /\ file'[n].take = takes /\ file'[n].clk = clk[n] /\ file'[n].seen = seen[n]
            /\ file'[n].build = build /\ file'[n].cpu = cpu
         \/ /\ file'[n].take = file[n].take /\ file'[n].clk = file[n].clk
            /\ file'[n].seen = file[n].seen /\ file'[n].build = file[n].build
            /\ file'[n].cpu = file[n].cpu /\ (file[n].whole => file'[n].whole)
<1>1. CASE file' = file
  BY Zenon, <1>1
<1>2. ASSUME NEW i \in nodes, Create(i)
      PROVE  /\ file'[i].take = takes /\ file'[i].clk = clk[i] /\ file'[i].seen = seen[i]
             /\ file'[i].build = build /\ file'[i].cpu = cpu
             /\ i # n => file'[n] = file[n]
  <2> DEFINE f == [take |-> takes, whole |-> FALSE, clk |-> clk[i], seen |-> seen[i],
                   build |-> build, cpu |-> cpu]
  <2>1. /\ f.take = takes /\ f.clk = clk[i] /\ f.seen = seen[i] /\ f.build = build /\ f.cpu = cpu
        /\ file' = [file EXCEPT ![i] = f] /\ i \in AllNodes
    BY Zenon, <1>2, CreateEffect
  <2> HIDE DEF f
  <2>2. file'[i] = f /\ (i # n => file'[n] = file[n])
    BY Zenon, <2>1 DEF TypeInv
  <2> QED BY Zenon, <2>1, <2>2
<1>3. ASSUME NEW i \in mesh, Fill(i)
      PROVE  /\ file'[n].take = file[n].take /\ file'[n].clk = file[n].clk
             /\ file'[n].seen = file[n].seen /\ file'[n].build = file[n].build
             /\ file'[n].cpu = file[n].cpu /\ (file[n].whole => file'[n].whole)
  <2>1. CASE i = n
    BY Zenon, <1>3, <2>1, FillEffect
  <2>2. CASE i # n
    <3>1. file'[n] = file[n]
      BY Zenon, <1>3, <2>2, FillEffect
    <3> QED BY Zenon, <3>1
  <2> QED BY Zenon, <2>1, <2>2
<1> QED BY Zenon, <1>1, <1>2, <1>3, FileChanges

\* Every step preserves CopyInv.
LEMMA CopyStep ==
  ASSUME TypeInv, VmInv, StepInv, FileInv, CopyInv, SnapNext
  PROVE  CopyInv'
<1>1. pc' \in {"create", "resume", "identify"} =>
        /\ takes' = takes
        /\ pc \in {"create", "resume", "identify"} \/ (pc = "pause" /\ file' = file)
        /\ pc' = "create" => pc \in {"pause", "create"}
  <2>1. ASSUME UNCHANGED command PROVE pc' = pc /\ takes' = takes
    BY Zenon, <2>1 DEF command
  <2>2. ASSUME TakeRunner \/ TakeAttached \/ (\E s \in SUBSET mesh : MeshTake(s))
        PROVE  pc' \notin {"create", "resume", "identify"}
    <3>1. pc' \in {"marker", "pause"}
      BY Zenon, <2>2, BeginEffect
    <3> QED BY Zenon, <3>1
  <2>3. ASSUME NEW n \in nodes, Pause(n) PROVE takes' = takes /\ pc = "pause" /\ file' = file
    BY Zenon, <2>3 DEF Pause
  <2>4. ASSUME NEW n \in mesh, Fill(n) PROVE pc' = pc /\ takes' = takes
    BY Zenon, <2>4, FillEffect
  <2>5. ASSUME Joined \/ Unpause
        PROVE  /\ takes' = takes /\ pc \in {"create", "resume", "identify"}
               /\ pc' # "create"
    <3>1. takes' = takes /\ pc \in {"create", "resume"} /\ pc' \in {"resume", "identify"}
      BY Zenon, <2>5 DEF Joined, Unpause
    <3> QED BY Zenon, <3>1
  <2>6. ASSUME SeeMarker \/ Identify \/ Truncate \/ WriteManifest \/ Kill \/ Ended
        PROVE  pc' \notin {"create", "resume", "identify"}
    <3>1. pc' \in {"pause", "truncate", "write", "kill", "done", "idle"}
      BY Zenon, <2>6 DEF SeeMarker, Identify, Truncate, WriteManifest, Kill, Ended
    <3> QED BY Zenon, <3>1
  <2> QED BY Zenon, <2>1, <2>2, <2>3, <2>4, <2>5, <2>6, CommandChanges
<1>2. ASSUME pc' \in {"create", "resume", "identify"}, NEW n \in AllNodes,
             file'[n].take = takes'
      PROVE  pc \in {"create", "resume", "identify"} /\ takes' = takes /\ pc # "idle"
  <2>1. CASE pc = "pause" /\ file' = file
    <3>1. file[n].take = takes /\ file[n].take < takes /\ takes \in Nat
      BY Zenon, <1>1, <1>2, <2>1 DEF FileInv, TypeInv
    <3> QED BY <3>1
  <2>2. CASE pc \in {"create", "resume", "identify"}
    BY Zenon, <1>1, <1>2, <2>2
  <2> QED BY Zenon, <1>1, <1>2, <2>1, <2>2
<1>3. ASSUME pc' = "create", ~NoneLives', NEW n \in AllNodes, file'[n].take = takes'
      PROVE  file'[n].clk = clk'[n] /\ file'[n].seen = seen'[n]
  <2>0. pc' \in {"create", "resume", "identify"}
    BY Zenon, <1>3
  <2>1. pc \in {"create", "resume", "identify"} /\ takes' = takes /\ pc # "idle"
    BY Zenon, <1>2, <1>3, <2>0
  <2>2. pc = "create"
    <3>1. pc \in {"pause", "create"}
      BY Zenon, <1>1, <1>3, <2>0
    <3> QED BY Zenon, <2>1, <3>1
  <2>3. /\ ~NoneLives
        /\ vm[n] # "running" => clk'[n] = clk[n] /\ seen'[n] = seen[n]
    BY Zenon, <1>3, <2>1, BusyGuests
  <2>4. CASE n \in nodes /\ Create(n) /\ file'[n].clk = clk[n] /\ file'[n].seen = seen[n]
    <3>1. clk' = clk /\ seen' = seen
      BY Zenon, <2>4 DEF Create, guests
    <3> QED BY Zenon, <2>4, <3>1
  <2>5. CASE /\ file'[n].take = file[n].take /\ file'[n].clk = file[n].clk
             /\ file'[n].seen = file[n].seen
    <3>1. file[n].take = takes
      BY Zenon, <1>3, <2>1, <2>5
    <3>2. n \in nodes
      BY Zenon, <2>2, <3>1 DEF FileInv
    <3>3. vm[n] # "running"
      BY Zenon, <2>2, <3>2 DEF StepInv
    <3>4. file[n].clk = clk[n] /\ file[n].seen = seen[n]
      BY Zenon, <2>2, <2>3, <3>1 DEF CopyInv
    <3> QED BY Zenon, <2>3, <2>5, <3>3, <3>4
  <2> QED BY Zenon, <2>4, <2>5, FileKept
<1>4. ASSUME pc' \in {"create", "resume", "identify"}, NEW n \in AllNodes,
             file'[n].take = takes'
      PROVE  file'[n].cpu = cpu' /\ (NoneLives' \/ file'[n].build = build')
  <2>1. pc \in {"create", "resume", "identify"} /\ takes' = takes /\ pc # "idle"
    BY Zenon, <1>2, <1>4
  <2>2. cpu' = cpu /\ (~NoneLives' => ~NoneLives /\ build' = build)
    BY Zenon, <2>1, BusyGuests
  <2>3. CASE file'[n].build = build /\ file'[n].cpu = cpu
    BY Zenon, <2>2, <2>3
  <2>4. CASE /\ file'[n].take = file[n].take /\ file'[n].build = file[n].build
             /\ file'[n].cpu = file[n].cpu
    <3>1. file[n].cpu = cpu /\ (NoneLives \/ file[n].build = build)
      BY Zenon, <1>4, <2>1, <2>4 DEF CopyInv
    <3> QED BY Zenon, <2>2, <2>4, <3>1
  <2> QED BY Zenon, <2>3, <2>4, FileKept
<1> QED BY Zenon, <1>3, <1>4 DEF CopyInv

\* A snapshot made now fits the ones the same take has made.
LEMMA SameStep ==
  ASSUME TypeInv, VmInv, KnowInv, StepInv, CopyInv, SameTakeConsistent, SnapNext
  PROVE  SameTakeConsistent'
<1> SUFFICES ASSUME NEW n \in AllNodes, NEW m \in AllNodes,
                    file'[n].take > 0, file'[n].take = file'[m].take
             PROVE  file'[n].seen[m] <= file'[m].clk
  BY Zenon DEF SameTakeConsistent
<1>1. ASSUME NEW i \in nodes, Create(i)
      PROVE  /\ pc = "create" /\ \A k, l \in AllNodes : seen[k][l] <= clk[l]
             /\ \A k \in AllNodes :
                  file[k].take = takes => file[k].clk = clk[k] /\ file[k].seen = seen[k]
  <2>1. ~NoneLives /\ NoneRestored /\ pc = "create"
    BY Zenon, <1>1, CreateEffect
  <2> QED BY Zenon, <2>1 DEF KnowInv, CopyInv
<1>2. CASE /\ n \in nodes /\ Create(n) /\ file'[n].take = takes /\ file'[n].seen = seen[n]
  <2>1. file'[m].clk = clk[m]
    <3>1. CASE file'[m].clk = clk[m]
      BY Zenon, <3>1
    <3>2. CASE file'[m].take = file[m].take /\ file'[m].clk = file[m].clk
      BY Zenon, <1>1, <1>2, <3>2
    <3> QED BY Zenon, <3>1, <3>2, FileKept
  <2> QED BY Zenon, <1>1, <1>2, <2>1
<1>3. CASE file'[n].take = file[n].take /\ file'[n].seen = file[n].seen
  <2>1. CASE file'[m].take = file[m].take /\ file'[m].clk = file[m].clk
    BY Zenon, <1>3, <2>1 DEF SameTakeConsistent
  <2>2. CASE m \in nodes /\ Create(m) /\ file'[m].take = takes /\ file'[m].clk = clk[m]
    <3>1. file[n].take = takes
      BY Zenon, <1>3, <2>2
    <3> QED BY Zenon, <1>1, <1>3, <2>2, <3>1
  <2> QED BY Zenon, <2>1, <2>2, FileKept
<1> QED BY Zenon, <1>2, <1>3, FileKept

------------------------------------------------------------------------------
(* The manifest.                                                           *)

\* The manifest that is written stands for the nodes of the take.
LEMMA WriteEffect ==
  ASSUME TypeInv, StepInv, SnapNext, WriteManifest
  PROVE  /\ pc = "write" /\ pc' \in {"kill", "done"}
         /\ manifest'.take = takes /\ manifest'.nodes = NodeLines
         /\ manifest'.lines = IdentityLines(ident) /\ Targets' = nodes
         /\ takes' = takes /\ file' = file /\ takes > 0
<1>1. /\ pc = "write" /\ pc' \in {"kill", "done"} /\ takes' = takes /\ file' = file
  BY Zenon DEF WriteManifest
<1>2. /\ manifest'.take = takes /\ manifest'.nodes = NodeLines
      /\ manifest'.lines = IdentityLines(ident)
  BY Zenon DEF WriteManifest
<1>3. takes > 0 /\ (Single => nodes = mesh)
  BY Zenon, <1>1 DEF StepInv
<1>4. mesh' = mesh /\ (Single' <=> Single)
  BY Zenon, Fixed
<1>5. CASE Single
  BY Zenon, <1>1, <1>2, <1>3, <1>4, <1>5 DEF Targets
<1>6. CASE ~Single
  <2>1. NodeLines = {<<n, Address(n)>> : n \in nodes}
    BY Zenon, <1>6 DEF NodeLines
  <2>2. Targets' = {l[1] : l \in NodeLines}
    BY Zenon, <1>2, <1>4, <1>6 DEF Targets
  <2>3. {l[1] : l \in NodeLines} = nodes
    <3>1. \A n \in nodes : <<n, Address(n)>>[1] = n
      BY Zenon
    <3>2. \A n \in nodes : \E l \in NodeLines : n = l[1]
      <4>1. \A n \in nodes : <<n, Address(n)>> \in NodeLines
        BY Zenon, <2>1
      <4> QED BY Zenon, <3>1, <4>1
    <3>3. \A l \in NodeLines : l[1] \in nodes
      BY Zenon, <2>1, <3>1
    <3> QED BY Zenon, <3>2, <3>3
  <2> QED BY Zenon, <1>1, <1>2, <1>3, <2>2, <2>3
<1> QED BY Zenon, <1>1, <1>2, <1>3, <1>5, <1>6

\* Every step preserves ManifestInv.
LEMMA ManifestStep ==
  ASSUME TypeInv, VmInv, StepInv, FileInv, ManifestInv, SnapNext
  PROVE  ManifestInv'
<1>0. takes \in Nat /\ manifest.take \in Nat /\ Targets \subseteq AllNodes
  BY Zenon, TargetsInMesh, MeshNodes DEF TypeInv
<1>1. CASE manifest' = manifest /\ takes' = takes /\ ~WriteManifest
  <2>1. Targets' = Targets
    BY Zenon, <1>1, Fixed DEF Targets
  <2>2. ManifestCoversFiles'
    <3> SUFFICES ASSUME manifest.take > 0, manifest.take = takes, NEW n \in Targets
                 PROVE  file'[n].take = takes /\ file'[n].whole
      BY Zenon, <1>1, <2>1 DEF ManifestCoversFiles
    <3>1. file[n].take = takes /\ file[n].whole /\ n \in AllNodes
      BY Zenon, <1>0 DEF ManifestInv, ManifestCoversFiles
    <3>2. ~Create(n)
      BY Zenon, <3>1 DEF Create
    <3> QED BY Zenon, <3>1, <3>2, FileKept
  <2>3. pc' \notin {"idle", "kill", "done"} => pc \notin {"idle", "kill", "done"}
    <3>1. ASSUME UNCHANGED command PROVE pc' = pc
      BY Zenon, <3>1 DEF command
    <3>2. ASSUME TakeRunner \/ TakeAttached \/ (\E s \in SUBSET mesh : MeshTake(s)) PROVE FALSE
      <4>1. takes' = takes + 1
        BY Zenon, <3>2, BeginEffect
      <4> QED BY <1>0, <1>1, <4>1
    <3>3. ASSUME \/ SeeMarker \/ (\E n \in nodes : Pause(n)) \/ Joined
                 \/ Unpause \/ Identify \/ Truncate
          PROVE  pc \notin {"idle", "kill", "done"}
      <4>1. pc \in {"marker", "pause", "create", "resume", "identify", "truncate"}
        BY Zenon, <3>3 DEF SeeMarker, Pause, Joined, Unpause, Identify, Truncate
      <4> QED BY Zenon, <4>1
    <3>4. ASSUME NEW n \in mesh, Fill(n) PROVE pc' = pc
      BY Zenon, <3>4, FillEffect
    <3>5. ASSUME Kill \/ Ended PROVE pc' \in {"idle", "kill", "done"}
      BY Zenon, <3>5 DEF Kill, Ended
    <3> QED BY Zenon, <1>1, <3>1, <3>2, <3>3, <3>4, <3>5, CommandChanges
  <2> QED BY Zenon, <1>1, <2>2, <2>3 DEF ManifestInv
<1>2. CASE TakeRunner \/ TakeAttached \/ (\E s \in SUBSET mesh : MeshTake(s))
  <2>1. takes' = takes + 1 /\ manifest' = manifest
    BY Zenon, <1>2, BeginEffect
  <2>2. manifest.take <= takes
    BY Zenon DEF ManifestInv
  <2>3. manifest'.take <= takes' /\ manifest'.take < takes' /\ manifest'.take # takes'
    BY <1>0, <2>1, <2>2
  <2> QED BY Zenon, <2>3 DEF ManifestInv, ManifestCoversFiles
<1>3. CASE Truncate
  <2>1. pc = "truncate" /\ takes' = takes /\ manifest' = NoManifest /\ NoManifest.take = 0
    BY Zenon, <1>3 DEF Truncate, NoManifest
  <2>2. takes > 0
    BY Zenon, <2>1 DEF StepInv
  <2>3. manifest'.take <= takes' /\ manifest'.take < takes' /\ ~(manifest'.take > 0)
    BY <1>0, <2>1, <2>2
  <2> QED BY Zenon, <2>3 DEF ManifestInv, ManifestCoversFiles
<1>4. CASE WriteManifest
  <2>1. /\ pc = "write" /\ pc' \in {"kill", "done"} /\ manifest'.take = takes
        /\ Targets' = nodes /\ takes' = takes /\ file' = file
    BY Zenon, <1>4, WriteEffect
  <2>2. \A n \in nodes : file[n].take = takes /\ file[n].whole
    BY Zenon, <2>1 DEF FileInv
  <2>3. takes <= takes
    BY <1>0
  <2>4. pc' \in {"idle", "kill", "done"}
    BY Zenon, <2>1
  <2> QED BY Zenon, <2>1, <2>2, <2>3, <2>4 DEF ManifestInv, ManifestCoversFiles
<1>5. takes' = takes \/ TakeRunner \/ TakeAttached \/ (\E s \in SUBSET mesh : MeshTake(s))
  <2>1. ASSUME UNCHANGED command PROVE takes' = takes
    BY Zenon, <2>1 DEF command
  <2>2. ASSUME \/ SeeMarker \/ (\E n \in nodes : Pause(n)) \/ (\E n \in mesh : Fill(n)) \/ Joined
               \/ Unpause \/ Identify \/ Truncate \/ WriteManifest \/ Kill
        PROVE  takes' = takes
    BY Zenon, <2>2 DEF SeeMarker, Pause, Fill, Joined, Unpause, Identify, Truncate,
                       WriteManifest, Kill
  <2> QED BY Zenon, <2>1, <2>2, CommandChanges
<1> QED BY Zenon, <1>1, <1>2, <1>3, <1>4, <1>5, ManifestChanges

\* Every step preserves AddressesRight.
LEMMA AddressStep ==
  ASSUME TypeInv, StepInv, AddressesRight, SnapNext
  PROVE  AddressesRight'
<1>0. mesh' = mesh /\ setting \in Settings /\ nodes \subseteq mesh
  BY Zenon, Fixed DEF TypeInv
<1>1. CASE manifest' = manifest
  BY Zenon, <1>0, <1>1 DEF AddressesRight
<1>2. CASE Truncate
  <2>1. manifest'.nodes = {}
    BY <1>2 DEF Truncate, NoManifest
  <2> QED BY Zenon, <2>1 DEF AddressesRight
<1>3. CASE WriteManifest
  <2> SUFFICES ASSUME NEW l \in manifest'.nodes
               PROVE  l[2] = IF l[1][1] = 0 THEN 1 + l[1][2]
                             ELSE 1 + Cardinality(Servers(mesh)) + l[1][2]
    BY Zenon, <1>0 DEF AddressesRight
  <2>1. PICK n \in nodes : l = <<n, Address(n)>>
    <3>1. l \in NodeLines
      BY Zenon, <1>3, WriteEffect
    <3> QED BY Zenon, <3>1 DEF NodeLines
  <2>2. l[1] = n /\ l[2] = Address(n)
    BY <2>1
  <2>3. Address(n) = IF n[1] = 0 THEN 1 + n[2] ELSE 1 + Cardinality(Servers(mesh)) + n[2]
    BY Zenon, <1>0, AddressOf
  <2> QED BY Zenon, <2>2, <2>3
<1> QED BY Zenon, <1>1, <1>2, <1>3, ManifestChanges

\* What an identity says of a file depends on its build and its CPU only.
LEMMA IdentityKept ==
  ASSUME NEW id, NEW f, NEW g, f.build = g.build, f.cpu = g.cpu
  PROVE  /\ IdentityOf(id, f) => IdentityOf(id, g)
         /\ LinesOf(id, f) => LinesOf(id, g)
BY Zenon DEF IdentityOf, LinesOf

\* Every step preserves IdentityInv.
LEMMA IdentityStep ==
  ASSUME TypeInv, VmInv, StepInv, FileInv, CopyInv, ManifestInv, IdentityInv, SnapNext
  PROVE  IdentityInv'
<1>0. /\ nodes \subseteq AllNodes /\ Targets \subseteq AllNodes
      /\ takes \in Nat /\ manifest.take \in Nat
  BY Zenon, TargetsInMesh, MeshNodes DEF TypeInv
<1>1. ASSUME pc' \in {"truncate", "write"}, NEW n \in nodes' PROVE IdentityOf(ident', file'[n])
  <2>1. CASE Identify
    <3>1. PICK found \in BOOLEAN :
            /\ found => \E i \in nodes : vm[i] # "gone"
            /\ ident' = TakeIdentity(IF verb = "take" THEN "runner" ELSE None, found, build, cpu)
      BY Zenon, <2>1 DEF Identify
    <3>2. pc = "identify" /\ nodes' = nodes /\ file' = file
      BY Zenon, <2>1 DEF Identify
    <3>3. n \in AllNodes /\ file[n].take = takes
      BY Zenon, <1>0, <1>1, <3>2 DEF FileInv
    <3>4. file[n].cpu = cpu /\ (NoneLives \/ file[n].build = build)
      BY Zenon, <3>2, <3>3 DEF CopyInv
    <3>5. ident' = TakeIdentity(IF verb = "take" THEN "runner" ELSE None, found,
                                file[n].build, file[n].cpu)
      <4>1. CASE found
        <5>1. ~NoneLives
          BY Zenon, <1>0, <3>1, <4>1 DEF NoneLives
        <5> QED BY Zenon, <3>1, <3>4, <5>1
      <4>2. CASE ~found
        BY Zenon, <3>1, <3>4, <4>2 DEF TakeIdentity
      <4> QED BY Zenon, <4>1, <4>2
    <3>6. (IF verb = "take" THEN "runner" ELSE None) \in {None, "runner"}
      BY Zenon
    <3> QED BY Zenon, <3>2, <3>5, <3>6 DEF IdentityOf
  <2>2. CASE pc \in {"truncate", "write"} /\ nodes' = nodes /\ ident' = ident
    <3>1. IdentityOf(ident, file[n]) /\ n \in AllNodes
      BY Zenon, <1>0, <1>1, <2>2 DEF IdentityInv
    <3>2. ~Create(n)
      BY Zenon, <2>2 DEF Create
    <3>3. file'[n].build = file[n].build /\ file'[n].cpu = file[n].cpu
      BY Zenon, <3>1, <3>2, FileKept
    <3> QED BY Zenon, <2>2, <3>1, <3>3, IdentityKept
  <2>3. Identify \/ (pc \in {"truncate", "write"} /\ nodes' = nodes /\ ident' = ident)
    <3>1. ASSUME UNCHANGED command PROVE pc' = pc /\ nodes' = nodes /\ ident' = ident
      BY Zenon, <3>1 DEF command
    <3>2. ASSUME TakeRunner \/ TakeAttached \/ (\E s \in SUBSET mesh : MeshTake(s)) PROVE FALSE
      <4>1. pc' \in {"marker", "pause"}
        BY Zenon, <3>2, BeginEffect
      <4> QED BY Zenon, <1>1, <4>1
    <3>3. ASSUME \/ SeeMarker \/ (\E i \in nodes : Pause(i)) \/ Joined \/ Unpause
                 \/ WriteManifest \/ Kill \/ Ended
          PROVE  FALSE
      <4>1. pc' \in {"pause", "create", "resume", "identify", "kill", "done", "idle"}
        BY Zenon, <3>3 DEF SeeMarker, Pause, Joined, Unpause, WriteManifest, Kill, Ended
      <4> QED BY Zenon, <1>1, <4>1
    <3>4. ASSUME NEW i \in mesh, Fill(i) PROVE pc' = pc /\ nodes' = nodes /\ ident' = ident
      BY Zenon, <3>4, FillEffect
    <3>5. ASSUME Truncate PROVE pc = "truncate" /\ nodes' = nodes /\ ident' = ident
      BY Zenon, <3>5 DEF Truncate
    <3> QED BY Zenon, <1>1, <3>1, <3>2, <3>3, <3>4, <3>5, CommandChanges
  <2> QED BY Zenon, <2>1, <2>2, <2>3
<1>2. ASSUME manifest'.take > 0, NEW n \in Targets', file'[n].take = manifest'.take
      PROVE  LinesOf(manifest'.lines, file'[n])
  <2>1. CASE manifest' = manifest
    <3>1. n \in Targets /\ n \in AllNodes
      BY Zenon, <1>0, <1>2, <2>1, Fixed DEF Targets
    <3>2. ~(n \in nodes /\ Create(n) /\ file'[n].take = takes)
      <4>1. SUFFICES ASSUME Create(n), file'[n].take = takes PROVE FALSE
        BY Zenon
      <4>2. pc \notin {"idle", "kill", "done"}
        BY Zenon, <4>1 DEF Create
      <4>3. manifest.take < takes /\ manifest.take = takes
        BY Zenon, <1>2, <2>1, <4>1, <4>2 DEF ManifestInv
      <4> QED BY <1>0, <4>3
    <3>3. /\ file'[n].take = file[n].take /\ file'[n].build = file[n].build
          /\ file'[n].cpu = file[n].cpu
      BY Zenon, <3>1, <3>2, FileKept
    <3>4. LinesOf(manifest.lines, file[n])
      BY Zenon, <1>2, <2>1, <3>1, <3>3 DEF IdentityInv
    <3> QED BY Zenon, <2>1, <3>3, <3>4, IdentityKept
  <2>2. CASE Truncate
    <3>1. manifest'.take = 0
      BY <2>2 DEF Truncate, NoManifest
    <3> QED BY <1>2, <3>1
  <2>3. CASE WriteManifest
    <3>1. /\ pc = "write" /\ manifest'.lines = IdentityLines(ident) /\ Targets' = nodes
          /\ file' = file
      BY Zenon, <2>3, WriteEffect
    <3>2. IdentityOf(ident, file[n])
      BY Zenon, <1>2, <3>1 DEF IdentityInv
    <3> QED BY Zenon, <3>1, <3>2 DEF IdentityOf, LinesOf
  <2> QED BY Zenon, <2>1, <2>2, <2>3, ManifestChanges
<1> QED BY Zenon, <1>1, <1>2 DEF IdentityInv

------------------------------------------------------------------------------
(* The invariant.                                                          *)

\* The invariant holds initially.
LEMMA TakeInit ==
  ASSUME SnapInit
  PROVE  TakeInv
<1>1. /\ setting \in Settings /\ cpu \in setting.cpus /\ pc = "idle" /\ nodes = {} /\ todo = {}
      /\ takes = 0 /\ manifest = NoManifest
      /\ vm = [n \in AllNodes |-> "gone"] /\ clk = [n \in AllNodes |-> 0]
      /\ seen = [n \in AllNodes |-> [m \in AllNodes |-> 0]]
      /\ file = [n \in AllNodes |-> NoFile]
  BY Zenon DEF SnapInit
<1>2. manifest.take = 0 /\ manifest.nodes = {}
  BY <1>1 DEF NoManifest
<1>3. /\ \A n \in AllNodes : vm[n] = "gone" /\ file[n].take = 0
      /\ \A n, m \in AllNodes : clk[n] = 0 /\ seen[n][m] = 0
  BY Zenon, <1>1 DEF NoFile
<1>4. 0 \in Nat /\ 0 <= 0 /\ ~(0 > 0)
  OBVIOUS
<1>5. TypeInv
  <2>1. clk \in Clocks /\ seen \in [AllNodes -> Clocks]
    BY Zenon, <1>1, <1>4 DEF Clocks
  <2>2. /\ vm \in [AllNodes -> {"gone", "running", "paused", "restored"}]
        /\ file \in [AllNodes -> Snapshot \cup {NoFile}]
    BY Zenon, <1>1
  <2>3. cpu \in AllCpus /\ pc \in Steps
    BY Zenon, <1>1 DEF AllCpus, Steps
  <2> QED BY Zenon, <1>1, <1>2, <1>4, <2>1, <2>2, <2>3 DEF TypeInv
<1>6. VmInv
  BY Zenon, <1>3 DEF VmInv, NoneRestored, NoneLives
<1>7. HeardInv /\ KnowInv
  BY Zenon, <1>3, <1>4 DEF HeardInv, KnowInv
<1>8. StepInv /\ FileInv /\ CopyInv
  BY Zenon, <1>1, <1>3, <1>4 DEF StepInv, FileInv, CopyInv
<1>9. SameTakeConsistent /\ AddressesRight /\ IdentityInv
  BY Zenon, <1>1, <1>2, <1>3, <1>4 DEF SameTakeConsistent, AddressesRight, IdentityInv
<1>10. ManifestInv
  BY Zenon, <1>1, <1>2, <1>4 DEF ManifestInv, ManifestCoversFiles
<1> QED BY Zenon, <1>5, <1>6, <1>7, <1>8, <1>9, <1>10 DEF TakeInv

\* A step that changes nothing preserves it.
LEMMA TakeStutter ==
  ASSUME TakeInv, UNCHANGED vars
  PROVE  TakeInv'
<1>1. UNCHANGED <<setting, vm, build, cpu, clk, seen, file, manifest, pc, nodes, todo, takes,
                  ident>>
  BY Zenon DEF vars
<1>2. mesh' = mesh /\ (Single' <=> Single) /\ Targets' = Targets
  BY Zenon, <1>1 DEF mesh, Single, Targets
<1>3. TypeInv'
  BY Zenon, <1>1, <1>2 DEF TakeInv, TypeInv
<1>4. VmInv' /\ HeardInv' /\ KnowInv'
  BY Zenon, <1>1, <1>2 DEF TakeInv, VmInv, HeardInv, KnowInv, NoneLives, NoneRestored
<1>5. StepInv' /\ FileInv'
  BY Zenon, <1>1, <1>2 DEF TakeInv, StepInv, FileInv, NoneRestored
<1>6. CopyInv'
  BY Zenon, <1>1, <1>2 DEF TakeInv, CopyInv, NoneLives
<1>7. SameTakeConsistent' /\ AddressesRight'
  BY Zenon, <1>1, <1>2 DEF TakeInv, SameTakeConsistent, AddressesRight
<1>8. ManifestInv' /\ IdentityInv'
  BY Zenon, <1>1, <1>2
     DEF TakeInv, ManifestInv, ManifestCoversFiles, IdentityInv, IdentityOf, LinesOf
<1> QED BY Zenon, <1>3, <1>4, <1>5, <1>6, <1>7, <1>8 DEF TakeInv

\* TakeInv holds throughout.
LEMMA TakeInvariant == SnapSpec => []TakeInv
<1>1. SnapInit => TakeInv
  BY Zenon, TakeInit
<1>2. ASSUME TakeInv, SnapNext PROVE TakeInv'
  <2>1. /\ TypeInv /\ VmInv /\ HeardInv /\ KnowInv /\ StepInv /\ FileInv /\ CopyInv
        /\ SameTakeConsistent /\ ManifestInv /\ AddressesRight /\ IdentityInv
    BY Zenon, <1>2 DEF TakeInv
  <2>2. TypeInv' /\ VmInv' /\ HeardInv'
    BY Zenon, <1>2, <2>1, TypeStep, VmStep, HeardStep
  <2>3. KnowInv' /\ StepInv' /\ FileInv' /\ CopyInv'
    BY Zenon, <1>2, <2>1, <2>2, KnowStep, StepStep, FileStep, CopyStep
  <2>4. SameTakeConsistent' /\ ManifestInv' /\ AddressesRight' /\ IdentityInv'
    BY Zenon, <1>2, <2>1, SameStep, ManifestStep, AddressStep, IdentityStep
  <2> QED BY Zenon, <2>2, <2>3, <2>4 DEF TakeInv
<1>3. ASSUME TakeInv, UNCHANGED vars PROVE TakeInv'
  BY Zenon, <1>3, TakeStutter
<1> QED BY <1>1, <1>2, <1>3, PTL DEF SnapSpec

------------------------------------------------------------------------------
(* The identity lines and the gate.                                        *)

\* What is written into the manifest is read back.
LEMMA ParseWritten ==
  ASSUME NEW id, NEW k \in Fields
  PROVE  ParseIdentity(IdentityLines(id))[k] = id[k]
<1> DEFINE lines == IdentityLines(id)
<1>1. ASSUME NEW l \in lines, l[1] = k PROVE l[2] = id[k] /\ id[k] # None
  <2>1. PICK g \in Fields : id[g] # None /\ l = <<g, id[g]>>
    BY Zenon, <1>1 DEF IdentityLines
  <2>2. l[1] = g /\ l[2] = id[g]
    BY <2>1
  <2> QED BY Zenon, <1>1, <2>1, <2>2
<1>2. ASSUME id[k] # None PROVE \E l \in lines : l[1] = k
  <2>1. <<k, id[k]>> \in lines
    BY Zenon, <1>2 DEF IdentityLines
  <2>2. <<k, id[k]>>[1] = k
    BY Zenon
  <2> QED BY Zenon, <2>1, <2>2
<1>3. ParseIdentity(lines)[k] = IF \E l \in lines : l[1] = k
                                THEN (CHOOSE l \in lines : l[1] = k)[2] ELSE None
  BY Zenon DEF ParseIdentity
<1> HIDE DEF lines
<1>4. CASE \E l \in lines : l[1] = k
  <2> DEFINE c == CHOOSE l \in lines : l[1] = k
  <2>1. c \in lines /\ c[1] = k
    BY Zenon, <1>4
  <2>2. ParseIdentity(lines)[k] = c[2]
    BY Zenon, <1>3, <1>4
  <2> HIDE DEF c
  <2> QED BY Zenon, <1>1, <2>1, <2>2 DEF lines
<1>5. CASE ~\E l \in lines : l[1] = k
  BY Zenon, <1>2, <1>3, <1>5 DEF lines
<1> QED BY Zenon, <1>4, <1>5

\* A build that a resume made of another also has a VMM, and its template is one.
LEMMA BuildFacts ==
  ASSUME NEW b \in Builds
  PROVE  /\ b.vmm # None
         /\ b.config # None =>
              /\ b.config = [text |-> b.config.text, layout |-> b.config.layout]
              /\ Template(b.config.text) # None
<1>1. /\ b.vmm \in {c.vmm : c \in AllBuilds}
      /\ b.config \in {c.config : c \in AllBuilds} \cup {None}
  BY Zenon DEF Builds
<1>2. \A c \in AllBuilds :
        /\ c.vmm # None
        /\ c.config # None =>
             /\ c.config = [text |-> c.config.text, layout |-> c.config.layout]
             /\ Template(c.config.text) # None
  BY Zenon, SnapTakeAssumption
<1> QED BY Zenon, <1>1, <1>2

\* The lines of a snapshot name its VMM build if any, and are keyed to the host
\* it was made on or to the template of its build.
LEMMA Recorded ==
  ASSUME NEW f, f.build \in Builds, f.cpu \in AllCpus, NEW lines, LinesOf(lines, f)
  PROVE  LET p == ParseIdentity(lines)
         IN  /\ p.vmm = None \/ p.vmm = f.build.vmm
             /\ \/ p.cpu = Fingerprint(f.cpu)
                \/ f.build.config # None /\ p.cpu = Template(TemplateHash(f.build.config))
             /\ p.cpu # None /\ ~IsEmpty(p)
<1> DEFINE p == ParseIdentity(lines)
<1>1. PICK found \in BOOLEAN, closure \in {None, "runner"} :
        lines = IdentityLines(TakeIdentity(closure, found, f.build, f.cpu))
  BY Zenon DEF LinesOf
<1> DEFINE id == TakeIdentity(closure, found, f.build, f.cpu)
           template == IF found THEN VmmCpuTemplate(f.build.config) ELSE None
<1>2. /\ "vmm" \in Fields /\ "cpu" \in Fields
      /\ id.vmm = IF found THEN f.build.vmm ELSE None
      /\ id.cpu = TakeCpuIdentity(template, f.cpu).cpu
  BY Zenon DEF Fields, TakeIdentity
<1>3. TakeCpuIdentity(template, f.cpu).cpu =
        IF template = None THEN Fingerprint(f.cpu) ELSE Template(template)
  BY Zenon DEF TakeCpuIdentity
<1> HIDE DEF id
<1>4. p["vmm"] = id["vmm"] /\ p["cpu"] = id["cpu"]
  BY Zenon, <1>1, <1>2, ParseWritten DEF id
<1>5. p.vmm = None \/ p.vmm = f.build.vmm
  BY Zenon, <1>2, <1>4
<1>6. template # None =>
        f.build.config # None /\ template = TemplateHash(f.build.config)
  BY Zenon DEF VmmCpuTemplate
<1> HIDE DEF p, template
<1>7. \/ p.cpu = Fingerprint(f.cpu)
      \/ f.build.config # None /\ p.cpu = Template(TemplateHash(f.build.config))
  BY Zenon, <1>2, <1>3, <1>4, <1>6
<1>8. Fingerprint(f.cpu) # None
  BY Zenon, SnapTakeAssumption
<1>9. f.build.config # None => Template(TemplateHash(f.build.config)) # None
  BY Zenon, BuildFacts DEF TemplateHash
<1>10. p.cpu # None
  BY Zenon, <1>7, <1>8, <1>9
<1>11. ~IsEmpty(p)
  BY Zenon, <1>2, <1>10 DEF IsEmpty
<1> QED BY Zenon, <1>5, <1>7, <1>10, <1>11 DEF p

\* A host's identity is not taken for a template's.
LEMMA TwoSpellings ==
  ASSUME NEW c, NEW t
  PROVE  Fingerprint(c)[1] # "template:" /\ Template(t)[1] = "template:" /\ Template(t)[2] = t
BY DEF Fingerprint, Host, Template

\* A resume whose VMM resolves and that does not allow a mismatch.
LEMMA GateChecks ==
  ASSUME NEW f, f.build \in Builds, f.cpu \in AllCpus, NEW lines, LinesOf(lines, f),
         NEW v, v # None, NEW c, NEW template, Admits(lines, v, c, template, FALSE)
  PROVE  /\ \/ Fingerprint(f.cpu) = Fingerprint(c)
            \/ f.build.config # None /\ template = TemplateHash(f.build.config)
         /\ ParseIdentity(lines).vmm = None \/ f.build.vmm = v
<1> DEFINE p == ParseIdentity(lines)
           live == LiveIdentity(v, c)
<1>1. /\ p.vmm = None \/ p.vmm = f.build.vmm
      /\ \/ p.cpu = Fingerprint(f.cpu)
         \/ f.build.config # None /\ p.cpu = Template(TemplateHash(f.build.config))
      /\ p.cpu # None /\ ~IsEmpty(p)
  BY Zenon, Recorded
<1>2. IdentityMismatches(p, live) = {} /\ ~CpuMismatch(p.cpu, live.cpu, template)
  BY Zenon, <1>1 DEF Admits
<1>3. live.vmm = v /\ live["vmm"] = v /\ live.cpu = Fingerprint(c)
  BY Zenon DEF LiveIdentity
<1> HIDE DEF p, live
<1>4. p.vmm = None \/ f.build.vmm = v
  <2>1. ~(p["vmm"] # None /\ live["vmm"] # None /\ p["vmm"] # live["vmm"])
    BY Zenon, <1>2 DEF IdentityMismatches
  <2> QED BY Zenon, <1>1, <1>3, <2>1
<1>5. /\ p.cpu[1] = "template:" => p.cpu = Template(template)
      /\ p.cpu[1] # "template:" => p.cpu = Fingerprint(c)
  BY Zenon, <1>1, <1>2, <1>3 DEF CpuMismatch
<1>6. CASE p.cpu = Fingerprint(f.cpu)
  BY Zenon, <1>4, <1>5, <1>6, TwoSpellings DEF p
<1>7. CASE f.build.config # None /\ p.cpu = Template(TemplateHash(f.build.config))
  <2>1. Template(TemplateHash(f.build.config)) = Template(template)
    BY Zenon, <1>5, <1>7, TwoSpellings
  <2>2. TemplateHash(f.build.config) = template
    BY Zenon, <2>1, TwoSpellings
  <2> QED BY Zenon, <1>4, <1>7, <2>2 DEF p
<1> QED BY Zenon, <1>1, <1>6, <1>7

\* Conversely, the same VMM on a host with the same features passes, with the
\* template named if the lines are keyed to one.
LEMMA GateOpens ==
  ASSUME NEW f, f.build \in Builds, f.cpu \in AllCpus, NEW lines, LinesOf(lines, f),
         NEW c, Fingerprint(f.cpu) = Fingerprint(c)
  PROVE  LET keyed == ParseIdentity(lines).cpu[1] = "template:"
             arg == [f.build.config EXCEPT !.layout = 0]
         IN  Admits(lines, f.build.vmm, c, IF keyed THEN TemplateHash(arg) ELSE None, FALSE)
<1> DEFINE p == ParseIdentity(lines)
           live == LiveIdentity(f.build.vmm, c)
           keyed == p.cpu[1] = "template:"
           arg == [f.build.config EXCEPT !.layout = 0]
           template == IF keyed THEN TemplateHash(arg) ELSE None
<1>1. /\ p.vmm = None \/ p.vmm = f.build.vmm
      /\ \/ p.cpu = Fingerprint(f.cpu)
         \/ f.build.config # None /\ p.cpu = Template(TemplateHash(f.build.config))
      /\ p.cpu # None /\ ~IsEmpty(p)
  BY Zenon, Recorded
<1>2. /\ live.vmm = f.build.vmm /\ live.cpu = Fingerprint(c) /\ live.closure = None
  BY Zenon DEF LiveIdentity
<1>3. f.build.config # None => TemplateHash(arg) = TemplateHash(f.build.config)
  <2>1. f.build.config # None =>
          f.build.config = [text |-> f.build.config.text, layout |-> f.build.config.layout]
    BY Zenon, BuildFacts
  <2> QED BY <2>1 DEF TemplateHash
<1> HIDE DEF live, arg, p
<1>4. IdentityMismatches(p, live) = {}
  BY Zenon, <1>1, <1>2 DEF IdentityMismatches
<1>5. ~CpuMismatch(p.cpu, live.cpu, template)
  <2>1. CASE p.cpu = Fingerprint(f.cpu)
    <3>1. ~keyed
      BY Zenon, <2>1, TwoSpellings
    <3> QED BY Zenon, <1>1, <1>2, <2>1, <3>1 DEF CpuMismatch
  <2>2. CASE f.build.config # None /\ p.cpu = Template(TemplateHash(f.build.config))
    <3>1. keyed
      BY Zenon, <2>2, TwoSpellings
    <3>2. p.cpu = Template(template)
      BY Zenon, <1>3, <2>2, <3>1
    <3> QED BY Zenon, <1>1, <3>1, <3>2 DEF CpuMismatch
  <2> QED BY Zenon, <1>1, <2>1, <2>2
<1> QED BY Zenon, <1>1, <1>4, <1>5 DEF Admits, p, live, arg

------------------------------------------------------------------------------
(* The theorems.                                                           *)

\* The snapshots of one take form a consistent cut, whatever crashes, dies or is
\* taken again: pausing all nodes before the first snapshot is enough.
THEOREM TakesConsistent == SnapSpec => []SameTakeConsistent
<1>1. TakeInv => SameTakeConsistent
  BY Zenon DEF TakeInv
<1> QED BY <1>1, TakeInvariant, PTL

\* The manifest stands for whole files of its own take on the nodes it names, and
\* gives them the addresses that the launcher gave them.
THEOREM ManifestsTrue == SnapSpec => []ManifestTrue
<1>1. TakeInv => ManifestTrue
  BY Zenon DEF TakeInv, ManifestInv, ManifestTrue
<1> QED BY <1>1, TakeInvariant, PTL

\* A finished snapshot is admitted on the host and by the VMM it was made with.
THEOREM Restorable == SnapSpec => []RestorableWhereTaken
<1>1. ASSUME TakeInv PROVE RestorableWhereTaken
  <2> SUFFICES ASSUME manifest.take > 0, manifest.take = takes, NEW n \in Targets,
                      Fingerprint(file[n].cpu) = Fingerprint(cpu)
               PROVE  LET keyed == ParseIdentity(manifest.lines).cpu[1] = "template:"
                          arg == [file[n].build.config EXCEPT !.layout = 0]
                      IN  Admits(manifest.lines, file[n].build.vmm, cpu,
                                 IF keyed THEN TemplateHash(arg) ELSE None, FALSE)
    BY Zenon DEF RestorableWhereTaken
  <2>1. TypeInv /\ ManifestCoversFiles /\ IdentityInv
    BY Zenon, <1>1 DEF TakeInv, ManifestInv
  <2>2. n \in AllNodes /\ file[n].take = manifest.take
    BY Zenon, <2>1, TargetsInMesh, MeshNodes DEF TypeInv, ManifestCoversFiles
  <2>3. file[n].build \in Builds /\ file[n].cpu \in AllCpus
    BY Zenon, <2>1, <2>2, FileTypes
  <2>4. LinesOf(manifest.lines, file[n])
    BY Zenon, <2>1, <2>2 DEF IdentityInv
  <2> QED BY Zenon, <2>3, <2>4, GateOpens
<1> QED BY <1>1, TakeInvariant, PTL

\* A file of the manifest's own take that is restored without an override runs on
\* the VMM build that wrote it, if the take could tell, and on a CPU with the
\* same locked features or under the template of the VMM it was taken from.
\* Nothing is said of files that a later take, killed before its manifest, left.
THEOREM GateIsSound == SnapSpec => GateSound
<1>1. ASSUME TakeInv, SnapNext PROVE GateStep
  <2> SUFFICES ASSUME restored' # restored, restored'.taken # None PROVE GateStep
    BY Zenon DEF GateStep
  <2>0. TypeInv /\ IdentityInv /\ nodes \subseteq mesh /\ setting \in Settings
    BY Zenon, <1>1 DEF TakeInv, TypeInv
  <2>1. PICK v \in Vmms, r \in BOOLEAN, a \in TemplateArgs, allow \in BOOLEAN :
          Resume(v, r, a, allow)
    <3>1. restored' # NoRestore
      BY DEF NoRestore
    <3>2. ASSUME Fresh PROVE FALSE
      BY Zenon, <3>1, <3>2 DEF Fresh
    <3>3. ASSUME NEW s, Lose(s) PROVE FALSE
      BY Zenon, <2>0, <3>1, <3>3, LoseEffect
    <3>4. ASSUME \/ \E n \in mesh : GuestEvent(n) \/ \E m \in mesh : Hear(n, m)
                 \/ (\E n \in nodes : Pause(n)) \/ Unpause
          PROVE  FALSE
      BY Zenon, <3>4 DEF GuestEvent, Hear, Pause, Unpause
    <3> QED BY Zenon, <1>1, <2>0, <3>2, <3>3, <3>4, GuestChanges
  <2> DEFINE template == ResolveTemplateSpec(a)
  <2>2. /\ Admits(manifest.lines, IF r THEN v ELSE None, cpu, template, allow)
        /\ restored'.taken = manifest.take /\ restored'.vmm = v
        /\ restored'.template = template /\ (restored'.checked <=> r /\ ~allow)
    BY Zenon, <2>1 DEF Resume
  <2>3. v # None
    BY Zenon, <2>0, SnapTakeAssumption DEF Vmms, AllBuilds
  <2> HIDE DEF template
  <2>4. ASSUME restored'.checked, restored'.taken > 0, NEW n \in Targets,
               file[n].take = restored'.taken
        PROVE  /\ \/ Fingerprint(file[n].cpu) = Fingerprint(cpu)
                  \/ /\ file[n].build.config # None
                     /\ restored'.template = TemplateHash(file[n].build.config)
               /\ \/ ParseIdentity(manifest.lines).vmm = None
                  \/ file[n].build.vmm = restored'.vmm
    <3>1. Admits(manifest.lines, v, cpu, template, FALSE)
      BY Zenon, <2>2, <2>4
    <3>2. n \in AllNodes /\ file[n].take > 0
      BY Zenon, <2>0, <2>4, TargetsInMesh, MeshNodes DEF TypeInv
    <3>3. file[n].build \in Builds /\ file[n].cpu \in AllCpus
      BY Zenon, <2>0, <3>2, FileTypes
    <3>4. LinesOf(manifest.lines, file[n])
      BY Zenon, <2>0, <2>2, <2>4 DEF IdentityInv
    <3> QED BY Zenon, <2>2, <2>3, <3>1, <3>3, <3>4, GateChecks
  <2> QED BY Zenon, <2>4 DEF GateStep
<1>2. TakeInv /\ [SnapNext]_vars => [GateStep]_vars
  BY Zenon, <1>1
<1> QED BY <1>2, TakeInvariant, PTL DEF SnapSpec, GateSound

=============================================================================
