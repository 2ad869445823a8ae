--------------------------- MODULE CustodyProofs ---------------------------
(***************************************************************************)
(* Proofs about Custody for any set of servers, any bundle and any number  *)
(* of connections, restarts and reboots.                                   *)
(***************************************************************************)
EXTENDS Custody, FiniteSetTheorems, SequenceTheorems, TLAPS

\* The types without the bounds.
Typed ==
    /\ conn \in Seq(Conn) /\ cur \in 0 .. Len(conn) /\ done \in Nat /\ troubles \in Nat
    /\ serve \in {"start", "up", "done", "dead"}
    /\ unit \in [Guests -> {"fetching", "waiting", "extract", "ok", "failed"}]
    /\ files \in [Guests -> 0 .. NFiles]
    /\ pki \in [Guests -> {"off", "up", "refused"}]
    /\ cut \subseteq Guests

\* A step on one connection changes that connection only.
LEMMA OneConn ==
    ASSUME Typed, NEW c \in 1 .. Len(conn), NEW e \in Conn, conn' = [conn EXCEPT ![c] = e]
    PROVE  /\ conn' \in Seq(Conn) /\ Len(conn') = Len(conn) /\ conn'[c] = e
           /\ \A d \in 1 .. Len(conn) : d # c => conn'[d] = conn[d]
BY DEF Typed

\* What becomes of a connection: it stays its guest's, and what its client did
\* at the end stays.
Grows ==
    /\ conn' \in Seq(Conn) /\ Len(conn') >= Len(conn)
    /\ \A c \in 1 .. Len(conn) : /\ conn'[c].g = conn[c].g
                                 /\ conn[c].client # "waiting" => conn'[c].client = conn[c].client

\* A new stage of one connection.
LEMMA StageGrows ==
    ASSUME Typed, NEW c \in 1 .. Len(conn), NEW st \in Stages,
           conn' = [conn EXCEPT ![c].stage = st]
    PROVE  /\ Grows /\ Len(conn') = Len(conn) /\ conn'[c].stage = st
           /\ \A d \in 1 .. Len(conn) : conn'[d].client = conn[d].client
           /\ \A d \in 1 .. Len(conn) : d # c => conn'[d].stage = conn[d].stage
<1> DEFINE e == [conn[c] EXCEPT !.stage = st]
<1>1. \A d \in 1 .. Len(conn) : conn[d] \in Conn
  BY DEF Typed
<1>2. e \in Conn /\ e.stage = st /\ e.g = conn[c].g /\ e.client = conn[c].client
  BY <1>1 DEF Conn
<1>3. conn' = [conn EXCEPT ![c] = e]
  OBVIOUS
<1> HIDE DEF e
<1>4. /\ conn' \in Seq(Conn) /\ Len(conn') = Len(conn) /\ conn'[c] = e
      /\ \A d \in 1 .. Len(conn) : d # c => conn'[d] = conn[d]
  BY <1>2, <1>3, OneConn
<1>5. Len(conn) \in Nat
  BY DEF Typed
<1> QED BY <1>2, <1>4, <1>5 DEF Grows

\* One waiting client is done.
LEMMA ClientGrows ==
    ASSUME Typed, NEW c \in 1 .. Len(conn), NEW how \in Clients, conn[c].client = "waiting",
           conn' = [conn EXCEPT ![c].client = how]
    PROVE  /\ Grows /\ Len(conn') = Len(conn) /\ conn'[c].client = how
           /\ \A d \in 1 .. Len(conn) : conn'[d].stage = conn[d].stage
           /\ \A d \in 1 .. Len(conn) : d # c => conn'[d].client = conn[d].client
<1> DEFINE e == [conn[c] EXCEPT !.client = how]
<1>1. \A d \in 1 .. Len(conn) : conn[d] \in Conn
  BY DEF Typed
<1>2. e \in Conn /\ e.stage = conn[c].stage /\ e.g = conn[c].g /\ e.client = how
  BY <1>1 DEF Conn
<1>3. conn' = [conn EXCEPT ![c] = e]
  OBVIOUS
<1> HIDE DEF e
<1>4. /\ conn' \in Seq(Conn) /\ Len(conn') = Len(conn) /\ conn'[c] = e
      /\ \A d \in 1 .. Len(conn) : d # c => conn'[d] = conn[d]
  BY <1>2, <1>3, OneConn
<1>5. Len(conn) \in Nat
  BY DEF Typed
<1> QED BY <1>2, <1>4, <1>5 DEF Grows

\* A guest gives up on what it waits for.
LEMMA AbandonGrows ==
    ASSUME Typed, NEW g \in Guests, NEW how \in Clients, Abandon(g, how)
    PROVE  Grows /\ Len(conn') = Len(conn)
<1>1. \A d \in 1 .. Len(conn) : conn[d] \in Conn
  BY DEF Typed
<1>2. \A d \in 1 .. Len(conn) : [conn[d] EXCEPT !.client = how] \in Conn
                                /\ [conn[d] EXCEPT !.client = how].g = conn[d].g
  BY <1>1 DEF Conn
<1>3. Len(conn) \in Nat /\ conn' = [d \in 1 .. Len(conn) |->
            IF Waits(g, d) THEN [conn[d] EXCEPT !.client = how] ELSE conn[d]]
  BY DEF Typed, Abandon
<1>4. \A d \in 1 .. Len(conn) : conn'[d] \in Conn /\ conn'[d].g = conn[d].g
        /\ (conn[d].client # "waiting" => conn'[d].client = conn[d].client)
  BY <1>1, <1>2, <1>3 DEF Waits
<1>5. conn' \in Seq(Conn) /\ Len(conn') = Len(conn)
  BY <1>3, <1>4
<1> QED BY <1>4, <1>5, <1>3 DEF Grows

\* A new connection.
LEMMA ConnectGrows ==
    ASSUME Typed, NEW g \in Guests, Connect(g)
    PROVE  /\ Grows /\ Len(conn') = Len(conn) + 1
           /\ conn'[Len(conn) + 1] = [g |-> g, client |-> "waiting", stage |-> "queued"]
           /\ \A d \in 1 .. Len(conn) : conn'[d] = conn[d]
<1>1. [g |-> g, client |-> "waiting", stage |-> "queued"] \in Conn
  BY DEF Conn, Clients, Stages
<1> QED BY <1>1 DEF Typed, Connect, Grows

\* The steps of serve leave the guests alone and move one connection's stage.
LEMMA ServeGrows == Typed /\ ServeStep => Grows /\ Typed'
<1> SUFFICES ASSUME Typed, ServeStep PROVE Grows /\ Typed'
  OBVIOUS
<1>1. Len(conn) \in Nat /\ UNCHANGED guest
  BY DEF Typed, ServeStep, ServeStart, Accept, Respond, Counted, NotCounted, AfterConn
<1>2. ASSUME NEW c \in 1 .. Len(conn), NEW st \in Stages, conn' = [conn EXCEPT ![c].stage = st],
             cur' \in 0 .. Len(conn), done' \in Nat, serve' \in {"start", "up", "done", "dead"}
      PROVE  Grows /\ Typed'
  BY <1>1, <1>2, StageGrows DEF Typed, Grows, guest
<1>3. ASSUME NEW b \in BOOLEAN, ServeStart(b) PROVE Grows /\ Typed'
  BY <1>1, <1>3 DEF ServeStart, Typed, Grows, guest
<1>4. ASSUME NEW c \in 1 .. Len(conn), Accept(c) PROVE Grows /\ Typed'
  <2>1. /\ c \in 1 .. Len(conn) /\ "request" \in Stages
        /\ conn' = [conn EXCEPT ![c].stage = "request"]
    BY <1>4 DEF Accept, Typed, Stages
  <2>2. /\ cur' \in 0 .. Len(conn) /\ done' \in Nat
        /\ serve' \in {"start", "up", "done", "dead"}
    BY <1>1, <1>4 DEF Accept, Typed
  <2> QED BY <1>2, <2>1, <2>2
<1>5. CASE Respond
  <2>1. /\ cur \in 1 .. Len(conn) /\ "sent" \in Stages
        /\ conn' = [conn EXCEPT ![cur].stage = "sent"]
    BY <1>5 DEF Respond, Typed, Stages
  <2>2. /\ cur' \in 0 .. Len(conn) /\ done' \in Nat
        /\ serve' \in {"start", "up", "done", "dead"}
    BY <1>1, <1>5 DEF Respond, Typed, served
  <2> QED BY <1>2, <2>1, <2>2
<1>6. CASE Counted
  <2>1. /\ cur \in 1 .. Len(conn) /\ "counted" \in Stages
        /\ conn' = [conn EXCEPT ![cur].stage = "counted"]
    BY <1>6 DEF Counted, Typed, Stages
  <2>2. /\ cur' \in 0 .. Len(conn) /\ done' \in Nat
        /\ serve' \in {"start", "up", "done", "dead"}
    BY <1>1, <1>6 DEF Counted, Typed, AfterConn
  <2> QED BY <1>2, <2>1, <2>2
<1>7. CASE NotCounted
  <2>1. /\ cur \in 1 .. Len(conn) /\ "failed" \in Stages
        /\ conn' = [conn EXCEPT ![cur].stage = "failed"]
    BY <1>7 DEF NotCounted, Typed, Stages
  <2>2. /\ cur' \in 0 .. Len(conn) /\ done' \in Nat
        /\ serve' \in {"start", "up", "done", "dead"}
    BY <1>1, <1>7 DEF NotCounted, Typed, AfterConn
  <2> QED BY <1>2, <2>1, <2>2
<1> QED BY <1>3, <1>4, <1>5, <1>6, <1>7 DEF ServeStep

\* A bundle was received on some connection of g.
Got(g) == \E c \in 1 .. Len(conn) : conn[c].g = g /\ conn[c].client = "got"

\* A guest that got its bundle keeps it.
LEMMA GotStays == ASSUME Typed, Grows PROVE \A g \in Guests : Got(g) => Got(g)'
<1>1. Len(conn) \in Nat /\ Len(conn') \in Nat
  BY DEF Typed, Grows
<1> QED BY <1>1 DEF Got, Grows

\* What is on a server's disk, by where its unit is.
OnDisk(g) ==
    /\ unit[g] = "extract" => files[g] < NFiles /\ Got(g)
    /\ unit[g] \in {"fetching", "waiting", "failed"} => files[g] < KeyFile
    /\ unit[g] = "ok" /\ g \notin cut => files[g] = NFiles
    /\ files[g] > 0 => Got(g)
    /\ pki[g] = "up" => unit[g] = "ok" /\ files[g] = NFiles

\* A step that leaves g's own state alone leaves its disk as described.
LEMMA DiskStays ==
    ASSUME Typed, Grows, NEW g \in Guests, OnDisk(g), unit'[g] = unit[g], files'[g] = files[g],
           pki'[g] = pki[g], g \in cut' <=> g \in cut
    PROVE  OnDisk(g)'
BY GotStays DEF OnDisk

\* A unit's step keeps the types and the description of its disk.
LEMMA GuestKeeps ==
    ASSUME Typed, NEW g \in Guests, OnDisk(g), GuestStep(g) \/ Restart(g) \/ Reboot(g)
    PROVE  /\ Grows /\ Typed' /\ OnDisk(g)'
           /\ \A h \in Guests \ {g} : /\ unit'[h] = unit[h] /\ files'[h] = files[h]
                                      /\ pki'[h] = pki[h] /\ (h \in cut' <=> h \in cut)
<1> DEFINE Goal ==
           /\ Grows /\ Typed' /\ OnDisk(g)'
           /\ \A h \in Guests \ {g} : /\ unit'[h] = unit[h] /\ files'[h] = files[h]
                                      /\ pki'[h] = pki[h] /\ (h \in cut' <=> h \in cut)
<1>1. Len(conn) \in Nat /\ KeyFile \in 1 .. NFiles /\ NFiles \in Nat
  BY CustodyAssumption DEF Typed
<1>2. CASE Connect(g)
  <2>1. Grows /\ Len(conn') = Len(conn) + 1 /\ (Got(g) => Got(g)')
    BY <1>2, ConnectGrows, GotStays, ZenonT(30)
  <2> QED BY <1>1, <1>2, <2>1 DEF Connect, Typed, Grows, OnDisk, served
<1>3. ASSUME NEW c \in 1 .. Len(conn), Receive(g, c) PROVE Goal
  <2>1. conn[c].g = g /\ conn[c].client = "waiting" /\ conn' = [conn EXCEPT ![c].client = "got"]
    BY <1>3 DEF Receive, Waits
  <2>2. Grows /\ Len(conn') = Len(conn) /\ conn'[c].client = "got"
    BY <2>1, ClientGrows DEF Clients
  <2>3. Got(g)'
    BY <1>1, <2>1, <2>2 DEF Got, Grows
  <2>4. /\ unit[g] = "waiting" /\ unit' = [unit EXCEPT ![g] = "extract"]
        /\ files' = [files EXCEPT ![g] = 0] /\ UNCHANGED <<serve, cur, done, pki, cut, troubles>>
    BY <1>3 DEF Receive, Waits, served
  <2>5. Typed'
    BY <1>1, <2>2, <2>4 DEF Typed, Grows
  <2>6. OnDisk(g)'
    BY <1>1, <2>3, <2>4 DEF Typed, OnDisk
  <2> QED BY <2>2, <2>4, <2>5, <2>6 DEF Typed
<1>4. ASSUME NEW c \in 1 .. Len(conn), GiveUp(g, c) PROVE Goal
  <2>1. conn[c].client = "waiting" /\ conn' = [conn EXCEPT ![c].client = "gaveup"]
        /\ unit[g] = "waiting"
    BY <1>4 DEF GiveUp, Waits
  <2>2. Grows /\ Len(conn') = Len(conn)
    BY <2>1, ClientGrows DEF Clients
  <2>3. Got(g) => Got(g)'
    BY <2>2, GotStays
  <2> QED BY <1>1, <1>4, <2>1, <2>2, <2>3 DEF GiveUp, Typed, Grows, OnDisk, served
<1>5. CASE Extract(g) \/ Deadline(g) \/ StartPki(g)
  <2>1. UNCHANGED conn /\ UNCHANGED served /\ UNCHANGED <<cut, troubles>>
    BY <1>5 DEF Extract, Deadline, StartPki
  <2>2. Grows /\ (Got(g) <=> Got(g)')
    BY <1>1, <2>1 DEF Grows, Got, Typed
  <2>3. CASE Extract(g)
    BY <1>1, <2>1, <2>2, <2>3 DEF Extract, Typed, OnDisk, served
  <2>4. CASE Deadline(g)
    BY <1>1, <2>1, <2>2, <2>4 DEF Deadline, Typed, OnDisk, served
  <2>5. CASE StartPki(g)
    BY <1>1, <2>1, <2>2, <2>5 DEF StartPki, Typed, OnDisk, served
  <2> QED BY <1>5, <2>3, <2>4, <2>5
<1>6. CASE Restart(g)
  <2>1. Grows /\ Len(conn') = Len(conn) /\ (Got(g) => Got(g)')
    BY <1>6, AbandonGrows, GotStays DEF Restart, Clients
  <2> QED BY <1>1, <1>6, <2>1 DEF Restart, Trouble, Typed, Grows, OnDisk, served
<1>7. CASE Reboot(g)
  <2>1. Grows /\ Len(conn') = Len(conn)
    BY <1>7, AbandonGrows DEF Reboot, Clients
  <2> QED BY <1>1, <1>7, <2>1 DEF Reboot, Trouble, Typed, Grows, OnDisk, served
<1> QED BY <1>2, <1>3, <1>4, <1>5, <1>6, <1>7 DEF GuestStep

\* Nothing is on a disk in the first state.
LEMMA DiskInit == CustodyInit => Typed /\ \A g \in Guests : OnDisk(g)
<1>1. KeyFile \in 1 .. NFiles /\ NFiles \in Nat
  BY CustodyAssumption
<1> QED BY <1>1 DEF CustodyInit, Typed, OnDisk

\* Every step keeps the types and what is known of every disk.
LEMMA DiskStep ==
    ASSUME Typed, \A g \in Guests : OnDisk(g), [CustodyNext]_vars
    PROVE  Grows /\ Typed' /\ \A g \in Guests : OnDisk(g)'
<1>1. CASE ServeStep
  <2>1. Grows /\ Typed'
    BY <1>1, ServeGrows
  <2>2. UNCHANGED guest
    BY <1>1 DEF ServeStep, ServeStart, Accept, Respond, Counted, NotCounted
  <2> QED BY <2>1, <2>2, DiskStays DEF guest
<1>2. ASSUME NEW g \in Guests, GuestStep(g) \/ Restart(g) \/ Reboot(g)
      PROVE  Grows /\ Typed' /\ \A h \in Guests : OnDisk(h)'
  <2>1. /\ Grows /\ Typed' /\ OnDisk(g)'
        /\ \A h \in Guests \ {g} : /\ unit'[h] = unit[h] /\ files'[h] = files[h]
                                   /\ pki'[h] = pki[h] /\ (h \in cut' <=> h \in cut)
    BY <1>2, GuestKeeps
  <2>2. \A h \in Guests \ {g} : OnDisk(h)'
    BY <2>1, DiskStays
  <2> QED BY <2>1, <2>2
<1>3. CASE UNCHANGED vars
  <2>1. Typed' /\ Grows
    BY <1>3 DEF vars, Typed, Grows
  <2> QED BY <1>3, <2>1, DiskStays DEF vars
<1> QED BY <1>1, <1>2, <1>3 DEF CustodyNext

\* What is on the disks is as the tags say, always.
LEMMA DiskInvariant == CustodySpec => [](Typed /\ \A g \in Guests : OnDisk(g))
<1>1. (Typed /\ \A g \in Guests : OnDisk(g)) /\ [CustodyNext]_vars
        => (Typed /\ \A g \in Guests : OnDisk(g))'
  BY DiskStep
<1> QED BY <1>1, DiskInit, PTL DEF CustodySpec

\* OkMeansBundle: a ca-fetch unit that succeeded left the whole bundle, unless
\* its extraction was interrupted.
THEOREM OkIsBundle == CustodySpec => []OkMeansBundle
<1>1. (\A g \in Guests : OnDisk(g)) => OkMeansBundle
  BY DEF OnDisk, OkMeansBundle
<1> QED BY <1>1, DiskInvariant, PTL

\* NoPartialTrust: a server's pki comes up only with a whole bundle that it
\* received from the launcher.
THEOREM TrustIsWhole == CustodySpec => []NoPartialTrust
<1>1. Typed /\ (\A g \in Guests : OnDisk(g)) => NoPartialTrust
  <2>1. NFiles > 0
    BY CustodyAssumption
  <2> QED BY <2>1 DEF Typed, OnDisk, Got, NoPartialTrust
<1> QED BY <1>1, DiskInvariant, PTL

-----------------------------------------------------------------------------
\* The servers whose transfer was counted.
Landed == {conn[c].g : c \in {d \in 1 .. Len(conn) : conn[d].stage = "counted"}}

\* As long as nobody gives up or starts over, a server connects once, its unit
\* is where its connection says, and serve has counted servers.
OnceEach ==
    /\ \A c, d \in 1 .. Len(conn) : conn[c].g = conn[d].g => c = d
    /\ \A c \in 1 .. Len(conn) :
         /\ conn[c].client = "waiting" => unit[conn[c].g] = "waiting"
         /\ conn[c].client = "got" => unit[conn[c].g] \in {"extract", "ok"}
         /\ conn[c].stage = "counted" => conn[c].client = "got"
    /\ done = Cardinality(Landed)

CountInv ==
    /\ Undisturbed => OnceEach
    /\ serve = "done" => done >= Cardinality(Guests)

\* Whoever gave up, and whatever started over, stays in the books.
LEMMA Calm ==
    ASSUME Typed, Grows, troubles' \in {troubles, troubles + 1}, Undisturbed'
    PROVE  /\ Undisturbed /\ troubles' = troubles
           /\ \A c \in 1 .. Len(conn) : conn'[c].client \in {"waiting", "got"}
<1>1. Len(conn) \in Nat /\ Len(conn') \in Nat /\ troubles \in Nat
  BY DEF Typed, Grows
<1>2. \A c \in 1 .. Len(conn) : conn'[c].client \in {"waiting", "got"}
  BY <1>1 DEF Undisturbed, Grows
<1>3. \A c \in 1 .. Len(conn) : conn[c].client \in {"waiting", "got"}
  BY <1>2 DEF Grows
<1> QED BY <1>1, <1>2, <1>3 DEF Undisturbed

\* The books are kept when no stage becomes "counted" and no connection is new.
LEMMA SameLanded ==
    ASSUME Typed, Grows, Len(conn') = Len(conn),
           \A c \in 1 .. Len(conn) : conn'[c].stage = "counted" <=> conn[c].stage = "counted"
    PROVE  Landed' = Landed
<1>1. \A x : x \in Landed <=> \E c \in 1 .. Len(conn) : conn[c].stage = "counted" /\ x = conn[c].g
  BY DEF Landed
<1>2. \A x : x \in Landed' <=> \E c \in 1 .. Len(conn') : conn'[c].stage = "counted" /\ x = conn'[c].g
  BY DEF Landed
<1>3. \A x : x \in Landed' <=> x \in Landed
  BY <1>1, <1>2 DEF Grows
<1> QED BY <1>3

\* Landed is a finite set of guests.
LEMMA LandedFinite == Typed => Landed \subseteq Guests /\ IsFiniteSet(Landed)
<1> SUFFICES ASSUME Typed PROVE Landed \subseteq Guests /\ IsFiniteSet(Landed)
  OBVIOUS
<1>1. \A c \in 1 .. Len(conn) : conn[c] \in Conn
  BY DEF Typed
<1>2. \A c \in 1 .. Len(conn) : conn[c].g \in Guests
  BY <1>1 DEF Conn
<1>3. Landed \subseteq Guests
  BY <1>2 DEF Landed
<1> QED BY <1>3, CustodyAssumption, FS_Subset

\* One more transfer is counted: that of a server not counted before.
LEMMA CountedOnce ==
    ASSUME Typed, Undisturbed, OnceEach, Counted
    PROVE  Landed' = Landed \cup {conn[cur].g} /\ done' = Cardinality(Landed')
<1>1. /\ cur \in 1 .. Len(conn) /\ conn[cur].stage = "sent" /\ "counted" \in Stages
      /\ conn' = [conn EXCEPT ![cur].stage = "counted"] /\ done' = done + 1
  BY DEF Counted, Typed, Stages, AfterConn
<1>2. /\ Grows /\ Len(conn') = Len(conn) /\ conn'[cur].stage = "counted"
      /\ \A d \in 1 .. Len(conn) : d # cur => conn'[d].stage = conn[d].stage
  BY <1>1, StageGrows
<1>3. \A x : x \in Landed <=> \E c \in 1 .. Len(conn) : conn[c].stage = "counted" /\ x = conn[c].g
  BY DEF Landed
<1>4. \A x : x \in Landed' <=> \E c \in 1 .. Len(conn') : conn'[c].stage = "counted" /\ x = conn'[c].g
  BY DEF Landed
<1>5. \A x : x \in Landed' <=> x \in Landed \/ x = conn[cur].g
  BY <1>1, <1>2, <1>3, <1>4 DEF Grows
<1>6. Landed' = Landed \cup {conn[cur].g}
  BY <1>5
<1>7. conn[cur].g \notin Landed
  BY <1>1, <1>3 DEF OnceEach
<1>8. Cardinality(Landed') = Cardinality(Landed) + 1
  BY <1>6, <1>7, LandedFinite, FS_AddElement
<1> QED BY <1>1, <1>6, <1>8 DEF OnceEach

\* serve stops only when it has counted as many transfers as there are servers.
LEMMA StopStep ==
    ASSUME Typed, serve = "done" => done >= Cardinality(Guests), [CustodyNext]_vars, serve' = "done"
    PROVE  done' >= Cardinality(Guests)
<1>1. CASE ServeStep
  BY <1>1 DEF ServeStep, ServeStart, Accept, Respond, Counted, NotCounted, AfterConn, served
<1>2. ASSUME NEW g \in Guests, GuestStep(g) \/ Restart(g) \/ Reboot(g) PROVE UNCHANGED served
  BY <1>2 DEF GuestStep, Restart, Reboot, Connect, Receive, GiveUp, Extract, Deadline, StartPki
<1>3. CASE UNCHANGED served
  BY <1>3 DEF served
<1> QED BY <1>1, <1>2, <1>3 DEF CustodyNext, vars, served

\* The books while serve makes a step.
LEMMA ServeKeepsBooks ==
    ASSUME Typed, CountInv, ServeStep, Undisturbed'
    PROVE  OnceEach'
<1>1. Grows /\ UNCHANGED guest
  BY ServeGrows DEF ServeStep, ServeStart, Accept, Respond, Counted, NotCounted
<1>2. Undisturbed /\ OnceEach
  BY <1>1, Calm DEF CountInv, guest
<1>3. ASSUME NEW c \in 1 .. Len(conn), NEW st \in Stages \ {"counted"}, done' = done,
             conn[c].stage # "counted", conn' = [conn EXCEPT ![c].stage = st]
      PROVE  OnceEach'
  <2>1. /\ Len(conn') = Len(conn) /\ conn'[c].stage = st
        /\ \A d \in 1 .. Len(conn) : conn'[d].client = conn[d].client
        /\ \A d \in 1 .. Len(conn) : d # c => conn'[d].stage = conn[d].stage
    BY <1>3, StageGrows
  <2>2. Landed' = Landed
    BY <1>1, <1>3, <2>1, SameLanded
  <2> QED BY <1>1, <1>2, <1>3, <2>1, <2>2 DEF OnceEach, Grows, guest
<1>4. ASSUME NEW b \in BOOLEAN, ServeStart(b) PROVE OnceEach'
  <2>1. UNCHANGED <<conn, done, unit>>
    BY <1>4 DEF ServeStart, guest
  <2>2. Landed' = Landed
    BY <2>1 DEF Landed
  <2> QED BY <1>2, <2>1, <2>2 DEF OnceEach
<1>5. ASSUME NEW c \in 1 .. Len(conn), Accept(c) PROVE OnceEach'
  <2>1. /\ conn[c].stage # "counted" /\ conn' = [conn EXCEPT ![c].stage = "request"]
        /\ done' = done /\ "request" \in Stages \ {"counted"}
    BY <1>5 DEF Accept, Stages
  <2> QED BY <1>3, <2>1
<1>6. CASE Respond
  <2>1. /\ cur \in 1 .. Len(conn) /\ conn[cur].stage # "counted"
        /\ conn' = [conn EXCEPT ![cur].stage = "sent"]
        /\ done' = done /\ "sent" \in Stages \ {"counted"}
    BY <1>6 DEF Respond, Stages, served, Typed
  <2> QED BY <1>3, <2>1
<1>7. CASE NotCounted
  <2>1. /\ cur \in 1 .. Len(conn) /\ conn[cur].stage # "counted"
        /\ conn' = [conn EXCEPT ![cur].stage = "failed"]
        /\ done' = done /\ "failed" \in Stages \ {"counted"}
    BY <1>7 DEF NotCounted, AfterConn, Stages, Typed
  <2> QED BY <1>3, <2>1
<1>8. CASE Counted
  <2>1. /\ cur \in 1 .. Len(conn) /\ conn[cur].client \in {"got", "gaveup"}
        /\ conn' = [conn EXCEPT ![cur].stage = "counted"] /\ "counted" \in Stages
    BY <1>8 DEF Counted, Stages, Typed
  <2>2. conn[cur].client = "got"
    BY <1>2, <2>1 DEF Undisturbed
  <2>3. /\ Len(conn') = Len(conn)
        /\ \A d \in 1 .. Len(conn) : conn'[d].client = conn[d].client
        /\ \A d \in 1 .. Len(conn) : d # cur => conn'[d].stage = conn[d].stage
    BY <2>1, StageGrows
  <2>4. done' = Cardinality(Landed')
    BY <1>2, <1>8, CountedOnce
  <2> QED BY <1>1, <1>2, <2>2, <2>3, <2>4 DEF OnceEach, Grows, guest
<1> QED BY <1>4, <1>5, <1>6, <1>7, <1>8 DEF ServeStep

\* The books while a server makes a step.
LEMMA GuestKeepsBooks ==
    ASSUME Typed, CountInv, NEW g \in Guests, OnDisk(g), GuestStep(g) \/ Restart(g) \/ Reboot(g),
           Undisturbed'
    PROVE  OnceEach'
<1>1. Grows /\ Len(conn) \in Nat /\ troubles \in Nat
  BY GuestKeeps DEF Typed
<1>2. troubles' \in {troubles, troubles + 1}
  BY DEF GuestStep, Restart, Reboot, Trouble, Connect, Receive, GiveUp, Extract, Deadline, StartPki
<1>3. /\ Undisturbed /\ OnceEach /\ troubles' = troubles /\ UNCHANGED served
      /\ \A c \in 1 .. Len(conn) : conn'[c].client \in {"waiting", "got"}
  <2>1. UNCHANGED served
    BY DEF GuestStep, Restart, Reboot, Connect, Receive, GiveUp, Extract, Deadline, StartPki
  <2> QED BY <1>1, <1>2, <2>1, Calm DEF CountInv
<1>4. \A c \in 1 .. Len(conn) : conn[c].client \in {"waiting", "got"} /\ conn[c].g \in Guests
  <2>1. \A c \in 1 .. Len(conn) : conn[c] \in Conn
    BY DEF Typed
  <2> QED BY <1>3, <2>1 DEF Undisturbed, Conn
<1>5. CASE Connect(g)
  <2>1. /\ Len(conn') = Len(conn) + 1
        /\ conn'[Len(conn) + 1] = [g |-> g, client |-> "waiting", stage |-> "queued"]
        /\ \A d \in 1 .. Len(conn) : conn'[d] = conn[d]
    BY <1>5, ConnectGrows
  <2>2. unit[g] = "fetching" /\ unit' = [unit EXCEPT ![g] = "waiting"]
    BY <1>5 DEF Connect
  <2>3. \A c \in 1 .. Len(conn) : conn[c].g # g
    BY <1>3, <1>4, <2>2 DEF OnceEach
  <2>4. \A c \in 1 .. Len(conn') : c \in 1 .. Len(conn) \/ c = Len(conn) + 1
    BY <1>1, <2>1
  <2>5. \A x : x \in Landed' <=> x \in Landed
    <3>1. \A x : x \in Landed <=> \E c \in 1 .. Len(conn) : conn[c].stage = "counted" /\ x = conn[c].g
      BY DEF Landed
    <3>2. \A x : x \in Landed' <=>
                   \E c \in 1 .. Len(conn') : conn'[c].stage = "counted" /\ x = conn'[c].g
      BY DEF Landed
    <3>3. \A c \in 1 .. Len(conn) : c \in 1 .. Len(conn')
      BY <1>1, <2>1
    <3> QED BY <2>1, <2>4, <3>1, <3>2, <3>3
  <2>6. done' = Cardinality(Landed')
    BY <1>3, <2>5 DEF OnceEach, served
  <2>7. \A c \in 1 .. Len(conn) : unit'[conn[c].g] = unit[conn[c].g]
    BY <1>4, <2>2, <2>3 DEF Typed
  <2>8. unit'[g] = "waiting"
    BY <2>2 DEF Typed
  <2> QED BY <1>3, <2>1, <2>3, <2>4, <2>6, <2>7, <2>8 DEF OnceEach
<1>6. ASSUME NEW c \in 1 .. Len(conn), Receive(g, c) PROVE OnceEach'
  <2>1. /\ conn[c].g = g /\ conn[c].client = "waiting" /\ "got" \in Clients
        /\ conn' = [conn EXCEPT ![c].client = "got"] /\ unit' = [unit EXCEPT ![g] = "extract"]
    BY <1>6 DEF Receive, Waits, Clients
  <2>2. /\ Len(conn') = Len(conn) /\ conn'[c].client = "got"
        /\ \A d \in 1 .. Len(conn) : conn'[d].stage = conn[d].stage
        /\ \A d \in 1 .. Len(conn) : d # c => conn'[d].client = conn[d].client
    BY <2>1, ClientGrows
  <2>3. Landed' = Landed
    BY <1>1, <2>2, SameLanded
  <2>4. unit'[g] = "extract" /\ \A d \in 1 .. Len(conn) : d # c => unit'[conn[d].g] = unit[conn[d].g]
    BY <1>3, <1>4, <2>1 DEF Typed, OnceEach
  <2> QED BY <1>1, <1>3, <2>1, <2>2, <2>3, <2>4 DEF OnceEach, Grows, served
<1>7. ASSUME NEW c \in 1 .. Len(conn), GiveUp(g, c) PROVE FALSE
  <2>1. /\ conn[c].client = "waiting" /\ "gaveup" \in Clients
        /\ conn' = [conn EXCEPT ![c].client = "gaveup"]
    BY <1>7 DEF GiveUp, Waits, Clients
  <2>2. conn'[c].client = "gaveup"
    BY <2>1, ClientGrows
  <2> QED BY <1>3, <2>2
<1>8. CASE Extract(g) \/ Deadline(g) \/ StartPki(g)
  <2>1. /\ UNCHANGED conn
        /\ unit'[g] = unit[g] \/ (unit[g] = "extract" /\ unit'[g] \in {"extract", "ok"})
           \/ unit[g] = "fetching"
        /\ \A h \in Guests \ {g} : unit'[h] = unit[h]
    BY <1>8 DEF Extract, Deadline, StartPki, Typed
  <2>2. Landed' = Landed
    BY <2>1 DEF Landed
  <2>3. \A c \in 1 .. Len(conn) :
          /\ conn[c].client = "waiting" => unit'[conn[c].g] = "waiting"
          /\ conn[c].client = "got" => unit'[conn[c].g] \in {"extract", "ok"}
    <3> SUFFICES ASSUME NEW c \in 1 .. Len(conn)
                 PROVE  /\ conn[c].client = "waiting" => unit'[conn[c].g] = "waiting"
                        /\ conn[c].client = "got" => unit'[conn[c].g] \in {"extract", "ok"}
      OBVIOUS
    <3>1. /\ conn[c].client = "waiting" => unit[conn[c].g] = "waiting"
          /\ conn[c].client = "got" => unit[conn[c].g] \in {"extract", "ok"}
          /\ conn[c].client \in {"waiting", "got"} /\ conn[c].g \in Guests
      BY <1>3, <1>4, Zenon DEF OnceEach
    <3>2. CASE conn[c].g = g
      BY <2>1, <3>1, <3>2
    <3>3. CASE conn[c].g # g
      BY <2>1, <3>1, <3>3
    <3> QED BY <3>2, <3>3
  <2> QED BY <1>3, <2>1, <2>2, <2>3 DEF OnceEach, served
<1>9. CASE Restart(g) \/ Reboot(g)
  BY <1>1, <1>3, <1>9 DEF Restart, Reboot, Trouble
<1> QED BY <1>5, <1>6, <1>7, <1>8, <1>9 DEF GuestStep

\* Every step keeps the books.
LEMMA CountStep ==
    ASSUME Typed, \A g \in Guests : OnDisk(g), CountInv, [CustodyNext]_vars
    PROVE  CountInv'
<1>1. serve' = "done" => done' >= Cardinality(Guests)
  BY StopStep DEF CountInv
<1>2. ASSUME UNCHANGED vars, Undisturbed' PROVE OnceEach'
  <2>1. Undisturbed /\ Landed' = Landed
    BY <1>2 DEF vars, Undisturbed, Landed
  <2> QED BY <1>2, <2>1 DEF CountInv, OnceEach, vars
<1>3. Undisturbed' => OnceEach'
  BY <1>2, ServeKeepsBooks, GuestKeepsBooks DEF CustodyNext
<1>4. Cardinality(Guests)' = Cardinality(Guests)
  OBVIOUS
<1> QED BY <1>1, <1>3, <1>4 DEF CountInv

\* CountMeansLanded: when serve has counted --count transfers, every server has
\* the bundle, as long as no client gave up and no server started over.
THEOREM CountIsServers == CustodySpec => []CountMeansLanded
<1>1. CustodyInit => CountInv
  <2> SUFFICES ASSUME CustodyInit PROVE CountInv
    OBVIOUS
  <2>1. Landed = {} /\ Len(conn) = 0
    BY DEF CustodyInit, Landed
  <2> QED BY <2>1, FS_EmptySet DEF CustodyInit, CountInv, OnceEach
<1>2. Typed /\ CountInv => CountMeansLanded
  <2> SUFFICES ASSUME Typed, CountInv, serve = "done", Undisturbed, NEW g \in Guests
               PROVE  unit[g] \in {"extract", "ok"}
    BY DEF CountMeansLanded
  <2>1. OnceEach /\ Cardinality(Landed) >= Cardinality(Guests)
    BY DEF CountInv, OnceEach
  <2>2. Landed \subseteq Guests /\ IsFiniteSet(Guests) /\ IsFiniteSet(Landed)
    BY LandedFinite, CustodyAssumption
  <2>3. Cardinality(Landed) <= Cardinality(Guests)
        /\ Cardinality(Landed) \in Nat /\ Cardinality(Guests) \in Nat
    BY <2>2, FS_Subset, FS_CardinalityType
  <2>4. Landed = Guests
    BY <2>1, <2>2, <2>3, FS_Subset
  <2>5. PICK c \in 1 .. Len(conn) : conn[c].stage = "counted" /\ conn[c].g = g
    BY <2>4 DEF Landed
  <2> QED BY <2>1, <2>5 DEF OnceEach
<1>3. (Typed /\ \A g \in Guests : OnDisk(g)) /\ CountInv /\ [CustodyNext]_vars => CountInv'
  BY CountStep
<1> QED BY <1>1, <1>2, <1>3, DiskInvariant, PTL DEF CustodySpec
=============================================================================
