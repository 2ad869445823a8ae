-------------------------- MODULE PkiServerProofs --------------------------
(***************************************************************************)
(* Proofs about PkiServer for any number of CAs, leaves, crashes and       *)
(* operator actions.                                                       *)
(***************************************************************************)
EXTENDS PkiServer, TLAPS

LoadedStages == {"leaf", "leafcrt", "leaffp", "package", "kc"}

\* The run has the issuers that are in the directory.
HeldInv ==
  pc \in LoadedStages => \A c \in Cas : caCrt[c] # 0 /\ held[c] = [key |-> caKey[c], crt |-> caCrt[c]]

\* Former bundles were complete.
KeptInv == \A b \in kept : \A c \in Cas : b.caCrt[c] # 0 /\ b.caCrt[c] = b.caKey[c]

\* What has a fingerprint has the rest, and its CA is present.
BackedInv ==
  \A l \in Leaves : fp[l] # NoFp => caCrt[IssuerOf[l]] # 0 /\ crt[l] # NoCrt /\ key[l] # 0

\* Keys in the order in which they were generated.
OrderInv ==
  \A l \in Leaves : /\ crt[l].key <= key[l] /\ key[l] < fresh
                    /\ kc[l].crt.key <= kc[l].key /\ kc[l].key <= key[l]

\* A leaf that no run has left half way is what its fingerprint says, or due.
Busy(l) == pc \in {"leafcrt", "leaffp"} /\ at = l
Match(l) == crt[l] = [key |-> key[l], ca |-> fp[l].ca, params |-> fp[l].params]
Trusted(l) == fp[l] # NoFp /\ torn[l] \in {NoFp, fp[l]} /\ ~old[l] => Match(l)
TrustInv == \A l \in Leaves : Busy(l) \/ Trusted(l)

\* What the run has done so far.
Passed(l) == fp[l] = CurrentFp(l) /\ (Sound(l) \/ Returned(l))
ProgressInv ==
  /\ pc = "cacrt" => caCrt[at] = 0
  /\ pc \in {"leaf", "leafcrt", "leaffp"} => \A l \in Leaves : l < at => Passed(l)
  /\ pc \in {"leafcrt", "leaffp"} => key[at] # 0
  /\ pc = "leafcrt" => (fp[at] = CurrentFp(at) => old[at])
  /\ pc = "leaffp" => Sound(at)
  /\ pc \in {"package", "kc", "done"} => \A l \in Leaves : Passed(l)
  /\ pc \in {"kc", "done"} =>
       \A l \in Leaves : pkg[l] = [crt |-> crt[l], key |-> key[l]]

KcGood(l) == kc[l] = [ca |-> caCrt[1], crt |-> crt[l], key |-> crt[l].key, url |-> config]
KcInv ==
  /\ pc = "kc" => \A l \in Users : l < at => KcGood(l) \/ Returned(l)
  /\ pc = "done" => \A l \in Users : KcGood(l) \/ Returned(l)

\* Nothing but a renewal touches a directory that a run has brought up to date.
CleanInv == clean => \A l \in Leaves : fp[l] = CurrentFp(l)

PkiInv == RootsPaired /\ HeldInv /\ KeptInv /\ BackedInv /\ OrderInv /\ TrustInv /\ ProgressInv
          /\ KcInv /\ CleanInv

\* Continue stays among the items or goes on with what follows them.
LEMMA ContinueAt ==
  ASSUME NEW n \in Nat \ {0}, NEW here, NEW next, at \in 1..n, Continue(here, n, next)
  PROVE  \/ at < n /\ pc' = here /\ at' = at + 1 /\ at' \in 1..n
         \/ at = n /\ pc' = next /\ at' = 1 /\ at' \in 1..n
BY DEF Continue

\* Absent files have their type.
LEMMA AbsentType ==
  /\ NoCrt \in Crt /\ NoFp \in Fp /\ NoCopy \in Copy /\ NoKc \in Kubeconfig
  /\ [key |-> 0, crt |-> 0] \in Issuer
BY DEF NoCrt, NoFp, NoKc, NoCopy, Crt, Fp, Copy, Kubeconfig, Issuer

\* The first item.
LEMMA FirstItem == 1 \in Cas /\ 1 \in Leaves
BY PkiAssumption DEF Cas, Leaves

\* Type correctness of the files and of the run.
THEOREM PkiTypeCorrect == PkiSpec => []PkiTypeOK
<1>1. PkiInit => PkiTypeOK
  <2> SUFFICES ASSUME PkiInit PROVE PkiTypeOK
    OBVIOUS
  <2>1. clean \in BOOLEAN /\ old \in [Leaves -> BOOLEAN]
    BY Zenon DEF PkiInit
  <2>2. /\ crt \in [Leaves -> Crt] /\ fp \in [Leaves -> Fp] /\ pkg \in [Leaves -> Copy]
        /\ kc \in [Leaves -> Kubeconfig] /\ held \in [Cas -> Issuer]
    BY AbsentType DEF PkiInit
  <2>3. /\ caKey \in [Cas -> Nat] /\ caCrt \in [Cas -> Nat] /\ saKey \in Nat /\ saPub \in Nat
        /\ key \in [Leaves -> Nat] /\ fresh \in Nat \ {0} /\ events \in Nat /\ at \in Nat \ {0}
    BY DEF PkiInit
  <2>4. mode \in {"mint", "server", "shipped"} /\ config \in Configs /\ pc = "off"
    BY DEF PkiInit
  <2>5. kept \subseteq Bundles /\ torn \in [Leaves -> Fp]
    BY AbsentType DEF PkiInit
  <2> QED BY <2>1, <2>2, <2>3, <2>4, <2>5 DEF PkiTypeOK, Stages
<1>2. PkiTypeOK /\ [PkiNext]_pkiVars => PkiTypeOK'
  <2> SUFFICES ASSUME PkiTypeOK, [PkiNext]_pkiVars PROVE PkiTypeOK'
    OBVIOUS
  <2> USE PkiAssumption DEF PkiTypeOK, Stages, roots, leafVars, past
  <2>1. CASE Start BY <2>1, FirstItem DEF Start
  <2>2. CASE EnsureCa
    <3>1. Continue("ca", NCas, "sa") /\ at \in 1..NCas
      BY <2>2 DEF EnsureCa, Cas
    <3>2. \/ pc' = "ca" /\ at' \in Cas
          \/ pc' = "sa" /\ at' = 1
      BY <3>1, ContinueAt DEF Cas
    <3>3. at' \in Nat \ {0}
      BY <3>2 DEF Cas
    <3> QED BY <2>2, <3>2, <3>3 DEF EnsureCa
  <2>3. CASE MintCaKey BY <2>3 DEF MintCaKey
  <2>4. CASE MintCaCrt
    <3>1. Continue("ca", NCas, "sa") /\ at \in 1..NCas
      BY <2>4 DEF MintCaCrt, Cas
    <3>2. \/ pc' = "ca" /\ at' \in Cas
          \/ pc' = "sa" /\ at' = 1
      BY <3>1, ContinueAt DEF Cas
    <3>3. at' \in Nat \ {0}
      BY <3>2 DEF Cas
    <3> QED BY <2>4, <3>2, <3>3 DEF MintCaCrt
  <2>5. CASE EnsureSa BY <2>5 DEF EnsureSa, AfterRoots
  <2>6. CASE WriteSaPub BY <2>6 DEF WriteSaPub, AfterRoots
  <2>7. CASE LoadIssuers
    <3>1. held' \in [Cas -> Issuer]
      BY <2>7 DEF LoadIssuers, Issuer
    <3>2. at' = 1 /\ at' \in Leaves /\ pc' \in {"leaf", "off"}
      BY <2>7, FirstItem DEF LoadIssuers
    <3> QED BY <2>7, <3>1, <3>2 DEF LoadIssuers
  <2>8. CASE EnsureLeaf
    <3>1. Continue("leaf", NLeaves, "package") /\ at \in 1..NLeaves
      BY <2>8 DEF EnsureLeaf, Leaves
    <3>2. \/ pc' = "leaf" /\ at' \in Leaves
          \/ pc' = "package" /\ at' = 1
      BY <3>1, ContinueAt DEF Leaves
    <3>3. at' \in Nat \ {0}
      BY <3>2 DEF Leaves
    <3> QED BY <2>8, <3>2, <3>3 DEF EnsureLeaf
  <2>9. CASE IssueKey BY <2>9 DEF IssueKey
  <2>10. CASE IssueCrt BY <2>10 DEF IssueCrt, Crt, Issuer
  <2>11. CASE WriteFp
    <3>1. Continue("leaf", NLeaves, "package") /\ at \in 1..NLeaves
      BY <2>11 DEF WriteFp, Leaves
    <3>2. \/ pc' = "leaf" /\ at' \in Leaves
          \/ pc' = "package" /\ at' = 1
      BY <3>1, ContinueAt DEF Leaves
    <3>3. at' \in Nat \ {0}
      BY <3>2 DEF Leaves
    <3>4. Want(at) \in Fp
      BY <2>11 DEF WriteFp, Want, Fp, Issuer
    <3>5. fp' \in [Leaves -> Fp] /\ torn' \in [Leaves -> Fp]
      BY <2>11, <3>4, AbsentType DEF WriteFp
    <3> QED BY <2>11, <3>2, <3>3, <3>5 DEF WriteFp
  <2>12. CASE Package
    <3>1. pkg' \in [Leaves -> Copy]
      BY <2>12 DEF Package, Copy
    <3> QED BY <2>12, <3>1, FirstItem DEF Package
  <2>13. CASE WriteKubeconfig
    <3>1. Continue("kc", NLeaves, "done") /\ at \in 1..NLeaves
      BY <2>13 DEF WriteKubeconfig, Leaves
    <3>2. \/ pc' = "kc" /\ at' \in Leaves
          \/ pc' = "done" /\ at' = 1
      BY <3>1, ContinueAt DEF Leaves
    <3>3. at' \in Nat \ {0}
      BY <3>2 DEF Leaves
    <3>4. kc' \in [Leaves -> Kubeconfig]
      <4>1. at \in Leaves /\ 1 \in Cas
        BY <2>13, FirstItem DEF WriteKubeconfig
      <4>2. [ca |-> caCrt[1], crt |-> crt[at], key |-> key[at], url |-> config] \in Kubeconfig
        BY <4>1 DEF Kubeconfig
      <4> QED BY <2>13, <4>2 DEF WriteKubeconfig
    <3>5. clean' \in BOOLEAN
      BY <2>13 DEF WriteKubeconfig
    <3>6. UNCHANGED <<mode, config, roots, leafVars, pkg, held, fresh, events, past>>
      BY <2>13 DEF WriteKubeconfig
    <3> QED BY <3>2, <3>3, <3>4, <3>5, <3>6
  <2>14. CASE Crash
    <3>1. pkg' \in [Leaves -> Copy]
      BY <2>14, AbsentType DEF Crash
    <3>2. torn' \in [Leaves -> Fp]
      <4>1. pc \in {"leafcrt", "leaffp"} => Want(at) \in Fp
        BY DEF Want, Fp, Issuer
      <4> QED BY <2>14, <4>1 DEF Crash
    <3> QED BY <2>14, <3>1, <3>2 DEF Crash, Event
  <2>15. ASSUME NEW b \in kept \cup {NewBundle}, Ship(b) PROVE PkiTypeOK'
    <3>1. b \in Bundles /\ Bundle \in Bundles
      <4>1. Bundle \in Bundles
        BY DEF Bundles, Bundle
      <4>2. [c \in Cas |-> fresh + c] \in [Cas -> Nat]
        BY DEF Cas
      <4>3. NewBundle \in Bundles
        BY <4>2 DEF Bundles, NewBundle
      <4> QED BY <4>1, <4>3
    <3>2. /\ caKey' \in [Cas -> Nat] /\ caCrt' \in [Cas -> Nat]
          /\ saKey' \in Nat /\ saPub' \in Nat
      BY <2>15, <3>1 DEF Ship, Bundles
    <3>3. kept' \subseteq Bundles
      BY <2>15, <3>1 DEF Ship
    <3>4. fresh' \in Nat \ {0} /\ events' \in Nat
      BY <2>15 DEF Ship, Event
    <3>5. pc' = "off" /\ UNCHANGED <<mode, config, leafVars, pkg, kc, at, held, torn>>
      BY <2>15 DEF Ship
    <3>6. clean' \in BOOLEAN
      BY <2>15, Zenon DEF Ship
    <3> QED BY <3>2, <3>3, <3>4, <3>5, <3>6
  <2>16. ASSUME NEW l \in Leaves, Age(l) PROVE PkiTypeOK'
    BY <2>16 DEF Age, Event
  <2>17. ASSUME NEW new \in Configs \ {config}, Reconfigure(new) PROVE PkiTypeOK'
    <3>1. config' = new /\ pc' = "off" /\ events' \in Nat
      BY <2>17 DEF Reconfigure, Event
    <3>2. UNCHANGED <<mode, roots, leafVars, pkg, kc, at, held, fresh, past>>
      BY <2>17 DEF Reconfigure
    <3>3. clean' \in BOOLEAN
      BY <2>17, Zenon DEF Reconfigure
    <3> QED BY <3>1, <3>2, <3>3
  <2>18. CASE UNCHANGED pkiVars BY <2>18 DEF pkiVars
  <2> QED
    BY <2>1, <2>2, <2>3, <2>4, <2>5, <2>6, <2>7, <2>8, <2>9, <2>10, <2>11, <2>12, <2>13,
       <2>14, <2>15, <2>16, <2>17, <2>18, Zenon DEF PkiNext, PkiStep
<1> QED BY <1>1, <1>2, PTL DEF PkiSpec

\* The invariant holds initially.
LEMMA PkiInvInit == PkiInit => PkiInv
<1> SUFFICES ASSUME PkiInit PROVE PkiInv
  OBVIOUS
<1> USE PkiAssumption DEF PkiInit
<1>1. RootsPaired /\ HeldInv /\ KeptInv
  BY DEF RootsPaired, HeldInv, LoadedStages, KeptInv
<1>2. BackedInv /\ TrustInv
  BY DEF BackedInv, TrustInv, Trusted
<1>3. OrderInv
  BY DEF OrderInv, NoKc, NoCrt
<1>4. ProgressInv /\ CleanInv /\ KcInv
  BY DEF ProgressInv, CleanInv, KcInv
<1> QED BY <1>1, <1>2, <1>3, <1>4 DEF PkiInv

\* What the invariant says of fingerprints that are present.
LEMMA PresentFacts ==
  ASSUME PkiTypeOK, PkiInv
  PROVE  /\ config \in Nat \ {0}
         /\ \A l \in Leaves : IssuerOf[l] \in Cas
         /\ \A l \in Leaves : CurrentFp(l) # NoFp
         /\ \A l \in Leaves : fp[l] = CurrentFp(l) =>
              caCrt[IssuerOf[l]] # 0 /\ crt[l] # NoCrt /\ key[l] # 0
<1>1. config \in Nat \ {0}
  BY PkiAssumption DEF PkiTypeOK
<1>2. ASSUME NEW l \in Leaves PROVE IssuerOf[l] \in Cas
  BY PkiAssumption
<1>3. ASSUME NEW l \in Leaves PROVE CurrentFp(l) # NoFp
  BY <1>1 DEF CurrentFp, NoFp
<1>4. ASSUME NEW l \in Leaves, fp[l] = CurrentFp(l)
      PROVE  caCrt[IssuerOf[l]] # 0 /\ crt[l] # NoCrt /\ key[l] # 0
  BY <1>3, <1>4 DEF PkiInv, BackedInv
<1> QED BY <1>1, <1>2, <1>3, <1>4

\* A leaf that is what a current fingerprint says is sound.
LEMMA MatchIsSound ==
  ASSUME PkiTypeOK, PkiInv, NEW l \in Leaves, fp[l] = CurrentFp(l), Match(l)
  PROVE  Sound(l)
<1>1. caCrt[IssuerOf[l]] = caKey[IssuerOf[l]]
  BY PresentFacts DEF PkiInv, RootsPaired
<1>2. fp[l].ca = caCrt[IssuerOf[l]] /\ fp[l].params = config
  BY DEF CurrentFp
<1> QED BY <1>1, <1>2, Zenon DEF Match, Sound

\* While the leaves are gone through, what a leaf ought to have is what the
\* directory's CA gives it.
LEMMA WantIsCurrent ==
  ASSUME PkiTypeOK, PkiInv, pc \in {"leaf", "leafcrt", "leaffp"}
  PROVE  /\ at \in Leaves /\ IssuerOf[at] \in Cas /\ caCrt[IssuerOf[at]] # 0
         /\ held[IssuerOf[at]].key = caKey[IssuerOf[at]]
         /\ Want(at) = CurrentFp(at)
<1>1. at \in Leaves
  BY DEF PkiTypeOK
<1>2. pc \in LoadedStages /\ HeldInv
  BY DEF LoadedStages, PkiInv
<1>3. IssuerOf[at] \in Cas
  BY <1>1, PkiAssumption
<1>4. /\ caCrt[IssuerOf[at]] # 0
      /\ held[IssuerOf[at]] = [key |-> caKey[IssuerOf[at]], crt |-> caCrt[IssuerOf[at]]]
  BY <1>2, <1>3, Zenon DEF HeldInv
<1>5. /\ held[IssuerOf[at]].crt = caCrt[IssuerOf[at]]
      /\ held[IssuerOf[at]].key = caKey[IssuerOf[at]]
  BY <1>4
<1> QED BY <1>1, <1>3, <1>4, <1>5, Zenon DEF Want, CurrentFp

\* The orders of keys, as numbers.
LEMMA OrderTyped ==
  ASSUME PkiTypeOK
  PROVE  /\ fresh \in Nat
         /\ \A l \in Leaves : /\ crt[l].key \in Nat /\ key[l] \in Nat
                              /\ kc[l].crt.key \in Nat /\ kc[l].key \in Nat
BY DEF PkiTypeOK, Crt, Kubeconfig

\* Steps that write none of the files the fingerprints are about.
Quiet ==
  /\ pc \notin {"leafcrt", "leaffp"}
  /\ UNCHANGED <<config, caKey, caCrt, key, crt, fp, old, kc, kept, torn, clean>>
  /\ fresh' \in Nat /\ fresh' >= fresh

\* Quiet steps keep what the invariant says of the files.
LEMMA QuietKeeps ==
  ASSUME PkiTypeOK, PkiInv, Quiet
  PROVE  /\ RootsPaired' /\ KeptInv' /\ BackedInv' /\ OrderInv' /\ TrustInv' /\ CleanInv'
         /\ \A l \in Leaves : /\ CurrentFp(l)' = CurrentFp(l)
                              /\ Passed(l)' = Passed(l) /\ KcGood(l)' = KcGood(l)
                              /\ Returned(l)' = Returned(l)
<1> USE DEF Quiet, PkiInv
<1>1. RootsPaired' /\ KeptInv' /\ BackedInv'
  BY Zenon DEF RootsPaired, KeptInv, BackedInv
<1>2. OrderInv'
  <2>1. \A l \in Leaves : key[l] < fresh'
    BY OrderTyped DEF OrderInv
  <2> QED BY <2>1, Zenon DEF OrderInv
<1>3. TrustInv'
  <2>1. \A l \in Leaves : Trusted(l)
    BY Zenon DEF TrustInv, Busy
  <2> QED BY <2>1, Zenon DEF TrustInv, Trusted, Match
<1>4. \A l \in Leaves : CurrentFp(l)' = CurrentFp(l)
  BY Zenon DEF CurrentFp
<1>5. \A l \in Leaves : Returned(l)' = Returned(l) /\ Sound(l)' = Sound(l)
  BY Zenon DEF Returned, CurrentFp, Sound
<1>6. \A l \in Leaves : Passed(l)' = Passed(l) /\ KcGood(l)' = KcGood(l)
  BY <1>4, <1>5, Zenon DEF Passed, KcGood
<1>7. CleanInv'
  BY <1>4, Zenon DEF CleanInv
<1> QED BY <1>1, <1>2, <1>3, <1>4, <1>5, <1>6, <1>7

\* Before the leaves a run promises nothing yet.
LEMMA EarlyKeeps ==
  ASSUME PkiTypeOK, PkiInv, Quiet, pc' \in {"off", "ca", "sa", "sapub", "minted", "load"}
  PROVE  PkiInv'
<1>1. HeldInv' /\ ProgressInv' /\ KcInv'
  BY DEF HeldInv, LoadedStages, ProgressInv, KcInv
<1> QED BY <1>1, QuietKeeps DEF PkiInv

\* The steps that only decide what comes next.
LEMMA QuietSteps ==
  ASSUME PkiTypeOK, PkiInv, Start \/ EnsureCa \/ EnsureSa \/ WriteSaPub \/ LoadIssuers
  PROVE  PkiInv'
<1> USE DEF roots, leafVars, past
<1>1. fresh \in Nat /\ fresh >= fresh /\ fresh + 1 \in Nat /\ fresh + 1 >= fresh
  BY DEF PkiTypeOK
<1>2. CASE Start
  <2>1. Quiet /\ pc' \in {"load", "ca"}
    BY <1>1, <1>2 DEF Start, Idle, Quiet
  <2> QED BY <2>1, EarlyKeeps, Zenon
<1>3. CASE EnsureCa
  <2>1. Quiet /\ pc' \in {"ca", "sa"}
    BY <1>1, <1>3 DEF EnsureCa, Continue, Quiet
  <2> QED BY <2>1, EarlyKeeps, Zenon
<1>4. CASE EnsureSa
  <2>1. Quiet /\ pc' \in {"sapub", "minted", "load"}
    BY <1>1, <1>4 DEF EnsureSa, AfterRoots, Quiet
  <2> QED BY <2>1, EarlyKeeps, Zenon
<1>5. CASE WriteSaPub
  <2>1. Quiet /\ pc' \in {"minted", "load"}
    BY <1>1, <1>5 DEF WriteSaPub, AfterRoots, Quiet
  <2> QED BY <2>1, EarlyKeeps, Zenon
<1>6. CASE LoadIssuers
  <2>1. Quiet /\ pc' \in {"leaf", "off"}
    BY <1>1, <1>6 DEF LoadIssuers, Quiet
  <2>2. HeldInv'
    BY <1>6 DEF LoadIssuers, HeldInv, LoadedStages
  <2>3. at' = 1
    BY <1>6, SMTT(20) DEF PkiTypeOK, LoadIssuers
  <2>4. ProgressInv' /\ KcInv'
    <3>1. \A l \in Leaves : ~(l < at')
      BY <2>3 DEF Leaves
    <3> QED BY <2>1, <3>1, SMTT(20) DEF ProgressInv, KcInv
  <2> QED BY <2>1, <2>2, <2>4, QuietKeeps DEF PkiInv
<1> QED BY <1>2, <1>3, <1>4, <1>5, <1>6

\* The steps that mint a CA: no leaf has a fingerprint of it yet.
LEMMA MintSteps ==
  ASSUME PkiTypeOK, PkiInv, MintCaKey \/ MintCaCrt
  PROVE  PkiInv'
<1> USE DEF roots, leafVars, past, PkiInv
<1>1. /\ at \in Cas /\ caCrt[at] = 0 /\ pc \in {"ca", "cacrt"} /\ pc' \in {"cacrt", "ca", "sa"}
      /\ pc' = "cacrt" => at' = at /\ caCrt' = caCrt
  <2>1. CASE MintCaKey
    BY <2>1 DEF PkiTypeOK, MintCaKey, CaPresent, RootsPaired
  <2>2. CASE MintCaCrt
    BY <2>2 DEF PkiTypeOK, MintCaCrt, Continue, ProgressInv
  <2> QED BY <2>1, <2>2
<1>2. /\ UNCHANGED <<config, key, crt, fp, old, kc, kept, torn, clean>>
      /\ fresh \in Nat /\ fresh' \in Nat /\ fresh' >= fresh
      /\ \A c \in Cas \ {at} : caKey'[c] = caKey[c] /\ caCrt'[c] = caCrt[c]
      /\ caCrt'[at] = 0 \/ caCrt'[at] = caKey'[at]
  <2>1. CASE MintCaKey
    BY <1>1, <2>1 DEF PkiTypeOK, MintCaKey
  <2>2. CASE MintCaCrt
    BY <1>1, <2>2 DEF PkiTypeOK, MintCaCrt
  <2> QED BY <2>1, <2>2
<1>3. RootsPaired'
  BY <1>2, SMTT(20) DEF RootsPaired
<1>4. HeldInv' /\ ProgressInv' /\ KcInv'
  BY <1>1 DEF HeldInv, LoadedStages, ProgressInv, KcInv
<1>5. KeptInv'
  BY <1>2, Zenon DEF KeptInv
<1>6. \A l \in Leaves : fp[l] # NoFp => IssuerOf[l] \in Cas \ {at}
  BY <1>1, PresentFacts DEF BackedInv
<1>7. BackedInv'
  BY <1>2, <1>6 DEF BackedInv
<1>8. OrderInv'
  <2>1. \A l \in Leaves : key[l] < fresh'
    BY <1>2, OrderTyped DEF OrderInv
  <2> QED BY <1>2, <2>1, Zenon DEF OrderInv
<1>9. TrustInv'
  <2>1. \A l \in Leaves : Trusted(l)
    BY <1>1 DEF TrustInv, Busy
  <2> QED BY <1>2, <2>1, Zenon DEF TrustInv, Trusted, Match
<1>10. CleanInv'
  <2>1. \A l \in Leaves : fp[l] = CurrentFp(l) => CurrentFp(l)' = CurrentFp(l)
    BY <1>2, <1>6, PresentFacts DEF CurrentFp
  <2> QED BY <1>2, <2>1 DEF CleanInv
<1> QED BY <1>3, <1>4, <1>5, <1>7, <1>8, <1>9, <1>10

\* The leaf at hand has passed, like the ones before it.
LEMMA NextLeaf ==
  ASSUME at \in Leaves, Continue("leaf", NLeaves, "package"),
         \A l \in Leaves : l < at \/ l = at => Passed(l)'
  PROVE  pc' \in {"leaf", "package"} /\ ProgressInv' /\ KcInv'
<1>1. NLeaves \in Nat \ {0} /\ at \in 1..NLeaves
  BY PkiAssumption DEF Leaves
<1>2. \/ pc' = "leaf" /\ at' = at + 1
      \/ pc' = "package" /\ at = NLeaves
  BY <1>1, ContinueAt
<1>3. CASE pc' = "leaf" /\ at' = at + 1
  <2>1. \A l \in Leaves : l < at' => l < at \/ l = at
    BY <1>1, <1>3 DEF Leaves
  <2>2. \A l \in Leaves : l < at' => Passed(l)'
    BY <2>1, Zenon
  <2> QED BY <1>3, <2>2 DEF ProgressInv, KcInv
<1>4. CASE pc' = "package" /\ at = NLeaves
  <2>1. \A l \in Leaves : l < at \/ l = at
    BY <1>1, <1>4 DEF Leaves
  <2>2. \A l \in Leaves : Passed(l)'
    BY <2>1, Zenon
  <2> QED BY <1>4, <2>2 DEF ProgressInv, KcInv
<1> QED BY <1>2, <1>3, <1>4

\* A leaf that ensure keeps is sound, unless the exception applies to it.
LEMMA EnsureLeafStep ==
  ASSUME PkiTypeOK, PkiInv, EnsureLeaf
  PROVE  PkiInv'
<1> USE DEF roots, leafVars, past
<1>1. pc = "leaf" /\ at \in Leaves /\ fp[at] = CurrentFp(at) /\ ~old[at]
  BY Zenon, WantIsCurrent DEF EnsureLeaf, UpToDate
<1>2. Quiet
  <2>1. fresh \in Nat /\ fresh >= fresh
    BY DEF PkiTypeOK
  <2> QED BY <1>1, <2>1 DEF EnsureLeaf, Quiet
<1>3. Passed(at)
  <2>1. CASE Returned(at)
    BY <1>1, <2>1, Zenon DEF Passed
  <2>2. CASE ~Returned(at)
    <3>1. Trusted(at)
      BY <1>1 DEF PkiInv, TrustInv, Busy
    <3>2. fp[at] # NoFp /\ torn[at] \in {NoFp, fp[at]}
      BY <1>1, <2>2, PresentFacts, Zenon DEF Returned
    <3>3. Match(at)
      BY <1>1, <3>1, <3>2, Zenon DEF Trusted
    <3> QED BY <1>1, <3>3, MatchIsSound, Zenon DEF Passed
  <2> QED BY <2>1, <2>2
<1>4. \A l \in Leaves : l < at => Passed(l)
  BY <1>1 DEF PkiInv, ProgressInv
<1>5. \A l \in Leaves : l < at \/ l = at => Passed(l)'
  BY <1>2, <1>3, <1>4, QuietKeeps, Zenon
<1>6. pc' \in {"leaf", "package"} /\ ProgressInv' /\ KcInv'
  BY <1>1, <1>5, NextLeaf DEF EnsureLeaf
<1>7. HeldInv'
  BY Zenon, <1>1, <1>6 DEF PkiInv, EnsureLeaf, HeldInv, LoadedStages
<1> QED BY <1>2, <1>6, <1>7, QuietKeeps DEF PkiInv

\* A new key: the leaf's fingerprint no longer counts until the certificate is there.
LEMMA IssueKeyStep ==
  ASSUME PkiTypeOK, PkiInv, IssueKey
  PROVE  PkiInv'
<1> USE DEF roots, leafVars, past
<1>1. pc = "leaf" /\ pc' = "leafcrt" /\ at' = at /\ at \in Leaves /\ Want(at) = CurrentFp(at)
  BY WantIsCurrent DEF IssueKey
<1>2. /\ UNCHANGED <<config, caKey, caCrt, crt, fp, old, kc, kept, torn, clean, held>>
      /\ fresh \in Nat \ {0} /\ fresh' = fresh + 1 /\ key'[at] = fresh
      /\ \A l \in Leaves : l # at => key'[l] = key[l]
  BY <1>1 DEF IssueKey, PkiTypeOK
<1>3. RootsPaired' /\ KeptInv'
  BY <1>2, Zenon DEF PkiInv, RootsPaired, KeptInv
<1>4. HeldInv'
  BY <1>1, <1>2, Zenon DEF PkiInv, HeldInv, LoadedStages
<1>5. BackedInv'
  <2>1. \A l \in Leaves : key[l] # 0 => key'[l] # 0
    BY <1>2, SMTT(20)
  <2> QED BY <1>2, <2>1, Zenon DEF PkiInv, BackedInv
<1>6. OrderInv'
  <2> SUFFICES ASSUME NEW l \in Leaves
               PROVE  /\ crt[l].key <= key'[l] /\ key'[l] < fresh'
                      /\ kc[l].crt.key <= kc[l].key /\ kc[l].key <= key'[l]
    BY <1>2, Zenon DEF OrderInv
  <2>1. /\ crt[l].key <= key[l] /\ key[l] < fresh
        /\ kc[l].crt.key <= kc[l].key /\ kc[l].key <= key[l]
    BY Zenon DEF PkiInv, OrderInv
  <2>2. key'[l] = fresh \/ key'[l] = key[l]
    BY <1>2
  <2> QED BY <1>2, <2>1, <2>2, OrderTyped, SMTT(20)
<1>7. TrustInv'
  <2>1. \A l \in Leaves : l = at => Busy(l)'
    BY <1>1 DEF Busy
  <2>2. ASSUME NEW l \in Leaves, l # at PROVE Trusted(l)'
    <3>1. Trusted(l)
      BY <1>1 DEF PkiInv, TrustInv, Busy
    <3> QED BY <1>2, <2>2, <3>1, Zenon DEF Trusted, Match
  <2> QED BY <2>1, <2>2, Zenon DEF TrustInv
<1>8. ProgressInv'
  <2>1. ASSUME NEW l \in Leaves, l < at PROVE Passed(l)'
    <3>1. Passed(l) /\ l # at
      BY <1>1, <2>1 DEF PkiInv, ProgressInv, Leaves
    <3> QED BY <1>2, <3>1, Zenon DEF Passed, Sound, Returned, CurrentFp
  <2>2. fp[at] = CurrentFp(at) => old[at]
    BY <1>1, PresentFacts DEF IssueKey, UpToDate
  <2>3. CurrentFp(at)' = CurrentFp(at)
    BY <1>1, <1>2, Zenon DEF CurrentFp
  <2> QED BY <1>1, <1>2, <2>1, <2>2, <2>3 DEF ProgressInv
<1>9. KcInv'
  BY <1>1 DEF KcInv
<1>10. CleanInv'
  BY <1>2, Zenon DEF PkiInv, CleanInv, CurrentFp
<1> QED BY <1>3, <1>4, <1>5, <1>6, <1>7, <1>8, <1>9, <1>10 DEF PkiInv

\* The certificate for it makes the leaf sound.
LEMMA IssueCrtStep ==
  ASSUME PkiTypeOK, PkiInv, IssueCrt
  PROVE  PkiInv'
<1> USE DEF roots, leafVars, past
<1>1. pc = "leafcrt" /\ pc' = "leaffp" /\ at' = at /\ at \in Leaves /\ key[at] # 0
  <2>1. pc = "leafcrt" /\ pc' = "leaffp" /\ at' = at /\ at \in Leaves
    BY WantIsCurrent DEF IssueCrt
  <2> QED BY <2>1, Zenon DEF PkiInv, ProgressInv
<1>2. /\ UNCHANGED <<config, caKey, caCrt, key, fp, kc, kept, torn, clean, held, fresh>>
      /\ \A l \in Leaves : l # at => crt'[l] = crt[l] /\ old'[l] = old[l]
  BY <1>1 DEF IssueCrt, PkiTypeOK
<1>3. crt'[at] = [key |-> key[at], ca |-> caKey[IssuerOf[at]], params |-> config]
  <2>1. held[IssuerOf[at]].key = caKey[IssuerOf[at]]
    BY <1>1, WantIsCurrent
  <2>2. crt \in [Leaves -> Crt]
    BY DEF PkiTypeOK
  <2>3. crt'[at] = [key |-> key[at], ca |-> held[IssuerOf[at]].key, params |-> config]
    BY <1>1, <2>2, Zenon DEF IssueCrt
  <2> QED BY <2>1, <2>3, Zenon
<1>4. RootsPaired' /\ KeptInv'
  BY <1>2, Zenon DEF PkiInv, RootsPaired, KeptInv
<1>5. HeldInv'
  BY <1>1, <1>2, Zenon DEF PkiInv, HeldInv, LoadedStages
<1>6. BackedInv'
  <2>1. crt'[at] # NoCrt
    BY <1>3, PresentFacts DEF NoCrt
  <2> QED BY <1>1, <1>2, <2>1, Zenon DEF PkiInv, BackedInv
<1>7. OrderInv'
  <2> SUFFICES ASSUME NEW l \in Leaves
               PROVE  /\ crt'[l].key <= key[l] /\ key[l] < fresh
                      /\ kc[l].crt.key <= kc[l].key /\ kc[l].key <= key[l]
    BY <1>2, Zenon DEF OrderInv
  <2>1. /\ crt[l].key <= key[l] /\ key[l] < fresh
        /\ kc[l].crt.key <= kc[l].key /\ kc[l].key <= key[l]
    BY Zenon DEF PkiInv, OrderInv
  <2>2. crt'[l].key = key[l] \/ crt'[l] = crt[l]
    BY <1>2, <1>3
  <2> QED BY <2>1, <2>2, OrderTyped, SMTT(20)
<1>8. TrustInv'
  <2>1. \A l \in Leaves : l = at => Busy(l)'
    BY <1>1 DEF Busy
  <2>2. ASSUME NEW l \in Leaves, l # at PROVE Trusted(l)'
    <3>1. Trusted(l)
      BY <2>2, Zenon DEF PkiInv, TrustInv, Busy
    <3> QED BY <1>2, <2>2, <3>1, Zenon DEF Trusted, Match
  <2> QED BY <2>1, <2>2, Zenon DEF TrustInv
<1>9. ProgressInv'
  <2>1. ASSUME NEW l \in Leaves, l < at PROVE Passed(l)'
    <3>1. Passed(l) /\ l # at
      BY <1>1, <2>1 DEF PkiInv, ProgressInv, Leaves
    <3> QED BY <1>2, <3>1, Zenon DEF Passed, Sound, Returned, CurrentFp
  <2>2. Sound(at)'
    BY <1>1, <1>2, <1>3, Zenon DEF Sound
  <2> QED BY <1>1, <1>2, <2>1, <2>2 DEF ProgressInv
<1>10. KcInv'
  BY <1>1 DEF KcInv
<1>11. CleanInv'
  BY <1>2, Zenon DEF PkiInv, CleanInv, CurrentFp
<1> QED BY <1>4, <1>5, <1>6, <1>7, <1>8, <1>9, <1>10, <1>11 DEF PkiInv

\* The fingerprint is recorded last, so it vouches for a sound leaf.
LEMMA WriteFpStep ==
  ASSUME PkiTypeOK, PkiInv, WriteFp
  PROVE  PkiInv'
<1> USE DEF roots, leafVars, past
<1>1. /\ pc = "leaffp" /\ at \in Leaves /\ Want(at) = CurrentFp(at)
      /\ IssuerOf[at] \in Cas /\ caCrt[IssuerOf[at]] # 0
  BY WantIsCurrent DEF WriteFp
<1>2. Sound(at) /\ key[at] # 0 /\ \A l \in Leaves : l < at => Passed(l)
  BY <1>1, Zenon DEF PkiInv, ProgressInv
<1>3. /\ UNCHANGED <<config, caKey, caCrt, key, crt, old, kc, kept, clean, held, fresh>>
      /\ Continue("leaf", NLeaves, "package")
  BY DEF WriteFp
<1>4. /\ fp'[at] = CurrentFp(at) /\ torn'[at] = NoFp
      /\ \A l \in Leaves : l # at => fp'[l] = fp[l] /\ torn'[l] = torn[l]
  <2>1. /\ fp' = [fp EXCEPT ![at] = CurrentFp(at)] /\ torn' = [torn EXCEPT ![at] = NoFp]
        /\ fp \in [Leaves -> Fp] /\ torn \in [Leaves -> Fp]
    BY <1>1 DEF WriteFp, PkiTypeOK
  <2> QED BY <1>1, <2>1
<1>5. \A l \in Leaves : CurrentFp(l)' = CurrentFp(l) /\ Sound(l)' = Sound(l)
  BY <1>3, Zenon DEF CurrentFp, Sound
<1>6. pc' \in {"leaf", "package"} /\ ProgressInv' /\ KcInv'
  <2>1. ASSUME NEW l \in Leaves, l = at PROVE Passed(l)'
    BY <1>2, <1>4, <1>5, <2>1, Zenon DEF Passed
  <2>2. ASSUME NEW l \in Leaves, l < at PROVE Passed(l)'
    <3>1. Passed(l) /\ l # at
      BY <1>1, <1>2, <2>2 DEF Leaves
    <3> QED BY <1>4, <1>5, <3>1, Zenon DEF Passed, Returned
  <2> QED BY <1>1, <1>3, <2>1, <2>2, NextLeaf
<1>7. RootsPaired' /\ KeptInv' /\ OrderInv'
  BY <1>3, Zenon DEF PkiInv, RootsPaired, KeptInv, OrderInv
<1>8. HeldInv'
  BY <1>1, <1>3, <1>6, Zenon DEF PkiInv, HeldInv, LoadedStages
<1>9. BackedInv'
  <2>1. crt[at] # NoCrt
    BY <1>2, PresentFacts DEF Sound, NoCrt
  <2> QED BY <1>1, <1>2, <1>3, <1>4, <2>1, Zenon DEF PkiInv, BackedInv
<1>10. TrustInv'
  <2>1. crt[at] = [key |-> key[at], ca |-> fp'[at].ca, params |-> fp'[at].params]
    <3>1. fp'[at].ca = caCrt[IssuerOf[at]] /\ fp'[at].params = config
      BY <1>4 DEF CurrentFp
    <3>2. caCrt[IssuerOf[at]] = caKey[IssuerOf[at]]
      BY <1>1, Zenon DEF PkiInv, RootsPaired
    <3> QED BY <1>2, <3>1, <3>2, Zenon DEF Sound
  <2>2. ASSUME NEW l \in Leaves PROVE Trusted(l)'
    <3>1. CASE l = at
      BY <1>3, <2>1, <3>1, Zenon DEF Trusted, Match
    <3>2. CASE l # at
      <4>1. Trusted(l)
        BY <3>2, Zenon DEF PkiInv, TrustInv, Busy
      <4> QED BY <1>3, <1>4, <3>2, <4>1, Zenon DEF Trusted, Match
    <3> QED BY <3>1, <3>2
  <2> QED BY <2>2, Zenon DEF TrustInv
<1>11. CleanInv'
  BY <1>3, <1>4, <1>5, Zenon DEF PkiInv, CleanInv
<1> QED BY <1>6, <1>7, <1>8, <1>9, <1>10, <1>11 DEF PkiInv

\* The copies for the workers.
LEMMA PackageStep ==
  ASSUME PkiTypeOK, PkiInv, Package
  PROVE  PkiInv'
<1> USE DEF roots, leafVars, past
<1>1. pc = "package" /\ pc' = "kc" /\ at' = 1 /\ held' = held
  BY DEF Package, PkiTypeOK
<1>2. Quiet
  <2>1. fresh \in Nat /\ fresh >= fresh
    BY DEF PkiTypeOK
  <2> QED BY <1>1, <2>1 DEF Package, Quiet
<1>3. HeldInv'
  BY <1>1, <1>2, Zenon DEF PkiInv, Quiet, HeldInv, LoadedStages
<1>4. ProgressInv'
  <2>1. \A l \in Leaves : Passed(l)'
    BY <1>1, <1>2, QuietKeeps, SMTT(20) DEF PkiInv, ProgressInv
  <2>2. \A l \in Leaves : pkg'[l] = [crt |-> crt'[l], key |-> key'[l]]
    BY DEF Package
  <2> QED BY <1>1, <2>1, <2>2, SMTT(20) DEF ProgressInv
<1>5. KcInv'
  <2>1. \A l \in Users : ~(l < at')
    BY <1>1, PkiAssumption DEF Leaves
  <2> QED BY <1>1, <2>1 DEF KcInv
<1> QED BY <1>2, <1>3, <1>4, <1>5, QuietKeeps DEF PkiInv

\* A kubeconfig that is kept has the certificate's key: keys only get newer, and a
\* sound leaf's key is the certificate's.
LEMMA KubeconfigGood ==
  ASSUME PkiTypeOK, PkiInv, WriteKubeconfig, at \in Users, Sound(at)
  PROVE  kc'[at] = [ca |-> caCrt[1], crt |-> crt[at], key |-> crt[at].key, url |-> config]
<1> DEFINE good == [ca |-> caCrt[1], crt |-> crt[at], key |-> crt[at].key, url |-> config]
<1>1. at \in Leaves /\ kc \in [Leaves -> Kubeconfig] /\ kc[at] \in Kubeconfig
  BY PkiAssumption DEF PkiTypeOK
<1>2. crt[at].key = key[at]
  BY DEF Sound
<1>3. CASE KcCurrent(at)
  <2>1. kc[at].url = config /\ kc[at].crt = crt[at] /\ kc[at].ca = caCrt[1] /\ kc' = kc
    BY <1>3 DEF KcCurrent, WriteKubeconfig
  <2>2. kc[at].crt.key <= kc[at].key /\ kc[at].key <= key[at]
    BY <1>1, Zenon DEF PkiInv, OrderInv
  <2>3. kc[at].key = crt[at].key
    BY <1>1, <1>2, <2>1, <2>2, OrderTyped
  <2>4. kc[at] = good
    BY <1>1, <2>1, <2>3 DEF Kubeconfig
  <2> QED BY <2>1, <2>4, Zenon
<1>4. CASE ~KcCurrent(at)
  <2>1. kc' = [kc EXCEPT ![at] = good]
    BY <1>2, <1>4, Zenon DEF WriteKubeconfig
  <2> HIDE DEF good
  <2>2. kc'[at] = good
    BY <1>1, <2>1
  <2> QED BY <2>2 DEF good
<1> QED BY <1>3, <1>4

\* One kubeconfig after the other.
LEMMA WriteKubeconfigStep ==
  ASSUME PkiTypeOK, PkiInv, WriteKubeconfig
  PROVE  PkiInv'
<1> USE DEF roots, leafVars, past
<1>1. /\ pc = "kc" /\ at \in Leaves
      /\ NLeaves \in Nat \ {0} /\ at \in 1..NLeaves
  BY PkiAssumption DEF WriteKubeconfig, PkiTypeOK, Leaves
<1>2. UNCHANGED <<config, caKey, caCrt, key, crt, fp, old, kept, torn, held, fresh, pkg>>
  BY Zenon DEF WriteKubeconfig
<1>3. /\ \A l \in Leaves : l # at => kc'[l] = kc[l]
      /\ \/ kc'[at] = kc[at]
         \/ kc'[at] = [ca |-> caCrt[1], crt |-> crt[at], key |-> key[at], url |-> config]
  BY <1>1 DEF PkiTypeOK, WriteKubeconfig
<1>4. \/ pc' = "kc" /\ at' = at + 1
      \/ pc' = "done" /\ at = NLeaves
  BY <1>1, ContinueAt DEF WriteKubeconfig
<1>5. \A l \in Leaves : /\ CurrentFp(l)' = CurrentFp(l) /\ Returned(l)' = Returned(l)
                        /\ Passed(l) /\ Passed(l)'
  <2>1. \A l \in Leaves : Passed(l)
    BY <1>1, Zenon DEF PkiInv, ProgressInv
  <2> QED BY <1>2, <2>1, Zenon DEF CurrentFp, Returned, Passed, Sound
<1>6. RootsPaired' /\ KeptInv' /\ BackedInv'
  BY <1>2, Zenon DEF PkiInv, RootsPaired, KeptInv, BackedInv
<1>7. HeldInv'
  BY <1>1, <1>2, <1>4, Zenon DEF PkiInv, HeldInv, LoadedStages
<1>8. OrderInv'
  <2> SUFFICES ASSUME NEW l \in Leaves
               PROVE  /\ crt[l].key <= key[l] /\ key[l] < fresh
                      /\ kc'[l].crt.key <= kc'[l].key /\ kc'[l].key <= key[l]
    BY <1>2, Zenon DEF OrderInv
  <2>1. /\ crt[l].key <= key[l] /\ key[l] < fresh
        /\ kc[l].crt.key <= kc[l].key /\ kc[l].key <= key[l]
    BY Zenon DEF PkiInv, OrderInv
  <2>2. \/ kc'[l] = kc[l]
        \/ kc'[l].crt.key = crt[l].key /\ kc'[l].key = key[l]
    BY <1>3
  <2> QED BY <2>1, <2>2, OrderTyped, SMTT(20)
<1>9. TrustInv'
  <2>1. \A l \in Leaves : Trusted(l)
    BY <1>1 DEF PkiInv, TrustInv, Busy
  <2> QED BY <1>2, <2>1, Zenon DEF TrustInv, Trusted, Match
<1>10. ProgressInv'
  <2>1. \A l \in Leaves : pkg'[l] = [crt |-> crt'[l], key |-> key'[l]]
    BY <1>1, <1>2, Zenon DEF PkiInv, ProgressInv
  <2> QED BY <1>4, <1>5, <2>1 DEF ProgressInv
<1>11. KcInv'
  <2>1. ASSUME NEW l \in Users, l = at PROVE KcGood(l)' \/ Returned(l)'
    <3>1. ~Returned(at) => Sound(at)
      BY <1>1, <1>5, Zenon DEF Passed
    <3>2. CASE Sound(at)
      <4>1. kc'[at] = [ca |-> caCrt[1], crt |-> crt[at], key |-> crt[at].key, url |-> config]
        BY <2>1, <3>2, KubeconfigGood
      <4> QED BY <1>2, <2>1, <4>1, Zenon DEF KcGood
    <3> QED BY <1>1, <1>5, <2>1, <3>1, <3>2, Zenon
  <2>2. ASSUME NEW l \in Users, l < at PROVE KcGood(l)' \/ Returned(l)'
    <3>1. l \in Leaves /\ l # at
      BY <1>1, <2>2, PkiAssumption DEF Leaves
    <3>2. KcGood(l) \/ Returned(l)
      BY <1>1, <2>2, Zenon DEF PkiInv, KcInv
    <3> QED BY <1>2, <1>3, <1>5, <3>1, <3>2, Zenon DEF KcGood
  <2>3. ASSUME NEW l \in Users, pc' = "kc", l < at' PROVE l < at \/ l = at
    BY <1>1, <1>4, <2>3, PkiAssumption DEF Leaves
  <2>4. ASSUME NEW l \in Users, pc' = "done" PROVE l < at \/ l = at
    BY <1>1, <1>4, <2>4, PkiAssumption DEF Leaves
  <2> QED BY <2>1, <2>2, <2>3, <2>4, Zenon DEF KcInv
<1>12. CleanInv'
  BY <1>5, Zenon DEF CleanInv, Passed
<1> QED BY <1>6, <1>7, <1>8, <1>9, <1>10, <1>11, <1>12 DEF PkiInv

\* A kill leaves a leaf that was being reissued torn: it counts as such until the
\* leaf is reissued, unless the run wanted what the fingerprint has.
LEMMA CrashStep ==
  ASSUME PkiTypeOK, PkiInv, Crash
  PROVE  PkiInv'
<1> USE DEF roots, leafVars, past
<1>1. pc' = "off" /\ UNCHANGED <<config, caKey, caCrt, key, crt, fp, old, kc, kept, clean, fresh>>
  BY DEF Crash
<1>2. RootsPaired' /\ KeptInv' /\ BackedInv' /\ OrderInv' /\ CleanInv'
  BY <1>1, Zenon DEF PkiInv, RootsPaired, KeptInv, BackedInv, OrderInv, CleanInv, CurrentFp
<1>3. HeldInv' /\ ProgressInv' /\ KcInv'
  BY <1>1 DEF HeldInv, LoadedStages, ProgressInv, KcInv
<1>4. ASSUME NEW l \in Leaves PROVE Trusted(l)'
  <2>1. CASE Busy(l)
    <3>1. pc \in {"leafcrt", "leaffp"} /\ at = l /\ Want(at) = CurrentFp(at)
      BY <2>1, WantIsCurrent DEF Busy
    <3>2. torn'[l] = CurrentFp(l)
      BY <3>1 DEF Crash, PkiTypeOK
    <3>3. CurrentFp(l) # NoFp
      BY PresentFacts
    <3>4. fp[l] = CurrentFp(l) => old[l] \/ Match(l)
      <4>1. CASE pc = "leafcrt"
        BY <3>1, <4>1, Zenon DEF PkiInv, ProgressInv
      <4>2. CASE pc = "leaffp"
        <5>1. Sound(l)
          BY <3>1, <4>2, Zenon DEF PkiInv, ProgressInv
        <5>2. ASSUME fp[l] = CurrentFp(l) PROVE Match(l)
          <6>1. fp[l].ca = caCrt[IssuerOf[l]] /\ fp[l].params = config
            BY <5>2 DEF CurrentFp
          <6>2. caCrt[IssuerOf[l]] = caKey[IssuerOf[l]]
            BY <5>2, PresentFacts DEF PkiInv, RootsPaired
          <6> QED BY <5>1, <6>1, <6>2, Zenon DEF Sound, Match
        <5> QED BY <5>2
      <4> QED BY <3>1, <4>1, <4>2
    <3> QED BY <1>1, <3>2, <3>3, <3>4, Zenon DEF Trusted, Match
  <2>2. CASE ~Busy(l)
    <3>1. Trusted(l)
      BY <2>2, Zenon DEF PkiInv, TrustInv
    <3>2. torn'[l] = torn[l]
      BY <2>2 DEF Crash, PkiTypeOK, Busy
    <3> QED BY <1>1, <3>1, <3>2, Zenon DEF Trusted, Match
  <2> QED BY <2>1, <2>2
<1>5. TrustInv'
  BY <1>4, Zenon DEF TrustInv
<1> QED BY <1>2, <1>3, <1>5 DEF PkiInv

\* A bundle, new or former, is complete and belongs together.
LEMMA ShipStep ==
  ASSUME PkiTypeOK, PkiInv, NEW b \in kept \cup {NewBundle}, Ship(b)
  PROVE  PkiInv'
<1> USE DEF roots, leafVars, past
<1>1. /\ pc' = "off" /\ clean' = FALSE /\ caKey' = b.caKey /\ caCrt' = b.caCrt
      /\ UNCHANGED <<config, key, crt, fp, old, kc, torn>> /\ pc \notin {"leafcrt", "leaffp"}
  BY DEF Ship, Idle
<1>2. \A c \in Cas : b.caCrt[c] # 0 /\ b.caCrt[c] = b.caKey[c]
  <2>1. CASE b \in kept
    BY <2>1, Zenon DEF PkiInv, KeptInv
  <2>2. CASE b = NewBundle
    BY <2>2 DEF NewBundle, PkiTypeOK, Cas
  <2> QED BY <2>1, <2>2
<1>3. RootsPaired'
  BY <1>1, <1>2, Zenon DEF RootsPaired
<1>4. HeldInv' /\ ProgressInv' /\ KcInv' /\ CleanInv'
  BY <1>1 DEF HeldInv, LoadedStages, ProgressInv, KcInv, CleanInv
<1>5. KeptInv'
  <2>1. kept' = kept \cup IF RootsPresent THEN {Bundle} ELSE {}
    BY SMTT(20) DEF Ship
  <2>2. RootsPresent => \A c \in Cas : Bundle.caCrt[c] # 0 /\ Bundle.caCrt[c] = Bundle.caKey[c]
    BY DEF RootsPresent, Bundle, PkiInv, RootsPaired
  <2>3. ASSUME NEW d \in kept' PROVE \A c \in Cas : d.caCrt[c] # 0 /\ d.caCrt[c] = d.caKey[c]
    <3>1. d \in kept \/ (RootsPresent /\ d = Bundle)
      BY <2>1, <2>3
    <3> QED BY <2>2, <3>1, Zenon DEF PkiInv, KeptInv
  <2> QED BY <2>3, Zenon DEF KeptInv
<1>6. BackedInv'
  <2>1. \A l \in Leaves : caCrt'[IssuerOf[l]] # 0
    BY <1>1, <1>2, PresentFacts, Zenon
  <2> QED BY <1>1, <2>1, Zenon DEF PkiInv, BackedInv
<1>7. OrderInv'
  <2>1. fresh' \in Nat /\ fresh' >= fresh
    BY PkiAssumption DEF Ship, PkiTypeOK
  <2>2. \A l \in Leaves : key[l] < fresh'
    BY <2>1, OrderTyped DEF PkiInv, OrderInv
  <2> QED BY <1>1, <2>2, Zenon DEF PkiInv, OrderInv
<1>8. TrustInv'
  <2>1. \A l \in Leaves : Trusted(l)
    BY <1>1, Zenon DEF PkiInv, TrustInv, Busy
  <2> QED BY <1>1, <2>1, Zenon DEF TrustInv, Trusted, Match
<1> QED BY <1>3, <1>4, <1>5, <1>6, <1>7, <1>8 DEF PkiInv

\* A certificate that comes into its renewal window is no longer relied on.
LEMMA AgeStep ==
  ASSUME PkiTypeOK, PkiInv, NEW m \in Leaves, Age(m)
  PROVE  PkiInv'
<1> USE DEF roots, leafVars, past
<1>1. UNCHANGED <<config, caKey, caCrt, key, crt, fp, kc, kept, torn, clean, held, fresh, pc, at, pkg>>
  BY DEF Age
<1>2. \A l \in Leaves : old[l] => old'[l]
  BY DEF Age, PkiTypeOK
<1>3. RootsPaired' /\ HeldInv' /\ KeptInv' /\ BackedInv' /\ OrderInv' /\ CleanInv'
  BY <1>1, Zenon DEF PkiInv, RootsPaired, HeldInv, KeptInv, BackedInv, OrderInv, CleanInv, CurrentFp
<1>4. TrustInv'
  BY <1>1, <1>2, Zenon DEF PkiInv, TrustInv, Busy, Trusted, Match
<1>5. ProgressInv'
  <2>1. \A l \in Leaves : Passed(l)' = Passed(l)
    BY <1>1, Zenon DEF Passed, Sound, Returned, CurrentFp
  <2>2. pc = "leafcrt" => (fp[at] = CurrentFp(at) => old'[at])
    <3>1. pc = "leafcrt" => at \in Leaves
      BY DEF PkiTypeOK
    <3> QED BY <1>2, <3>1, Zenon DEF PkiInv, ProgressInv
  <2>3. CurrentFp(at)' = CurrentFp(at) /\ Sound(at)' = Sound(at)
    BY <1>1, Zenon DEF CurrentFp, Sound
  <2> QED BY <1>1, <2>1, <2>2, <2>3, Zenon DEF PkiInv, ProgressInv
<1>6. KcInv'
  BY <1>1, Zenon DEF PkiInv, KcInv, KcGood, Returned, CurrentFp
<1> QED BY <1>3, <1>4, <1>5, <1>6 DEF PkiInv

\* A new configuration: what the invariant says of the files does not name it.
LEMMA ReconfigureStep ==
  ASSUME PkiTypeOK, PkiInv, NEW new \in Configs, Reconfigure(new)
  PROVE  PkiInv'
<1> USE DEF roots, leafVars, past
<1>1. /\ pc' = "off" /\ clean' = FALSE /\ pc \notin {"leafcrt", "leaffp"}
      /\ UNCHANGED <<caKey, caCrt, key, crt, fp, old, kc, kept, torn, fresh>>
  BY DEF Reconfigure, Idle
<1>2. RootsPaired' /\ KeptInv' /\ BackedInv' /\ OrderInv'
  BY <1>1, Zenon DEF PkiInv, RootsPaired, KeptInv, BackedInv, OrderInv
<1>3. HeldInv' /\ ProgressInv' /\ KcInv' /\ CleanInv'
  BY <1>1 DEF HeldInv, LoadedStages, ProgressInv, KcInv, CleanInv
<1>4. TrustInv'
  <2>1. \A l \in Leaves : Trusted(l)
    BY <1>1, Zenon DEF PkiInv, TrustInv, Busy
  <2> QED BY <1>1, <2>1, Zenon DEF TrustInv, Trusted, Match
<1> QED BY <1>2, <1>3, <1>4 DEF PkiInv

\* Every step keeps the invariant.
LEMMA PkiInvStep ==
  ASSUME PkiTypeOK, PkiInv, [PkiNext]_pkiVars
  PROVE  PkiInv'
<1>1. CASE UNCHANGED pkiVars
  BY <1>1, ZenonT(30) DEF pkiVars, roots, leafVars, past, PkiInv, RootsPaired, HeldInv, KeptInv,
                     BackedInv, OrderInv, TrustInv, Busy, Trusted, Match, ProgressInv, Passed,
                     KcInv, KcGood, CleanInv, CurrentFp, Sound, Returned
<1>2. CASE PkiStep
  BY <1>2, QuietSteps, MintSteps, EnsureLeafStep, IssueKeyStep, IssueCrtStep, WriteFpStep,
     PackageStep, WriteKubeconfigStep, Zenon DEF PkiStep
<1> QED
  BY <1>1, <1>2, QuietSteps, CrashStep, ShipStep, AgeStep, ReconfigureStep, Zenon DEF PkiNext

\* The inductive invariant.
THEOREM PkiInductive == PkiSpec => [](PkiTypeOK /\ PkiInv)
<1>1. PkiTypeOK /\ PkiInv /\ [PkiNext]_pkiVars => PkiInv'
  BY PkiInvStep
<1> QED BY <1>1, PkiInvInit, PkiTypeCorrect, PTL DEF PkiSpec

\* A CA certificate in the directory always belongs to the key beside it: a crash
\* between the two writes of ensure_ca is repaired by minting both again.
THEOREM PkiRootsPaired == PkiSpec => []RootsPaired
<1>1. PkiInv => RootsPaired
  BY DEF PkiInv
<1> QED BY <1>1, PkiInductive, PTL

\* However crashes, renewals, new and former trust roots and configurations follow
\* each other, a run that finishes leaves the workers' copies equal to the
\* directory's, and every leaf sound except one that a killed run was reissuing for
\* another CA or configuration and that no run has reissued since.
THEOREM PkiFinishedSound == PkiSpec => []FinishedSound
<1>1. PkiInv => FinishedSound
  BY Zenon DEF PkiInv, ProgressInv, Passed, FinishedSound
<1> QED BY <1>1, PkiInductive, PTL

\* After a run that finishes a kubeconfig has the current certificate and its key,
\* although write_kubeconfig does not compare the key, with the same exception.
THEOREM PkiKubeconfigSound == PkiSpec => []KubeconfigSound
<1>1. PkiInv => KubeconfigSound
  BY Zenon DEF PkiInv, KcInv, KcGood, KubeconfigSound
<1> QED BY <1>1, PkiInductive, PTL

\* Once a run has finished, no later step writes the key or the certificate of a
\* leaf that is not due, until the configuration or the trust roots are changed.
THEOREM PkiIdempotent == PkiSpec => Idempotent
<1>1. ASSUME PkiTypeOK, PkiInv, [PkiNext]_pkiVars, NEW l \in Leaves, clean, ~old[l]
      PROVE  key'[l] = key[l] /\ crt'[l] = crt[l]
  <2> USE DEF leafVars, roots
  <2>1. fp[l] = CurrentFp(l) /\ crt[l] # NoCrt /\ key[l] # 0
    BY <1>1, PresentFacts DEF PkiInv, CleanInv
  <2>2. CASE IssueKey
    <3>1. at \in Leaves /\ Want(at) = CurrentFp(at)
      BY <1>1, <2>2, WantIsCurrent DEF IssueKey
    <3>2. l # at
      BY <1>1, <2>1, <2>2, <3>1, Zenon DEF IssueKey, UpToDate
    <3> QED BY <1>1, <2>2, <3>1, <3>2, SMTT(20) DEF IssueKey, PkiTypeOK
  <2>3. CASE IssueCrt
    <3>1. l # at
      BY <1>1, <2>1, <2>3, Zenon DEF PkiInv, ProgressInv, IssueCrt
    <3>2. crt \in [Leaves -> Crt]
      BY <1>1 DEF PkiTypeOK
    <3> QED BY <2>3, <3>1, <3>2, Zenon DEF IssueCrt
  <2>4. CASE UNCHANGED pkiVars
    BY <2>4, Zenon DEF pkiVars
  <2>5. CASE Start \/ EnsureCa \/ MintCaKey \/ MintCaCrt \/ EnsureSa \/ WriteSaPub \/ LoadIssuers
    BY <2>5, ZenonT(30) DEF Start, EnsureCa, MintCaKey, MintCaCrt, EnsureSa, WriteSaPub, LoadIssuers
  <2>6. CASE EnsureLeaf \/ WriteFp \/ Package \/ WriteKubeconfig \/ Crash
    BY <2>6 DEF EnsureLeaf, WriteFp, Package, WriteKubeconfig, Crash
  <2>7. CASE \E b \in kept \cup {NewBundle} : Ship(b)
    BY <2>7, Zenon DEF Ship
  <2>8. CASE (\E m \in Leaves : Age(m)) \/ (\E new \in Configs \ {config} : Reconfigure(new))
    BY <2>8, Zenon DEF Age, Reconfigure
  <2> QED BY <1>1, <2>2, <2>3, <2>4, <2>5, <2>6, <2>7, <2>8, Zenon DEF PkiNext, PkiStep
<1>2. PkiTypeOK /\ PkiInv /\ [PkiNext]_pkiVars
      => [\A l \in Leaves : clean /\ ~old[l] => key'[l] = key[l] /\ crt'[l] = crt[l]]_pkiVars
  BY <1>1
<1> QED BY <1>2, PkiInductive, PTL DEF PkiSpec, Idempotent

=============================================================================
