--------------------------- MODULE MCLoadBalancer ---------------------------
(***************************************************************************)
(* Specifications for model checking parts of LoadBalancer.                *)
(***************************************************************************)
EXTENDS LoadBalancer

\* What Filtered keeps is what filter keeps.
ASSUME FilteredIsFilter ==
  \A h \in [Backends -> BOOLEAN], s \in Backends, keep \in BOOLEAN :
    Filtered(h, s, keep) = SelectSeq(Rotated(s), LAMBDA b : h[b] = keep)

\* Probing and dialling, without signals.
NoSignalNext == Threads \/ (\E b \in Backends : BackendChanges(b))
                \/ \E c \in Conns : Connect(c) \/ \E d \in Dirs : PeerActs(c, d)
NoSignalSpec == LbInit /\ [][NoSignalNext]_lbVars

\* Probing and drain: backends change until a client connects or the signal comes.
SettledNext ==
  \/ Threads \/ Signal \/ Elapse
  \/ \E c \in Conns : Connect(c) \/ \E d \in Dirs : PeerActs(c, d)
  \/ \E b \in Backends : BackendChanges(b) /\ ~draining /\ \A c \in Conns : stage[c] = "none"
DrainSpec == LbInit /\ [][SettledNext]_lbVars /\ LbFairness
=============================================================================
