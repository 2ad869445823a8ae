----------------------------- MODULE MCEtcdJoin -----------------------------
(***************************************************************************)
(* A first boot, growth from one and from two servers, and a shrink, for   *)
(* model checking EtcdJoin.  The growth from one server to two, the least  *)
(* that can lose its quorum, has three faults; the growth from one to      *)
(* three, by far the largest, has one.                                     *)
(***************************************************************************)
EXTENDS EtcdJoin

Deploy(old, new, maxFaults) == [old |-> old, new |-> new, maxFaults |-> maxFaults]
Deployments == {Deploy({}, {1, 2, 3}, 2), Deploy({1}, {1, 2}, 3), Deploy({1}, {1, 2, 3}, 1),
                Deploy({1, 2}, {1, 2, 3}, 2), Deploy({1, 2, 3}, {1, 2}, 3)}
=============================================================================
