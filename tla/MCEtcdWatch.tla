---------------------------- MODULE MCEtcdWatch ----------------------------
(***************************************************************************)
(* Requests for model checking EtcdWatch: writers on two keys, one of them *)
(* through a two-step transaction, and watches from now, from a revision   *)
(* that may be compacted or in the future, filtered and on part of the     *)
(* keys.                                                                   *)
(***************************************************************************)
EXTENDS EtcdWatch

PutOp(k) ==
  [type |-> "put", key |-> k, value |-> 1, lease |-> 0,
   ignore_value |-> FALSE, ignore_lease |-> FALSE]
DeleteOp(k, e) == [type |-> "delete", key |-> k, end |-> e]
SwapTxn == [type |-> "txn", compare |-> {},
            success |-> <<DeleteOp(1, NoEnd), PutOp(2)>>, failure |-> <<>>]

WatchOps == {PutOp(1), PutOp(2), DeleteOp(1, OpenEnd), DeleteOp(1, NoEnd), SwapTxn}

Req(id, start, key, end, filter) ==
  [watch_id |-> id, start |-> start, key |-> key, end |-> end, filter |-> filter]

AllReqs == {Req(0, 0, 1, OpenEnd, {}), Req(7, 2, 1, 2, {}), Req(0, 3, 1, NoEnd, {"DELETE"})}
=============================================================================
