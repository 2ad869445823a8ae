---------------------------- MODULE MCEtcdStore ----------------------------
(***************************************************************************)
(* Request sets for model checking EtcdStore.                              *)
(***************************************************************************)
EXTENDS EtcdStore

PutOp(k, v, l) ==
  [type |-> "put", key |-> k, value |-> v, lease |-> l,
   ignore_value |-> FALSE, ignore_lease |-> FALSE]
IgnorePut(k) ==
  [type |-> "put", key |-> k, value |-> 2, lease |-> 0,
   ignore_value |-> TRUE, ignore_lease |-> TRUE]
DeleteOp(k, e) == [type |-> "delete", key |-> k, end |-> e]
RangeOp(k, e) == [type |-> "range", key |-> k, end |-> e]
TxnOp(cmp, yes, no) ==
  [type |-> "txn", compare |-> cmp, success |-> yes, failure |-> no]
Cmp(k, t, r, v) == [key |-> k, target |-> t, result |-> r, operand |-> v]

\* What kube-apiserver sends: create if absent, update if unchanged.
CreateTxn(k) == TxnOp({Cmp(k, "mod_revision", "EQUAL", 0)},
                      <<PutOp(k, 1, 0)>>, <<RangeOp(k, NoEnd)>>)
UpdateTxn(k, r) == TxnOp({Cmp(k, "mod_revision", "EQUAL", r)},
                         <<DeleteOp(k, NoEnd)>>, <<RangeOp(k, NoEnd)>>)
\* Two mutations, the second in a nested transaction.
NestedTxn == TxnOp({Cmp(2, "version", "LESS", 2), Cmp(1, "lease", "NOT_EQUAL", 7)},
                   <<PutOp(1, 1, 0), CreateTxn(2)>>,
                   <<DeleteOp(1, OpenEnd), PutOp(2, 1, 0)>>)
\* The second operation panics on an inverted range: the third is not run.
PanicTxn == TxnOp({Cmp(1, "value", "GREATER", 0), Cmp(2, "unknown", "EQUAL", 5)},
                  <<PutOp(2, 1, 0), RangeOp(2, 1), PutOp(1, 2, 0)>>,
                  <<DeleteOp(2, 1)>>)

SimpleOps == {PutOp(1, 1, 0), PutOp(2, 2, 0), IgnorePut(1), DeleteOp(1, NoEnd),
              DeleteOp(1, OpenEnd), DeleteOp(1, 2), RangeOp(1, OpenEnd), RangeOp(2, 1),
              DeleteOp(2, 1)}
TxnOps == {CreateTxn(1), CreateTxn(2), UpdateTxn(1, 2), NestedTxn, PanicTxn}
InnerOps == UNION {{t.success[i] : i \in DOMAIN t.success}
                   \cup {t.failure[i] : i \in DOMAIN t.failure} : t \in TxnOps}
KvOps == SimpleOps \cup TxnOps \cup InnerOps

\* Two keys put under a lease in one transaction, if the first is absent.
LeaseTxn == TxnOp({Cmp(1, "mod_revision", "EQUAL", 0)},
                  <<PutOp(1, 1, 1), PutOp(2, 1, 1)>>, <<DeleteOp(1, NoEnd)>>)
LeaseOps == {PutOp(1, 1, 1), PutOp(2, 1, 1), DeleteOp(1, NoEnd), LeaseTxn}
\* Also with leases, of which clients may name one that does not exist.
MixOps == KvOps \cup LeaseOps \cup {PutOp(1, 1, 2)}
OneTtl == {-1}

=============================================================================
