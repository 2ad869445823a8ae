-------------------------- MODULE MCEtcdKeepAlive --------------------------
(* The request sets of MCEtcdStore for the store beside its streams.       *)
EXTENDS MCEtcdStore, EtcdKeepAlive
=============================================================================
