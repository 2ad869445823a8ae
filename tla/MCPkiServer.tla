---------------------------- MODULE MCPkiServer ----------------------------
(***************************************************************************)
(* Two CAs with one leaf each for model checking PkiServer.                *)
(***************************************************************************)
EXTENDS PkiServer

TwoIssuers == [l \in {1, 2} |-> l]
=============================================================================
