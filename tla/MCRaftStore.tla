---------------------------- MODULE MCRaftStore ----------------------------
(* RaftStore on small instances, from an empty directory.                   *)
EXTENDS RaftStore
=============================================================================
