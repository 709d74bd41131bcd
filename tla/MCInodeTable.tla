---------------------------- MODULE MCInodeTable ----------------------------
(* Model of InodeTable. *)
EXTENDS InodeTable
=============================================================================
