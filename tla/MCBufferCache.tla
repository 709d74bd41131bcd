--------------------------- MODULE MCBufferCache ---------------------------
(* Models of BufferCache: three blocks on two devices for two buffers, and *)
(* one process more than buffers, so that all buffers can be in use.       *)
EXTENDS BufferCache

CONSTANTS p1, p2, p3, k1, k2, k3, d1, d2

MCDevOf == [k \in Blocks |-> IF k = k3 THEN d2 ELSE d1]

(* Readers, writers and sync, meeting on k1 and evicting one another.      *)
MCWork ==
  [p \in Procs |->
     CASE p = p1 -> {<<"update", k1>>, <<"sync", k1>>}
       [] p = p2 -> {<<"read", k1>>, <<"update", k2>>}
       [] OTHER -> {<<"read", k3>>}]

(* A whole-block write through /dev/hd beside a reader of the block.       *)
MCBlockWork ==
  [p \in Procs |->
     IF p = p1 THEN {<<"block_write", k1>>} ELSE {<<"read", k1>>}]

(* A write to a file beside sync.                                          *)
MCFileWork ==
  [p \in Procs |->
     IF p = p1 THEN {<<"file_write", k1>>} ELSE {<<"sync", k1>>}]
=============================================================================
