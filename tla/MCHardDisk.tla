----------------------------- MODULE MCHardDisk -----------------------------
(* Model of HardDisk.  The blocks lie on two drives, so that the elevator  *)
(* compares devices and sectors.  The second drive ends after its first    *)
(* block: the other two are refused, and end in a row inside one call of   *)
(* do_hd_request().                                                        *)
EXTENDS HardDisk

MCBlocks ==
  {[dev |-> 2, sector |-> s] : s \in {2, 4, 6}}
    \cup {[dev |-> 1, sector |-> 2]}

MCNrSects == 1 :> 20 @@ 2 :> 4
=============================================================================
