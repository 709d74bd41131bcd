------------------------------ MODULE MCFloppy ------------------------------
(* Model of Floppy: two drives, whose requests lie on different tracks.    *)
EXTENDS Floppy

MCRequests == {[drive |-> 0, track |-> 0], [drive |-> 1, track |-> 1],
               [drive |-> 1, track |-> OutOfRange]}

(* Requests of both drives for the same track: with these for Requests     *)
(* TransferReady fails, see SeekKept in FloppyProofs.                      *)
MCSameTracks == {[drive |-> 0, track |-> 0], [drive |-> 1, track |-> 0],
                 [drive |-> 1, track |-> OutOfRange]}
=============================================================================
