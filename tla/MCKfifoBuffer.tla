---------------------------- MODULE MCKfifoBuffer ----------------------------
(* A buffer of 4 bytes whose unsigned indices wrap at 8, and streams long    *)
(* enough for both indices to pass the wrap.                                 *)
EXTENDS KfifoBuffer

MCLengths == {0, 1, 3, 5}
=============================================================================
