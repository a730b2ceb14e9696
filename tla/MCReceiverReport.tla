------------------------- MODULE MCReceiverReport -------------------------
(* Model-checking instance of ReceiverReport; the constants are given in   *)
(* the .cfg files.                                                         *)
EXTENDS ReceiverReport
=============================================================================
