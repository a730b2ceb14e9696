------------------------- MODULE MCRtpReceiverCache -------------------------
(* Model-checking instance of RtpReceiverCache; the constants are given in *)
(* the .cfg files.                                                         *)
EXTENDS RtpReceiverCache
=============================================================================
