------------------------------ MODULE MCRtxLoop ------------------------------
(* Model-checking instance of RtxLoop; constants in MCRtxLoop*.cfg.        *)
EXTENDS RtxLoop
=============================================================================
