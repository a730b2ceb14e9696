--------------------------- MODULE MCUlpFecDecoder ---------------------------
(***************************************************************************)
(* UlpFecDecoder for TLC: two groups as Encode builds them with one FEC    *)
(* packet each (then every media packet of the group is protected): three  *)
(* media packets and their FEC packet, then two and theirs.                *)
(***************************************************************************)
EXTENDS UlpFecDecoder

MediaPacket == [fec |-> FALSE, prot |-> {}]

MCStream ==
    <<MediaPacket, MediaPacket, MediaPacket,
      [fec |-> TRUE, prot |-> {0, 1, 2}],
      MediaPacket, MediaPacket,
      [fec |-> TRUE, prot |-> {4, 5}]>>
=============================================================================
