--------------------------- MODULE MCUlpFecEncoder ---------------------------
(***************************************************************************)
(* UlpFecEncoder with the mask tables given by a stand-in with the shape   *)
(* of the RFC 5109 tables: 2 bytes per row, every row protecting at least  *)
(* one of the m media packets and none past them, every packet protected.  *)
(* Random rows are interleaved; Bursty rows also take the next packet.     *)
(***************************************************************************)
EXTENDS UlpFecEncoder

\* The 2 bytes of a row protecting the packets in bits.
RowBytes(bits) ==
    [c \in 1..2 |-> SumSet({2^(7 - b) : b \in {b \in 0..7 : (c - 1) * 8 + b \in bits}})]

TableRow(table, m, f, r) ==
    {i \in 0..(m - 1) : i % f = r}
        \cup (IF table = "Bursty" THEN {r + 1} \cap 0..(m - 1) ELSE {})

MCMaskTable(table, m, f) ==
    FoldLeft(LAMBDA acc, r : acc \o RowBytes(TableRow(table, m, f, r)), <<>>,
             [i \in 1..f |-> i - 1])

\* Encode arguments: 1 to 48 media packets on both sides of 12 (table or
\* interleaved) and of 16 (2- or 6-byte rows); no, some and many important
\* packets in every mode (for none, the mode is not read); no FEC, some and
\* one per packet; the Bursty table only where PickTable can choose it.
\* The first seq is 6 before the wrap, so every group of more than 6
\* packets crosses 0xFFFF.
MCInputs ==
    {in \in [n : {1, 6, 13, 17, 48}, imp : {0, 1, 5, 13},
             method : Methods, pf : {0, 100, 255},
             type : {"Random", "Bursty"}, start : {65530}] :
        /\ in.imp <= in.n
        /\ in.imp = 0 => in.method = "None"
        /\ in.type = "Bursty" => in.n <= BurstyTableMax}
=============================================================================
