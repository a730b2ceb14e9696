---------------------------- MODULE UlpFecEncoder ----------------------------
(***************************************************************************)
(* The ULP-FEC encoder (UlpFecEncoder, src/src/rtp_rtcp/ulp_fec.cc): from  *)
(* a run of consecutive media packets and a protection factor, the packet  *)
(* mask (one row per FEC packet, one bit per media packet) and the FEC     *)
(* packets built from it.                                                  *)
(*                                                                         *)
(* The mask is generated in the member array fec_packet_mask_, and the     *)
(* helpers write into it through two names: Encode passes fec_packet_mask_ *)
(* as packet_mask, and Mask fills fec_packet_mask_ itself when it computes *)
(* an interleaved mask.  The model therefore keeps the array as state      *)
(* (byte values, BufSize of them) and every helper as an operator from the *)
(* array to the array, with its writes in the code's order.  A write at or *)
(* past BufSize is recorded instead of performed.                          *)
(*                                                                         *)
(* The packet-mask tables for up to 12 media packets are an opaque         *)
(* resource (spec.md section 9): MaskTable(table, m, f) is the 2 * f bytes *)
(* LookUpInFecTable returns for m media and f FEC packets.  Payloads are   *)
(* abstracted to which media packets an FEC packet XORs.                   *)
(***************************************************************************)
EXTENDS SeqArith, Integers, Sequences, SequencesExt, FiniteSets, Bitwise

CONSTANTS
    BufSize,          \* kFECPacketMaskMaxSize
    MaxMediaPackets,  \* kUlpfecMaxMediaPackets
    BurstyTableMax,   \* kPacketMaskBurstyTbl[0]
    MaskTable(_, _, _),
    Inputs,           \* Encode arguments: [n, imp, method, pf, type, start]
    MaxEncodes        \* Encode calls explored

ASSUME SeqModulus = 2^16

Methods == {"None", "NoOverlap", "Overlap", "BiasFirstPacket"}

VARIABLES
    fec_packet_mask,  \* fec_packet_mask_: [0..BufSize-1 -> 0..255]
    oob,              \* a byte past fec_packet_mask_ was written
    input,            \* arguments of the last Encode
    fec_out,          \* FEC packets of the last Encode, in order
    bad_read,         \* GenerateFecPackets read past media_packets or built
                      \* an FEC packet from an empty group
    encodes           \* Encode calls so far

vars == <<fec_packet_mask, oob, input, fec_out, bad_read, encodes>>

-----------------------------------------------------------------------------
(* The array and the writes into it.  st is [m |-> bytes, oob |-> BOOLEAN]. *)

\* Writes Val(k) at every byte k with Written(k); end is one past the last
\* byte the code writes, which may lie past the array.
Store(st, Written(_), Val(_), end) ==
    [m   |-> [k \in {k \in DOMAIN st.m : Written(k)} |-> Val(k)] @@ st.m,
     oob |-> st.oob \/ end > BufSize]

\* memcpy(st + off, bytes, Len(bytes)).
Memcpy(st, off, bytes) ==
    Store(st, LAMBDA k : off <= k /\ k < off + Len(bytes),
              LAMBDA k : bytes[k - off + 1], off + Len(bytes))

\* The n bytes of st starting at off, as DataBuffer::ModifyAt copies them.
CopyOut(st, off, n) == [i \in 1..n |-> st.m[off + i - 1]]

\* uint8_t arithmetic of the sub-mask shifts.
ShiftLeftByte(x, k) == (x * 2^k) % 256
ShiftRightByte(x, k) == x \div 2^k

\* Bit i_bit (0x80 >> i_bit) of a mask byte.
BitSet(byte, i_bit) == (byte \div 2^(7 - i_bit)) % 2 = 1

-----------------------------------------------------------------------------

\* UlpFecEncoder::PacketMaskSize (ulp_fec.h).
PacketMaskSize(n) == IF n > 16 THEN 6 ELSE 2

\* UlpFecEncoder::NumFecPackets: (n * pf + 128) >> 8, at least 1 when the
\* protection factor is non-zero.
NumFecPackets(n, pf) ==
    LET k == (n * pf + 128) \div 256
    IN  IF pf > 0 /\ k = 0 THEN 1 ELSE k

\* UlpFecEncoder::PickTable.
PickTable(type, n) ==
    IF type # "Random" /\ n <= BurstyTableMax THEN "Bursty" ELSE "Random"

\* UlpFecEncoder::LookUpInFecTable(table, n - 1, f - 1): the rows of the
\* table entry for n media packets and f FEC packets, 2 bytes each.
LookUpInFecTable(table, n, f) == IF f = 0 THEN <<>> ELSE MaskTable(table, n, f)

\* The byte the interleaved mask puts at row, col: bit b is set when media
\* packet col * 8 + b exists and is protected by FEC packet (index % f).
InterleavedByte(n, f, row, col) ==
    SumSet({2^(7 - b) : b \in {b \in 0..7 : (col * 8 + b) % f = row
                                            /\ col * 8 + b < n}})

\* UlpFecEncoder::Mask: the table entry for up to 12 media packets;
\* otherwise the interleaved mask, written row by row into
\* fec_packet_mask_ with packet_mask_size bytes per row and then copied out.
\* Returns [st |-> array after, sub |-> the bytes returned].
Mask(st, n, f, pms, table) ==
    IF n <= 12
    THEN [st |-> st, sub |-> LookUpInFecTable(table, n, f)]
    ELSE LET st2 == Store(st, LAMBDA k : k < f * pms,
                          LAMBDA k : InterleavedByte(n, f, k \div pms, k % pms),
                          f * pms)
         IN  [st |-> st2, sub |-> CopyOut(st2, 0, f * pms)]

\* UlpFecEncoder::FitSubMask, writing at packet_mask + base: a memcpy when
\* both row widths agree, otherwise the first num_sub_mask_bytes of each
\* row, taking row i of sub_mask at i * num_sub_mask_bytes.
FitSubMask(st, base, num_mask_bytes, num_sub_mask_bytes, num_rows, sub) ==
    IF num_mask_bytes = num_sub_mask_bytes
    THEN Memcpy(st, base, SubSeq(sub, 1, num_rows * num_sub_mask_bytes))
    ELSE Store(st, LAMBDA k : /\ base <= k
                              /\ (k - base) \div num_mask_bytes < num_rows
                              /\ (k - base) % num_mask_bytes < num_sub_mask_bytes,
                   LAMBDA k : sub[((k - base) \div num_mask_bytes) * num_sub_mask_bytes
                                  + ((k - base) % num_mask_bytes) + 1],
                   base + (num_rows - 1) * num_mask_bytes + num_sub_mask_bytes)

\* UlpFecEncoder::ShiftFitSubMask: rows num_column_shift .. end_row - 1 of
\* packet_mask get the rows of sub_mask (res_mask_bytes wide) shifted right
\* by num_column_shift bits: each byte is the sub-mask byte shifted right
\* by the bit shift, or-ed with the bits the byte before it shifts out,
\* starting num_byte_shifts bytes into the row; when the row is wider than
\* the sub-mask, the bits the last sub-mask byte shifts out go to the byte
\* after.  The bytes written by two rows never coincide.
ShiftFitSubMask(st, num_mask_bytes, res_mask_bytes, num_column_shift, end_row, sub) ==
    LET bits == num_column_shift % 8
        bytes == num_column_shift \div 8
        width == IF num_mask_bytes > res_mask_bytes
                 THEN res_mask_bytes + 1 ELSE res_mask_bytes
        \* sub_mask[x] for row i of packet_mask
        S(i, x) == sub[(i - num_column_shift) * res_mask_bytes + x + 1]
        Byte(i, c) ==
            CASE c = 0 -> ShiftRightByte(S(i, 0), bits)
              [] c = res_mask_bytes -> ShiftLeftByte(S(i, c - 1), 8 - bits)
              [] OTHER -> ShiftRightByte(S(i, c), bits)
                          | ShiftLeftByte(S(i, c - 1), 8 - bits)
        Row(k) == (k - bytes) \div num_mask_bytes
        Col(k) == (k - bytes) % num_mask_bytes
    IN  Store(st, LAMBDA k : /\ bytes <= k
                             /\ Row(k) \in num_column_shift..(end_row - 1)
                             /\ Col(k) < width,
                  LAMBDA k : Byte(Row(k), Col(k)),
                  (end_row - 1) * num_mask_bytes + bytes + width)

\* UlpFecEncoder::RemainingPacketProtection: the rows after the
\* num_fec_for_imp_packets rows for the important packets.  NoOverlap masks
\* the media packets from num_fec_for_imp_packets on and shifts that mask
\* into place; Overlap and BiasFirstPacket mask all media packets and copy
\* the rows after the important ones, BiasFirstPacket also setting the
\* first media packet's bit in the first num_fec_remaining rows.
RemainingPacketProtection(st, n, rem, fimp, num_mask_bytes, mode, table) ==
    IF mode = "NoOverlap"
    THEN LET res == PacketMaskSize(n - fimp)
             m == Mask(st, n - fimp, rem, res, table)
         IN  ShiftFitSubMask(m.st, num_mask_bytes, res, fimp, fimp + rem, m.sub)
    ELSE LET m == Mask(st, n, rem, num_mask_bytes, table)
             st2 == FitSubMask(m.st, fimp * num_mask_bytes, num_mask_bytes,
                               num_mask_bytes, rem, m.sub)
         IN  IF mode = "BiasFirstPacket"
             THEN Store(st2, LAMBDA k : k < rem * num_mask_bytes
                                       /\ k % num_mask_bytes = 0,
                             LAMBDA k : st2.m[k] | 128,
                             (rem - 1) * num_mask_bytes + 1)
             ELSE st2

\* UlpFecEncoder::SetProtectionAllocation: half the FEC packets (float
\* 0.5 truncated to uint8_t), at most one per important packet, and none
\* when a single FEC packet would leave more than half the media packets
\* unprotected.
SetProtectionAllocation(n, f, imp) ==
    LET max_num_fec_for_imp == f \div 2
        k == IF imp < max_num_fec_for_imp THEN imp ELSE max_num_fec_for_imp
    IN  IF f = 1 /\ n > 2 * imp THEN 0 ELSE k

\* The FEC packets given to the important packets in UnequalProtectionMask.
FecForImportant(n, f, imp, method) ==
    IF method # "BiasFirstPacket" THEN SetProtectionAllocation(n, f, imp) ELSE 0

\* UlpFecEncoder::ImportantPacketProtection: the mask of the important
\* packets over their FEC packets, asked of Mask with the full row width
\* and fitted with the width of the important packets' own mask.
ImportantPacketProtection(st, fimp, imp, num_mask_bytes, table) ==
    LET m == Mask(st, imp, fimp, num_mask_bytes, table)
    IN  FitSubMask(m.st, 0, num_mask_bytes, PacketMaskSize(imp), fimp, m.sub)

\* UlpFecEncoder::UnequalProtectionMask.
UnequalProtectionMask(st, n, f, imp, method, table, num_mask_bytes) ==
    LET fimp == FecForImportant(n, f, imp, method)
        rem == f - fimp
        st1 == IF fimp > 0
               THEN ImportantPacketProtection(st, fimp, imp, num_mask_bytes, table)
               ELSE st
    IN  IF rem > 0
        THEN RemainingPacketProtection(st1, n, rem, fimp, num_mask_bytes,
                                       method, table)
        ELSE st1

\* UlpFecEncoder::GeneratePacketMasks, writing packet_mask, which Encode
\* passes as fec_packet_mask_ itself.  kNone is taken as kModeOverlap.
GeneratePacketMasks(st, n, f, imp, method, type, pms) ==
    LET table == PickTable(type, n)
    IN  IF imp = 0
        THEN LET m == Mask(st, n, f, pms, table) IN Memcpy(m.st, 0, m.sub)
        ELSE UnequalProtectionMask(st, n, f, imp,
                                   IF method = "None" THEN "Overlap" ELSE method,
                                   table, pms)

-----------------------------------------------------------------------------
(* Building the FEC packets                                                 *)

\* The media packet indices FEC packet i_fec protects, as GenerateFecPackets
\* reads them from its row of the mask: every bit of packet_mask_size * 8.
Group(m, pms, i_fec) ==
    {i \in 0..(pms * 8 - 1) : BitSet(m[i_fec * pms + i \div 8], i % 8)}

\* UlpFecEncoder::GenerateFecPackets: the groups of the num_fec_packets
\* rows, in row order.
GenerateFecPackets(m, f, pms) == [r \in 1..f |-> Group(m, pms, r - 1)]

\* The sequence number of media packet i of an Encode starting at start.
MediaSeq(start, i) == (start + i) % SeqModulus

\* UlpFecEncoder::BuildFecPacket, reduced to the FEC header fields recovery
\* depends on: SN base (the first packet of the group), the L bit (set when
\* the group spans more than 16 sequence numbers) and the mask bits, at
\* DiffSeq(seq_base, seq) for each protected packet.
BuildFecPacket(start, g) ==
    LET seq_base == MediaSeq(start, Min(g))
        seq_end == MediaSeq(start, Max(g))
    IN  [sn_base |-> seq_base,
         l       |-> 2 * 8 < DiffSeq(seq_base, seq_end) + 1,
         mask    |-> {DiffSeq(seq_base, MediaSeq(start, i)) : i \in g}]

\* UlpFecDecoder::CachedPacket::DecodeFecInfo: the protected seqs the
\* decoder reads back, seq_base + 8 * byte + bit for every set bit of the
\* 2 or 6 mask bytes the L bit selects.
DecodeFecInfo(h) ==
    {(h.sn_base + o) % SeqModulus :
        o \in {o \in h.mask : o < 8 * (IF h.l THEN 6 ELSE 2)}}

-----------------------------------------------------------------------------

\* (mutant) Encode without its memset.
MutClearMask(st, f, pms) == st

\* Encode's memset(fec_packet_mask_, 0, num_fec_packets * packet_mask_size).
ClearMask(st, f, pms) == Store(st, LAMBDA k : k < f * pms, LAMBDA k : 0, f * pms)

\* Encode's argument checks: at least one and at most 48 media packets, and
\* no more important packets than media packets.  The ssrc and
\* consecutive-seq checks hold for the packets the caller collects.
ValidInput(in) ==
    /\ in.n \in 1..MaxMediaPackets
    /\ in.imp <= in.n

\* UlpFecEncoder::Encode: clear the first num_fec_packets rows of
\* fec_packet_mask_, generate the mask there, and build one FEC packet per
\* row.  A group with a bit past the media packets or no bit at all is a
\* read past media_packets or a front() of an empty vector.
Encode(in) ==
    LET pms == PacketMaskSize(in.n)
        f == NumFecPackets(in.n, in.pf)
        st0 == ClearMask([m |-> fec_packet_mask, oob |-> FALSE], f, pms)
    IN  /\ encodes < MaxEncodes
        /\ ValidInput(in)
        /\ \E st \in {GeneratePacketMasks(st0, in.n, f, in.imp, in.method,
                                           in.type, pms)} :
              /\ fec_packet_mask' = st.m
              /\ oob' = (oob \/ st.oob)
        /\ \E groups \in {GenerateFecPackets(fec_packet_mask', f, pms)} :
              /\ bad_read' = (bad_read \/ \E r \in DOMAIN groups :
                                 groups[r] = {} \/ \E i \in groups[r] : i >= in.n)
              /\ fec_out' = [r \in DOMAIN groups |->
                               [group  |-> groups[r],
                                header |-> IF groups[r] = {} THEN <<>>
                                           ELSE BuildFecPacket(in.start, groups[r])]]
        /\ input' = in
        /\ encodes' = encodes + 1

Init ==
    /\ fec_packet_mask = [k \in 0..(BufSize - 1) |-> 0]
    /\ oob = FALSE
    /\ input = [n |-> 0, imp |-> 0, method |-> "None", pf |-> 0,
                type |-> "Random", start |-> 0]
    /\ fec_out = <<>>
    /\ bad_read = FALSE
    /\ encodes = 0

Next == \E in \in Inputs : Encode(in)

Spec == Init /\ [][Next]_vars

-----------------------------------------------------------------------------

\* The FEC packets an Encode with arguments in makes from a cleared array.
FreshGroups(in) ==
    LET pms == PacketMaskSize(in.n)
        f == NumFecPackets(in.n, in.pf)
        st == GeneratePacketMasks([m |-> [k \in 0..(BufSize - 1) |-> 0],
                                   oob |-> FALSE],
                                  in.n, f, in.imp, in.method, in.type, pms)
    IN  GenerateFecPackets(st.m, f, pms)

Groups == [r \in DOMAIN fec_out |-> fec_out[r].group]

\* GenerateFecPackets indexes media_packets by every set bit of a row and
\* BuildFecPacket takes front() of the group: the mask the helpers leave in
\* fec_packet_mask_ has, in every row, at least one bit and no bit past the
\* media packets, and no helper writes past fec_packet_mask_.
EncoderMemorySafe == ~oob /\ ~bad_read

\* spec 4.4.3 / 4.4.4: the SN base, L bit and mask BuildFecPacket writes
\* name, when DecodeFecInfo reads them back on the other side, exactly the
\* media packets the FEC packet XORs, across the 0xFFFF wrap.
FecHeaderNamesGroup ==
    \A r \in DOMAIN fec_out :
        fec_out[r].group # {} =>
            DecodeFecInfo(fec_out[r].header)
                = {MediaSeq(input.start, i) : i \in fec_out[r].group}

\* spec 4.4.2: with FEC packets to spare, every media packet is protected
\* by at least one FEC packet, whatever the important-packet mode.
EveryMediaPacketProtected ==
    Len(fec_out) > 0 => 0..(input.n - 1) \subseteq UNION Range(Groups)

\* spec 4.4.2: the first num_fec_imp FEC packets protect the first
\* num_important media packets: each of them only important packets, and
\* together all of them.
ImportantPacketsProtected ==
    LET f == Len(fec_out)
        method == IF input.method = "None" THEN "Overlap" ELSE input.method
        fimp == IF input.imp = 0 THEN 0
                ELSE FecForImportant(input.n, f, input.imp, method)
        imp_rows == {Groups[r] : r \in 1..fimp}
    IN  fimp > 0 =>
            /\ \A g \in imp_rows : g \subseteq 0..(input.imp - 1)
            /\ 0..(input.imp - 1) \subseteq UNION imp_rows

\* fec_packet_mask_ keeps the bytes of earlier Encode calls: the FEC packets
\* of an Encode are the ones it makes from a cleared array, whatever the
\* calls before it left there.
EncodeIndependentOfHistory ==
    encodes > 0 => Groups = FreshGroups(input)
=============================================================================
