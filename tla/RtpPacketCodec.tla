---------------------------- MODULE RtpPacketCodec ----------------------------
(***************************************************************************)
(* The RTP packet codec (src/src/rtp_rtcp/rtp_packet_impl.cc and          *)
(* rtp_packet.cc) and the two packet rewrites around RTX: what            *)
(* RtpSender::ConstructRtx builds from a cached packet, and what           *)
(* RtpReceiver::ReconstructRtpFromRtx rebuilds from it, as operators.      *)
(*                                                                         *)
(* A packet is the members of RtpPacketImpl: the M/payload-type octet,     *)
(* seq, timestamp, ssrc, the csrcs, the extension (<<>> for nullptr, else  *)
(* <<[name, length, content]>>), the payload bytes (<<>> for nullptr) and  *)
(* pad_size_.  A wire packet is its sequence of bytes, values 0..255.     *)
(* ByteWriter/ByteReader and the reinterpret_cast reads assume the         *)
(* little-endian hosts the code is built for (WinSock, x86 and ARM).      *)
(* 32-bit fields keep values below 2^31, TLC's integer range.              *)
(***************************************************************************)
EXTENDS Integers, Sequences, SequencesExt, Bitwise

kVersion == 2                       \* RtpPacket::kVersion
kFixedBufferLength == 12            \* RtpPacket::kFixedBufferLength

\* extension_ and payload_buffer_ that are nullptr.
NoExtension == <<>>

\* RtpPacketImpl::StorePacket from fields (107-134): the members are set as
\* given; the uint32 bound on the total length is out of reach here.
Packet(mpt, seq, ts, ssrc, csrcs, ext, payload, pad) ==
    [mpt |-> mpt, seq |-> seq, ts |-> ts, ssrc |-> ssrc, csrcs |-> csrcs,
     ext |-> ext, payload |-> payload, pad |-> pad]

\* RtpPacket::Extension(length_content_dw): a two-byte name and
\* 4 * length content bytes.
Extension(name, content) ==
    <<[name |-> name, length |-> Len(content) \div 4, content |-> content]>>

\* m() and payload_type(): the top bit and the low 7 bits of the octet.
M(p) == p.mpt \div 128
PayloadType(p) == p.mpt % 128

\* ByteWriter<T, n>::WriteBigEndian and ByteReader<T, n>::ReadBigEndian.
BigEndian(v, n) == [i \in 1..n |-> (v \div 2 ^ (8 * (n - i))) % 256]
ReadBigEndian(s) == FoldLeft(LAMBDA acc, b : acc * 256 + b, 0, s)

\* *reinterpret_cast<const uint32_t*>(pos) on a little-endian host.
ReadNative(s) == FoldRight(LAMBDA b, acc : b + 256 * acc, s, 0)

\* csrc(uint8_t& csrc, i), as RtpPacket::Create(other), ConstructRtx and
\* ReconstructRtpFromRtx call it: the csrc is cut to its low byte.
CsrcsCopied(p) == [i \in 1..Len(p.csrcs) |-> p.csrcs[i] % 256]

-----------------------------------------------------------------------------
(* LoadPacket (140-208)                                                    *)

\* Lines 155-163: version 2, 0x20 when there is an extension, 0x10 when
\* there is padding, and the csrc count or-ed in unmasked.
FirstOctet(p) ==
    128 | (IF p.ext # NoExtension THEN 32 ELSE 0)
        | (IF p.pad > 0 THEN 16 ELSE 0) | Len(p.csrcs)

\* Mutant: the seq loop runs from the low byte up.
MutSeqBytes(seq) == <<seq % 256, seq \div 256>>

\* Lines 165-169: the two bytes of sequence_number_, high byte first.
SeqBytes(seq) == BigEndian(seq, 2)

\* Lines 185-196: name, length (big-endian), content.
ExtensionBytes(p) ==
    IF p.ext = NoExtension THEN <<>>
    ELSE p.ext[1].name \o BigEndian(p.ext[1].length, 2) \o p.ext[1].content

\* Lines 202-206: pad_size - 1 zeros, then pad_size.
PaddingBytes(pad) ==
    IF pad > 0 THEN [i \in 1..(pad - 1) |-> 0] \o <<pad>> ELSE <<>>

LoadPacket(p) ==
    <<FirstOctet(p), p.mpt>> \o SeqBytes(p.seq)
    \o BigEndian(p.ts, 4) \o BigEndian(p.ssrc, 4)
    \o FlattenSeq([i \in 1..Len(p.csrcs) |-> BigEndian(p.csrcs[i], 4)])
    \o ExtensionBytes(p) \o p.payload \o PaddingBytes(p.pad)

-----------------------------------------------------------------------------
(* StorePacket from bytes (11-105)                                         *)

\* Line 75: the padding fits after the header, csrcs and extension.
PadFits(at, pad, len) == at + pad <= len

\* Lines 11-86: the checks and offsets, or [ok |-> FALSE] at the first
\* early return.  P is read from 0x20, X from 0x10, CC from the low four
\* bits; the pad size is the last byte.  length_payload is a uint32: a
\* negative payload_len stands for the subtraction wrapped to 2^32 more.
StoreLayout(w) ==
    IF Len(w) < kFixedBufferLength \/ w[1] \div 64 # kVersion
    THEN [ok |-> FALSE]
    ELSE
    LET len      == Len(w)
        p        == (w[1] & 32) # 0
        x        == (w[1] & 16) # 0
        cc       == w[1] & 15
        csrc_end == kFixedBufferLength + 4 * cc
        words    == IF x /\ csrc_end + 4 <= len
                    THEN ReadBigEndian(SubSeq(w, csrc_end + 3, csrc_end + 4))
                    ELSE 0
        ext_end  == IF x THEN csrc_end + 4 + 4 * words ELSE csrc_end
        pad      == IF p /\ ext_end + 1 <= len THEN w[len] ELSE 0
    IN  [ok |-> /\ csrc_end <= len
                /\ x => csrc_end + 4 <= len /\ ext_end <= len
                /\ p => ext_end + 1 <= len /\ pad > 0 /\ PadFits(ext_end, pad, len),
         x |-> x, cc |-> cc, csrc_end |-> csrc_end, ext_end |-> ext_end,
         pad |-> pad, payload_len |-> len - (ext_end + pad)]

\* Lines 87-105: the members read back; csrcs through the native cast;
\* pad_size_ is only assigned when the payload is not empty, so an empty
\* payload keeps pad_before.
StorePacket(w, pad_before) ==
    LET l == StoreLayout(w)
    IN  IF ~l.ok THEN [ok |-> FALSE]
        ELSE [ok |-> TRUE,
              pkt |-> Packet(w[2], ReadBigEndian(SubSeq(w, 3, 4)),
                             ReadBigEndian(SubSeq(w, 5, 8)),
                             ReadBigEndian(SubSeq(w, 9, 12)),
                             [i \in 1..l.cc |-> ReadNative(SubSeq(w, 9 + 4 * i, 12 + 4 * i))],
                             IF l.x
                             THEN Extension(SubSeq(w, l.csrc_end + 1, l.csrc_end + 2),
                                            SubSeq(w, l.csrc_end + 5, l.ext_end))
                             ELSE NoExtension,
                             SubSeq(w, l.ext_end + 1, l.ext_end + l.payload_len),
                             IF l.payload_len > 0 THEN l.pad ELSE pad_before)]

-----------------------------------------------------------------------------
(* The RTX rewrites                                                        *)

\* RtpPacket::Create(other) (rtp_packet.cc 11-49), the copy SendRtp caches.
CopyPacket(p) ==
    Packet(PayloadType(p) | (IF M(p) = 1 THEN 128 ELSE 0), p.seq, p.ts,
           p.ssrc, CsrcsCopied(p), p.ext, p.payload, p.pad)

\* RtpSender::ConstructRtx (rtp_sender.cc 204-275) with the rtx payload
\* type rtx_pt the map gives and the rtx_seq rtx_context yields: the
\* original seq big-endian, then the original payload.
RtxPacket(p, rtx_pt, rtx_seq, rtx_ssrc) ==
    Packet(rtx_pt | (IF M(p) = 1 THEN 128 ELSE 0), rtx_seq, p.ts, rtx_ssrc,
           CsrcsCopied(p), p.ext, BigEndian(p.seq, 2) \o p.payload, p.pad)

\* Mutant: the original seq is read little-endian.
MutRtxOriginalSeq(payload) == ReadNative(SubSeq(payload, 1, 2))

\* rtp_receiver.cc 426-427.
RtxOriginalSeq(payload) == ReadBigEndian(SubSeq(payload, 1, 2))

\* RtpReceiver::ReconstructRtpFromRtx (rtp_receiver.cc 408-471) for an RTX
\* whose payload type maps to media_pt: refused for a payload of at most
\* two bytes; otherwise the original seq and payload, the remote ssrc, and
\* no padding.
Reconstruct(p, media_pt, remote_ssrc) ==
    IF Len(p.payload) <= 2 THEN [ok |-> FALSE]
    ELSE [ok |-> TRUE,
          pkt |-> Packet(media_pt | (IF M(p) = 1 THEN 128 ELSE 0),
                         RtxOriginalSeq(p.payload), p.ts, remote_ssrc,
                         CsrcsCopied(p), p.ext,
                         SubSeq(p.payload, 3, Len(p.payload)), 0)]
=============================================================================
