------------------------------ MODULE RtcpCodec ------------------------------
(***************************************************************************)
(* The RTCP packet codec (src/src/rtp_rtcp): the blocks RtcpSender::       *)
(* SendRtcp puts in a compound, what their LoadPacket writes, the compound *)
(* RtpRtcpTranceiverImpl::SendRtcp assembles, and the loop of              *)
(* RtcpReceiver::Parse with CommonHeader::StorePacket and each block's     *)
(* StorePacket, as operators.                                              *)
(*                                                                         *)
(* A block on the wire is the common header (count or fmt, pt, length in   *)
(* 32-bit words) and the fields the parser reads back: the sender ssrc,    *)
(* the media ssrc of a feedback message, the items (report blocks' source  *)
(* ssrcs, SDES chunks, BYE csrcs, or NACK [first_pid, bitmask] items) and  *)
(* a BYE's reason length.  The bytes themselves are abstracted; lengths,   *)
(* counts and the NACK items keep their values and uint16 arithmetic.      *)
(* CreateHeader writes P = 0 (rtcp_packet.h 9-11), so every block the      *)
(* sender writes has no padding and the P-bit branch of StorePacket is not *)
(* modelled.                                                               *)
(***************************************************************************)
EXTENDS Integers, Sequences, SequencesExt, Bitwise

U16 == 65536                       \* uint16_t
kHeaderLength == 4                 \* RtcpPacket, CommonHeader::kHeaderSizeBytes
kReportBlockLength == 24           \* ReportBlock::kLength
kRrBaseLength == 4
kSenderBaseLength == 24
kCommonFeedbackLength == 8         \* Rtpfb
kNackItemLength == 4

\* Packet types of the blocks the receiver dispatches on.
kSr == 200
kRr == 201
kSdes == 202
kBye == 203
kRtpfb == 205
kNackFmt == 1                      \* Nack::kFeedbackMessageType

\* A block as LoadPacket writes it; CreateHeader takes the payload length
\* as (BlockLength() - kHeaderLength) / 4.
Block(count, pt, len, ssrc, media, items, reason) ==
    [count |-> count, pt |-> pt, words |-> (len - kHeaderLength) \div 4,
     ssrc |-> ssrc, media |-> media, items |-> items, reason |-> reason]

-----------------------------------------------------------------------------
(* Generic NACK (nack.cc)                                                  *)

\* Mutant: the bit for a follower pid+k is bit k instead of k-1.
MutPackShift(first, x) == (x - first) % U16

\* Line 38: static_cast<uint16_t>(*it - item.first_pid - 1).
PackShift(first, x) == (x - first - 1) % U16

\* The inner loop of Pack (lines 34-45): the followers that fit in the
\* bitmask of first are consumed until one is numerically smaller than
\* first or more than 16 after it.
RECURSIVE PackItem(_, _, _)
PackItem(first, mask, ids) ==
    IF ids = <<>> \/ Head(ids) < first \/ PackShift(first, Head(ids)) > 15
    THEN [bitmask |-> mask, rest |-> ids]
    ELSE PackItem(first, mask | 2 ^ PackShift(first, Head(ids)), Tail(ids))

\* Nack::Pack (26-48): packed_ built from packet_ids_.
RECURSIVE Pack(_)
Pack(ids) ==
    IF ids = <<>> THEN <<>>
    ELSE LET it == PackItem(Head(ids), 0, Tail(ids))
         IN  <<[first_pid |-> Head(ids), bitmask |-> it.bitmask]>> \o Pack(it.rest)

\* The bit loop of Unpack (54-56): low bit first, pid wrapping at 0xFFFF.
RECURSIVE UnpackBits(_, _)
UnpackBits(pid, mask) ==
    IF mask = 0 THEN <<>>
    ELSE (IF mask % 2 = 1 THEN <<pid>> ELSE <<>>)
         \o UnpackBits((pid + 1) % U16, mask \div 2)

\* Nack::Unpack (50-58): packet_ids_ rebuilt from packed_.
Unpack(packed) ==
    FoldLeft(LAMBDA acc, item :
                 acc \o <<item.first_pid>>
                     \o UnpackBits((item.first_pid + 1) % U16, item.bitmask),
             <<>>, packed)

\* Nack::BlockLength (12-15).
NackBlockLength(packed) ==
    kHeaderLength + kCommonFeedbackLength + Len(packed) * kNackItemLength

-----------------------------------------------------------------------------
(* Serialization                                                           *)

\* ReceiverReport / SenderReport::BlockLength and LoadPacket: one report
\* block per source ssrc in reports.
RrBlock(ssrc, reports) ==
    Block(Len(reports), kRr,
          kHeaderLength + kRrBaseLength + Len(reports) * kReportBlockLength,
          ssrc, 0, reports, 0)
SrBlock(ssrc, reports) ==
    Block(Len(reports), kSr,
          kHeaderLength + kSenderBaseLength + Len(reports) * kReportBlockLength,
          ssrc, 0, reports, 0)

\* Sdes::AddCName and BlockLength (not in the source tree; spec 4.3): one
\* chunk of ssrc, CNAME item (type, length, text) and a terminator, padded
\* to 32 bits with at least one null octet.
SdesChunkSize(cname_len) == 6 + cname_len + (4 - ((6 + cname_len) % 4))
SdesBlock(ssrc, cname_len) ==
    Block(1, kSdes, kHeaderLength + 4 + SdesChunkSize(cname_len),
          0, 0, <<[ssrc |-> ssrc, cname_len |-> cname_len]>>, 0)

\* Bye::BlockLength (bye.cc 30-35) without csrcs or reason, as SendRtcp
\* builds it; the count is 1 + csrcs.
ByeBlock(ssrc) == Block(1, kBye, kHeaderLength + 4, ssrc, 0, <<>>, 0)

\* Nack::SetPacketIds then LoadPacket (60-84): refused when packed_ is
\* empty; fmt 1 in the count field, the common feedback, then the items.
NackLoadable(packed) == packed # <<>>
NackBlock(ssrc, media, packed) ==
    Block(kNackFmt, kRtpfb, NackBlockLength(packed), ssrc, media, packed, 0)

\* A block's size on the wire, kHeaderLength + 4 * length.
BlockSize(b) == kHeaderLength + 4 * b.words

\* The compound RtcpSender::SendRtcp (rtcp_sender.cc 142-223) hands to the
\* transceiver: SR if it has sent RTP, else RR, with one report block on
\* the remote ssrc once it has received RTP; SDES with the local CNAME;
\* then BYE or a NACK of nack (an empty list: none).
BuildCompound(local, remote, cname_len, sent_rtp, received_rtp, bye, nack) ==
    LET reports == IF received_rtp THEN <<remote>> ELSE <<>>
        report  == IF sent_rtp THEN SrBlock(local, reports)
                   ELSE RrBlock(local, reports)
        extra   == CASE bye          -> <<ByeBlock(local)>>
                     [] nack # <<>>  -> <<NackBlock(local, remote, Pack(nack))>>
                     [] OTHER        -> <<>>
    IN  <<report, SdesBlock(local, cname_len)>> \o extra

\* RtpRtcpTranceiverImpl::SendRtcp (55-90): the buffer is sized by the sum
\* of BlockLength; a LoadPacket that fails (a NACK with no items) drops
\* the whole compound, which is then <<>>.
Serialize(blocks) ==
    IF \E i \in 1..Len(blocks) :
           blocks[i].pt = kRtpfb /\ ~NackLoadable(blocks[i].items)
    THEN <<>>
    ELSE blocks

-----------------------------------------------------------------------------
(* Parsing                                                                 *)

\* CommonHeader::StorePacket (common_header.cc 22-74) on the remain_length
\* bytes left: at least a header, and the parsed length within them.
HeaderFits(b, remain) == remain >= kHeaderLength /\ remain >= BlockSize(b)

\* payload_size_bytes(); payload() is nullptr when it is 0.
PayloadSize(b) == 4 * b.words

\* ReceiverReport::StorePacket: a payload, large enough for the base and
\* count report blocks (the extension check cannot fail: every length is a
\* multiple of 4); ReportBlock::StorePacket always succeeds.
ReportStores(b, base) ==
    PayloadSize(b) > 0 /\ PayloadSize(b) >= base + b.count * kReportBlockLength

\* SenderReport::StorePacket: the same checks on the 24-byte sender info.
SrStores(b) == ReportStores(b, kSenderBaseLength)

\* Bye::StorePacket (bye.cc 70-107): room for count ssrcs and, when there
\* are more bytes, for the reason length octet and the reason; with count
\* 0 the sender ssrc reads as 0.
ByeStores(b) ==
    /\ PayloadSize(b) >= 4 * b.count
    /\ PayloadSize(b) > 4 * b.count => PayloadSize(b) - 4 * b.count >= 1 + b.reason
ByeSender(b) == IF b.count = 0 THEN 0 ELSE b.ssrc

\* Nack::StorePacket (86-109): at least one item; the items are the
\* whole words after the common feedback, then Unpack.
NackStores(b) == PayloadSize(b) >= kCommonFeedbackLength + kNackItemLength
NackIds(b) ==
    Unpack(SubSeq(b.items, 1,
                  (PayloadSize(b) - kCommonFeedbackLength) \div kNackItemLength))

\* What one block makes RtcpReceiver do (lines 71-91 and the Parse*
\* handlers 98-218): a record of the callback or flag it reaches, or none
\* when StorePacket fails, the ssrc is not the remote one, or the type is
\* not handled.  SDES (Sdes::StorePacket is not in the source tree) is
\* taken to keep the chunks LoadPacket wrote.
Event(kind, ids) == <<[ev |-> kind, ids |-> ids]>>
Handle(b, remote) ==
    CASE b.pt = kSr ->
             IF SrStores(b) /\ b.ssrc = remote
             THEN Event("sr", <<>>) ELSE <<>>
      [] b.pt = kRr ->
             IF ReportStores(b, kRrBaseLength) /\ b.ssrc = remote
             THEN Event("rr", <<>>) ELSE <<>>
      [] b.pt = kSdes ->
             IF \E i \in 1..Len(b.items) : b.items[i].ssrc = remote
             THEN Event("sdes", <<>>) ELSE <<>>
      [] b.pt = kBye ->
             IF ByeStores(b) /\ ByeSender(b) = remote
             THEN Event("bye", <<>>) ELSE <<>>
      [] b.pt = kRtpfb /\ b.count = kNackFmt ->
             IF NackStores(b) /\ b.ssrc = remote
             THEN Event("nack", NackIds(b)) ELSE <<>>
      [] OTHER -> <<>>

\* The bytes from a block to the end of the compound.
RECURSIVE Remain(_)
Remain(bs) == IF bs = <<>> THEN 0 ELSE BlockSize(Head(bs)) + Remain(Tail(bs))

\* RtcpReceiver::Parse (50-96): block after block until no byte is left;
\* a header that does not fit ends the parse (nullptr), and what the
\* blocks before it did stands.
RECURSIVE Parse(_, _)
Parse(bs, remote) ==
    IF Remain(bs) = 0 THEN <<>>
    ELSE IF ~HeaderFits(Head(bs), Remain(bs)) THEN <<>>
    ELSE Handle(Head(bs), remote) \o Parse(Tail(bs), remote)
=============================================================================
