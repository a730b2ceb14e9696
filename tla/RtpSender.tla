------------------------------ MODULE RtpSender ------------------------------
(***************************************************************************)
(* The sending side of one media stream with RTX enabled: RtpSender and   *)
(* its RtpSenderPacketCache (src/src/rtp_rtcp/rtp_sender.cc).              *)
(*                                                                         *)
(* SendRtp and SendRtx each run under RtpSender::mutex_, so each is one    *)
(* atomic step.  A packet is its sequence number and whether its payload   *)
(* type has an RTX mapping (only those are cached).  The packets a step    *)
(* hands to the transceiver are given by the operators RtpOut and RtxOut;  *)
(* the module that composes the sender decides where they go.             *)
(***************************************************************************)
EXTENDS SeqArith, Integers, Sequences, SequencesExt

CONSTANTS
    MaxCacheSeqDifference   \* config max_cache_seq_difference

\* RtpSender::Initialize refuses 0 when RTX is enabled, and
\* IsSeqBeforeInRange takes at most max_seq >> 1.
ASSUME MaxCacheSeqDifference \in 1..(MaxSeq \div 2)

VARIABLES
    rtx_cache,        \* cached_rtp_packets_: seqs, oldest first
    last_seq,         \* last_seq_
    has_sent,         \* has_sent_
    rtx_has_sent,     \* rtx_context.has_sent
    rtx_last_seq      \* rtx_context.last_seq

sender_vars == <<rtx_cache, last_seq, has_sent, rtx_has_sent, rtx_last_seq>>

\* RtpSender::RtpSender and RtxContext::RtxContext.
SenderInit ==
    /\ rtx_cache = <<>>
    /\ last_seq = 0
    /\ has_sent = FALSE
    /\ rtx_has_sent = FALSE
    /\ rtx_last_seq = 0

-----------------------------------------------------------------------------
(* SendRtp                                                                 *)

\* Early return of SendRtp: after the first packet, only the successor of
\* last_seq_ (0 after 0xFFFF) is sent.
Continues(seq) ==
    ~has_sent \/ seq = (IF last_seq = MaxSeq THEN 0 ELSE last_seq + 1)

\* Mutant: the trim keeps one packet too few.
MutPutPacket(c, seq) ==
    LET keep == SelectInSeq(c, LAMBDA s :
                    IsSeqBeforeInRange(s, seq, MaxCacheSeqDifference - 1))
    IN  (IF keep = 0 THEN <<>> ELSE SubSeq(c, keep, Len(c))) \o <<seq>>

\* RtpSenderPacketCache::PutPacket: erase from the front every packet that
\* is not within max_cache_seq_difference_ before the new one, stopping at
\* the first that is; then push_back.
PutPacket(c, seq) ==
    LET keep == SelectInSeq(c, LAMBDA s :
                    IsSeqBeforeInRange(s, seq, MaxCacheSeqDifference))
    IN  (IF keep = 0 THEN <<>> ELSE SubSeq(c, keep, Len(c))) \o <<seq>>

\* RtpSender::SendRtp for a packet with sequence number seq whose payload
\* type is (rtx_mapped) or is not in map_rtx_payload_type.  The ssrc and
\* payload-type checks pass for the one configured stream.
SendRtp(seq, rtx_mapped) ==
    /\ Continues(seq)
    /\ rtx_cache' = IF rtx_mapped THEN PutPacket(rtx_cache, seq) ELSE rtx_cache
    /\ last_seq' = seq
    /\ has_sent' = TRUE
    /\ UNCHANGED <<rtx_has_sent, rtx_last_seq>>

\* The packet SendRtp hands to RtpRtcpTranceiver::SendRtp.
RtpOut(seq) == seq

-----------------------------------------------------------------------------
(* SendRtx                                                                 *)

\* RtpSenderPacketCache::GetPackets: the cached packets the NACK asks for.
\* NACK seqs arrive in ascending order (GetLossPacketSeqsForNack walks the
\* loss list oldest first), the cache is in sending order, so the copies
\* come out in cache order.
CacheLookup(c, seqs) == SelectSeq(c, LAMBDA s : s \in seqs)

\* Mutant: the RTX seq does not wrap at 0xFFFF.
MutNextRtxSeq(s) == s + 1

\* ConstructRtx: rtx_seq = rtx_context.last_seq + 1, 0 after 0xFFFF.
NextRtxSeq(s) == IF s = MaxSeq THEN 0 ELSE s + 1

\* Mutant: every SendRtx starts from a fresh random seq.
MutRtxSeqs(n, start) ==
    LET RECURSIVE From(_, _)
        From(s, k) == IF k = 0 THEN <<>> ELSE <<NextRtxSeq(s)>> \o From(NextRtxSeq(s), k - 1)
    IN  From(start, n)

\* The RTX seqs the packets found get, one ConstructRtx after the other;
\* the first ConstructRtx ever starts from a random last_seq (start).
RtxSeqs(n, start) ==
    LET base == IF rtx_has_sent THEN rtx_last_seq ELSE start
        RECURSIVE From(_, _)
        From(s, k) == IF k = 0 THEN <<>> ELSE <<NextRtxSeq(s)>> \o From(NextRtxSeq(s), k - 1)
    IN  From(base, n)

\* ConstructRtx: the RTX payload starts with the original seq written by
\* ByteWriter<uint16_t>::WriteBigEndian.
RtxPayloadHead(seq) == <<seq \div 256, seq % 256>>

\* RtpSender::SendRtx(packet_seqs) with random RTX start seq start.  Early
\* returns: an empty list.  Every cached packet found is rebuilt by
\* ConstructRtx (its payload type is mapped, since only those are cached)
\* and sent; rtx_context advances once per packet.
SendRtx(seqs, start) ==
    LET found == CacheLookup(rtx_cache, seqs)
        rtx == RtxSeqs(Len(found), start)
    IN  /\ seqs # {}
        /\ rtx_has_sent' = (rtx_has_sent \/ found # <<>>)
        /\ rtx_last_seq' = IF found = <<>> THEN rtx_last_seq ELSE Last(rtx)
        /\ UNCHANGED <<rtx_cache, last_seq, has_sent>>

\* The RTX packets SendRtx hands to the transceiver, in order: the rtx_seq
\* and the payload head naming the original packet.
RtxOut(seqs, start) ==
    LET found == CacheLookup(rtx_cache, seqs)
        rtx == RtxSeqs(Len(found), start)
    IN  [i \in 1..Len(found) |-> [rtx_seq |-> rtx[i],
                                   head |-> RtxPayloadHead(found[i])]]
=============================================================================
