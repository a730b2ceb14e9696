------------------------------- MODULE RtxLoop -------------------------------
(***************************************************************************)
(* Loss recovery end to end: the remote RtpSender (RTX enabled), the UDP  *)
(* path, and the local RtpReceiver, composed from the component modules.  *)
(*                                                                         *)
(*   sender --RTP--> receiver.OnRtpPacket --NACK (RtcpSender::SendNack,   *)
(*   RtcpReceiver::ParseNacks, MediaSession::NotifyNackReceived)--> sender *)
(*   .SendRtx --RTX--> receiver.OnRtpPacket after ReconstructRtpFromRtx    *)
(*                                                                         *)
(* The network loses packets and reorders them, and delivers or loses each *)
(* within MaxDelay ticks; the application sends at most one packet per     *)
(* tick.  Those two bounds stand for the round-trip time and media pacing  *)
(* a deployment configures max_cache_duration_ms and                       *)
(* max_cache_seq_difference against.  A NACK travels as the compound the  *)
(* receiver's RtcpSender builds and RtcpCodec serializes, and the sender   *)
(* learns the seqs by parsing it (RtcpCodec).  Media and RTX packets     *)
(* travel as the bytes RtpPacketImpl::LoadPacket writes and are parsed by *)
(* the receiver's demuxer (RtpPacketImpl::StorePacket); the application   *)
(* sends packets as the programs under test/ build them: no csrcs, no     *)
(* extension, no padding, a non-empty payload.                            *)
(***************************************************************************)
EXTENDS Integers, Sequences, SequencesExt, FiniteSets

CONSTANTS
    SeqModulus, StartSeq, MaxPackets, MaxCacheDuration, NackInterval, MaxTime,
    MaxCacheSeqDifference,
    RtxStartSeqs,   \* values the random first rtx_context.last_seq may take
    MaxDelay,       \* ticks a packet may spend in the network
    MaxRtpLoss,     \* media packets the network may lose
    MaxCtlLoss      \* NACK and RTX packets the network may lose

VARIABLES
    \* local receiver (RtpReceiverCache)
    cached_packets, loss_seqs, latest_callback_seq, has_callback_packet,
    extended_highest_seq, extended_first_seq, has_cached_packet,
    has_received, nb_received_real, nack_sent, received, first_ext, delivered,
    \* remote sender (RtpSender)
    rtx_cache, last_seq, has_sent, rtx_has_sent, rtx_last_seq,
    \* clock and network
    now, sent,
    last_send_at,   \* tick of the latest media packet sent
    rtp_net,        \* media packets in flight: [ext, wire, at]
    nack_net,       \* NACK compounds in flight: [wire, at], with the list sent
    rtx_net,        \* RTX packets in flight: [rtx_seq, orig, wire, at]
    \* history
    rtp_lost,       \* ext of media packets the network lost
    ctl_lost        \* NACK and RTX packets the network lost

R == INSTANCE RtpReceiverCache
         WITH ReorderWindow <- MaxPackets, MaxDuplicates <- 0,
              in_flight <- {}, duplicates <- 0

S == INSTANCE RtpSender

C == INSTANCE RtcpCodec

P == INSTANCE RtpPacketCodec

\* The receiver's local ssrc and CNAME length, and the sender's ssrc: the
\* receiver's remote ssrc, and the sender's RtcpReceiver remote ssrc.
RecvSsrc == 1111
SendSsrc == 2222
CnameLength == 8

\* The media payload type, the RTX payload type map_rtx_payload_type maps
\* to it, and the rtx_ssrc, on both ends.
MediaPt == 96
RtxPt == 97
RtxSsrc == 3333

receiver_vars == <<cached_packets, loss_seqs, latest_callback_seq,
                   has_callback_packet, extended_highest_seq,
                   extended_first_seq, has_cached_packet, has_received,
                   nb_received_real, nack_sent, received, first_ext, delivered>>
sender_vars == <<rtx_cache, last_seq, has_sent, rtx_has_sent, rtx_last_seq>>
net_vars == <<rtp_net, nack_net, rtx_net>>
vars == <<receiver_vars, sender_vars, now, sent, last_send_at, net_vars,
          rtp_lost, ctl_lost>>

\* The ghost number of the packet whose sequence number is seq.
ExtOfSeq(seq) == (seq - StartSeq) % SeqModulus

-----------------------------------------------------------------------------

\* The packet the application hands to MediaSession::SendRtpPacket for seq:
\* marker clear, a timestamp and a one-byte payload that follow the frame.
AppPacket(seq) ==
    P!Packet(MediaPt, seq, 3000 * ExtOfSeq(seq), SendSsrc, <<>>, P!NoExtension,
             <<ExtOfSeq(seq)>>, 0)

\* RtpRtcpTranceiverImpl::SendRtp: the bytes LoadPacket writes.
MediaWire(seq) == P!LoadPacket(AppPacket(seq))

\* The RTX packet SendRtx sends for the cached copy of orig
\* (RtpPacket::Create(other) in SendRtp, then ConstructRtx).
RtxWire(orig, rtx_seq) ==
    P!LoadPacket(P!RtxPacket(P!CopyPacket(AppPacket(orig)), RtxPt, rtx_seq, RtxSsrc))

\* RtpRtcpPacketDemuxer::OnData, then RtpReceiver::OnRtpPacket on the
\* rtx_ssrc (ReconstructRtpFromRtx): the packet the receiver handles, with
\* ok FALSE where either drops it.
RtpReceived(wire) == P!StorePacket(wire, 0)
RtxReceived(wire) ==
    LET r == P!StorePacket(wire, 0)
    IN  IF r.ok THEN P!Reconstruct(r.pkt, MediaPt, SendSsrc) ELSE r

\* The list GetLossPacketSeqsForNack hands over, in loss_seqs_ order:
\* oldest packet first.
NackList(seqs) == SetToSortSeq(seqs, LAMBDA a, b : ExtOfSeq(a) < ExtOfSeq(b))

\* RtcpSender::SendNack -> SendRtcp on the receiver, a recv-only endpoint
\* that has received RTP: RR with one report block, SDES and the NACK,
\* serialized by the transceiver.
NackCompound(seqs) ==
    C!Serialize(C!BuildCompound(RecvSsrc, SendSsrc, CnameLength, FALSE, TRUE,
                                FALSE, NackList(seqs)))

\* RtpReceiver::OnRtpPacket, and the NACK it produces going out through
\* RtcpSender::SendNack (which ignores an empty list).
ReceiverHandles(e) ==
    /\ R!OnRtpPacket(e)
    /\ nack_net' = IF nack_sent' = {} THEN nack_net
                   ELSE nack_net \cup {[wire |-> NackCompound(nack_sent'), at |-> now,
                                         list |-> NackList(nack_sent')]}

\* The seqs RtcpReceiver::Parse at the sender hands to NotifyNackReceived.
ParsedNack(wire) ==
    LET evs == C!Parse(wire, RecvSsrc)
    IN  {s \in 0..(SeqModulus - 1) :
            \E i \in 1..Len(evs) : evs[i].ev = "nack" /\ Contains(evs[i].ids, s)}

Init ==
    /\ R!Init
    /\ S!SenderInit
    /\ rtp_net = {} /\ nack_net = {} /\ rtx_net = {}
    /\ rtp_lost = {} /\ ctl_lost = 0
    /\ last_send_at = -1

\* The application sends the next media packet (MediaSession::SendRtpPacket
\* -> RtpSender::SendRtp), paced at one per tick.
SendPacket ==
    /\ sent < MaxPackets
    /\ last_send_at < now
    /\ S!SendRtp(R!SeqNum(sent), TRUE)
    /\ rtp_net' = rtp_net \cup {[ext |-> sent, wire |-> MediaWire(R!SeqNum(sent)),
                                  at |-> now]}
    /\ sent' = sent + 1
    /\ last_send_at' = now
    /\ UNCHANGED <<receiver_vars, now, nack_net, rtx_net, rtp_lost, ctl_lost>>

\* A media packet reaches the demuxer; a packet that does not parse is
\* dropped.
DeliverRtp ==
    \E m \in rtp_net : \E r \in {RtpReceived(m.wire)} :
        /\ IF r.ok THEN ReceiverHandles(ExtOfSeq(r.pkt.seq))
           ELSE UNCHANGED <<receiver_vars, nack_net>>
        /\ rtp_net' = rtp_net \ {m}
        /\ UNCHANGED <<sender_vars, now, sent, last_send_at, rtx_net, rtp_lost, ctl_lost>>

\* An RTX packet reaches the demuxer and RtpReceiver::OnRtpPacket on the
\* rtx_ssrc.
DeliverRtx ==
    \E m \in rtx_net : \E r \in {RtxReceived(m.wire)} :
        /\ IF r.ok THEN ReceiverHandles(ExtOfSeq(r.pkt.seq))
           ELSE UNCHANGED <<receiver_vars, nack_net>>
        /\ rtx_net' = rtx_net \ {m}
        /\ UNCHANGED <<sender_vars, now, sent, last_send_at, rtp_net, rtp_lost, ctl_lost>>

\* A NACK compound reaches the sender: RtcpReceiver::OnRtcpPacket ->
\* Parse -> ParseNacks -> MediaSession::NotifyNackReceived ->
\* RtpSender::SendRtx.
DeliverNack ==
    \E m \in nack_net, start \in RtxStartSeqs :
      \E seqs \in {ParsedNack(m.wire)} :
        /\ S!SendRtx(seqs, start)
        /\ rtx_net' = rtx_net \cup
               {LET orig == P!ReadBigEndian(p.head)
                IN  [rtx_seq |-> p.rtx_seq, orig |-> orig,
                     wire |-> RtxWire(orig, p.rtx_seq), at |-> now] :
                   p \in ToSet(S!RtxOut(seqs, start))}
        /\ nack_net' = nack_net \ {m}
        /\ UNCHANGED <<receiver_vars, now, sent, last_send_at, rtp_net,
                       rtp_lost, ctl_lost>>

LoseRtp ==
    \E m \in rtp_net :
        /\ Cardinality(rtp_lost) < MaxRtpLoss
        /\ rtp_net' = rtp_net \ {m}
        /\ rtp_lost' = rtp_lost \cup {m.ext}
        /\ UNCHANGED <<receiver_vars, sender_vars, now, sent, last_send_at,
                       nack_net, rtx_net, ctl_lost>>

LoseCtl ==
    /\ ctl_lost < MaxCtlLoss
    /\ \/ \E m \in nack_net : nack_net' = nack_net \ {m} /\ UNCHANGED rtx_net
       \/ \E m \in rtx_net : rtx_net' = rtx_net \ {m} /\ UNCHANGED nack_net
    /\ ctl_lost' = ctl_lost + 1
    /\ UNCHANGED <<receiver_vars, sender_vars, now, sent, last_send_at, rtp_net,
                   rtp_lost>>

\* Time passes only while every packet in flight is younger than MaxDelay.
Tick ==
    /\ now < MaxTime
    /\ \A m \in rtp_net \cup nack_net \cup rtx_net : now < m.at + MaxDelay
    /\ now' = now + 1
    /\ UNCHANGED <<receiver_vars, sender_vars, sent, last_send_at, net_vars,
                   rtp_lost, ctl_lost>>

Next ==
    \/ SendPacket \/ DeliverRtp \/ DeliverRtx \/ DeliverNack
    \/ LoseRtp \/ LoseCtl \/ Tick

Spec == Init /\ [][Next]_vars

-----------------------------------------------------------------------------

TypeOK ==
    /\ R!TypeOK
    /\ rtx_cache \in Seq(0..(SeqModulus - 1))
    /\ rtx_last_seq \in 0..(SeqModulus - 1)
    /\ \A m \in rtx_net : {m.rtx_seq, m.orig} \subseteq 0..(SeqModulus - 1)
    /\ ctl_lost \in 0..MaxCtlLoss

\* NACK lists in increasing seq order (nack.h asks for it) at the uint16
\* edges: across the wrap, and followers 15, 16 and 17 after a first pid.
NackEdges == <<65534, 65535, 0, 15, 16, 17>>
NackEdgeLists ==
    {LET idx == SetToSortSeq(D, LAMBDA a, b : a < b)
     IN  [i \in 1..Len(idx) |-> NackEdges[idx[i]]] : D \in SUBSET DOMAIN NackEdges}

\* What the peer's RtcpReceiver does with a compound built from these
\* inputs: the report, the SDES, then the BYE or the NACK of exactly nack.
Expected(sent_rtp, bye, nack) ==
    C!Event(IF sent_rtp THEN "sr" ELSE "rr", <<>>) \o C!Event("sdes", <<>>)
    \o (CASE bye         -> C!Event("bye", <<>>)
          [] nack # <<>> -> C!Event("nack", nack)
          [] OTHER       -> <<>>)

\* Every compound over the edge inputs round-trips (a constant, computed
\* once).
EdgeRoundTrips ==
    \A sent_rtp, received_rtp, bye \in BOOLEAN, nack \in NackEdgeLists :
        C!Parse(C!Serialize(C!BuildCompound(RecvSsrc, SendSsrc, CnameLength,
                                            sent_rtp, received_rtp, bye, nack)),
                RecvSsrc)
        = Expected(sent_rtp, bye, nack)

\* spec 4.3, "serialization is the inverse": every compound RtcpSender::
\* SendRtcp builds, once Nack::Pack, the LoadPacket calls and the
\* transceiver have written it, is parsed by the peer's RtcpReceiver
\* (CommonHeader::StorePacket, each StorePacket, Nack::Unpack) into the
\* report, the SDES and exactly its BYE or NACK list, in order: each NACK
\* compound in flight, and every compound of SR or RR, with or without the
\* report block, with a BYE or a NACK of any increasing list at the
\* uint16 edges.
CompoundRoundTrip ==
    /\ EdgeRoundTrips
    /\ \A m \in nack_net : C!Parse(m.wire, RecvSsrc) = Expected(FALSE, FALSE, m.list)

\* Media packets as the programs under test/ build them, at the uint16 and
\* 31-bit edges of seq and timestamp, with and without the marker.
EdgePackets ==
    {P!Packet(mpt, seq, ts, SendSsrc, <<>>, P!NoExtension, payload, 0) :
        mpt \in {MediaPt, 128 + MediaPt}, seq \in {0, 255, 256, 65535},
        ts \in {0, 2147483647}, payload \in {<<0>>, <<1, 2, 3>>}}

\* Each edge packet is received as sent, directly and through an RTX with
\* an rtx seq at the wrap (a constant, computed once).
EdgeRebuilds ==
    \A p \in EdgePackets, rtx_seq \in {0, 65535} :
        /\ RtpReceived(P!LoadPacket(p)) = [ok |-> TRUE, pkt |-> p]
        /\ RtxReceived(P!LoadPacket(P!RtxPacket(P!CopyPacket(p), RtxPt, rtx_seq,
                                                RtxSsrc)))
           = [ok |-> TRUE, pkt |-> p]

\* spec 8, "build_rtx then reconstruct_rtx is the identity": the packet the
\* receiver handles is the one the application sent.  A media packet
\* after LoadPacket and the demuxer's StorePacket, and an RTX packet after
\* the cached copy (RtpPacket::Create), ConstructRtx, LoadPacket,
\* StorePacket and ReconstructRtpFromRtx, keep marker, payload type, seq,
\* timestamp, ssrc and payload: every packet in flight, and the edge
\* packets.
ReceiverSeesSentPacket ==
    /\ EdgeRebuilds
    /\ \A m \in rtp_net :
           RtpReceived(m.wire) = [ok |-> TRUE, pkt |-> AppPacket(R!SeqNum(m.ext))]
    /\ \A m \in rtx_net :
           RtxReceived(m.wire) = [ok |-> TRUE, pkt |-> AppPacket(m.orig)]

\* Every packet sent and every NACK or RTX has been delivered or lost.
Quiescent ==
    sent = MaxPackets /\ rtp_net = {} /\ nack_net = {} /\ rtx_net = {}

\* spec.md Scenario C: when one media packet between the first and the last
\* (so that packets on both sides of the gap arrive) is lost
\* and no NACK or RTX is, the receiver detects the gap, NACKs it, the
\* sender answers from its RTX cache, and the receiver rebuilds the packet
\* from the RTX payload and accepts it: by the time the network is empty
\* every packet was accepted and the reported cumulative loss is 0.
SingleLossRecovered ==
    (/\ Quiescent
     /\ ctl_lost = 0
     /\ Cardinality(rtp_lost) = 1
     /\ \A e \in rtp_lost : 0 < e /\ e < MaxPackets - 1)
    => /\ received = 0..(MaxPackets - 1)
       /\ R!CumulativeLoss = 0
=============================================================================
