--------------------------- MODULE RtpReceiverCache ---------------------------
(***************************************************************************)
(* The receiver side of one media stream: RtpReceiver::OnRtpPacket and the *)
(* RtpReceiverPacketCache it drives (src/src/rtp_rtcp/rtp_receiver.cc).    *)
(*                                                                         *)
(* One OnRtpPacket step is the whole handler: PutPacket (cursor check,     *)
(* extended-seq tracking, ordered insert, SupplementLossSeqs), the        *)
(* statistics update, GetLossPacketSeqsForNack and the NACK it hands to   *)
(* the RTCP sender, and GetPackets with the callback of released packets. *)
(*                                                                         *)
(* The remote sender and the UDP path are the environment: packets are    *)
(* numbered 0, 1, 2, ... (their "ext", a ghost name the code never sees)  *)
(* and carry sequence number (StartSeq + ext) % SeqModulus; the network   *)
(* loses, duplicates and reorders them within ReorderWindow.  Time is a   *)
(* tick counter; a payload is never looked at, so a packet is its seq.    *)
(***************************************************************************)
EXTENDS SeqArith, Integers, Sequences, SequencesExt, FiniteSets

CONSTANTS
    StartSeq,           \* sequence number of the first packet sent
    MaxPackets,         \* packets the remote sender sends
    ReorderWindow,      \* max distance between packets in flight together
    MaxDuplicates,      \* copies the network may add, in total
    MaxCacheDuration,   \* max_cache_duration_ms, in ticks
    NackInterval,       \* kNackIntervalMs (50 ms), in ticks
    MaxTime             \* last tick of the model

ASSUME StartSeq \in Seqs
\* Fewer packets than half the sequence space: RTP cannot tell apart two
\* packets 2^15 apart, and the code does not try to.
ASSUME MaxPackets \in 1..(SeqModulus \div 2)
ASSUME ReorderWindow \in 1..MaxPackets
ASSUME MaxDuplicates \in Nat
ASSUME {MaxCacheDuration, NackInterval, MaxTime} \subseteq Nat

VARIABLES
    \* RtpReceiverPacketCache
    cached_packets,          \* <<[seq, timeout, ext]>>, index 1 = newest
    loss_seqs,               \* seq -> [notified, last_notify]
    latest_callback_seq,
    has_callback_packet,
    extended_highest_seq,
    extended_first_seq,
    has_cached_packet,
    \* RtpReceiver
    has_received,
    nb_received_real,
    \* the NACK handed to RtcpSender::SendNack by the last OnRtpPacket
    nack_sent,
    \* environment: clock, remote sender and network
    now,
    sent,                    \* packets sent so far (next ext)
    in_flight,               \* ext of packets in the network
    duplicates,              \* copies added by the network so far
    \* history (ghost) variables for the properties
    received,                \* ext of packets that passed the cursor check
    first_ext,               \* ext of the first packet put, -1 before
    delivered                \* ext of packets handed to the callback, in order

cache_vars == <<cached_packets, loss_seqs, latest_callback_seq,
                has_callback_packet, extended_highest_seq, extended_first_seq,
                has_cached_packet>>
env_vars == <<now, sent, in_flight, duplicates>>
vars == <<cache_vars, has_received, nb_received_real, nack_sent, env_vars,
          received, first_ext, delivered>>

SeqNum(e) == (StartSeq + e) % SeqModulus
Exts == 0..(MaxPackets - 1)

-----------------------------------------------------------------------------
(* RtpReceiverPacketCache::PutPacket                                       *)

\* Mutant: PutPacket without the IsSeqAfter(latest_callback_seq_, seq) check.
MutAcceptedNoCursorCheck(seq) == TRUE

\* Early return: the packet must come after the last one called back.
Accepted(seq) ==
    ~has_callback_packet \/ IsSeqAfter(latest_callback_seq, seq)

\* Mutant: the wrap counter is never bumped.
MutNextExtendedHighestNoWrap(seq) ==
    IF ~has_cached_packet THEN seq
    ELSE IF IsSeqAfter(extended_highest_seq % SeqModulus, seq)
         THEN (extended_highest_seq \div SeqModulus) * SeqModulus + seq
         ELSE extended_highest_seq

\* (num_extended << 16) | seq, bumping num_extended when seq wraps past
\* the newest cached seq.
NextExtendedHighest(seq) ==
    LET num_extended == extended_highest_seq \div SeqModulus
        latest_cached_seq == extended_highest_seq % SeqModulus
    IN  IF ~has_cached_packet THEN seq
        ELSE IF IsSeqAfter(latest_cached_seq, seq)
             THEN (num_extended + (IF seq < latest_cached_seq THEN 1 ELSE 0))
                      * SeqModulus + seq
             ELSE extended_highest_seq

\* Mutant: the wrap guard is dropped and the extended value is stored.
MutNextExtendedFirst(seq, ext_high) ==
    IF ~has_cached_packet THEN seq
    ELSE IF seq < extended_first_seq THEN ext_high ELSE extended_first_seq

\* Mutant: extended_first_seq_ is lowered whatever the wrap count.
MutNextExtendedFirstAnyWrap(seq, ext_high) ==
    IF ~has_cached_packet THEN seq
    ELSE IF seq < extended_first_seq THEN seq ELSE extended_first_seq

\* extended_first_seq_ is lowered only while no wrap has been counted.
NextExtendedFirst(seq, ext_high) ==
    IF ~has_cached_packet THEN seq
    ELSE IF ext_high \div SeqModulus = 0 /\ seq < extended_first_seq
         THEN seq ELSE extended_first_seq

\* Mutant: every packet is put at the old end of the list.
MutInsertOrdered(c, rec) == IF c = <<>> THEN <<rec>> ELSE Append(c, rec)

\* Mutant: the branch for a packet older than every entry is dropped, so
\* the packet finds no entry it comes after and is not inserted.
MutInsertOrderedNoTail(c, rec) ==
    IF c = <<>> THEN <<rec>>
    ELSE LET i == SelectInSeq(c, LAMBDA p : p.seq = rec.seq
                                            \/ IsSeqAfter(p.seq, rec.seq))
         IN  IF i = 0 \/ c[i].seq = rec.seq THEN c ELSE InsertAt(c, i, rec)

\* Ordered insert into the newest-first list: behind the oldest entry, or
\* in front of the first entry the packet comes after; a duplicate (or a
\* packet no entry compares with) is not inserted.
InsertOrdered(c, rec) ==
    IF c = <<>> THEN <<rec>>
    ELSE IF IsSeqAfter(rec.seq, c[Len(c)].seq) THEN Append(c, rec)
    ELSE LET i == SelectInSeq(c, LAMBDA p : p.seq = rec.seq
                                            \/ IsSeqAfter(p.seq, rec.seq))
         IN  IF i = 0 \/ c[i].seq = rec.seq THEN c ELSE InsertAt(c, i, rec)

\* Mutant: the record of the arriving packet is kept.
MutEraseLoss(loss, seq) == loss

\* The loss record of the arriving packet, if any, is erased.
EraseLoss(loss, seq) == [s \in DOMAIN loss \ {seq} |-> loss[s]]

(* SupplementLossSeqs                                                      *)

\* Mutant: each gap loop starts one seq too late.
MutLossRange(last, this) ==
    IF this < last
    THEN (this + 2)..(last - 1)
    ELSE (1..((last - 1) % SeqModulus)) \cup ((this + 2)..MaxSeq)

\* The seqs func_get_loss_seqs(last_seq, this_seq) enumerates, with the
\* uint16_t loops as written: "loss_seq > 0" stops before 0, and
\* "last_seq - 1" is 0xFFFF when last_seq is 0.
LossRange(last, this) ==
    IF this < last
    THEN (this + 1)..(last - 1)
    ELSE (1..((last - 1) % SeqModulus)) \cup ((this + 1)..MaxSeq)

\* Gaps between neighbouring cached packets, and between the oldest cached
\* packet and the last one called back.
GapSeqs(c) ==
    UNION {LossRange(c[i].seq, c[i + 1].seq) :
              i \in {j \in 1..(Len(c) - 1) : ~IsNextSeq(c[j + 1].seq, c[j].seq)}}
    \cup (IF has_callback_packet
             /\ ~IsNextSeq(latest_callback_seq, c[Len(c)].seq)
          THEN LossRange(c[Len(c)].seq, latest_callback_seq) ELSE {})

\* New loss records start un-notified; then every record not after the
\* callback cursor is erased.
SupplementLossSeqs(c, loss) ==
    LET added == GapSeqs(c) \ DOMAIN loss
        all == [s \in DOMAIN loss \cup added |->
                   IF s \in added THEN [notified |-> FALSE, last_notify |-> 0]
                                  ELSE loss[s]]
        kept == {s \in DOMAIN all :
                   ~has_callback_packet \/ IsSeqBefore(latest_callback_seq, s)}
    IN  [s \in kept |-> all[s]]

(* GetLossPacketSeqsForNack                                                *)

\* A record is reported when never notified, or kNackIntervalMs after the
\* last notification.
NackDue(loss) ==
    {s \in DOMAIN loss :
        ~loss[s].notified \/ loss[s].last_notify + NackInterval <= now}

(* GetPackets                                                              *)

\* Number of entries at the old end of c that continue the called-back
\* run without a gap.
RECURSIVE ReadyCount(_, _, _)
ReadyCount(c, s, n) ==
    IF n < Len(c) /\ IsNextSeq(s, c[Len(c) - n].seq)
    THEN ReadyCount(c, c[Len(c) - n].seq, n + 1)
    ELSE n

\* Index of the newest entry released: the first entry, scanning from the
\* newest, that is the top of the ready run or whose timeout has passed;
\* every entry from there to the old end is released.  0: none.
ReleaseIndex(c) ==
    LET nb == IF has_callback_packet
              THEN ReadyCount(c, latest_callback_seq, 0) ELSE 0
        ready_top == IF nb > 0 THEN Len(c) - nb + 1 ELSE 0
        timed_out == SelectInSeq(c, LAMBDA p : p.timeout <= now)
        found == {k \in {ready_top, timed_out} : k > 0}
    IN  IF found = {} THEN 0 ELSE Min(found)

-----------------------------------------------------------------------------
(* RtpReceiver::OnRtpPacket for the packet with ghost number e: the whole  *)
(* handler, in the code's order.  The SSRC and payload-type checks always  *)
(* pass for the stream modelled here; the jitter estimate is not modelled.*)

OnRtpPacket(e) ==
    LET seq == SeqNum(e)
        acc == Accepted(seq)
        \* PutPacket
        ext_high == IF acc THEN NextExtendedHighest(seq) ELSE extended_highest_seq
        ext_first == IF acc THEN NextExtendedFirst(seq, ext_high)
                     ELSE extended_first_seq
        c1 == IF acc THEN InsertOrdered(cached_packets,
                              [seq |-> seq, timeout |-> now + MaxCacheDuration,
                               ext |-> e])
              ELSE cached_packets
        loss1 == IF acc THEN SupplementLossSeqs(c1, EraseLoss(loss_seqs, seq))
                 ELSE loss_seqs
        \* GetLossPacketSeqsForNack
        due == NackDue(loss1)
        loss2 == [s \in DOMAIN loss1 |->
                    IF s \in due THEN [notified |-> TRUE, last_notify |-> now]
                                 ELSE loss1[s]]
        \* GetPackets
        k == ReleaseIndex(c1)
        out == IF k = 0 THEN <<>> ELSE Reverse(SubSeq(c1, k, Len(c1)))
    IN  /\ cached_packets' = IF k = 0 THEN c1 ELSE SubSeq(c1, 1, k - 1)
        /\ loss_seqs' = loss2
        /\ latest_callback_seq' = IF k = 0 THEN latest_callback_seq ELSE c1[k].seq
        /\ has_callback_packet' = (has_callback_packet \/ k # 0)
        /\ extended_highest_seq' = ext_high
        /\ extended_first_seq' = ext_first
        /\ has_cached_packet' = (has_cached_packet \/ acc)
        /\ has_received' = TRUE
        /\ nb_received_real' = nb_received_real + 1
        \* NotifyLossPacketSeqsForNack -> RtcpSender::SendNack (non-empty)
        /\ nack_sent' = due
        /\ received' = IF acc THEN received \cup {e} ELSE received
        /\ first_ext' = IF first_ext = -1 /\ acc THEN e ELSE first_ext
        /\ delivered' = delivered \o [i \in 1..Len(out) |-> out[i].ext]

(* Environment                                                             *)

\* The remote RtpSender sends its next packet; the network holds at most
\* ReorderWindow consecutive packets at once.
Send ==
    /\ sent < MaxPackets
    /\ \A f \in in_flight : sent - f < ReorderWindow
    /\ sent' = sent + 1
    /\ in_flight' = in_flight \cup {sent}
    /\ UNCHANGED <<cache_vars, has_received, nb_received_real, nack_sent, now,
                   duplicates, received, first_ext, delivered>>

\* The network delivers a packet in any order, possibly keeping a copy.
Deliver ==
    \E e \in in_flight, keep \in BOOLEAN :
        /\ keep => duplicates < MaxDuplicates
        /\ OnRtpPacket(e)
        /\ in_flight' = IF keep THEN in_flight ELSE in_flight \ {e}
        /\ duplicates' = IF keep THEN duplicates + 1 ELSE duplicates
        /\ UNCHANGED <<now, sent>>

\* The network drops a packet.
Lose ==
    \E e \in in_flight :
        /\ in_flight' = in_flight \ {e}
        /\ UNCHANGED <<cache_vars, has_received, nb_received_real, nack_sent,
                       now, sent, duplicates, received, first_ext, delivered>>

\* Time passes.
Tick ==
    /\ now < MaxTime
    /\ now' = now + 1
    /\ UNCHANGED <<cache_vars, has_received, nb_received_real, nack_sent,
                   sent, in_flight, duplicates, received, first_ext, delivered>>

Init ==
    /\ cached_packets = <<>>
    /\ loss_seqs = [s \in {} |-> [notified |-> FALSE, last_notify |-> 0]]
    /\ latest_callback_seq = 0
    /\ has_callback_packet = FALSE
    /\ extended_highest_seq = 0
    /\ extended_first_seq = 0
    /\ has_cached_packet = FALSE
    /\ has_received = FALSE
    /\ nb_received_real = 0
    /\ nack_sent = {}
    /\ now = 0
    /\ sent = 0
    /\ in_flight = {}
    /\ duplicates = 0
    /\ received = {}
    /\ first_ext = -1
    /\ delivered = <<>>

Next == Send \/ Deliver \/ Lose \/ Tick

Spec == Init /\ [][Next]_vars

\* Time advances (a timer would then fire); nothing forces more packets.
FairSpec == Spec /\ WF_vars(Tick)

-----------------------------------------------------------------------------
(* Properties                                                              *)

CachedExts == {cached_packets[i].ext : i \in DOMAIN cached_packets}
CursorExt == IF delivered = <<>> THEN -1 ELSE delivered[Len(delivered)]

TypeOK ==
    /\ cached_packets \in Seq([seq : Seqs, timeout : 0..(MaxTime + MaxCacheDuration),
                               ext : Exts])
    /\ DOMAIN loss_seqs \subseteq Seqs
    /\ \A s \in DOMAIN loss_seqs :
           loss_seqs[s] \in [notified : BOOLEAN, last_notify : 0..MaxTime]
    /\ latest_callback_seq \in Seqs
    /\ has_callback_packet \in BOOLEAN
    /\ extended_highest_seq \in Nat
    /\ extended_first_seq \in Seqs
    /\ has_cached_packet \in BOOLEAN
    /\ nack_sent \subseteq Seqs
    /\ sent \in 0..MaxPackets
    /\ in_flight \subseteq 0..(sent - 1)
    /\ received \subseteq 0..(sent - 1)
    /\ delivered \in Seq(Exts)

\* The application gets the stream in sending order without repeats: the
\* packets handed to OnRtpPacket callbacks, across all calls, are strictly
\* increasing.  Rests on PutPacket's cursor check, the ordered insert and
\* GetPackets releasing a suffix of the list, all through wrap arithmetic.
InOrderDelivery ==
    \A i \in 1..(Len(delivered) - 1) : delivered[i] < delivered[i + 1]

\* The cache list is newest-first, and everything in it is newer than the
\* last packet called back (PutPacket insert + GetPackets release).
CacheSortedAboveCursor ==
    /\ \A i \in 1..(Len(cached_packets) - 1) :
           cached_packets[i].ext > cached_packets[i + 1].ext
    /\ \A e \in CachedExts : e > CursorExt

\* extended_highest_seq_ counts wraps correctly: it is the seq of the
\* newest packet put, extended from the wrap count of the first one.  It
\* feeds the RTCP report block (extended highest sequence number).
ExtendedHighestTracksNewest ==
    has_cached_packet =>
        extended_highest_seq =
            (StartSeq + Max(received)) - SeqModulus * ((StartSeq + first_ext) \div SeqModulus)

\* Every seq in the NACK an OnRtpPacket call produces names a packet the
\* remote sender did send and PutPacket never accepted: no NACK asks for a
\* packet the receiver holds or has handed on, or for one never sent.
NackedPacket(s) ==
    {e \in 0..(sent - 1) : SeqNum(e) = s /\ e \notin received'}

NackOnlyForUnreceived ==
    [][nb_received_real' # nb_received_real =>
       \A s \in nack_sent' : NackedPacket(s) # {}]_vars

\* spec.md, loss record: a record leaves "when the packet arrives, is
\* released older than the output cursor".  So a NACK only names packets
\* still ahead of the callback cursor as the call found it, which the
\* receiver would accept if retransmitted.
NackOnlyAheadOfCursor ==
    [][nb_received_real' # nb_received_real =>
       \A s \in nack_sent' : \E e \in NackedPacket(s) : e > CursorExt]_vars

\* Every packet missing between two packets the receiver knows of (cached
\* packets and the last one called back) has a loss record, so it will be
\* NACKed.  Before the first callback nothing bounds the stream from below.
KnownExts == CachedExts \cup (IF delivered = <<>> THEN {} ELSE {CursorExt})

GapsAreRecorded ==
    \A e \in 0..(sent - 1) :
        (/\ e \notin received
         /\ \E lo, hi \in KnownExts : lo < e /\ e < hi)
        => SeqNum(e) \in DOMAIN loss_seqs

\* RtpReceiver::OnRtpPacket's statistics: expected = highest - first,
\* cumulative loss = expected - received, clamped at 0.
CumulativeLoss ==
    LET cumulative_loss == extended_highest_seq - extended_first_seq
                               - nb_received_real
    IN  IF cumulative_loss > 0 THEN cumulative_loss ELSE 0

\* The cumulative loss OnRtpPacket reports (and the report block carries)
\* never exceeds the packets really missing between the oldest and the
\* newest packet PutPacket accepted, however packets were duplicated,
\* reordered or wrapped: expected counts from extended_first_seq_, which
\* must stay a seq of the stream's first wrap, and every call counts as
\* received.  (It reports one less than RFC 3550 A.3 when a packet is
\* missing, as expected = highest - first lacks the + 1.)
LossNeverOverReported ==
    has_cached_packet =>
        CumulativeLoss <= Max(received) - Min(received) + 1 - Cardinality(received)

\* The receiver implements ReceiverService: a packet is kept exactly when
\* it is newer than the last one called back, callbacks run only inside
\* OnRtpPacket, and each GetPackets hands over, in order, every kept
\* packet up to the one it stops at: the ordered insert, the release of
\* the old end of the list and the cursor check together never skip or
\* reorder a packet PutPacket accepted, lost neighbours or not.
Service == INSTANCE ReceiverService WITH arrived <- received, out <- delivered

ImplementsReceiverService == Service!SvcSpec

\* A packet put in the cache is eventually handed to the application, once
\* its max_cache_duration_ms has passed, whether or not more packets come.
CachedEventuallyDelivered ==
    \A e \in Exts : (e \in CachedExts) ~> (\E i \in DOMAIN delivered : delivered[i] = e)
=============================================================================
