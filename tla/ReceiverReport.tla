--------------------------- MODULE ReceiverReport ---------------------------
(***************************************************************************)
(* The report block of RtcpSender::SendRtcp (src/src/rtp_rtcp/            *)
(* rtcp_sender.cc) composed with the receiver of RtpReceiverCache: the     *)
(* statistics OnRtpPacket writes, MediaSession::GetRemoteSenderInfo and    *)
(* RtpReceiver::GetRtpReceiverStatistics that read them, and the two paths *)
(* into SendRtcp on the receiving side:                                    *)
(*   - the NACK path, synchronously inside OnRtpPacket                     *)
(*     (NotifyLossPacketSeqsForNack -> RtcpSender::SendNack);              *)
(*   - the timer path, ScheduleSendRtcp.                                   *)
(* Both paths and OnRtpPacket (posted by RtpRtcpRouter::OnRtp) run on the *)
(* worker thread, so each is one atomic step and a report reads the       *)
(* statistics as the last OnRtpPacket left them.  The SR/RR choice, SDES, *)
(* LSR/DLSR and jitter are data the properties do not tell apart.         *)
(***************************************************************************)
EXTENDS RtpReceiverCache

CONSTANTS
    ReportInterval      \* rtcp_report_interval_ms, in ticks

ASSUME ReportInterval \in Nat \ {0}

VARIABLES
    has_sent_rtcp,                   \* RtcpSender::has_sent_rtcp_
    last_report_remote_sender_info,  \* [cum, ext] of the last report block
    utc_ms_next_send,                \* RtcpSender::utc_ms_next_send_
    step_blocks      \* the report block the last step put on the wire, if any

report_vars == <<has_sent_rtcp, last_report_remote_sender_info,
                 utc_ms_next_send, step_blocks>>
all_vars == <<vars, report_vars>>

\* The zeroed RemoteSenderInfo the constructor leaves as the last report;
\* no block carries ext 0 while StartSeq > 0 and the seq never wraps back.
NoReport == [cum |-> 0, ext |-> 0]

NoBlock == [fraction |-> 0, cum |-> 0, ext |-> 0, loss |-> 0, expected |-> 0]

\* The RtpReceiverStatistics OnRtpPacket writes under mutex_.
Statistics == [cum |-> CumulativeLoss, ext |-> extended_highest_seq,
               first |-> extended_first_seq]

\* Mutant: extended_seq_num is copied from first_extended_seq_num.
MutGetRemoteSenderInfo(stats) ==
    [cum |-> stats.cum, ext |-> stats.first, first |-> stats.first]

\* MediaSession::GetRemoteSenderInfo: the fields of the statistics copy
\* that the report block uses.
GetRemoteSenderInfo(stats) ==
    [cum |-> stats.cum, ext |-> stats.ext, first |-> stats.first]

-----------------------------------------------------------------------------
(* RtcpSender::SendRtcp                                                    *)

\* static_cast<uint8_t>((loss << 8) / expected), 0 when expected == 0 or
\* loss <= 0.  expected is a uint32_t: a negative difference here stands
\* for a wrapped one, above 2^31, whose quotient is 0 for any loss that
\* fits the 24-bit field.
FractionLost(loss, expected) ==
    IF expected <= 0 \/ loss <= 0 THEN 0
    ELSE ((loss * 256) \div expected) % 256

\* The report block of one SendRtcp call: loss and expected since the last
\* report when any RTCP was sent before, since the first seq otherwise.
ReportBlock(rtcp_sent, last, info) ==
    LET loss == IF rtcp_sent THEN info.cum - last.cum ELSE info.cum
        expected == IF rtcp_sent THEN info.ext - last.ext
                    ELSE info.ext - info.first
    IN  [fraction |-> FractionLost(loss, expected), cum |-> info.cum,
         ext |-> info.ext, loss |-> loss, expected |-> expected]

\* The sender state after one SendRtcp call from sender state r (has_sent
\* and last report): a report block only once RTP has been received
\* (HasReceivedRtp, latched in RtcpSender and MediaSession from
\* RtpReceiver::has_received_), then has_sent_rtcp_ = true either way.
SendRtcp(r, received_rtp, stats) ==
    LET info == GetRemoteSenderInfo(stats)
    IN  IF received_rtp
        THEN [has_sent |-> TRUE, last |-> [cum |-> info.cum, ext |-> info.ext],
              block |-> ReportBlock(r.has_sent, r.last, info)]
        ELSE [r EXCEPT !.has_sent = TRUE]

\* The sender state as a record.
Sender == [has_sent |-> has_sent_rtcp, last |-> last_report_remote_sender_info,
           block |-> NoBlock]

\* The sender takes state r; the blocks in r but not in the sender's
\* current state went on the wire.
SetSender(r, blocks) ==
    /\ has_sent_rtcp' = r.has_sent
    /\ last_report_remote_sender_info' = r.last
    /\ step_blocks' = blocks

-----------------------------------------------------------------------------
(* Actions                                                                 *)

\* OnRtpPacket, with the NACK it hands to RtcpSender::SendNack: a non-empty
\* NACK is sent in a compound with a report block read after the
\* statistics write, and pushes the next timer report out a full interval.
\* No BYE is sent or received on this stream.
DeliverWithReport ==
    /\ Deliver
    /\ IF nack_sent' # {}
       THEN LET nack == SendRtcp(Sender, TRUE, Statistics')
            IN  /\ SetSender(nack, <<nack.block>>)
                /\ utc_ms_next_send' = now + ReportInterval
       ELSE /\ SetSender(Sender, <<>>)
            /\ UNCHANGED utc_ms_next_send

\* ScheduleSendRtcp once utc_ms_next_send_ has passed, run by the worker
\* between two OnRtpPacket calls: SendRtcp(nullptr), then the next send is an interval
\* away.  Before the first packet has_received_ is false and no block is
\* built.
ScheduleSendRtcp ==
    /\ now >= utc_ms_next_send
    /\ LET r == SendRtcp(Sender, has_received, Statistics)
       IN  SetSender(r, IF has_received THEN <<r.block>> ELSE <<>>)
    /\ utc_ms_next_send' = now + ReportInterval
    /\ UNCHANGED vars

\* Time passes.
TickReport ==
    /\ Tick
    /\ step_blocks' = <<>>
    /\ UNCHANGED <<has_sent_rtcp, last_report_remote_sender_info,
                   utc_ms_next_send>>

\* The remote sender and the network.
Network ==
    /\ Send \/ Lose
    /\ step_blocks' = <<>>
    /\ UNCHANGED <<has_sent_rtcp, last_report_remote_sender_info,
                   utc_ms_next_send>>

ReportInit ==
    /\ Init
    /\ has_sent_rtcp = FALSE
    /\ last_report_remote_sender_info = NoReport
    /\ utc_ms_next_send = 0
    /\ step_blocks = <<>>

ReportNext == DeliverWithReport \/ ScheduleSendRtcp \/ TickReport \/ Network

ReportSpec == ReportInit /\ [][ReportNext]_all_vars

-----------------------------------------------------------------------------
(* Properties                                                              *)

\* The report blocks on the wire never carry a lower extended highest seq
\* than the block before, whether the NACK path inside OnRtpPacket or the
\* timer path sent them, and however late, duplicated or reordered packets
\* moved extended_first_seq_: the peer takes it as the newest seq.
ReportedHighestNeverDecreases ==
    [][\A i \in DOMAIN step_blocks' :
          last_report_remote_sender_info.ext <= step_blocks'[i].ext]_all_vars

\* The fraction lost of a report block is below one: the loss since the
\* last report is less than the packets expected since it (spec 4.7:
\* fixed-point 0..1).  A late packet older than the first one lowers
\* extended_first_seq_, raising the cumulative loss but not the highest
\* seq, and the uint8_t cast wraps (loss << 8) / expected past 255.
FractionLostBelowOne ==
    \A i \in 1..Len(step_blocks) :
        step_blocks[i].loss <= 0 \/ step_blocks[i].loss < step_blocks[i].expected

\* The first report block counts expected packets from the first extended
\* seq (spec 4.7, "or first_extended on first report").  SendRtcp tests
\* has_sent_rtcp_, which any earlier RTCP sets, and then subtracts the
\* zeroed last_report_remote_sender_info.
FirstBlockFromFirstSeq ==
    [][last_report_remote_sender_info = NoReport /\ Len(step_blocks') > 0 =>
          step_blocks'[1].expected = step_blocks'[1].ext - extended_first_seq']_all_vars
=============================================================================
