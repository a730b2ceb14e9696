# TLA+ models of QoSRTP

This directory holds TLA+ models of the QoSRTP session engine in `src/src`
(RTP/RTCP over one UDP flow, with RTX retransmission and ULP-FEC), the TLC
configurations that check them, and `PROJECT.json`, which records the
components, the runs, the mutants, the source lines behind every definition,
the findings and the hazards.

## The system and its parts

| Part | Source | State that changes | Operations |
|------|--------|--------------------|------------|
| C1 sequence arithmetic | `utils/seq_comparison.h` | none | `IsSeqAfterInRange`, `IsNextSeq`, `IsSeqAfter`, `DiffSeq` |
| C5 RTP sender + RTX | `rtp_rtcp/rtp_sender.cc` | RTX cache (vector of packets), `last_seq_`, `has_sent_`, `rtx_context`, counters | `SendRtp`, `PutPacket` (window trim), `SendRtx`, `ConstructRtx` |
| C6 RTP receiver cache | `rtp_rtcp/rtp_receiver.cc` | newest-first list of cached packets, ordered loss records, callback cursor, extended first/highest seq, counters | `OnRtpPacket` = `PutPacket` → statistics → `GetLossPacketSeqsForNack` → NACK → `GetPackets` → callback |
| C7 RTCP endpoint | `rtp_rtcp/rtcp_sender.cc`, `rtcp_receiver.cc` | next-send time, BYE flags, last report info, last SR | `ScheduleSendRtcp`, `SendNack`, `SendBye`, `SendRtcp`, `OnRtcpPacket` |
| C8 media session | `session/media_session.cc` | BYE-received flag, sent/received flags | thread hops and direction checks between C5–C7 |
| C9 router/demuxer | `rtp_rtcp/rtp_rtcp_router.cc`, `rtp_rtcp_demuxer.cc` | destination lists | classify datagram, dispatch by SSRC |
| C10 transceiver | `rtp_rtcp/rtp_rtcp_tranceiver_impl.cc`, `network/*` | socket, event handlers | `SendRtp`/`SendRtcp` hop to the network thread, receive loop |
| C11 worker runtime | `utils/thread.cc` | task queue, delayed-task list, `runing_`, `should_stop_` | `Start`, `Stop`, `PushTask`, `PushTask(delay)`, `ThreadMain` |
| C4 ULP-FEC decoder | `rtp_rtcp/ulp_fec.cc` (`UlpFecDecoder`) | seq-ordered cache of media and FEC packets, per FEC packet the protected seqs seen, pointers to them and `invalid_fec`; `has_output_`, `seq_last_output_` | `Decode` = `CachePackets` → `RcoverPackets` → two output loops; `Flush` |
| C4 ULP-FEC encoder | `rtp_rtcp/ulp_fec.cc` (`UlpFecEncoder`), `ulp_fec.h` | the member buffer `fec_packet_mask_` (kept across calls) | `Encode` = `memset` → `GeneratePacketMasks` (tables, interleaving, unequal protection) → `GenerateFecPackets` → `BuildFecPacket` |
| C3 RTCP codec | `common_header.cc`, `sender_report.cc`, `receiver_report.cc`, `bye.cc`, `nack.cc`, `rtcp_packet.h` | none across calls | `LoadPacket`/`BlockLength` per block, compound assembly in the transceiver, `RtcpReceiver::Parse` with each `StorePacket`, NACK `Pack`/`Unpack` |
| C2 RTP codec | `rtp_packet_impl.cc`, `rtp_packet.cc` | none across calls | `StorePacket` from bytes and from fields, `LoadPacket`, the copy `RtpPacket::Create(other)`; the RTX rewrites `ConstructRtx` and `ReconstructRtpFromRtx` |

How they interact. A sender application calls `MediaSession::SendRtpPacket`.
It hops to the signaling thread, where `RtpSender::SendRtp` checks seq
continuity, caches a copy for RTX and hands the packet to the transceiver,
which hops to the network thread. On the far side, the demuxer and router
pass RTP to `RtpReceiver::OnRtpPacket` on the worker thread. That call may
produce a NACK through `MediaSession::NotifyLossPacketSeqsForNack` and
`RtcpSender::SendNack`. The NACK crosses the network to the sender's
`RtcpReceiver`, whose callback `MediaSession::NotifyNackReceived` calls
`RtpSender::SendRtx`. The RTX packet comes back to `OnRtpPacket`, which
rebuilds the original packet (`ReconstructRtpFromRtx`). `RtcpSender`
schedules itself on the worker thread through delayed tasks of `Thread`.

The hard behaviours are:
- the network: loss, duplication and reordering;
- 16-bit wrap-around of sequence numbers;
- time: cache timeouts, the 50 ms NACK interval, the RTCP interval and delayed tasks;
- interleaving of the signaling, worker and network threads around the locks;
- the BYE handshake.
- object lifetimes across the threads: which tasks may still be queued or
  running when `StartSession` fails or the destructor runs.

## Modules

| Module | Models | Kind |
|--------|--------|------|
| `SeqArith` | `seq_comparison.h`: every operator, with the width a constant `SeqModulus` (2^16 in the code) | pure operators, used by every other module and checked through them |
| `UlpFecEncoder` | `UlpFecEncoder::Encode` and every mask helper it calls, with `fec_packet_mask_` as a byte array of its real size | state machine (one action) |
| `MCUlpFecEncoder` | small stand-in mask tables and the input set; constants in `MCUlpFecEncoder*.cfg` | MC |
| `RtpReceiverCache` | `RtpReceiver::OnRtpPacket` and `RtpReceiverPacketCache` against a lossy network | state machine |
| `ReceiverService` | what the receiver promises the application, with packets named by sending order: a packet is kept exactly when it is newer than the last one handed over, and hand-over, only while a packet arrives, gives every kept packet up to a cut, in order | abstract specification, refined by `RtpReceiverCache` |
| `MCRtpReceiverCache` | instance for TLC; the constants are given in the `MCRtpReceiverCache_*.cfg` files | MC |
| `ReceiverReport` | `RtpReceiverCache` extended with the receiving side of `RtcpSender::SendRtcp`'s report block: the statistics `OnRtpPacket` writes, `GetRtpReceiverStatistics` and `MediaSession::GetRemoteSenderInfo` that read them, the NACK-triggered and timer reports | composition |
| `MCReceiverReport` | instance for TLC; the receiver_order run uses it with `MCRtpReceiverCache_order.cfg` | MC |
| `RtpSender` | `RtpSender::SendRtp`, `SendRtx`, `ConstructRtx` and `RtpSenderPacketCache` | state machine (actions as operators, composed elsewhere) |
| `MCRtpSender` | drives `RtpSender` with any seq the application may hand in and any NACK | MC |
| `RtxLoop` | the recovery loop: `RtpSender` and `RtpReceiverCache` by `INSTANCE`, a lossy delay-bounded network for RTP, NACK and RTX, `ReconstructRtpFromRtx` and the `MediaSession` glue | composition |
| `RtcpCodec` | the RTCP blocks `RtcpSender::SendRtcp` builds, their `LoadPacket` headers and lengths, the transceiver's compound, and `RtcpReceiver::Parse` with `CommonHeader::StorePacket`, each block's `StorePacket` and the NACK `Pack`/`Unpack` | pure operators, used by `RtxLoop` and `SessionRuntime` |
| `RtpPacketCodec` | the RTP packet codec: `LoadPacket`, `StorePacket` from bytes and from fields, `RtpPacket::Create(other)`, and the RTX rewrites `ConstructRtx` and `ReconstructRtpFromRtx`, on byte sequences | pure operators, used by `RtxLoop` |
| `MCRtxLoop` | instance for TLC; constants in `MCRtxLoop*.cfg` | MC |
| `Thread` | `qosrtp::Thread` (`Start`, `Stop`, both `PushTask`s, `ThreadMain`) and `NetworkIoScheduler`'s `Wait`/`WaitUp`, as operators on one thread's record | operators, composed elsewhere |
| `SessionConfig` | the configuration classes (`TransportAddress::Create`, `RtxConfigImpl`, `MediaSessionConfigImpl::Configure` with `AreAnySsrcsEqual`, `QosrtpSessionConfigImpl`), the checks `StartSession` makes on them (`InitTranceiver`, `RtpSender`/`RtpReceiver::Initialize`), and spec.md section 6's rules as a reference | pure operators, used by `SessionRuntime` |
| `SessionRuntime` | one session from `StartSession` to the destructor: its configuration built with `SessionConfig`, worker and network threads, socket (whose bind may fail), demuxer, router, `RtcpSender`/`RtcpReceiver`, `MediaSession::Initialize` and its failure paths | composition |
| `MCSessionRuntime` | the datagrams the peer may send, the application's configuration and the argument spaces `SpecConfigsStart` ranges over; constants in `MCSessionRuntime*.cfg` | MC |
| `UlpFecDecoder` | `UlpFecDecoder`: `CachePackets`, `RcoverPackets`, `FecRecoverPacket`, `Decode`, `Flush`, fed by `RtpReceiver`'s in-order callbacks | state machine |
| `MCUlpFecDecoder` | two FEC groups as the stream; constants in `MCUlpFecDecoder*.cfg` | MC |

### RtpReceiverCache

State. The variables correspond one to one to members of the code:
- `cached_packets` is `cached_packets_`, a sequence with index 1 at the
  front (newest). Each entry is `[seq, timeout, ext]`. `ext` is a ghost: the
  packet's number in sending order, which the code never sees.
- `loss_seqs` is `loss_seqs_`, a function from seq to
  `[notified, last_notify]`. The code keeps the records ordered; the model
  keeps them as a set keyed by seq, which is what the duplicate check
  achieves as long as the order holds.
- `latest_callback_seq`, `has_callback_packet`, `extended_highest_seq`,
  `extended_first_seq`, `has_cached_packet`, `has_received` and
  `nb_received_real` are the members of the same names.
- `nack_sent` is the seq list the call handed to `RtcpSender::SendNack`.
  An empty list is ignored there.

Actions.
- `Deliver` is the network handing over one packet: optionally it keeps a
  copy, a duplication. The rest of the step is `OnRtpPacket(e)`: the whole
  handler, in the code's order. That is `PutPacket` (`Accepted`,
  `NextExtendedHighest`, `NextExtendedFirst`, `InsertOrdered`, `EraseLoss`,
  `SupplementLossSeqs`), the statistics (`CumulativeLoss`),
  `GetLossPacketSeqsForNack` (`NackDue`) and `GetPackets` (`ReadyCount`,
  `ReleaseIndex`).
- `Send`, `Lose` and `Tick` are the environment: the remote sender, the
  network and the clock.

The SSRC and payload-type checks always pass for the one stream modelled.
The interarrival jitter, and the `cumulative_packets_Loss_` member it never
reads, are data the properties do not tell apart, so they are left out.

What is abstracted.
- A packet is its sequence number: the payload is never read.
- One `OnRtpPacket` call is one atomic step. It runs on the worker thread
  (`RtpRtcpRouter::OnRtp` posts it there). `GetRtpReceiverStatistics`
  copies the statistics without `mutex_`, but its only caller,
  `SendRtcp` through `MediaSession::GetRemoteSenderInfo`, runs on the
  worker too (`ScheduleSendRtcp` and `SendNack`; `SendBye` has no
  caller), so the copy never overlaps the write.
- Time is a tick counter. `MaxCacheDuration` and `NackInterval` are in
  ticks.

Refinement. `ReceiverService` is the receiver with the cache, the loss
records and the sequence-number arithmetic taken away. Its state is
`sent`, `arrived` (the packets kept) and `out` (the packets handed over).
`Arrive` keeps a packet exactly when it is newer than the last one handed
over. It then hands over, in order, every kept packet after that one up
to some cut, possibly none. `RtpReceiverCache` maps onto it with
`arrived <- received` and `out <- delivered`, and `sent` as itself:
`Deliver` is an `Arrive` step, `Send` is a `SendPacket` step, and `Lose`
and `Tick` are stuttering steps. `ImplementsReceiverService` checks this
in the receiver_loss run. It is stronger than `InOrderDelivery`. A kept
packet is never skipped: if the ordered insert dropped a packet older than
every cached entry (mutant `MutInsertOrderedNoTail`), delivery would still
be increasing, but the refinement fails. And nothing is handed over
except on an arrival, which is why the timed release has to wait for the
next packet (see `CachedEventuallyDelivered` below).

### ReceiverReport

`ReceiverReport` extends `RtpReceiverCache` with the report block that
`RtcpSender::SendRtcp` builds from the receiver's statistics
(`rtcp_sender.cc` 142-223).

State. Two variables are members of `RtcpSender`:
- `has_sent_rtcp` is `has_sent_rtcp_`;
- `utc_ms_next_send` is `utc_ms_next_send_`.

`last_report_remote_sender_info` is the member of that name, reduced to its
cumulative loss and extended highest seq. `step_blocks` is a ghost: the
report blocks one step put on the wire.

Operators.
- `Statistics` is what `OnRtpPacket` writes under `mutex_`.
- `GetRemoteSenderInfo` copies the fields the block uses.
- `ReportBlock` and `FractionLost` are lines 154-183. The block counts since
  the last report once `has_sent_rtcp_` is set, else since the first
  seq. `static_cast<uint8_t>` is `% 256`.

Actions.
- `DeliverWithReport` is `Deliver` (the whole `OnRtpPacket`), followed by the
  NACK's `SendRtcp` when the NACK is non-empty. `SendNack` runs inside the
  same call, after the statistics write, and pushes `utc_ms_next_send_` out
  by one interval.
- `ScheduleSendRtcp` is a timer report, run by the worker between two
  packets. Before the
  first packet, `has_received_` is false: the RTCP carries no block, but it
  still sets `has_sent_rtcp_`.
- `TickReport` and `Network` are the receiver's `Tick`, `Send` and `Lose`.

What is abstracted.
- The SR/RR choice, SDES, jitter, LSR and DLSR are not modelled.
- The three `HasReceivedRtp` latches (`RtcpSender`, `MediaSession`,
  `RtpReceiver::has_received_`) are the receiver's `has_received`. All three
  are monotone, and each is re-read until it is true.
- `ReportInterval` is in ticks of 50 ms.
- No BYE is modelled on this stream; `SessionRuntime` covers the BYE.

### RtpSender

State: `rtx_cache` is the cache's vector of packets (oldest first), as
seqs; `last_seq`, `has_sent`, `rtx_has_sent` and `rtx_last_seq` are
`last_seq_`, `has_sent_` and `rtx_context`. Each of `SendRtp` and `SendRtx`
holds `mutex_` for its whole body, so each is one step.
- `SendRtp(seq, rtx_mapped)`: the continuity early return (`Continues`),
  then `PutPacket` when the payload type has an RTX mapping, then
  `last_seq_`. The ssrc and payload-type checks pass for the configured
  stream. The packet and octet counters only feed the sender report.
- `SendRtx(seqs, start)`: the empty-list early return, `GetPackets`
  (`CacheLookup`), and one `ConstructRtx` per packet found: the RTX seq
  (`RtxSeqs`, from the random `start` the first time, wrapping at `MaxSeq`)
  and the big-endian seq prefix of the payload (`RtxPayloadHead`).
  `RtxOut` is what is handed to the transceiver.
The random first RTX seq is a constant set `RtxStartSeqs` (in
`MCRtpSender`, any seq).

### RtxLoop

One step per handler: the application sends (`SendPacket`, through
`MediaSession::SendRtpPacket`), the receiver handles a media packet
(`DeliverRtp`) or an RTX packet (`DeliverRtx`, after
`ReconstructRtpFromRtx`), and any NACK the handler produced is put on the
network (`ReceiverHandles`, for `NotifyLossPacketSeqsForNack` and
`RtcpSender::SendNack`); a NACK reaching the sender runs `SendRtx`
(`DeliverNack`, for `RtcpReceiver::ParseNacks` and
`MediaSession::NotifyNackReceived`). The network may reorder and, within
`MaxRtpLoss`/`MaxCtlLoss`, lose any packet. Two environment assumptions
stand for what a deployment tunes the configuration against: a packet is
delivered or lost within `MaxDelay` ticks (time cannot pass otherwise), and
the application sends at most one packet per tick. A NACK is the compound
the receiver's `RtcpSender` builds for its list, oldest loss first as
`GetLossPacketSeqsForNack` walks the newest-first loss records backwards
(`NackList`, `NackCompound`). The sender parses it with `RtcpCodec`
(`ParsedNack`) before `SendRtx`. The RTCP scheduling and BYE checks around
`SendNack` are the subject of `SessionRuntime`.

Media and RTX packets travel as bytes. `SendPacket` puts on the network
the bytes `LoadPacket` writes for the application's packet (`AppPacket`,
`MediaWire`); `DeliverNack` puts there the bytes of the RTX packet
`ConstructRtx` builds from the cached copy (`RtxWire`). `DeliverRtp` and
`DeliverRtx` parse them as the demuxer does (`RtpReceived`), and for RTX
rebuild the original (`RtxReceived`); a packet that does not parse or
rebuild is dropped, as the code logs and returns. The application's
packets are those the programs under `test/` send: no csrcs, no header
extension, no padding, and a payload.

### RtcpCodec

Pure operators. A block is what `LoadPacket` writes: the common header,
with the length in words from `BlockLength` (`Block`), and the fields the
parser reads back. These are the sender ssrc, the media ssrc, the items
(report-block sources, SDES chunks, or NACK `[first_pid, bitmask]`) and a
BYE's reason length. The bytes are abstracted; lengths, counts, pids and
bitmasks keep their uint16 values.
- `Pack`/`PackItem`/`PackShift` is `Nack::Pack`. `Unpack`/`UnpackBits`
  is `Nack::Unpack`, using the bitwise or of the community `Bitwise`
  module.
- `BuildCompound` is the block list `RtcpSender::SendRtcp` assembles. It
  holds SR or RR, with a report block once RTP was received, then SDES,
  then BYE or NACK. `Serialize` is the transceiver's assembly, which
  drops the compound when a `LoadPacket` fails.
- `Parse` is `RtcpReceiver::Parse`. It takes one block after another,
  checks the header against the bytes left (`HeaderFits`), and runs the
  block's handler (`Handle`: each `Parse*` method with its `StorePacket`
  and ssrc check). A header that does not fit ends the parse, and the
  effects of the earlier blocks stand.

Two parts are not modelled:
- `Sdes` has no implementation in the source tree, so its chunk size is
  taken from spec 4.3.
- `CreateHeader` never sets the P bit, so the padding branch of
  `CommonHeader::StorePacket` is not modelled (see the note on it below).

### RtpPacketCodec

Pure operators on byte sequences (values 0..255). A packet is the members
of `RtpPacketImpl`; `<<>>` stands for a `nullptr` extension or payload.
- `LoadPacket` is `RtpPacketImpl::LoadPacket`: the first octet
  (`FirstOctet`, with the code's bit values), seq (`SeqBytes`), timestamp
  and ssrc big-endian, csrcs, extension, payload, padding.
- `StoreLayout` is the checks and offsets of `StorePacket` from bytes,
  with `PadFits` the check of line 75; `StorePacket` reads the members
  back. A uint32 `length_payload` that would wrap is a negative
  `payload_len`, since TLC's integers stop at 2^31.
- `CopyPacket` is `RtpPacket::Create(other)`; `RtxPacket` is
  `ConstructRtx` and `Reconstruct` is `ReconstructRtpFromRtx`, both for
  a mapped payload type (the map lookup is the caller's).
- `CsrcsCopied` is the `uint8_t` out-parameter of `csrc()`, and
  `ReadNative` the native `uint32_t` cast of `StorePacket`, on the
  little-endian hosts the code targets.

### Thread

A thread is a record: `runing`, `should_stop`, `task_queue`,
`delayed_task_list` (records `[f, at]`, `at` being
`execution_time_utc_ms`), `wait_task` (whether one is set), and where
`ThreadMain` is (`pc`) with its locals `task_f` and `delayed_task`. For the
network thread the record also carries the scheduler's signaler event
(`wakeup`) and `wait_break_`. Each part under `mutex_` is one step.
- `Started` is `Start`; `PushTask` and `PushDelayedTask` drop the task
  unless running, queue it and call `WaitUp`, which sets the signaler event.
  The event is level-triggered, so it stays set until handled.
- `LoopTop` is the outer `while (!should_stop_)`. `Pick` is the locked
  do-loop body: the first due delayed task in list order (`FirstDue`), the
  queue head, and with neither, the breaks at lines 143 and 150, then
  `Wait` or another round for a thread without a wait task.
- `TaskDone` and `DelayedDone` finish running a task.
- `WaitEnter` and `WaitOnSignal` are `NetworkIoScheduler::Wait`: clear
  `wait_break_`, block, and when the signaler's event is returned, reset
  it and leave.
- `StopRequest`, `JoinReturns` and `StopClear` are the three parts of
  `Stop`: set `should_stop_` and `WaitUp`; `join` returns once
  `ThreadMain` has exited; the queues are emptied and the flags cleared.

### SessionConfig

Each configuration object is a record of its members. A pointer argument
is the model value `Null` or its value. A callback is `TRUE` when it is
not `nullptr`. An ip string is reduced to the family `inet_pton` finds in
it (`"v4"`, `"v6"`, `"bad"`).

The operators:
- `Configure` is `MediaSessionConfigImpl::Configure`. `ConfigureAccepts`
  is its early returns in order: callback, the sending and receiving
  parameters for the direction, `AreAnySsrcsEqual` over `ConfigSsrcs`,
  and the direction. Then come the assignments. Each RTX config is copied
  with `CopyRtx`, and `Given` keeps a member whose pointer is `Null`.
- `AreAnySsrcsEqual` keeps the code's loop bounds.
- `TranceiverAddressCheck` (with `NetworkTranceiverCreated` and
  `BuildSocketChecks`) is `InitTranceiver` up to the socket call. A
  `Null` address is dereferenced there: `"crash"`.
- `StartOutcome` is what `StartSession` makes of a whole
  `QosrtpSessionConfig`.
- `SpecAllowsMedia` and `SpecAllowsAddresses` are spec.md section 6's
  rules, written from the spec as the reference the code is compared with.

### SessionRuntime

The session's configuration is a constant: `MediaArgs` and `AddressArgs`
are what the application passes to `MediaSessionConfig::Configure` and
`TransportAddress::Create`, as `test/test_receiver/main.cc` does.
`MediaConfig` is the configured object (`SessionConfig!Configure`, assumed
accepted). `Interval` and `RemoteSsrc` are read from it.

The application thread's progress is `app`. `StartThreads` is
`StartSession` up to the transceiver. The transceiver is created only if
`InitTranceiver`'s address checks pass and the system lets the socket be
created and bound (`bind_ok`, chosen freely). Otherwise `StartSession` goes
to its `failed:` path. `bound` records the socket; nothing in the code ever
closes it. `InitRtcpSender` is the start of `MediaSession::Initialize`:
- `RtpSender::Initialize` may refuse (`RtpSenderInitOk`), and then the
  media session is dropped before anything was posted;
- otherwise `RtcpSender::Initialize` posts the first delayed
  `ScheduleSendRtcp` to the worker.

`InitReceivers` is the rest of `MediaSession::Initialize`:
- if `RtpReceiverRefuses` (a remote RTX cache of 0), the `failed:` resets;
- otherwise both receivers become router destinations (`dsts`) and
  `initialized_` is set.

`BeginDestroy` is the destructor. `StopSteps` stops the network thread,
then the worker, in three steps each. `Destroy` is `media_sessions_.clear()`
and `router_.reset()`.

The network thread:
- `WaitSignal` is the signaler branch of `Wait`.
- `WaitSocket` is the socket branch: `OnSocketEvent` drains the socket,
  `OnData` sorts the datagrams with `IsRtp`/`IsRtcp`, and `Route` posts
  the non-empty RTP and RTCP batches to the worker.

The worker runs three kinds of task (`Exec`):
- `ScheduleSendRtcp`: stops after the BYE, re-posts itself for the
  remainder (`RescheduleDelay`), or sends and re-posts one interval on;
- the router's `OnRtp`: the NACK lists (`NackLists`) of the packets whose
  ssrc a destination expects, each through `SendNack`;
- its `OnRtcp`: each RTCP buffer is parsed with `RtcpCodec!Parse`. A BYE
  from the remote ssrc (`TakesBye`) sets `peer_bye`. The peer's BYE
  datagram is the compound its `RtcpSender` would build: SR with a report
  block, SDES and BYE.

`SendRtcp` posts each compound, by number, to the network thread, whose
`SendRtcp` task puts it on the `wire`. A task whose object (`ObjectOf`) is
no longer `alive` sets `freed_use`, the model's use-after-free.

`Tick` lets time pass unless a delayed task of a live worker is due or
taken: the worker has no wait task and spins.

`RtpReceiver::OnRtpPacket` is reduced to whether a datagram reveals a loss;
`RtpReceiverCache` checks that part. `MediaSession::SendBye` is never called
in the program, so the local BYE, `RtcpSender::SendBye` and the `is_bye`
flag the transceiver drops (`rtp_rtcp_tranceiver_impl.cc:90`) are left out.
So are the signaling thread, which carries no task here, and the `Wait`
timeout. The timeout is unreachable because the network thread never has a
delayed task.

### UlpFecDecoder

State: `cached_packets` is `cached_packets_` in seq order. An entry has the
packet's `seq`, `fec` (`DecodeFecInfo` matched the FEC payload type),
`prot` (the keys of `map_protected_seq_received`), `got` (the keys whose
value is true), `members` (the `media_packets` pointers, as object ids),
`invalid` (`invalid_fec`) and `data`. `has_output` and `seq_last_output`
are the members of those names. `next_id` numbers the `CachedPacket`
objects, so that a pointer to an erased one can be told from a live one.
`fed`, `lost`, `out`, `drained`, `freed_read` and `empty_back` are history.

Data. `FecRecoverPacket` XORs headers, the length field and payloads byte
by byte. Media packet `e` is abstracted to the one-hot set `{e}`, XOR to
symmetric difference, and an FEC packet to the set of what it protects.
A recovered packet is then right exactly when its data is `{e}`. The
size checks of `FecRecoverPacket` pass for well-formed FEC packets.

Actions.
- `Receive` is one `RtpReceiver` callback: the next `k` packets of the
  stream, minus those the network lost, go to `Decode` in order. The
  receiver never calls back with an empty list.
- `Decode(batch)` is the whole call: `CachePackets` (`CacheOne`,
  `InsertOrdered`), `RcoverPackets` (`RecoverWith` per FEC packet, the key
  scan `ScanKey` in the map's numeric order, `CanRecover`,
  `FecRecoverData`), the first output loop (`Expired`, `Released`), the
  second (`Chained`), and the new `seq_last_output_`.
- `Flush` is the teardown call of the receiver program; nothing follows it.

### UlpFecEncoder

State: `fec_packet_mask` is the member array `fec_packet_mask_`, 288 bytes
(`BufSize`), indexed from 0; it is not cleared between calls beyond the
`memset` of `Encode`. `oob` records a write at or past its end, which the
model does not perform. `input` is the last call's arguments, `fec_out`
the FEC packets built (the group of media indices and the FEC header's
`sn_base`, L bit and mask), `bad_read` a read of `media_packets` past its
size, `encodes` the number of calls.

Helpers are operators on a record `[m |-> bytes, oob |-> flag]`: `Store`
is a write of several bytes, `Memcpy` and `CopyOut` the `memcpy`s.
`Mask` is `PacketMask`: for up to 12 packets the table row, otherwise the
interleaved mask, which the code builds in place in `packet_mask` and
returns a pointer to, so the buffer it reads later and the one it writes
are the same (`Mask` returns both the stored array and the copy read out).
`FitSubMask`, `ShiftFitSubMask`, `RemainingPacketProtection`,
`ImportantPacketProtection` and `UnequalProtectionMask` are the functions
of those names, byte arithmetic kept (shifts modulo 256). The seq wrap is
full width (`SeqModulus = 65536`): the start seq 65530 crosses it.

The tables. `kPacketMaskRandomTbl`/`kPacketMaskBurstyTbl` are 12 KB of
constants; `MaskTable` is a constant operator, and the MC module gives a
stand-in with the tables' shape: every row non-empty, bits only below the
group size, every packet covered (random: interleaved rows; bursty: the
interleaved row plus the next packet). The properties do not depend on
which such masks the table holds.

Action. `Encode(in)` is the whole call: the input checks, the `memset`,
`GeneratePacketMasks` (the `None` method taken as `Overlap`, as the code
does), `GenerateFecPackets` and the header of each FEC packet, which
`DecodeFecInfo` (the decoder's parser) reads back.

Bounds. Media counts 1, 6, 13, 17 and 48 reach the table path, the
interleaved path at 2-byte and at 6-byte masks, and the maximum; important
counts 0, 1, 5 and 13 and protection factors 0, 100, 255 reach every
branch of the unequal-protection code; two calls show what the second
call inherits from the first.

## Runs

| Run | Cfg | Expect | What it shows |
|-----|-----|--------|---------------|
| receiver_order | `MCRtpReceiverCache_order.cfg` (module `MCReceiverReport`) | pass | across the wrap, with loss, duplicates, reordering and timeouts: in-order callback, sorted cache above the cursor, correct wrap counting; the reported cumulative loss never exceeds the packets really missing between the oldest and newest accepted (`LossNeverOverReported`), which fails as soon as `extended_first_seq_` may be lowered after a wrap; with NACK and timer reports (every 2 ticks), no report block carries a lower extended highest seq than an earlier one (`ReportedHighestNeverDecreases`) |
| receiver_loss | `MCRtpReceiverCache_loss.cfg` | pass | every gap between known packets has a loss record; every NACK names a sent, never-accepted packet; the receiver refines `ReceiverService` (`ImplementsReceiverService`) |
| receiver_nack_stale | `..._nack_stale.cfg` | violation | a loss record the cursor passed on timeout is NACKed again by the call that receives the packet late |
| receiver_nack_spurious | `..._nack_spurious.cfg` | violation | a gap ending at seq 0 creates loss records, and a NACK, for seqs 1..MaxSeq |
| sender | `MCRtpSender.cfg` | pass | the RTX cache is exactly the mapped packets within `max_cache_seq_difference` of the newest; the RTX stream is consecutive across its wrap |
| rtx_loop | `MCRtxLoop.cfg` | pass | Scenario C: one lost media packet inside the stream is NACKed (as a serialized compound), retransmitted, rebuilt and accepted, and cumulative loss ends at 0. Also: every compound `RtcpSender` can build (SR/RR, with or without a report block, BYE, or a NACK of any increasing list over 65534, 65535, 0, 15, 16, 17) parses at the peer into exactly the report, SDES and BYE or NACK list it came from (`CompoundRoundTrip`). Every media packet the receiver parses, and every RTX packet it parses and rebuilds, is the packet the application sent, in flight and for packets at the seq, timestamp, marker and rtx-seq edges (`ReceiverSeesSentPacket`, spec 8's RTX law). |
| session_runtime | `MCSessionRuntime.cfg` | pass | with both threads, RTP, a stray ssrc, junk and a BYE arriving, and destruction at any time: reports at most one interval apart while running, nothing built after the BYE, no task on a destroyed object, every compound built while serving is sent, teardown ends; and every configuration spec.md allows, in a space of about 74,000 media argument sets and 36 address pairs, is accepted by `Configure` and passes the checks `StartSession` runs (`SpecConfigsStart`) |
| session_rtx_zero | `MCSessionRuntimeRtxZero.cfg` | violation | a remote RTX cache of 0 fails `StartSession` after the `RtcpSender` posted its delayed task; the worker runs it on the freed sender before it is stopped |
| fec_decoder | `MCUlpFecDecoder.cfg` | pass | no read through a pointer to an erased packet and no `back()` of an empty cache; `Decode` output ascending; every output, recovered ones included, carries the sender's bytes; no received packet is lost by the end |
| fec_single_loss | `..._single_loss.cfg` | violation | fed one packet per call, the decoder outputs and evicts each at once, and a single loss is not recovered |
| fec_encoder | `MCUlpFecEncoder.cfg` | pass | every FEC header, read back by the decoder's parser, names exactly the media packets of its group across the seq wrap; a second `Encode` builds what a first call would |
| fec_encoder_memory | `MCUlpFecEncoder_memory.cfg` | violation | 17 packets, one important, `NoOverlap`: the interleaved mask overwritten in place makes `GenerateFecPackets` read `media_packets` past its end |

Each violation run is recorded as a finding in `PROJECT.json` with the
source line and what the spec says instead.

Bounds.
- `SeqModulus = 16` keeps every wrap-related branch of the code: the
  comparisons only use the half range `MaxSeq \div 2`, so 16 behaves like
  65536 for up to 8 packets (`ASSUME MaxPackets <= SeqModulus \div 2`).
- `StartSeq = 13` with 5 packets crosses the wrap: seqs 13, 14, 15, 0, 1.
  `StartSeq = 1` with 6 packets (seqs 1..6) stays away from seq 0, to
  check loss bookkeeping and the refinement without the two seq-0 bugs;
  the extra packet lets two separate gaps be open at once.
- `ReorderWindow = 3` lets a packet overtake two others.
- `MaxDuplicates = 1` allows one duplicate per behaviour.
- `MaxCacheDuration = 2` and `NackInterval = 1` over `MaxTime = 4` ticks let
  a packet time out while its gap is open, and let a loss record be NACKed
  twice.

- Sender: `MaxCacheSeqDifference = 2` with 5 sends of any seq and 2 NACKs
  naming any seq within 3 of the newest: the trim, the continuity rejection
  and an RTX seq wrap all happen.
- Loop: 4 packets, seqs 2..5 (14, 15, 0, 1 for the seq-0 run); one media and
  one control loss; `MaxDelay = 1`, so a round trip takes at most 2 ticks
  against `MaxCacheDuration = 3`; a cache of 2 behind the newest holds a
  lost packet through a round trip at one packet per tick; RTX seqs start
  at 15 and wrap.

- Session: a 4-tick interval over 6 ticks (first report at 2, the next at
  6) and 2 datagrams from four kinds. A NACK at tick 1-3 lands between the
  first report and the stale task, so the early re-post happens. The BYE
  can come before or after the NACK-causing RTP, and in the same read
  batch. The destructor can begin at any point, including while a task is
  queued or running on either thread. For the failure run, a 2-tick
  interval makes the first report due one tick after `Initialize`.
- Session configuration (`MCMediaArgSpace`): every argument set with local
  ssrc 1 or 2 against remote ssrc 2, and RTX ssrcs 3, 4 or 1. Pointers are
  `Null` or given. Clock rates are 0 or 1. Payload lists are empty,
  `<<127>>` (the largest allowed) or `<<96, 128>>` (one too large). An RTX
  config has a cache of 0, a refused rtx payload type of 200, or pairs
  added and deleted. `max_cache_duration_ms` is `Null` or 0. The direction
  is one of the three or an unknown value, and the callback is present or
  not. Each of `Configure`'s early returns is met, and so are configs it
  accepts that spec.md refuses. The addresses are IPv4, IPv6 or bad
  strings, over UDP or TCP.

- FEC decoder: media 0-2 with an FEC packet over them, media 4-5 with one
  over those (the single-FEC masks `Encode` builds for small groups), seqs
  14..15, 0..4 across the wrap; chunks of up to 4 packets and up to 2
  losses, so a group can lose one packet (recovered) or two (not);
  `max_cache_seq_difference = 2`, small enough that a group's packets leave
  the window before its FEC packet is used. Recovery and `invalid_fec`
  marking both happen (checked by negated reachability invariants).

The passing runs reach 389,655 (receiver with reports), 197,904 (receiver), 85,153 (sender),
5,567 (loop), 397,925 (session), 610 (FEC decoder) and 8,548 (FEC encoder)
distinct states. The session run takes about 2.5 minutes with coverage on (its two liveness
properties are two tableau branches: `CompoundsReachWire` is one leads-to
over the set `Unsent`, not one per compound);
the receiver_order run takes about 2 minutes; each of the others takes
under 80 s.

Deadlock. Every cfg of the receiver, the loop, the session and the FEC
decoder says `CHECK_DEADLOCK FALSE`. A behaviour ends when all packets are
sent and handled and the clock bound is reached, or once the session is
destroyed. That is the stream ending, not a stuck system: after `Flush` the
FEC receiver is torn down. The session run checks that teardown itself
cannot get stuck, as the liveness property `TeardownTerminates`.

Fairness. In `RtpReceiverCache`, `FairSpec` adds only weak fairness on `Tick`: time passes. Nothing
forces the remote sender to send or the network to deliver, because the code
cannot assume either. Under exactly this assumption a cached packet may
never be released (see the disagreements below).

In `SessionRuntime`, `FairSpec` assumes:
- weak fairness for each thread's steps: the OS schedules every runnable
  thread;
- weak fairness for the application thread's `StartSession` and teardown
  steps, so a destructor it has begun runs on.

The model does not assume that the application ever destroys the session,
that the peer sends anything, or that time passes.

## Disagreements found without a run of their own

TLC showed these while the models were written; they are kept out of the
run list to leave room for the others:
- `RtxLoop` with `StartSeq = 14`: a lost seq 0 gets no loss record
  (`loss_seq > 0` stops the walk at `rtp_receiver.cc:147`), so it is never
  NACKed and never recovered.
- `RtpReceiverCache`: the cumulative loss is one short
  (`rtp_receiver.cc:374`, `highest - first` without the `+ 1`). The
  receiver_order run checks the upper bound it does keep.
- `RtpReceiverCache` with `FairSpec`: a packet cached behind a gap stays
  cached past `max_cache_duration_ms` for ever if no later packet arrives
  (`rtp_receiver.cc:389`, `CachedEventuallyDelivered`). `GetPackets` runs
  only inside `OnRtpPacket`. The spec speaks of a timed release without
  saying what drives it.
- `SessionRuntime`: after the peer's BYE no scheduled tick emits
  (`rtcp_sender.cc:115`); spec Scenario E says the next tick does, while
  spec 4.7 agrees with the code.
- `SessionConfig`: `AreAnySsrcsEqual` (`qosrtp_session_impl.h:120`)
  starts its outer loop at index 1, so the local ssrc is compared with
  nothing. `Configure` accepts a local ssrc equal to the remote ssrc or to
  an RTX ssrc, where spec.md sections 4.8 and 6 require distinct SSRCs.
  `AcceptedSsrcsDistinct` in `SessionRuntime` states the requirement, and
  TLC finds it violated in the initial state under `MCSessionRuntime.cfg`.
- `UlpFecDecoder`: the second output loop starts at the front of the
  cache, which after the first call is a copy already output, so the
  successor of the last output waits for the window, where spec 4.4.4
  says it is output at once.
- `UlpFecDecoder`: `Flush` outputs again the copies `Decode` already
  output (a stream `Decode([a, b])` then `Flush`).
- `UlpFecEncoder`: at 48 packets, protection 255, `NoOverlap` and 8 or
  more important packets, `ShiftFitSubMask` writes `fec_packet_mask_[288]`,
  one past the end (`ulp_fec.cc:448`).
- `UlpFecEncoder`: the important packets' rows are overwritten when the
  interleaved mask is built in the same buffer, so with the demo's
  arguments (48 packets, 12 important, `Overlap`, 255) an important packet
  is not protected by the FEC packets meant for it; with 17 packets, 5
  important and `NoOverlap` one media packet is protected by no FEC packet.
- `UlpFecEncoder`: spec Scenario D expects 24 FEC packets for 48 media
  packets at protection factor 255; `NumFecPackets` gives 48.

- `ReceiverReport`, `FirstBlockFromFirstSeq`: spec 4.7 counts the first
  report's expected packets from the first extended seq. `SendRtcp` tests
  `has_sent_rtcp_` (`rtcp_sender.cc:165`), and any earlier RTCP sets it,
  including one sent before the first RTP packet, which carries no block.
  The first block then subtracts the zeroed
  `last_report_remote_sender_info`. In the trace, stream start 13, a timer
  RTCP is sent before any packet arrives, and the first block then says
  13 packets were expected, where the spec gives 0.
- `ReceiverReport`, `FractionLostBelowOne`: spec 4.3 says fraction lost is
  fixed-point 0..1, but the uint8_t cast (`rtcp_sender.cc:174`) wraps.
  With `StartSeq = 1` and `ReorderWindow = 5`:
  1. packet 3 arrives, and a report follows (highest 4);
  2. packet 4 arrives;
  3. packet 0 arrives, lowering `extended_first_seq_` from 4 to 1 and
     raising the cumulative loss by 1. The NACK it triggers carries a block
     with loss 1 and expected 1.
  That gives (1 << 8) / 1 = 256, and the block says fraction lost 0.

Seen in the code while modelling, not checked by a run:
- `CommonHeader::StorePacket` with the P bit set reads the padding length
  from `payload_`, the member left by the previous block, not from this
  block's bytes (`common_header.cc:52`). For the first block of a compound
  that member is `nullptr`. The code then subtracts the previous block's
  `padding_size_` (line 63). spec 4.3 says the last byte of this block is
  the padding. No qosrtp sender sets P, but any RFC 3550 peer may.
- `RtpPacketImpl::LoadPacket` writes 0x20 for an extension and 0x10 for
  padding (`rtp_packet_impl.cc:157`, `160`); `StorePacket` reads P from
  0x20 and X from 0x10 (lines 21-22), as RFC 3550 has them. Evaluating
  `StorePacket(LoadPacket(p), 0)` with `RtpPacketCodec` shows the result.
  A packet with a one-word extension comes back without it: the
  extension bytes are in the payload, and the last payload byte is taken
  as a padding count. A packet with padding is refused, or parsed as
  carrying an extension. spec 8 says `serialize(parse(B)) == B`. The
  programs under `test/` send neither, so `RtxLoop` never meets it.
- `csrc(uint8_t& csrc, i)` cuts each csrc to its low byte in the cached
  copy, the RTX packet and the rebuilt packet (`rtp_packet.cc:16`), and
  `StorePacket` reads csrcs with a native cast where `LoadPacket` writes
  them big-endian (`rtp_packet_impl.cc:93`). A csrc of 258 sent and
  parsed comes back as 33619968.
- `LoadPacket` ors the csrc count into the first octet unmasked, so
  16 csrcs (which `StorePacket` from fields accepts) set X.
- The interarrival jitter (`rtp_receiver.cc:348-363`) takes the RTP
  timestamp difference as the difference of two `int64_t` copies of
  `uint32_t` values. Across the timestamp wrap it is about -2^32. Its
  `std::abs` as a `double` is then converted to `int32_t d`, which is
  undefined for a value that large (x86-64 gives `0x80000000`), and the
  jitter jumps by about 2^27. The application sets the timestamps, and
  RFC 3550 asks for a random first one, so a stream can meet the wrap at
  any point. The jitter is also kept as a plain integer, not in the
  fixed-point form spec.md's session statistics name.
- `ConstructRtx` dereferences the payload buffer without a null check
  (`rtp_sender.cc:244`).
- A second `MediaSessionConfig::Configure` with a `Null` RTX config or
  payload list keeps the one from the first call
  (`qosrtp_session_impl.cc:182-217`; `Given` and `CopyRtx` model it). The
  kept RTX ssrc is not in the new call's `AreAnySsrcsEqual` vector, so it
  can equal the new local or remote ssrc.
- `TransportAddress::Create` returns `nullptr` for an ip `inet_pton`
  rejects. `QosrtpSessionConfig::Configure` stores it, and `StartSession`
  then dereferences it in `InitTranceiver` (`rtp_rtcp_tranceiver_impl.cc:23`);
  `TranceiverAddressCheck` gives `"crash"`. spec.md section 7 says errors
  come back as results.
- `rtcp_report_interval_ms` is never checked: 0 or a negative interval
  is accepted. With 0, `ScheduleSendRtcp` (`rtcp_sender.cc:121-125`)
  builds a compound and re-posts itself with no delay, every time the
  worker runs it.
- After a failed `StartSession` the `failed:` path stops every thread;
  spec.md says the session "continues running until stop". The socket
  stays bound (`~UdpNetworkTranceiver` is defaulted and never closes it),
  so a retried `StartSession` on the same local port fails at `bind`.
  `SessionRuntime` models one call and keeps `bound` TRUE after the
  failure, but does not model the retry: that would repeat the whole
  session from every point where the first call can fail, past the
  session run's time bound.

## Plan for the remaining parts

1. (done) `RtpSender`, `RtxLoop`, `UlpFecDecoder`, `UlpFecEncoder`,
   `Thread`, `SessionRuntime`.
2. `SessionRuntime` with two media sessions, so that the router's
   first-matching-ssrc delivery and a failure of the second session after
   the first started are explored; the signaling thread carrying
   `SendRtpPacket`.
3. (done) The NACK PID/BLP packing and the compound codec (`RtcpCodec`).
   (done) The report block arithmetic of `SendRtcp` fed by the receiver's
   statistics (`ReceiverReport`).
4. (done) An abstract receiver, `ReceiverService`, that `RtpReceiverCache`
   refines.

## Not modelled

- In C2 the setters `SetTimestamp` and `SetSequenceNumber`; in C3 the byte layout, `App` (never built or dispatched) and the P-bit branch: layout, not control.
- The socket calls themselves and the `Wait` timeout (C10). The event
  loop is in `Thread`/`SessionRuntime`. The address checks are in
  `SessionConfig`. Whether `socket`/`bind` succeed is a free choice.
- `session_states.cc`: process-wide counters of BYEs sent and received,
  read only by the sample programs. The configuration getters, which
  change no state.
- Logging and the utilities.
- The test programs under `test/`: they are sample applications; the
  spec's scenarios serve as the statement of intended behaviour instead.
