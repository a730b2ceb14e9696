---------------------------- MODULE SessionRuntime ----------------------------
(***************************************************************************)
(* One QosrtpSession with one media session, from StartSession to the      *)
(* destructor, on its worker and network threads (src/src/session/         *)
(* qosrtp_session_impl.cc, media_session.cc; src/src/rtp_rtcp/             *)
(* rtcp_sender.cc, rtcp_receiver.cc, rtp_rtcp_router.cc,                   *)
(* rtp_rtcp_demuxer.cc, rtp_rtcp_tranceiver_impl.cc; src/src/network/).    *)
(*                                                                         *)
(* The application thread runs StartSession and later the destructor (app).*)
(* The worker thread runs RtcpSender's self-re-posting ScheduleSendRtcp    *)
(* and the router's OnRtp/OnRtcp tasks; the network thread waits in        *)
(* NetworkIoScheduler::Wait, reads the socket, demultiplexes, hands the    *)
(* batches to the router (which posts them to the worker) and runs the     *)
(* SendRtcp tasks the worker posts.  Both threads are Thread records.      *)
(* RtpReceiver::OnRtpPacket is abstracted to whether the datagram makes    *)
(* it report lost sequence numbers (loss); the compound RTCP packet        *)
(* RtcpSender::SendRtcp builds to its number (built).  The signaling       *)
(* thread carries no task here and is left out.  alive holds the objects   *)
(* a task calls into that can be destroyed under it: the RtcpSender with   *)
(* its MediaSession ("sender"), and the router with its destinations.      *)
(***************************************************************************)
EXTENDS Integers, Sequences, SequencesExt, Thread

Codec == INSTANCE RtcpCodec
CONSTANTS
    Null,               \* nullptr
    MediaArgs,          \* the arguments of MediaSessionConfig::Configure
    AddressArgs,        \* [local, remote]: the arguments of TransportAddress::Create
    MaxTime,            \* ticks explored
    Datagrams,          \* what the peer may send: [ver, pt, len, ssrc, loss, blocks]
    MaxArrivals,        \* datagrams explored
    MediaArgSpace,      \* media arguments and address arguments over which
    AddressArgSpace     \*   SpecConfigsStart compares the code with spec.md

SC == INSTANCE SessionConfig

\* The application's configuration: Configure on a new MediaSessionConfig
\* (accepted), both addresses, and the config under one name.
Configured == SC!Configure(SC!NewMediaSessionConfig, MediaArgs)
MediaConfig == Configured.cfg
LocalAddress == SC!CreateTransportAddress(AddressArgs.local.ip,
                    AddressArgs.local.port, AddressArgs.local.type)
RemoteAddress == SC!CreateTransportAddress(AddressArgs.remote.ip,
                    AddressArgs.remote.port, AddressArgs.remote.type)

Interval == MediaConfig.rtcp_report_interval_ms   \* in ticks
RemoteSsrc == MediaConfig.ssrc_media_remote

ASSUME Configured.ok /\ Interval \in 2..MaxTime /\ MaxArrivals \in Nat
ASSUME SC!TranceiverAddressCheck(LocalAddress, RemoteAddress) # "crash"

VARIABLES
    now,             \* UTCTimeMillis()
    next_send,       \* RtcpSender::utc_ms_next_send_
    last_rtcp,       \* when SendRtcp last built a compound
    built,           \* compounds built so far
    peer_bye,        \* RtcpReceiver::has_received_bye_ and MediaSession's
    sent_after_bye,  \* a compound was built after the peer's BYE
    initialized,     \* MediaSession::initialized_
    dsts,            \* the receivers are router destinations
    alive,           \* objects not yet destroyed
    thr,             \* "worker" and "network": Thread records
    socket,          \* datagrams waiting in the UDP socket
    arrivals,        \* datagrams the peer has sent
    wire,            \* compounds UdpNetworkTranceiver::Send has sent
    app,             \* where StartSession or the destructor is
    freed_use,       \* a task ran on a destroyed object
    bound            \* rtp_rtcp_tranceiver_ holds a bound socket

vars == <<now, next_send, last_rtcp, built, peer_bye, sent_after_bye,
          initialized, dsts, alive, thr, socket, arrivals, wire, app,
          freed_use, bound>>
rtcpVars == <<next_send, last_rtcp, built, sent_after_bye>>
sessionVars == <<initialized, dsts, alive, bound>>
peerVars == <<socket, arrivals>>

Threads == {"worker", "network"}

\* The tasks the threads carry.
Sched == [op |-> "ScheduleSendRtcp"]
RtpTask(ps) == [op |-> "OnRtp", pkts |-> ps]
RtcpTask(bs) == [op |-> "OnRtcp", bufs |-> bs]
SendTask(k) == [op |-> "SendRtcp", k |-> k]

\* StartSession's states; Serving are those before teardown begins.
Serving == {"start", "init_rtcp", "init_rtp_receiver", "running"}
Teardown == {"stop_network", "join_network", "clear_network", "stop_worker",
             "join_worker", "clear_worker", "destroy", "done"}

Init ==
    /\ now = 0
    /\ next_send = 0
    /\ last_rtcp = 0
    /\ built = 0
    /\ peer_bye = FALSE
    /\ sent_after_bye = FALSE
    /\ initialized = FALSE
    /\ dsts = FALSE
    /\ alive = {"sender", "router"}
    /\ thr = [t \in Threads |-> NewThread(t = "network")]
    /\ socket = <<>>
    /\ arrivals = 0
    /\ wire = {}
    /\ app = "start"
    /\ freed_use = FALSE
    /\ bound = FALSE

(***************************************************************************)
(* The demultiplexer and the router.                                       *)
(***************************************************************************)

\* RtpRtcpPacketDemuxer::PayloadTypeIsReservedForRtcp, on byte 1 & 0x7F.
ReservedForRtcp(d) == (d.pt % 128) \in 64..95

\* IsRtp and IsRtcp: length, version 2, and the payload-type range.
IsRtp(d) == d.len >= 12 /\ d.ver = 2 /\ ~ReservedForRtcp(d)
IsRtcp(d) == d.len >= 4 /\ d.ver = 2 /\ ReservedForRtcp(d)

\* RtpRtcpRouter::OnRtp or OnRtcp off the worker thread: an empty batch
\* returns, any other is posted to the worker whole.
Route(tm, batch, task) ==
    IF batch = <<>> THEN tm
    ELSE [tm EXCEPT !["worker"] = PushTask(@, task)]

\* RtpRtcpPacketDemuxer::OnData: sort the buffers into RTP and RTCP,
\* dropping what is neither, then hand the RTP batch and the RTCP batch to
\* the router.
OnData(tm, bufs) ==
    LET rtps  == SelectSeq(bufs, IsRtp)
        rtcps == SelectSeq(bufs, IsRtcp)
    IN  Route(Route(tm, rtps, RtpTask(rtps)), rtcps, RtcpTask(rtcps))

\* UdpNetworkTranceiver::OnEvent on a read event: recvfrom until the socket
\* is empty, then the whole batch to the demuxer.
OnSocketEvent(tm) == OnData(tm, socket)

\* The network thread in Wait with the socket event the one returned
\* (lines 127-192): each handler's OnEvent runs; then the event is reset
\* and, the wait being forever, Wait goes on waiting (193-198).
WaitSocket ==
    /\ thr["network"].pc = "waiting"
    /\ socket # <<>>
    /\ thr' = OnSocketEvent(thr)
    /\ socket' = <<>>
    /\ UNCHANGED <<now, rtcpVars, peer_bye, sessionVars, arrivals, wire, app,
                   freed_use>>

(***************************************************************************)
(* RtcpSender and the callbacks it makes into MediaSession.                *)
(***************************************************************************)

\* MediaSession::HasReceivedBye: FALSE until initialized_.
HasReceivedBye == initialized /\ peer_bye

\* The network thread's queue once the compounds after number k, n of
\* them, are handed over: RtpRtcpTranceiverImpl::SendRtcp off the network
\* thread posts itself there.
RECURSIVE PostCompounds(_, _, _)
PostCompounds(th, k, n) ==
    IF n = 0 THEN th ELSE PostCompounds(PushTask(th, SendTask(k + 1)), k + 1, n - 1)

\* RtcpSender::SendRtcp, n times: build the SR or RR, SDES and the NACK
\* and hand the compound to the transceiver.
SendRtcp(tm, n) ==
    /\ built' = built + n
    /\ last_rtcp' = now
    /\ sent_after_bye' = (sent_after_bye \/ peer_bye)
    /\ thr' = [tm EXCEPT !["network"] = PostCompounds(@, built, n)]

\* Mutant: the absolute time is passed where PushTask takes a delay.
MutRescheduleDelay == next_send

\* The delay ScheduleSendRtcp re-posts itself with when it runs early.
RescheduleDelay == next_send - now

\* RtcpSender::ScheduleSendRtcp, with tm the threads once the task is
\* taken: stop after the peer's BYE; re-post itself for the remainder when
\* a NACK pushed utc_ms_next_send_ out; otherwise send and re-post one
\* interval ahead.
ScheduleSendRtcp(tm) ==
    \/ /\ HasReceivedBye
       /\ thr' = tm
       /\ UNCHANGED rtcpVars
    \/ /\ ~HasReceivedBye
       /\ now < next_send
       /\ thr' = [tm EXCEPT !["worker"] =
                      PushDelayedTask(@, Sched, now + RescheduleDelay)]
       /\ UNCHANGED rtcpVars
    \/ /\ ~HasReceivedBye
       /\ now >= next_send
       /\ next_send' = now + Interval
       /\ SendRtcp([tm EXCEPT !["worker"] =
                        PushDelayedTask(@, Sched, now + Interval)], 1)

\* Mutant: SendNack does not check for the peer's BYE.
MutSendNack(tm, m) ==
    \/ /\ m = 0 \/ ~initialized
       /\ thr' = tm
       /\ UNCHANGED rtcpVars
    \/ /\ m > 0 /\ initialized
       /\ next_send' = now + Interval
       /\ SendRtcp(tm, m)

\* m lists of lost sequence numbers through MediaSession::
\* NotifyLossPacketSeqsForNack (dropped before initialized_) to
\* RtcpSender::SendNack: suppressed after the peer's BYE, otherwise a
\* compound with each, and the next report a full interval out.
SendNack(tm, m) ==
    \/ /\ m = 0 \/ ~initialized \/ HasReceivedBye
       /\ thr' = tm
       /\ UNCHANGED rtcpVars
    \/ /\ m > 0 /\ initialized /\ ~HasReceivedBye
       /\ next_send' = now + Interval
       /\ SendRtcp(tm, m)

\* RtpRtcpRouter::OnRtp on the worker: each packet goes to the first
\* destination whose IsExpectedRemoteSsrc accepts it; RtpReceiver::
\* OnRtpPacket then reports the loss it saw.
NackLists(ps) ==
    IF dsts THEN Len(SelectSeq(ps, LAMBDA d : d.ssrc = RemoteSsrc /\ d.loss))
    ELSE 0

\* RtcpReceiver::OnRtcpPacket -> Parse (RtcpCodec) on an RTCP buffer: the
\* compound's blocks up to the first that does not parse; ParseBye takes
\* a BYE whose sender is the remote ssrc.
TakesBye(b) ==
    LET evs == Codec!Parse(b.blocks, RemoteSsrc)
    IN  \E i \in 1..Len(evs) : evs[i].ev = "bye"

\* The datagrams that carry such a BYE (a constant, computed once).
ByeDatagrams == {d \in Datagrams : TakesBye(d)}

\* RtpRtcpRouter::OnRtcp on the worker: every buffer to every RTCP
\* destination; RtcpReceiver::OnRtcpPacket returns once has_received_bye_
\* is set, so only the first BYE changes anything.
ByeIn(bs) == dsts /\ \E i \in 1..Len(bs) : bs[i] \in ByeDatagrams

\* The object a task's body calls into.
ObjectOf(f) == IF f.op = "ScheduleSendRtcp" THEN "sender" ELSE "router"

\* Task f runs, tm being the threads once it is taken.
Exec(f, tm) ==
    \/ /\ f.op = "ScheduleSendRtcp" /\ "sender" \in alive
       /\ ScheduleSendRtcp(tm)
       /\ UNCHANGED <<peer_bye, wire, freed_use>>
    \/ /\ f.op = "OnRtp" /\ "router" \in alive
       /\ SendNack(tm, NackLists(f.pkts))
       /\ UNCHANGED <<peer_bye, wire, freed_use>>
    \/ /\ f.op = "OnRtcp" /\ "router" \in alive
       /\ peer_bye' = (peer_bye \/ ByeIn(f.bufs))
       /\ thr' = tm
       /\ UNCHANGED <<rtcpVars, wire, freed_use>>
    \/ /\ f.op = "SendRtcp"
       /\ wire' = wire \cup {f.k}
       /\ thr' = tm
       /\ UNCHANGED <<rtcpVars, peer_bye, freed_use>>
    \/ /\ f.op # "SendRtcp" /\ ObjectOf(f) \notin alive
       /\ freed_use' = TRUE
       /\ thr' = tm
       /\ UNCHANGED <<rtcpVars, peer_bye, wire>>

(***************************************************************************)
(* Thread::ThreadMain on the worker and network threads.                   *)
(***************************************************************************)

otherVars == <<now, sessionVars, peerVars, app>>

\* A step of ThreadMain that only moves thread t along, to record th.
Move(t, th) ==
    /\ thr' = [thr EXCEPT ![t] = th]
    /\ UNCHANGED <<otherVars, rtcpVars, peer_bye, wire, freed_use>>

LoopStep(t) == thr[t].pc = "loop" /\ Move(t, LoopTop(thr[t]))

PickStep(t) == thr[t].pc = "pick" /\ Move(t, Pick(thr[t], now))

WaitStep(t) == thr[t].pc = "wait" /\ Move(t, WaitEnter(thr[t]))

\* In Wait, the signaler's event is returned only when the socket's is not
\* (WSAWaitForMultipleEvents reports the lowest index).
WaitSignal(t) ==
    /\ thr[t].pc = "waiting" /\ thr[t].wakeup /\ socket = <<>>
    /\ Move(t, WaitOnSignal(thr[t]))

RunTask(t) ==
    /\ thr[t].pc = "run_task"
    /\ Exec(thr[t].task_f, [thr EXCEPT ![t] = TaskDone(@)])
    /\ UNCHANGED otherVars

RunDelayed(t) ==
    /\ thr[t].pc = "run_delayed"
    /\ Exec(thr[t].delayed_task, [thr EXCEPT ![t] = DelayedDone(@)])
    /\ UNCHANGED otherVars

ThreadStep(t) ==
    \/ LoopStep(t) \/ PickStep(t) \/ RunTask(t) \/ RunDelayed(t)
    \/ WaitStep(t) \/ WaitSignal(t)
    \/ (t = "network" /\ WaitSocket)

(***************************************************************************)
(* StartSession and the destructor on the application thread.              *)
(***************************************************************************)

\* StartSession, lines 349-364: the scheduler, three threads started, the
\* router, and RtpRtcpTranceiver::Create: InitTranceiver's address checks,
\* then socket, ioctlsocket and bind, any of which the system may fail
\* (bind_ok).  A transceiver not created sends StartSession to failed:.
StartThreads ==
    /\ app = "start"
    /\ thr' = [t \in Threads |-> Started(thr[t])]
    /\ \E bind_ok \in BOOLEAN :
           LET created == /\ SC!TranceiverAddressCheck(LocalAddress, RemoteAddress) = "ok"
                         /\ bind_ok
           IN  /\ bound' = created
               /\ app' = IF created THEN "init_rtcp" ELSE "stop_network"
    /\ UNCHANGED <<now, rtcpVars, peer_bye, initialized, dsts, alive, peerVars,
                   wire, freed_use>>

\* MediaSession::Initialize up to RtcpSender::Initialize (media_session.cc
\* 18-68).  RtpSender::Initialize, for a direction that sends, refuses an
\* RTX cache of 0: the MediaSession's failed: label and StartSession's loop
\* drop it, nothing posted, and StartSession goes to its failed: path.
\* Otherwise the first report is due after half an interval, and a delayed
\* ScheduleSendRtcp is posted to the worker for then.
InitRtcpSender ==
    /\ app = "init_rtcp"
    /\ IF SC!RtpSenderInitOk(MediaConfig)
       THEN /\ next_send' = now + Interval \div 2
            /\ last_rtcp' = now
            /\ thr' = [thr EXCEPT !["worker"] =
                           PushDelayedTask(@, Sched, now + Interval \div 2)]
            /\ app' = "init_rtp_receiver"
            /\ UNCHANGED alive
       ELSE /\ alive' = alive \ {"sender"}
            /\ app' = "stop_network"
            /\ UNCHANGED <<next_send, last_rtcp, thr>>
    /\ UNCHANGED <<now, built, sent_after_bye, peer_bye, initialized, dsts,
                   bound, peerVars, wire, freed_use>>

\* RtpReceiver::Initialize's one refusal: RTX enabled with a cache of 0.
RtpReceiverRefuses == ~SC!RtpReceiverInitOk(MediaConfig)

\* The rest of MediaSession::Initialize.  RtpReceiver::Initialize refuses
\* an RTX cache of 0, and the failed: label resets every member, the
\* RtcpSender included, and StartSession's loop drops the MediaSession
\* (lines 373-377) before its own failed: path stops the threads.
\* Otherwise both receivers become router destinations, initialized_ is
\* set and the session has started.
InitReceivers ==
    /\ app = "init_rtp_receiver"
    /\ IF RtpReceiverRefuses
       THEN /\ alive' = alive \ {"sender"}
            /\ app' = "stop_network"
            /\ UNCHANGED <<initialized, dsts, bound>>
       ELSE /\ dsts' = TRUE
            /\ initialized' = TRUE
            /\ app' = "running"
            /\ UNCHANGED <<alive, bound>>
    /\ UNCHANGED <<now, rtcpVars, peer_bye, thr, peerVars, wire, freed_use>>

\* ~QosrtpSessionImpl: the application destroys the session.
BeginDestroy ==
    /\ app = "running"
    /\ app' = "stop_network"
    /\ UNCHANGED <<now, rtcpVars, peer_bye, sessionVars, thr, peerVars, wire,
                   freed_use>>

\* Thread::Stop of thread t, in three steps: request, join, clear.  Both
\* the destructor (326-329) and StartSession's failed: path (384-386) stop
\* the network thread, then the signaling one, then the worker.
StopSteps(t, to) ==
    /\ \/ /\ app = "stop_" \o t /\ thr[t].runing
          /\ thr' = [thr EXCEPT ![t] = StopRequest(@)]
          /\ app' = "join_" \o t
       \/ /\ app = "join_" \o t /\ JoinReturns(thr[t])
          /\ app' = "clear_" \o t
          /\ UNCHANGED thr
       \/ /\ app = "clear_" \o t
          /\ thr' = [thr EXCEPT ![t] = StopClear(@)]
          /\ app' = to
    /\ UNCHANGED <<now, rtcpVars, peer_bye, sessionVars, peerVars, wire,
                   freed_use>>

\* media_sessions_.clear() and router_.reset() (330-331, 387-388).
Destroy ==
    /\ app = "destroy"
    /\ alive' = {}
    /\ dsts' = FALSE
    /\ app' = "done"
    /\ UNCHANGED <<now, rtcpVars, peer_bye, initialized, bound, thr, peerVars,
                   wire, freed_use>>

AppStep ==
    \/ StartThreads \/ InitRtcpSender \/ InitReceivers
    \/ StopSteps("network", "stop_worker")
    \/ StopSteps("worker", "destroy")
    \/ Destroy

(***************************************************************************)
(* The peer and the clock.                                                 *)
(***************************************************************************)

\* A datagram reaches the socket once the transceiver has bound it; no
\* code closes it (~UdpNetworkTranceiver is defaulted).
Arrive ==
    /\ bound
    /\ arrivals < MaxArrivals
    /\ \E d \in Datagrams : socket' = Append(socket, d)
    /\ arrivals' = arrivals + 1
    /\ UNCHANGED <<now, rtcpVars, peer_bye, sessionVars, thr, wire, app,
                   freed_use>>

\* The worker has no wait task and spins, so time does not pass while a
\* delayed task of a live worker is due or taken.
WorkerDue ==
    LET w == thr["worker"]
    IN  /\ w.pc \notin {"idle", "exited"}
        /\ FirstDue(w, now) # 0 \/ Holds(w.delayed_task)

Tick ==
    /\ now < MaxTime
    /\ ~WorkerDue
    /\ now' = now + 1
    /\ UNCHANGED <<rtcpVars, peer_bye, sessionVars, thr, peerVars, wire, app,
                   freed_use>>

Next ==
    \/ \E t \in Threads : ThreadStep(t)
    \/ AppStep \/ BeginDestroy \/ Arrive \/ Tick

Spec == Init /\ [][Next]_vars

\* Each thread is scheduled, and the application thread runs StartSession
\* and a destructor it has begun to the end; when it destroys the session
\* is its own choice.
FairSpec ==
    /\ Spec
    /\ \A t \in Threads : WF_vars(ThreadStep(t))
    /\ WF_vars(AppStep)

-----------------------------------------------------------------------------

\* spec 4.7: reports are periodic.  While the session runs and until the
\* peer's BYE, the self-re-posting ScheduleSendRtcp on the worker keeps the
\* time since the last compound within one interval, however NACKs built
\* from what the network thread received move utc_ms_next_send_.
ReportIntervalBound ==
    (app = "running" /\ ~peer_bye) => now - last_rtcp <= Interval

\* spec 4.7: once the worker has handled the peer's BYE, neither a
\* scheduled report nor a NACK builds a compound.
SilentAfterPeerBye == ~sent_after_bye

\* No task body runs on an object already destroyed: Thread::Stop joins
\* the worker and clears its queues before media_sessions_.clear() and
\* router_.reset(), and every delayed ScheduleSendRtcp must be gone before
\* its RtcpSender is.
TasksRunOnLiveObjects == ~freed_use

\* The compounds built and not yet on the wire.
Unsent == {k \in 1..built : k \notin wire}

\* Every compound the worker builds while the session is up is sent by the
\* network thread, even when that thread is blocked in Wait: PushTask's
\* WaitUp must wake it.  While serving, compounds waiting to be sent are
\* eventually all on the wire; with the builds bounded by the clock and
\* the arrivals, that is each of them.
CompoundsReachWire ==
    (Unsent # {} /\ app \in Serving) ~> (Unsent = {} \/ app \notin Serving)

\* Once teardown has begun it ends: Stop's WaitUp gets the network thread
\* out of Wait so that join returns, and the worker leaves its spin.
TeardownTerminates == (app = "stop_network") ~> (app = "done")

\* StartSession with configuration la, ra, a: Configure on a new
\* MediaSessionConfig accepts a, and with the config under one name and
\* the socket bound, the transceiver and MediaSession::Initialize succeed.
ConfigStarts(la, ra, a) ==
    LET r == SC!Configure(SC!NewMediaSessionConfig, a)
        sc == SC!AddMediaSessionConfig(SC!BuildSession(la, ra, <<>>), "media", r.cfg)
    IN  r.ok /\ SC!StartOutcome(sc, TRUE) = "started"

\* The argument spaces compared once, as constants.
SpecConfigsStartAll ==
    /\ \A a \in MediaArgSpace :
           SC!SpecAllowsMedia(a) => ConfigStarts(AddressArgs.local, AddressArgs.remote, a)
    /\ \A la, ra \in AddressArgSpace :
           SC!SpecAllowsAddresses(la, ra) => ConfigStarts(la, ra, MediaArgs)

\* spec.md sections 6 and 7: a configuration spec.md allows starts.  Every
\* media argument set of MediaArgSpace section 6 allows is accepted by
\* MediaSessionConfig::Configure and gets through the RtpSender and
\* RtpReceiver Initialize checks StartSession runs later; every address
\* pair it allows passes InitTranceiver's checks; and in this run a
\* configuration it allows never has its MediaSession dropped by the
\* failed: labels while the router still lives.
SpecConfigsStart ==
    /\ SpecConfigsStartAll
    /\ SC!SpecAllowsMedia(MediaArgs) => ~("sender" \notin alive /\ "router" \in alive)

\* spec.md 4.8 and 6: the SSRCs of a media session (local, remote, and the
\* two RTX ssrcs) are distinct.  MediaSessionConfig::Configure is meant to
\* refuse a duplicate through AreAnySsrcsEqual; this states that every
\* argument set it accepts has distinct ssrcs.  AreAnySsrcsEqual's outer
\* loop starts at index 1, so the local ssrc is compared with nothing and
\* TLC finds this violated (README, disagreements); no run checks it.
AcceptedSsrcsDistinct ==
    /\ \A a \in MediaArgSpace :
           SC!Configure(SC!NewMediaSessionConfig, a).ok => IsInjective(SC!ConfigSsrcs(a))
    /\ app \in Serving \cup Teardown
=============================================================================
