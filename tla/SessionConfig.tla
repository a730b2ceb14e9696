---------------------------- MODULE SessionConfig ----------------------------
(***************************************************************************)
(* The configuration objects an application fills before StartSession     *)
(* (src/src/session/qosrtp_session_impl.cc and qosrtp_session.cc), and     *)
(* the checks the session's parts make on them when it starts             *)
(* (MediaSession::Initialize's sub-initializers, the transceiver's         *)
(* socket set-up), as operators.                                          *)
(*                                                                         *)
(* A pointer argument is Null or its value; a callback is TRUE when it is *)
(* not nullptr.  An ip string is abstracted to the family inet_pton finds  *)
(* in it: "v4", "v6" or "bad".  Every object is a record of its members.   *)
(***************************************************************************)
EXTENDS Integers, Sequences, Functions, TLC

CONSTANT Null                              \* nullptr: a model value

\* MediaTransmissionDirection; Unknown stands for any other enum value.
kSendRecv == "SendRecv"
kSendOnly == "SendOnly"
kRecvOnly == "RecvOnly"
Directions == {kSendRecv, kSendOnly, kRecvOnly}

kMaxPayloadType == 127                     \* 0x7F, 0xff >> 1

-----------------------------------------------------------------------------
(* TransportAddress                                                        *)

\* TransportAddressImpl(): port 5555, kUnknown, AF_UNSPEC.
NewTransportAddress == [ip |-> "", port |-> 5555, type |-> "Unknown",
                        ip_version |-> "unspec"]

\* TransportAddress::Create: AssignIp (ParseIpAddress tries inet_pton for
\* IPv4 then IPv6) or nullptr; then the type and the port.
CreateTransportAddress(ip, port, type) ==
    IF ip = "bad" THEN Null
    ELSE [NewTransportAddress EXCEPT !.ip = ip, !.ip_version = ip,
                                     !.type = type, !.port = port]

\* NetworkTranceiver::Create: a transceiver for UDP only.
NetworkTranceiverCreated(type) == type = "Udp"

\* UdpNetworkTranceiver::BuildSocketAndConnect up to the socket call: both
\* addresses UDP (a Null remote is dereferenced: "crash"), one ip family,
\* and that family IPv4 or IPv6.
BuildSocketChecks(local, remote) ==
    IF remote = Null THEN "crash"
    ELSE IF \/ local.type # "Udp" \/ remote.type # "Udp"
            \/ local.ip_version # remote.ip_version
            \/ local.ip_version \notin {"v4", "v6"}
         THEN "refused"
    ELSE "ok"

\* RtpRtcpTranceiverImpl::InitTranceiver: a Null local address is
\* dereferenced on its first use ("crash"); a failed Create or check makes
\* RtpRtcpTranceiver::Create return nullptr ("refused").
TranceiverAddressCheck(local, remote) ==
    IF local = Null THEN "crash"
    ELSE IF ~NetworkTranceiverCreated(local.type) THEN "refused"
    ELSE BuildSocketChecks(local, remote)

-----------------------------------------------------------------------------
(* RtxConfigImpl                                                           *)

NewRtxConfig == [ssrc |-> 0, max_cache_seq_difference |-> 0,
                 map_rtx_payload_type |-> <<>>]

\* Configure stores both members and always succeeds.
RtxConfigure(rc, max_cache_seq_difference, ssrc) ==
    [rc EXCEPT !.ssrc = ssrc, !.max_cache_seq_difference = max_cache_seq_difference]

\* map_rtx_payload_type_[rtx_pt] = associated_pt, unless either is too large.
AddRtxAndAssociatedPayloadType(rc, rtx_pt, associated_pt) ==
    IF rtx_pt > kMaxPayloadType \/ associated_pt > kMaxPayloadType
    THEN [ok |-> FALSE, rtx |-> rc]
    ELSE [ok |-> TRUE,
          rtx |-> [rc EXCEPT !.map_rtx_payload_type =
                                 (rtx_pt :> associated_pt) @@ @]]

DeleteRtxAndAssociatedPayloadType(rc, rtx_pt) ==
    [rc EXCEPT !.map_rtx_payload_type =
         [p \in DOMAIN @ \ {rtx_pt} |-> @[p]]]

ClearRtxPayload(rc) == [rc EXCEPT !.map_rtx_payload_type = <<>>]

\* MediaSessionConfigImpl::Configure's copy of an RtxConfig: Create,
\* Configure, and AddRtxAndAssociatedPayloadType for every pair, keeping
\* those it accepts.
CopyRtx(rc) ==
    LET m == rc.map_rtx_payload_type
    IN  [RtxConfigure(NewRtxConfig, rc.max_cache_seq_difference, rc.ssrc)
            EXCEPT !.map_rtx_payload_type =
                [p \in {q \in DOMAIN m : q <= kMaxPayloadType
                                         /\ m[q] <= kMaxPayloadType} |-> m[p]]]

-----------------------------------------------------------------------------
(* MediaSessionConfigImpl                                                  *)

NewMediaSessionConfig ==
    [rtcp_report_interval_ms |-> 0, rtp_clock_rate_hz_local |-> 0,
     rtp_clock_rate_hz_remote |-> 0, ssrc_media_local |-> 0,
     ssrc_media_remote |-> 0, max_cache_duration_ms |-> 0,
     direction |-> kSendRecv, rtx_config_local |-> Null,
     rtx_config_remote |-> Null, callback |-> FALSE,
     rtp_payload_types_local |-> <<>>, rtp_payload_types_remote |-> <<>>]

\* AreAnySsrcsEqual (qosrtp_session_impl.h), its loops as written: the
\* outer index starts at 1, so ssrcs[0] is compared with nothing.
AreAnySsrcsEqual(ssrcs) ==
    \E i \in 2..Len(ssrcs), j \in 1..Len(ssrcs) : j > i /\ ssrcs[j] = ssrcs[i]

\* The parameters required for one direction: present, a clock rate that
\* is not 0, and a non-empty list of payload types each at most 0x7F.
\* Mutant: 0x7F itself is taken as out of range.
MutPayloadTypesOk(pts) ==
    pts # <<>> /\ \A i \in 1..Len(pts) : pts[i] < kMaxPayloadType

PayloadTypesOk(pts) ==
    pts # <<>> /\ \A i \in 1..Len(pts) : pts[i] <= kMaxPayloadType

SendParamsOk(a) ==
    /\ a.rtp_clock_rate_hz_local # Null /\ a.rtp_payload_types_local # Null
    /\ a.rtp_clock_rate_hz_local # 0
    /\ PayloadTypesOk(a.rtp_payload_types_local)

RecvParamsOk(a) ==
    /\ a.rtp_clock_rate_hz_remote # Null /\ a.rtp_payload_types_remote # Null
    /\ a.max_cache_duration_ms # Null
    /\ a.rtp_clock_rate_hz_remote # 0
    /\ PayloadTypesOk(a.rtp_payload_types_remote)

\* The ssrcs vector: local, remote, then the rtx ssrcs of the configs given.
ConfigSsrcs(a) ==
    <<a.ssrc_media_local, a.ssrc_media_remote>>
    \o (IF a.rtx_config_local # Null THEN <<a.rtx_config_local.ssrc>> ELSE <<>>)
    \o (IF a.rtx_config_remote # Null THEN <<a.rtx_config_remote.ssrc>> ELSE <<>>)

\* The early returns of Configure, in order: no member is assigned before
\* the last of them.
ConfigureAccepts(a) ==
    /\ a.callback
    /\ a.direction # kRecvOnly => SendParamsOk(a)
    /\ a.direction # kSendOnly => RecvParamsOk(a)
    /\ ~AreAnySsrcsEqual(ConfigSsrcs(a))
    /\ a.direction \in Directions

\* "if (p) member = *p": a Null pointer leaves the member as it was.
Given(p, old) == IF p = Null THEN old ELSE p

\* MediaSessionConfigImpl::Configure(args a) on the object c.
Configure(c, a) ==
    IF ~ConfigureAccepts(a) THEN [ok |-> FALSE, cfg |-> c]
    ELSE [ok |-> TRUE,
          cfg |-> [c EXCEPT
             !.direction = a.direction,
             !.ssrc_media_local = a.ssrc_media_local,
             !.ssrc_media_remote = a.ssrc_media_remote,
             !.rtx_config_local = IF a.rtx_config_local # Null
                                  THEN CopyRtx(a.rtx_config_local) ELSE @,
             !.rtx_config_remote = IF a.rtx_config_remote # Null
                                   THEN CopyRtx(a.rtx_config_remote) ELSE @,
             !.rtcp_report_interval_ms = a.rtcp_report_interval_ms,
             !.callback = a.callback,
             !.max_cache_duration_ms = Given(a.max_cache_duration_ms, @),
             !.rtp_clock_rate_hz_local = Given(a.rtp_clock_rate_hz_local, @),
             !.rtp_payload_types_local = Given(a.rtp_payload_types_local, @),
             !.rtp_clock_rate_hz_remote = Given(a.rtp_clock_rate_hz_remote, @),
             !.rtp_payload_types_remote = Given(a.rtp_payload_types_remote, @)]]
-----------------------------------------------------------------------------
(* QosrtpSessionConfigImpl                                                 *)

NewQosrtpSessionConfig ==
    [address_local |-> Null, address_remote |-> Null, cname |-> "",
     map_media_session_config |-> <<>>]

\* Configure takes both addresses (nullptr or not) and the cname.
SessionConfigure(sc, local, remote, cname) ==
    [sc EXCEPT !.address_local = local, !.address_remote = remote,
               !.cname = cname]

\* map_media_session_config_[name] = config.
AddMediaSessionConfig(sc, name, mc) ==
    [sc EXCEPT !.map_media_session_config = (name :> mc) @@ @]

DeleteMediaSessionConfig(sc, name) ==
    [sc EXCEPT !.map_media_session_config = [n \in DOMAIN @ \ {name} |-> @[n]]]

ClearMediaSessionConfig(sc) == [sc EXCEPT !.map_media_session_config = <<>>]

-----------------------------------------------------------------------------
(* What StartSession makes of a session configuration                      *)

\* RtpSender::Initialize, for a direction that sends: RTX enabled with a
\* cache of 0 is refused.
RtpSenderInitOk(c) ==
    c.direction # kRecvOnly /\ c.rtx_config_local # Null
        => c.rtx_config_local.max_cache_seq_difference # 0

\* RtpReceiver::Initialize, for a direction that receives: the same check.
RtpReceiverInitOk(c) ==
    c.direction # kSendOnly /\ c.rtx_config_remote # Null
        => c.rtx_config_remote.max_cache_seq_difference # 0

\* MediaSession::Initialize: RtcpSender and RtcpReceiver::Initialize take
\* any configuration; the RtpSender comes first, the RtpReceiver last.
MediaSessionInitOk(c) == RtpSenderInitOk(c) /\ RtpReceiverInitOk(c)

\* StartSession for sc when binding the socket succeeds (bind_ok): "crash"
\* on a nullptr address, "failed" when the transceiver or a MediaSession
\* (in the map's name order, each one stopping the loop) fails, "started"
\* otherwise.  The repeat and nullptr-config early returns are not here.
StartOutcome(sc, bind_ok) ==
    LET t == TranceiverAddressCheck(sc.address_local, sc.address_remote)
        ms == sc.map_media_session_config
    IN  IF t = "crash" THEN "crash"
        ELSE IF t = "refused" \/ ~bind_ok THEN "failed"
        ELSE IF \E n \in DOMAIN ms : ~MediaSessionInitOk(ms[n]) THEN "failed"
        ELSE "started"
-----------------------------------------------------------------------------
(* spec.md section 6, the configuration surface, as the reference the code *)
(* is checked against.  A list not given (Null) is an empty list.          *)

SpecRtxOk(rc) ==
    rc = Null
    \/ /\ rc.max_cache_seq_difference >= 1
       /\ \A p \in DOMAIN rc.map_rtx_payload_type :
              p <= kMaxPayloadType /\ rc.map_rtx_payload_type[p] <= kMaxPayloadType

SpecPayloadTypesOk(pts, used) ==
    IF pts = Null THEN ~used
    ELSE (used => pts # <<>>) /\ \A i \in 1..Len(pts) : pts[i] <= kMaxPayloadType

\* Media session config: both clock rates > 0, payload types non-empty for
\* each direction used, RTX configs as above, a known direction, a
\* callback, and every ssrc distinct.
SpecAllowsMedia(a) ==
    /\ a.callback /\ a.direction \in Directions
    /\ \A clk \in {a.rtp_clock_rate_hz_local, a.rtp_clock_rate_hz_remote} :
           clk # Null /\ clk > 0
    /\ a.max_cache_duration_ms # Null
    /\ SpecPayloadTypesOk(a.rtp_payload_types_local, a.direction # kRecvOnly)
    /\ SpecPayloadTypesOk(a.rtp_payload_types_remote, a.direction # kSendOnly)
    /\ SpecRtxOk(a.rtx_config_local) /\ SpecRtxOk(a.rtx_config_remote)
    /\ IsInjective(ConfigSsrcs(a))

\* Transport: UDP only, an ip parsed as IPv4 or IPv6, matching families.
SpecAllowsAddresses(la, ra) ==
    /\ la.type = "Udp" /\ ra.type = "Udp"
    /\ la.ip \in {"v4", "v6"} /\ la.ip = ra.ip

\* The session an application builds: the two addresses from their
\* arguments, Configure, and the media session configs under their names.
BuildSession(la, ra, media) ==
    LET sc == SessionConfigure(NewQosrtpSessionConfig,
                  CreateTransportAddress(la.ip, la.port, la.type),
                  CreateTransportAddress(ra.ip, ra.port, ra.type), "cname")
    IN  [sc EXCEPT !.map_media_session_config = media]
=============================================================================
