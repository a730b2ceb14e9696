--------------------------- MODULE MCSessionRuntime ---------------------------
(* Model-checking instance of SessionRuntime; constants in                 *)
(* MCSessionRuntime*.cfg.                                                  *)
EXTENDS SessionRuntime

\* What the peer sends: RTP of the remote ssrc (7) that reveals a gap, RTP
\* of an ssrc no destination expects, a BYE compound as RtcpSender::SendRtcp
\* builds it (SR with a report block on our ssrc 5, SDES, BYE), and a
\* datagram of the wrong version the demultiplexer drops.
PeerBye == Codec!Serialize(Codec!BuildCompound(7, 5, 8, TRUE, TRUE, TRUE, <<>>))

MCDatagrams ==
    {[ver |-> 2, pt |-> 96, len |-> 20, ssrc |-> 7, loss |-> TRUE, blocks |-> <<>>],
     [ver |-> 2, pt |-> 96, len |-> 20, ssrc |-> 9, loss |-> TRUE, blocks |-> <<>>],
     [ver |-> 2, pt |-> PeerBye[1].pt, len |-> Codec!Remain(PeerBye), ssrc |-> 7,
      loss |-> FALSE, blocks |-> PeerBye],
     [ver |-> 1, pt |-> 96, len |-> 20, ssrc |-> 7, loss |-> TRUE, blocks |-> <<>>]}

\* An RtxConfig as an application builds it: Create, Configure, and one
\* AddRtxAndAssociatedPayloadType (refused for rtx_pt above 0x7F).
MCRtx(ssrc, max, rtx_pt) ==
    SC!AddRtxAndAssociatedPayloadType(SC!RtxConfigure(SC!NewRtxConfig, max, ssrc),
                                      rtx_pt, 96).rtx

\* An RtxConfig given two pairs, one deleted again.
MCRtxEdited(ssrc) ==
    SC!DeleteRtxAndAssociatedPayloadType(
        SC!AddRtxAndAssociatedPayloadType(MCRtx(ssrc, 2, 97), 98, 96).rtx, 97)

\* The session's one media session: local ssrc 5 with RTX on 6, remote
\* ssrc 7 with RTX on 8, SendRecv, a 4-tick report interval.
MCMediaArgs ==
    [ssrc_media_local |-> 5, rtx_config_local |-> MCRtx(6, 4, 97),
     rtp_clock_rate_hz_local |-> 90000, rtp_payload_types_local |-> <<96>>,
     ssrc_media_remote |-> 7, rtx_config_remote |-> MCRtx(8, 4, 97),
     rtp_clock_rate_hz_remote |-> 90000, rtp_payload_types_remote |-> <<96>>,
     max_cache_duration_ms |-> 1000, direction |-> SC!kSendRecv,
     rtcp_report_interval_ms |-> 4, callback |-> TRUE]

\* The same with a remote RtxConfig of max_cache_seq_difference 0 and a
\* 2-tick interval.
MCMediaArgsRtxZero ==
    [MCMediaArgs EXCEPT !.rtx_config_remote = MCRtx(8, 0, 97),
                        !.rtcp_report_interval_ms = 2]

\* Both IPv4 UDP.
MCAddressArgs ==
    [local |-> [ip |-> "v4", port |-> 5004, type |-> "Udp"],
     remote |-> [ip |-> "v4", port |-> 5006, type |-> "Udp"]]

\* Every argument a null pointer, a zero, a boundary payload type, a
\* colliding ssrc (local 2 against remote 2, an rtx ssrc 1 against local 1),
\* an RTX cache of 0, an out-of-range rtx payload type, and an unknown
\* direction can reach.
MCRtxSpace(ssrc) == {Null, MCRtx(ssrc, 0, 97), MCRtx(1, 1, 200), MCRtxEdited(ssrc)}
MCPayloadSpace == {Null, <<>>, <<127>>, <<96, 128>>}

MCMediaArgSpace ==
    [ssrc_media_local: {1, 2}, rtx_config_local: MCRtxSpace(3),
     rtp_clock_rate_hz_local: {Null, 0, 1}, rtp_payload_types_local: MCPayloadSpace,
     ssrc_media_remote: {2}, rtx_config_remote: MCRtxSpace(4),
     rtp_clock_rate_hz_remote: {Null, 0, 1}, rtp_payload_types_remote: MCPayloadSpace,
     max_cache_duration_ms: {Null, 0}, direction: SC!Directions \cup {"Unknown"},
     rtcp_report_interval_ms: {4}, callback: BOOLEAN]

MCAddressArgSpace == [ip: {"v4", "v6", "bad"}, port: {5004}, type: {"Udp", "Tcp"}]
=============================================================================
