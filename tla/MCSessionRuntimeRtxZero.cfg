\* StartSession with a remote RtxConfig whose max_cache_seq_difference is 0,
\* which MediaSessionConfig::Configure accepts and RtpReceiver::Initialize
\* refuses; a 2-tick report interval, so the first report is due one tick
\* after RtcpSender::Initialize.  No datagram is needed.
CONSTANTS
    MaxTime = 4
    MaxArrivals = 0
    Datagrams <- MCDatagrams
    Null = Null
    MediaArgs <- MCMediaArgsRtxZero
    AddressArgs <- MCAddressArgs
    MediaArgSpace <- MCMediaArgSpace
    AddressArgSpace <- MCAddressArgSpace
SPECIFICATION Spec
CHECK_DEADLOCK FALSE
INVARIANT
    TasksRunOnLiveObjects
