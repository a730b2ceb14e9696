\* A session that starts, runs with a 4-tick report interval while the peer
\* sends two datagrams, and may be destroyed at any point.
CONSTANTS
    MaxTime = 6
    MaxArrivals = 2
    Datagrams <- MCDatagrams
    Null = Null
    MediaArgs <- MCMediaArgs
    AddressArgs <- MCAddressArgs
    MediaArgSpace <- MCMediaArgSpace
    AddressArgSpace <- MCAddressArgSpace
SPECIFICATION FairSpec
\* A behaviour ends at the clock bound or once the session is destroyed.
CHECK_DEADLOCK FALSE
INVARIANTS
    ReportIntervalBound
    SilentAfterPeerBye
    TasksRunOnLiveObjects
    SpecConfigsStart
PROPERTIES
    CompoundsReachWire
    TeardownTerminates
