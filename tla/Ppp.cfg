CONSTANTS
    Peers <- MCPeers
    Setups <- MCSetups
    MaxTerm = 2
    MaxNaks = 1
SPECIFICATION PppFairSpec
INVARIANTS  LinkFollowsState WaitIsTimed
PROPERTIES Settles
\* Both ends come to rest: everything is called, sent and answered.
CHECK_DEADLOCK FALSE
