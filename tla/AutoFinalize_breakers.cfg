SPECIFICATION CallsFairSpec
CONSTANTS
    r1 = r1
    r2 = r2
    Results = {r1, r2}
    RpcConfig <- MCRpcConfig
    ChainConfig <- MCChainConfig
    FinalizeEvery = 2
    MaxOutages = 2
PROPERTIES QuietAfterTrip PollsResume OldestIsFinalized
