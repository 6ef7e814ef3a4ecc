------------------------ MODULE MCUpgradeableEngine -------------------------
(* UpgradeableEngine for TLC.                                              *)
EXTENDS UpgradeableEngine

CONSTANTS a, b, v1, v2

Call(fn, arg) == [fn |-> fn, arg |-> arg]

MCCalls ==
    {Call("upgradeTo", v2), Call("upgradeTo", b), Call("setProtocolFee", 1000),
     Call("setProtocolFee", 1001), Call("setFeeRecipient", b), Call("setTimelock", Timelock),
     Call("setTimelock", Nobody), Call("changeAdmin", Timelock), Call("reinitialize", 2), Call("pause", 0),
     Call("unpause", 0), Call("setMinDelay", 1)}
=============================================================================
