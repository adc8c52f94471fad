\* The titan_to_wococo instance of MC_FinalitySync.cfg under the fault
\* model: the pool may lose one submitted transaction.
CONSTANTS
    Bridge = "titan_to_wococo"
    MaxHeader = 3
    MaxMessages = 2
    Versions = {1, 2}
    PinnedVersion = 1
    BridgePalletIndex <- MCBridgePalletIndex
    MessagesPalletIndex <- MCMessagesPalletIndex
    InitialBalance = 7
    Fee = 1
    MaximalBalanceDecrease = 5
    Drain = 2
    MaxLost = 1
SPECIFICATION LossySpec
\* A guard aborts the relay process, which then really stops.
CHECK_DEADLOCK FALSE
PROPERTY HeadersEventuallyRelayed
