\* titan_to_wococo: three headers, two of them carrying a message, one
\* runtime upgrade that moves both pallets, fees of 1 against a daily
\* maximum of 5 (so relaying alone, at most five transactions, never trips
\* the balance guard) and one spend of 2 by another key holder.
CONSTANTS
    Bridge = "titan_to_wococo"
    MaxHeader = 3
    MaxMessages = 2
    Versions = {1, 2}
    PinnedVersion = 1
    BridgePalletIndex <- MCBridgePalletIndex
    MessagesPalletIndex <- MCMessagesPalletIndex
    InitialBalance = 7
    Fee = 1
    MaximalBalanceDecrease = 5
    Drain = 2
    MaxLost = 0
SPECIFICATION Spec
\* A guard aborts the relay process, which then really stops, and the
\* source finalizes only MaxHeader headers.
CHECK_DEADLOCK FALSE
INVARIANTS
    TypeOK
    DispatchedOnlyIntendedCalls
PROPERTIES
    HeadersEventuallyRelayed
    MessagesEventuallyDelivered
