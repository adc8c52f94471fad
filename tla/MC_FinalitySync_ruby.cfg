\* ruby_to_millau: three headers and no message lane (src/ has no
\* ruby->Millau messages relay), one runtime upgrade that moves the bridge
\* pallet, fees of 1 against a daily maximum of 5 and one spend of 2 by
\* another key holder.
CONSTANTS
    Bridge = "ruby_to_millau"
    MaxHeader = 3
    MaxMessages = 0
    Versions = {1, 2}
    PinnedVersion = 1
    BridgePalletIndex <- MCBridgePalletIndex
    MessagesPalletIndex <- MCMessagesPalletIndex
    InitialBalance = 7
    Fee = 1
    MaximalBalanceDecrease = 5
    Drain = 2
    MaxLost = 1
SPECIFICATION Spec
\* A guard aborts the relay process, which then really stops, and the
\* source finalizes only MaxHeader headers.
CHECK_DEADLOCK FALSE
PROPERTY GuardsStopPipeline
