\* Liveness of one lane with two relayers: every message sent is confirmed,
\* with tight queue limits so that delivery must wait for confirmations.
CONSTANTS
    r1 = r1
    r2 = r2
    Relayers <- MCRelayers
    MaxNonce = 2
    MessageWeights = {1, 2}
    SelectedMaxMessages = 4
    SelectedMaxWeight = 6
    MaxUnrewardedRelayerEntries = 1
    MaxUnconfirmedMessages = 1
    MaxInFlight = 2
    MaxLost = 1
SPECIFICATION Spec
\* The lane deadlock-freedom is checked by MC_MessageLane.cfg; here a stuck
\* lane must show up as a violation of EveryMessageConfirmed.
CHECK_DEADLOCK FALSE
PROPERTIES
    EveryMessageConfirmed
