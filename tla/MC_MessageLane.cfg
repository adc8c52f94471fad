\* Safety of one lane with two relayers racing on it, and its refinement
\* of MessageLaneAbstract under sent <- Len(outbound), received <-
\* in_latest_received, confirmed <- out_latest_received.
CONSTANTS
    r1 = r1
    r2 = r2
    Relayers <- MCRelayers
    MaxNonce = 3
    MessageWeights = {1, 2}
    SelectedMaxMessages = 4
    SelectedMaxWeight = 6
    MaxUnrewardedRelayerEntries = 2
    MaxUnconfirmedMessages = 3
    MaxInFlight = 2
    MaxLost = 1
SPECIFICATION Spec
SYMMETRY MCSymmetry
INVARIANTS
    TypeOK
    UnrewardedRelayersStateConsistent
    RewardedExactlyOnce
PROPERTIES
    LaneRefinement
