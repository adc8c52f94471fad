\* Three nonces received at Wococo, so a confirmation can prove one or several;
\* one runtime upgrade of titan that moves the messages pallet; two lost
\* transactions (one after a teardown), which only the stall teardown recovers from.
CONSTANTS
    MaxMessages = 3
    Versions = {1, 2}
    PinnedVersion = 1
    MessagesPalletIndex <- MCMessagesPalletIndex
    OtherPalletIndex <- MCOtherPalletIndex
    MaxLost = 2
SPECIFICATION Spec
\* Once Wococo has received the last of MaxMessages nonces and titan has
\* confirmed them, the loop only polls: the bound on messages ends the model.
CHECK_DEADLOCK FALSE
PROPERTY
    BuildsOnlyForReportedVersion
