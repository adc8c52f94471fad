\* Two parachains, head data of up to two bytes over {0, 1} (so one head is
\* a prefix of another), two relay parents and two collators, so two
\* receipts can agree on the ordered fields and differ elsewhere; the
\* signature ranges over every signer and signed triple.
CONSTANTS
    h1 = h1  h2 = h2  c1 = c1  c2 = c2  p1 = p1  v1 = v1  k1 = k1
    ParaIds = {1, 2}
    RelayParents <- MCRelayParents
    HeadBytes = {0, 1}
    MaxHeadLen = 2
    Collators <- MCCollators
    PovHashes = {p1}
    Validations = {v1}
    Commitments = {k1}
SPECIFICATION Spec
INVARIANT
    OrdConsistentWithEq
