\* StatementCodec: every byte string of length <= 7 over the bytes of the
\* magic, both discriminants and an unknown one; one-byte hashes, so the
\* longest input is a statement followed by one extra byte.
\* FeeSchedule: every 4-bit fee schedule and every 4-bit message size,
\* 4096 inputs, of which most overflow the product, the sum, or both.
\* AccountDerivation: five distinct chain ids, two source accounts (so the
\* same account id of two chains and two accounts of one chain are both
\* compared), two calls and two spec versions.
\* SubsystemErrors: every error under at most two wrappers (with_origin and
\* the transparent availability-recovery variants) over two strings.
\* ChainSpecSelection: every id, exe name, feature set, force flag and file.
\* CandidateReceiptOrder: head data of up to two bytes over {0, 1} (so one
\* head is a prefix of another); every signer and signed triple.
CONSTANTS
    h1 = h1  h2 = h2  c1 = c1  c2 = c2  p1 = p1  v1 = v1  k1 = k1
    HeadBytes = {0, 1}
    MaxHeadLen = 2
    Bytes = {1, 2, 3, 66, 75, 78, 71}
    HashLen = 1
    MaxInputLen = 7
    SessionIndexes = {0, 1, 256}
    ParaIds <- MCParaIds
    BalanceBits = 4
    SizeBits = 4
    MILLAU_CHAIN_ID = MILLAU_CHAIN_ID
    RIALTO_CHAIN_ID = RIALTO_CHAIN_ID
    WOCOCO_CHAIN_ID = WOCOCO_CHAIN_ID
    TITAN_CHAIN_ID = TITAN_CHAIN_ID
    titan_CHAIN_ID = titan_CHAIN_ID
    x1 = x1  x2 = x2  call1 = call1  call2 = call2
    Accounts = {x1, x2}
    Calls = {call1, call2}
    SpecVersions = {1, 2}
    Strings = {s1, s2}
    MaxNesting = 2
    MaxFrames = 50
SPECIFICATION MCSpec
INVARIANTS
    DecodeMatchesEncode
    AttestationPayloadsSeparated
    CollatorSignatureBinding
    FeeIsSaturatedLinearFee
    SovereignAccountSeparation
    DigestBoundToDirection
    MethodsImplementedWhereCalled
    ConversionsPreserveReceipt
    DevChainsOfErrorMessageLoad
