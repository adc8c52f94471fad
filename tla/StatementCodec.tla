--------------------------- MODULE StatementCodec ---------------------------
(***************************************************************************)
(* The byte layouts of src/primitives/src/v0.rs that validators and        *)
(* collators sign: the SCALE codec of CompactStatement with its "BKNG"     *)
(* magic prefix, the SigningContext appended to it, the payload that a     *)
(* ValidityAttestation is checked against, and the 68-byte collator        *)
(* signature payload.  Hashes are HashLen bytes (32 in the code); a byte   *)
(* is a number in 0..255 drawn from the small set Bytes.                   *)
(*                                                                         *)
(* The operators are pure.  The specification only fixes one probe (a byte *)
(* string to decode, a statement, or a collator payload's inputs) and the  *)
(* invariants compare the code's operators with reference definitions on   *)
(* it, so that TLC checks every bounded input once.                        *)
(***************************************************************************)
EXTENDS Integers, Sequences, FiniteSets

CONSTANTS Bytes,          \* the byte values a probe is built from
          HashLen,        \* length of a hash (32 in the code)
          MaxInputLen,    \* longest byte string handed to the decoder
          SessionIndexes, \* u32 session indexes of the signing contexts
          ParaIds         \* u32 parachain ids

ASSUME /\ Bytes \subseteq 0..255
       /\ HashLen \in Nat \ {0}
       /\ SessionIndexes \cup ParaIds \subseteq 0..2147483647

VARIABLE probe

(* Fixed-width little-endian encoding of an unsigned integer (u32 is 4). *)
RECURSIVE EncodeLE(_, _)
EncodeLE(i, width) ==
    IF width = 0 THEN << >>
    ELSE << i % 256 >> \o EncodeLE(i \div 256, width - 1)

Hashes == [1..HashLen -> Bytes]

BACKING_STATEMENT_MAGIC == << 66, 75, 78, 71 >>   \* b"BKNG"

Kinds == {"Seconded", "Valid"}

CompactStatements == [kind : Kinds, hash : Hashes]

(* #[codec(index = ..)] of CompactStatementInner. *)
CompactStatementInner == [k \in Kinds |-> IF k = "Seconded" THEN 1 ELSE 2]

(* encode_to: the magic, then the inner enum (discriminant and hash). *)
EncodeCompactStatement(s) ==
    BACKING_STATEMENT_MAGIC \o << CompactStatementInner[s.kind] >> \o s.hash

(* A failed decode; the code returns parity_scale_codec::Error. *)
DecodeError == [ok |-> FALSE]

(* Mutant: the magic string is read but not compared. *)
DecodeCompactStatementNoMagicCheck(input) ==
    IF Len(input) < 5 + HashLen THEN DecodeError
    ELSE IF input[5] \notin {CompactStatementInner[k] : k \in Kinds}
         THEN DecodeError
    ELSE [ok    |-> TRUE,
          value |-> [kind |-> CHOOSE k \in Kinds :
                                  CompactStatementInner[k] = input[5],
                     hash |-> SubSeq(input, 6, 5 + HashLen)],
          rest  |-> SubSeq(input, 6 + HashLen, Len(input))]

(* Decode for CompactStatement: [u8; 4] (fails on a short input), the     *)
(* magic check, then CompactStatementInner::decode (a known discriminant  *)
(* and HashLen more bytes).  The bytes after the statement stay unread.   *)
DecodeCompactStatement(input) ==
    IF Len(input) < 4 THEN DecodeError
    ELSE IF SubSeq(input, 1, 4) # BACKING_STATEMENT_MAGIC THEN DecodeError
    ELSE IF Len(input) < 5 + HashLen THEN DecodeError
    ELSE IF input[5] \notin {CompactStatementInner[k] : k \in Kinds}
         THEN DecodeError
    ELSE [ok    |-> TRUE,
          value |-> [kind |-> CHOOSE k \in Kinds :
                                  CompactStatementInner[k] = input[5],
                     hash |-> SubSeq(input, 6, 5 + HashLen)],
          rest  |-> SubSeq(input, 6 + HashLen, Len(input))]

SigningContexts == [session_index : SessionIndexes, parent_hash : Hashes]

(* SigningContext's derived Encode: session_index as u32, parent_hash. *)
EncodeSigningContext(c) == EncodeLE(c.session_index, 4) \o c.parent_hash

(* CompactStatement::signing_payload: (self, context).encode(). *)
SigningPayload(s, c) == EncodeCompactStatement(s) \o EncodeSigningContext(c)

(* Mutant: both attestation kinds sign a Seconded statement. *)
SignedPayloadBothSeconded(attestation, candidate_hash, c) ==
    SigningPayload([kind |-> "Seconded", hash |-> candidate_hash], c)

(* ValidityAttestation::signed_payload: Implicit stands for Seconded and *)
(* Explicit for Valid.                                                   *)
SignedPayload(attestation, candidate_hash, c) ==
    IF attestation = "Implicit"
    THEN SigningPayload([kind |-> "Seconded", hash |-> candidate_hash], c)
    ELSE SigningPayload([kind |-> "Valid", hash |-> candidate_hash], c)

(* Mutant: the para id is written with a 16-bit width. *)
CollatorSignaturePayloadNarrowId(relay_parent, parachain_index, pov_block_hash) ==
    relay_parent \o EncodeLE(parachain_index, 2) \o pov_block_hash

(* collator_signature_payload: relay_parent, the u32 para id, pov hash. *)
CollatorSignaturePayload(relay_parent, parachain_index, pov_block_hash) ==
    relay_parent \o EncodeLE(parachain_index, 4) \o pov_block_hash

(* check_collator_signature: a signature is modelled as the pair of its  *)
(* signer and the bytes it signed, so verify is equality with them.      *)
CheckCollatorSignature(relay_parent, parachain_index, pov_block_hash, collator, signature) ==
    signature = [signer  |-> collator,
                 payload |-> CollatorSignaturePayload(relay_parent,
                                 parachain_index, pov_block_hash)]

(* ---------------------------------------------------------------------- *)
(* The probes.                                                             *)

ByteStrings == UNION {[1..n -> Bytes] : n \in 0..MaxInputLen}

CollationKeys == [relay_parent : Hashes, para : ParaIds, pov : Hashes]

Probes ==
    {[kind |-> "decode", bytes |-> b] : b \in ByteStrings}
    \cup {[kind |-> "statement", statement |-> s, context |-> c] :
            s \in CompactStatements, c \in SigningContexts}
    \cup {[kind |-> "collation", key |-> k] : k \in CollationKeys}

Init == probe \in Probes

(* Each probe is examined once; the specification then stays where it is. *)
Examine == UNCHANGED probe

Spec == Init /\ [][Examine]_probe

(* ---------------------------------------------------------------------- *)
(* Properties.                                                             *)

(* Reference decoder: the input is accepted exactly when it begins with  *)
(* the encoding of a statement, and then yields that statement and the    *)
(* bytes after it.                                                        *)
ReferenceDecode(input) ==
    LET fits == {s \in CompactStatements :
                   LET e == EncodeCompactStatement(s) IN
                   Len(e) <= Len(input) /\ SubSeq(input, 1, Len(e)) = e}
    IN IF fits = {} THEN DecodeError
       ELSE LET s == CHOOSE s \in fits : TRUE IN
            [ok |-> TRUE, value |-> s,
             rest |-> SubSeq(input, Len(EncodeCompactStatement(s)) + 1,
                             Len(input))]

(* CompactStatement's hand-written Decode (magic check, then the inner    *)
(* enum) accepts exactly the encodings its Encode produces: a byte string *)
(* with another prefix or an unknown discriminant is rejected outright,   *)
(* and a statement survives a round trip.                                 *)
DecodeMatchesEncode ==
    probe.kind = "decode" =>
        DecodeCompactStatement(probe.bytes) = ReferenceDecode(probe.bytes)

(* ValidityAttestation::signed_payload: an implicit attestation is        *)
(* checked against the payload of a Seconded statement and an explicit    *)
(* one against that of a Valid statement for the same candidate and       *)
(* context, and the two never coincide, so a signature on one kind of     *)
(* statement can never be counted as the other kind.                      *)
AttestationPayloadsSeparated ==
    probe.kind = "statement" =>
        LET s == probe.statement
            c == probe.context
            attestation == IF s.kind = "Seconded" THEN "Implicit" ELSE "Explicit"
            other == IF s.kind = "Seconded" THEN "Explicit" ELSE "Implicit"
        IN /\ SignedPayload(attestation, s.hash, c) = SigningPayload(s, c)
           /\ SignedPayload(other, s.hash, c) # SigningPayload(s, c)

(* check_collator_signature: a collator's signature over one (relay       *)
(* parent, parachain, PoV hash) verifies for no other triple, i.e. the    *)
(* 68-byte payload layout is injective.                                   *)
CollatorSignatureBinding ==
    probe.kind = "collation" =>
        LET k == probe.key
            sig == [signer |-> "collator",
                    payload |-> CollatorSignaturePayload(k.relay_parent,
                                    k.para, k.pov)]
        IN \A k2 \in CollationKeys :
              CheckCollatorSignature(k2.relay_parent, k2.para, k2.pov,
                                     "collator", sig) => k2 = k
=============================================================================
