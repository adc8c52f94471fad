------------------------ MODULE CandidateReceiptOrder ------------------------
(***************************************************************************)
(* The ordering of parachain candidate receipts in                         *)
(* src/primitives/src/v0.rs.  CandidateReceipt and AbridgedCandidateReceipt *)
(* derive PartialEq/Eq over all their fields but implement Ord by hand on   *)
(* parachain_index and head_data only, and abridge/complete move a receipt  *)
(* between the two forms, and to_collation_info, into_receipt and           *)
(* to_descriptor move it to and from the collator's and the lightweight     *)
(* forms.  Hashes, keys, commitments and the validation data are model      *)
(* values; head data is a short byte string; a signature is the pair of its *)
(* signer and the fields it signs (collator_signature_payload).             *)
(*                                                                          *)
(* As in StatementCodec, the specification fixes one probe, here a pair of  *)
(* receipts, and the invariants compare the operators on it.                *)
(***************************************************************************)
EXTENDS Integers, Sequences

CONSTANTS ParaIds,        \* u32 parachain ids
          RelayParents,   \* relay-parent hashes
          HeadBytes,      \* byte values of head data
          MaxHeadLen,     \* longest head data
          Collators,      \* collator keys (the signature follows the key)
          PovHashes,      \* PoV block hashes
          Validations,    \* values of the omitted global/local validation data
          Commitments     \* values of CandidateCommitments

VARIABLE probe

Ordering == {"Less", "Equal", "Greater"}

(* Ord for an integer (u32 Id). *)
CmpInt(x, y) == IF x < y THEN "Less" ELSE IF x = y THEN "Equal" ELSE "Greater"

(* Ordering::then_with: the second comparison decides a tie of the first. *)
ThenWith(first, second) == IF first = "Equal" THEN second ELSE first

(* Ord for Vec<u8> (HeadData): lexicographic, a prefix before a longer string. *)
RECURSIVE CmpBytes(_, _)
CmpBytes(a, b) ==
    IF a = << >> /\ b = << >> THEN "Equal"
    ELSE IF a = << >> THEN "Less"
    ELSE IF b = << >> THEN "Greater"
    ELSE ThenWith(CmpInt(Head(a), Head(b)), CmpBytes(Tail(a), Tail(b)))

HeadDatas == UNION {[1..n -> HeadBytes] : n \in 0..MaxHeadLen}

(* A collator's signature on collator_signature_payload(relay_parent,    *)
(* parachain_index, pov_block_hash).                                       *)
CollatorSignature(collator, relay_parent, parachain_index, pov_block_hash) ==
    [signer |-> collator, payload |-> <<relay_parent, parachain_index, pov_block_hash>>]

Signatures ==
    {CollatorSignature(c, h, p, v) :
        c \in Collators, h \in RelayParents, p \in ParaIds, v \in PovHashes}

(* check_collator_signature: verify the signature against the payload.   *)
CheckCollatorSignature(relay_parent, parachain_index, pov_block_hash, collator, signature) ==
    signature = CollatorSignature(collator, relay_parent, parachain_index, pov_block_hash)

(* The fields of CandidateReceipt; the signature may be anyone's over any *)
(* fields, so it is checked, not assumed.                                 *)
CandidateReceipts ==
    [parachain_index : ParaIds, relay_parent : RelayParents,
     head_data : HeadDatas, collator : Collators, signature : Signatures,
     pov_block_hash : PovHashes, global_validation : Validations,
     local_validation : Validations, commitments : Commitments]

(* check_signature of CandidateReceipt, AbridgedCandidateReceipt and      *)
(* CollationInfo: the same call over the fields they share.               *)
CheckSignature(r) ==
    CheckCollatorSignature(r.relay_parent, r.parachain_index, r.pov_block_hash,
                           r.collator, r.signature)

(* Ord for CandidateReceipt. *)
CmpCandidateReceipt(a, b) ==
    ThenWith(CmpInt(a.parachain_index, b.parachain_index),
             CmpBytes(a.head_data, b.head_data))

(* CandidateReceipt::abridge: the abridged receipt and the omitted data. *)
Abridge(r) ==
    [abridged |-> [parachain_index |-> r.parachain_index,
                   relay_parent    |-> r.relay_parent,
                   head_data       |-> r.head_data,
                   collator        |-> r.collator,
                   signature       |-> r.signature,
                   pov_block_hash  |-> r.pov_block_hash,
                   commitments     |-> r.commitments],
     omitted  |-> [global_validation |-> r.global_validation,
                   local_validation  |-> r.local_validation]]

(* AbridgedCandidateReceipt::complete. *)
Complete(a, omitted) ==
    [parachain_index   |-> a.parachain_index,
     relay_parent      |-> a.relay_parent,
     head_data         |-> a.head_data,
     collator          |-> a.collator,
     signature         |-> a.signature,
     pov_block_hash    |-> a.pov_block_hash,
     global_validation |-> omitted.global_validation,
     local_validation  |-> omitted.local_validation,
     commitments       |-> a.commitments]

(* Mutant: the relay parent and the PoV hash, both H, are swapped. *)
ToCollationInfoSwappedHashes(a) ==
    [parachain_index |-> a.parachain_index, relay_parent |-> a.pov_block_hash,
     head_data |-> a.head_data, collator |-> a.collator,
     signature |-> a.signature, pov_block_hash |-> a.relay_parent]

(* AbridgedCandidateReceipt::to_collation_info: all but the commitments. *)
ToCollationInfo(a) ==
    [parachain_index |-> a.parachain_index, relay_parent |-> a.relay_parent,
     head_data |-> a.head_data, collator |-> a.collator,
     signature |-> a.signature, pov_block_hash |-> a.pov_block_hash]

(* CollationInfo::into_receipt: the collation with the given commitments. *)
IntoReceipt(info, commitments) ==
    [parachain_index |-> info.parachain_index, relay_parent |-> info.relay_parent,
     head_data |-> info.head_data, collator |-> info.collator,
     signature |-> info.signature, pov_block_hash |-> info.pov_block_hash,
     commitments |-> commitments]

(* AbridgedCandidateReceipt::to_descriptor. *)
ToDescriptor(a) ==
    [para_id |-> a.parachain_index, relay_parent |-> a.relay_parent,
     collator |-> a.collator, signature |-> a.signature,
     pov_hash |-> a.pov_block_hash]

(* Ord for AbridgedCandidateReceipt. *)
CmpAbridgedCandidateReceipt(a, b) ==
    ThenWith(CmpInt(a.parachain_index, b.parachain_index),
             CmpBytes(a.head_data, b.head_data))

Init == probe \in CandidateReceipts \X CandidateReceipts

(* Each pair is examined once; the specification then stays where it is. *)
Examine == UNCHANGED probe

Spec == Init /\ [][Examine]_probe

(* ---------------------------------------------------------------------- *)
(* Properties.                                                             *)

(* A receipt keeps its identity and its collator's signature through every *)
(* form the code moves it to: complete(abridge(r)) is r,                 *)
(* into_receipt(to_collation_info(a), a.commitments) is a, and the        *)
(* signature checks on the full receipt, the abridged receipt, the        *)
(* collation info and the descriptor's fields all agree.                  *)
ConversionsPreserveReceipt ==
    LET r == probe[1]
        a == Abridge(r).abridged
        info == ToCollationInfo(a)
        d == ToDescriptor(a)
    IN /\ Complete(a, Abridge(r).omitted) = r
       /\ IntoReceipt(info, a.commitments) = a
       /\ CheckSignature(a) = CheckSignature(r)
       /\ CheckSignature(info) = CheckSignature(r)
       /\ CheckCollatorSignature(d.relay_parent, d.para_id, d.pov_hash,
                                 d.collator, d.signature) = CheckSignature(r)

(* The contract of Ord for CandidateReceipt and AbridgedCandidateReceipt:  *)
(* cmp returns Equal exactly for equal receipts (the derived Eq).          *)
(* Otherwise a sorted collection of receipts, full or abridged, treats two *)
(* distinct candidates as the same entry.                                  *)
OrdConsistentWithEq ==
    LET a == Abridge(probe[1]).abridged
        b == Abridge(probe[2]).abridged
    IN /\ (CmpCandidateReceipt(probe[1], probe[2]) = "Equal") <=> (probe[1] = probe[2])
       /\ (CmpAbridgedCandidateReceipt(a, b) = "Equal") <=> (a = b)
=============================================================================
