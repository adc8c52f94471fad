------------------------- MODULE MessageLaneAbstract -------------------------
(***************************************************************************)
(* What a message lane promises (spec.md 3, 4.3): messages get nonces      *)
(* 1, 2, ... on the source; the target receives them in nonce order,       *)
(* without gaps and never takes one back; the source confirms only what    *)
(* the target has received, also in order.  A relay step may move several *)
(* nonces at once.                                                         *)
(***************************************************************************)
EXTENDS Naturals

CONSTANT MaxNonce

VARIABLES sent, received, confirmed

vars == <<sent, received, confirmed>>

Init == sent = 0 /\ received = 0 /\ confirmed = 0

Send == sent < MaxNonce /\ sent' = sent + 1 /\ UNCHANGED <<received, confirmed>>

Receive == \E n \in (received + 1)..sent :
              received' = n /\ UNCHANGED <<sent, confirmed>>

Confirm == \E n \in (confirmed + 1)..received :
              confirmed' = n /\ UNCHANGED <<sent, received>>

Next == Send \/ Receive \/ Confirm

Spec == Init /\ [][Next]_vars
====
