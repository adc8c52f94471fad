-------------------------- MODULE LaneConfirmation --------------------------
(***************************************************************************)
(* The source side of the titan->Wococo message lane: the confirmation     *)
(* sub-loop, which proves to titan the nonces Wococo's inbound lane has    *)
(* received, signing with source_sign at titan.                            *)
(*                                                                         *)
(* From src/: make_messages_receiving_proof_transaction                    *)
(* (chains/titan_messages_to_wococo.rs), the relay's hand-written titan    *)
(* Call table (client-titan/src/runtime.rs), titan's sign_transaction,     *)
(* which signs bp_titan::VERSION (client-titan/src/lib.rs), and the loop   *)
(* parameters of run (stall_timeout, no guards).  From spec.md (the loop, *)
(* the pool and the titan runtime are outside src/): the sub-loop submits  *)
(* one transaction at a time and remembers, in memory, the nonce it        *)
(* awaits; a stall without progress tears the loop down and rebuilds it   *)
(* from the chains, forgetting what it awaited, while its submissions      *)
(* "complete or fail naturally" (spec.md 5).                               *)
(*                                                                         *)
(* titan may upgrade its runtime and move the messages pallet; the pool    *)
(* may lose a transaction.  Delivery at Wococo is MessageLane's; here the  *)
(* received nonce simply grows.                                            *)
(***************************************************************************)
EXTENDS Integers, FiniteSets

CONSTANTS MaxMessages,          \* nonces Wococo's inbound lane receives
          Versions,             \* spec_versions titan's runtime may run
          PinnedVersion,        \* bp_titan::VERSION.spec_version
          MessagesPalletIndex,  \* spec_version -> index of the messages pallet
          OtherPalletIndex,     \* spec_version -> index of some other pallet
          MaxLost               \* transactions the pool may lose

ASSUME /\ PinnedVersion \in Versions
       /\ MessagesPalletIndex \in [Versions -> Nat]
       /\ OtherPalletIndex \in [Versions -> Nat]

VARIABLES received,        \* Wococo inbound lane latest_received_nonce
          confirmed,       \* titan outbound lane latest_received_nonce
          source_version,  \* spec_version of titan's runtime
          account_nonce,   \* source_sign's account nonce at titan
          task,            \* what the sub-loop read for its next submission
          awaiting,        \* the nonce its last submission confirms (0: none)
          pool,            \* submitted, not yet included transactions
          dispatched,      \* calls titan dispatched for the relayer
          lost             \* transactions lost so far

vars == <<received, confirmed, source_version, account_nonce, task, awaiting, pool,
          dispatched, lost>>

NoRead == [end |-> 0, nonce |-> -1]

(* client-titan runtime.rs: Call::BridgeMessagesWococo is #[codec(index = *)
(* 44)]; receive_messages_delivery_proof is index 6 (send_message 3,      *)
(* receive_messages_proof 5).                                              *)
ClientMessagesPalletIndex == 44
(* Mutant: the call is built with receive_messages_proof's index. *)
ReceiveMessagesDeliveryProofCallIndex5(end) ==
    [pallet |-> ClientMessagesPalletIndex, index |-> 5, end |-> end]

ReceiveMessagesDeliveryProofCall(end) ==
    [pallet |-> ClientMessagesPalletIndex, index |-> 6, end |-> end]

(* titan's construct_runtime: the call a (pallet, index) pair names under *)
(* a spec_version.                                                         *)
DecodeCall(call, version) ==
    CASE call.pallet = MessagesPalletIndex[version] /\ call.index = 3 -> "send_message"
      [] call.pallet = MessagesPalletIndex[version] /\ call.index = 5 -> "receive_messages_proof"
      [] call.pallet = MessagesPalletIndex[version] /\ call.index = 6
            -> "receive_messages_delivery_proof"
      [] call.pallet = OtherPalletIndex[version] -> "other_pallet_call"
      [] OTHER -> "undecodable"

(* Mutant: the transaction is signed for the spec_version titan runs now. *)
SignTransactionWithRuntimeVersion(call, nonce) ==
    [call |-> call, nonce |-> nonce, spec_version |-> source_version]

(* titan::sign_transaction: the call, the nonce and SignedExtensions      *)
(* built from bp_titan::VERSION, immortal, signed by source_sign.          *)
SignTransaction(call, nonce) ==
    [call |-> call, nonce |-> nonce, spec_version |-> PinnedVersion]

(* make_messages_receiving_proof_transaction: receive_messages_delivery_- *)
(* proof with the relayers state and the proof of Wococo's inbound lane   *)
(* up to `end`, signed with the transaction_nonce it is given.            *)
MakeMessagesReceivingProofTransaction(nonce, end) ==
    SignTransaction(ReceiveMessagesDeliveryProofCall(end), nonce)

(* Client::next_account_index: the account nonce moved past the           *)
(* transactions the pool holds for the account.                            *)
NextIndex ==
    LET held(k) == \E tx \in pool : tx.nonce = k
    IN CHOOSE k \in account_nonce..(account_nonce + Cardinality(pool)) :
           /\ ~held(k)
           /\ \A i \in account_nonce..(k - 1) : held(i)

Init ==
    /\ received = 0
    /\ confirmed = 0
    /\ source_version = PinnedVersion
    /\ account_nonce = 0
    /\ task = NoRead
    /\ awaiting = 0
    /\ pool = {}
    /\ dispatched = {}
    /\ lost = 0

(* Wococo's inbound lane receives the next message. *)
TargetReceive ==
    /\ received < MaxMessages
    /\ received' = received + 1
    /\ UNCHANGED <<confirmed, source_version, account_nonce, task, awaiting, pool,
                   dispatched, lost>>

(* titan enacts a runtime upgrade. *)
RuntimeUpgrade ==
    /\ \E v \in Versions : v > source_version /\ source_version' = v
    /\ UNCHANGED <<received, confirmed, account_nonce, task, awaiting, pool,
                   dispatched, lost>>

(* A confirmation cycle: nothing it submitted is still awaited, Wococo    *)
(* has received beyond titan's confirmed nonce; it reads the received     *)
(* nonce (with the relayers state and the proof) and the next index.      *)
ConfirmationPrepare ==
    /\ task = NoRead
    /\ confirmed >= awaiting
    /\ received > confirmed
    /\ task' = [end |-> received, nonce |-> NextIndex]
    /\ UNCHANGED <<received, confirmed, source_version, account_nonce, awaiting, pool,
                   dispatched, lost>>

(* It builds and submits the transaction and awaits the nonce it proves.  *)
(* A nonce the pool holds, or one already used, leaves the pool as it was. *)
ConfirmationSubmit ==
    LET tx == MakeMessagesReceivingProofTransaction(task.nonce, task.end) IN
    /\ task # NoRead
    /\ pool' = IF tx.nonce < account_nonce \/ \E old \in pool : old.nonce = tx.nonce
               THEN pool ELSE pool \cup {tx}
    /\ awaiting' = task.end
    /\ task' = NoRead
    /\ UNCHANGED <<received, confirmed, source_version, account_nonce, dispatched, lost>>

(* titan includes the transaction at the account's nonce: CheckSpecVersion *)
(* passes, the nonce is taken and the call dispatched as the runtime       *)
(* decodes it; a delivery proof moves the confirmed nonce up.             *)
IncludeTransaction(tx) ==
    LET call == DecodeCall(tx.call, source_version) IN
    /\ tx.nonce = account_nonce
    /\ tx.spec_version = source_version
    /\ account_nonce' = account_nonce + 1
    /\ dispatched' = dispatched \cup {call}
    /\ confirmed' = IF call = "receive_messages_delivery_proof" /\ tx.call.end > confirmed
                    THEN tx.call.end ELSE confirmed
    /\ pool' = pool \ {tx}
    /\ UNCHANGED <<received, source_version, task, awaiting, lost>>

(* titan refuses a transaction signed for another spec_version. *)
RejectTransaction(tx) ==
    /\ tx.spec_version # source_version
    /\ pool' = pool \ {tx}
    /\ UNCHANGED <<received, confirmed, source_version, account_nonce, task, awaiting,
                   dispatched, lost>>

Include == \E tx \in pool : IncludeTransaction(tx) \/ RejectTransaction(tx)

(* The network or the pool loses a submitted transaction. *)
DropTransaction ==
    /\ lost < MaxLost
    /\ \E tx \in pool : pool' = pool \ {tx}
    /\ lost' = lost + 1
    /\ UNCHANGED <<received, confirmed, source_version, account_nonce, task, awaiting,
                   dispatched>>

(* The submission awaited is no longer in the pool: it was lost, or titan *)
(* refused or included it without confirming the awaited nonce.  A        *)
(* transaction the pool holds is included or refused within a few blocks, *)
(* well inside stall_timeout, so the timer fires only in this case.       *)
Stalled == awaiting > confirmed /\ ~\E tx \in pool : tx.call.end = awaiting

(* Mutant: the rebuilt loop keeps the nonce the old one awaited. *)
StallRestartKeepsAwaited ==
    /\ Stalled
    /\ task' = NoRead
    /\ UNCHANGED <<received, confirmed, source_version, account_nonce, awaiting, pool,
                   dispatched, lost>>

(* stall_timeout: no confirmation progress for five minutes; the loop is  *)
(* torn down and rebuilt from the chains, forgetting what it read and     *)
(* awaited.  Its submissions stay in the pool.                             *)
StallRestart ==
    /\ Stalled
    /\ task' = NoRead
    /\ awaiting' = 0
    /\ UNCHANGED <<received, confirmed, source_version, account_nonce, pool, dispatched,
                   lost>>

Next ==
    \/ TargetReceive
    \/ RuntimeUpgrade
    \/ ConfirmationPrepare
    \/ ConfirmationSubmit
    \/ Include
    \/ DropTransaction
    \/ StallRestart

(* The sub-loop ticks on titan's block interval, the stall timer fires    *)
(* once five minutes pass without progress, and titan eventually includes *)
(* or refuses a ready transaction.                                        *)
Spec == Init /\ [][Next]_vars
        /\ WF_vars(ConfirmationPrepare) /\ WF_vars(ConfirmationSubmit)
        /\ WF_vars(Include) /\ WF_vars(StallRestart)

(* ---------------------------------------------------------------------- *)
(* Properties.                                                             *)

Transactions == [call : [pallet : {ClientMessagesPalletIndex}, index : {6},
                         end : 1..MaxMessages],
                 nonce : Nat, spec_version : Versions]

TypeOK ==
    /\ received \in 0..MaxMessages
    /\ confirmed \in 0..received
    /\ source_version \in Versions
    /\ account_nonce \in Nat
    /\ task \in {NoRead} \cup [end : 1..MaxMessages, nonce : Nat]
    /\ awaiting \in 0..MaxMessages
    /\ pool \subseteq Transactions /\ Cardinality(pool) <= 1
    /\ dispatched \subseteq {"send_message", "receive_messages_proof",
                             "receive_messages_delivery_proof", "other_pallet_call",
                             "undecodable"}
    /\ lost \in 0..MaxLost

(* titan only ever dispatches, for the relayer, the delivery proofs the   *)
(* sub-loop built: after an upgrade moves the messages pallet, a          *)
(* transaction built with the client's Call table is refused rather than  *)
(* executed as another pallet's call.                                     *)
DispatchedOnlyIntendedCalls == dispatched \subseteq {"receive_messages_delivery_proof"}

(* Every nonce Wococo receives is eventually confirmed at titan, as long  *)
(* as titan runs the runtime the client was built for, even when the     *)
(* pool loses the awaited transaction: the stall teardown makes the       *)
(* rebuilt loop prove it again.                                            *)
EveryReceivedConfirmed ==
    \A n \in 1..MaxMessages :
        (received >= n) ~> (confirmed >= n \/ source_version # PinnedVersion)

(* spec.md 6: an adapter refuses to construct a transaction when the      *)
(* chain's reported runtime version disagrees with the one its call table *)
(* is stamped against.                                                     *)
BuildsOnlyForReportedVersion ==
    [][\A tx \in pool' \ pool : tx.spec_version = source_version]_vars
=============================================================================
