---------------------------- MODULE FinalitySync ----------------------------
(***************************************************************************)
(* The target side of one bridge direction: the finality sync pipeline,    *)
(* which submits the source chain's best finalized header to the target's  *)
(* GRANDPA bridge pallet whenever the target lags behind, and the message  *)
(* lane's delivery sub-loop, which submits the lane's undelivered messages *)
(* once their header is known there.  Both run concurrently (spec.md 2)    *)
(* and sign with the same target_sign account, each with the account      *)
(* index it read before signing, so they race for its nonces.             *)
(*                                                                         *)
(* From src/ (chains/titan_headers_to_wococo.rs, ruby_headers_to_millau.rs, *)
(* titan_messages_to_wococo.rs, client-wococo/src/runtime.rs): the        *)
(* transaction builders, the relay's hand-written call table and           *)
(* start_relay_guards.  Wococo's sign_transaction (client-wococo/src/lib.rs *)
(* is not in the repository) is modelled from spec.md 4.1 as titan's is   *)
(* written: the nonce and the runtime VERSION the client was built        *)
(* against.  From spec.md (the loops, the guards' behaviour,              *)
(* the client's account index, the pool and the target runtime are        *)
(* outside src/): one submission per task awaited at a time, the          *)
(* spec-version guard, the balance guard, and how the target checks and    *)
(* dispatches a transaction.  The delivery batch is every undelivered     *)
(* message; its limits are MessageLane's.                                  *)
(*                                                                         *)
(* The target may upgrade its runtime, which may move the pallets to       *)
(* other call indices, and someone else holding the relayer's key may      *)
(* spend from its account.                                                 *)
(***************************************************************************)
EXTENDS Integers, FiniteSets, Sequences

CONSTANTS Bridge,                 \* "titan_to_wococo" or "ruby_to_millau"
          MaxHeader,              \* headers the source finalizes
          MaxMessages,            \* messages sent on the lane (0: no lane)
          Versions,               \* spec_versions the target runtime may run
          PinnedVersion,          \* VERSION.spec_version the client is built against
          BridgePalletIndex,      \* spec_version -> index of the bridge pallet
          MessagesPalletIndex,    \* spec_version -> index of the messages pallet
          InitialBalance,         \* relayer account balance at the target
          Fee,                    \* fee of one included transaction
          MaximalBalanceDecrease, \* MAXIMAL_BALANCE_DECREASE_PER_DAY
          Drain,                  \* one spend by another holder of the key
          MaxLost                 \* transactions the pool may lose

ASSUME /\ PinnedVersion \in Versions
       /\ BridgePalletIndex \in [Versions -> Nat]
       /\ MessagesPalletIndex \in [Versions -> Nat]
       /\ Fee > 0

VARIABLES source_best,     \* best finalized header at the source
          outbound,        \* source outbound lane: nonce -> header that holds it
          target_best,     \* best finalized source header at the target
          received,        \* inbound lane latest_received_nonce at the target
          target_version,  \* spec_version of the target runtime
          balance,         \* target_sign's balance at the target
          account_nonce,   \* target_sign's account nonce at the target
          running,         \* the relay process has not been aborted
          task,            \* task -> what it read for its next submission
          pool,            \* submitted, not yet included transactions
          dispatched,      \* calls the target dispatched for the relayer
          lost             \* transactions lost so far

vars == <<source_best, outbound, target_best, received, target_version, balance,
          account_nonce, running, task, pool, dispatched, lost>>

(* The two tasks that sign with target_sign: the finality pipeline and     *)
(* the lane's delivery sub-loop.  NoRead: the task has nothing to submit.  *)
Tasks == {"finality", "delivery"}
NoRead == [header |-> 0, begin |-> 0, end |-> 0, nonce |-> -1]

(* client-wococo runtime.rs: Call::BridgeGrandpatitan is #[codec(index =  *)
(* 40)], BridgeGrandpatitanCall::submit_finality_proof index 0 and        *)
(* initialize index 1.                                                    *)
ClientPalletIndex == 40
SubmitFinalityProofCall(header) ==
    [name |-> "submit_finality_proof", pallet |-> ClientPalletIndex, index |-> 0,
     header |-> header, begin |-> 0, end |-> 0]

(* client-wococo runtime.rs: Call::BridgeMessagestitan is index 43 and     *)
(* receive_messages_proof index 5 (send_message 3, delivery proof 6).      *)
ClientMessagesPalletIndex == 43
ReceiveMessagesProofCall(at, begin, end) ==
    [name |-> "receive_messages_proof", pallet |-> ClientMessagesPalletIndex, index |-> 5,
     header |-> at, begin |-> begin, end |-> end]

(* ruby_headers_to_millau: the call is millau_runtime's own                *)
(* BridgeGrandparubyCall::submit_finality_proof turned .into() the Call of *)
(* the runtime the relay was compiled with.                               *)
MillauSubmitFinalityProofCall(header) ==
    [SubmitFinalityProofCall(header) EXCEPT !.pallet = BridgePalletIndex[PinnedVersion]]

(* The target runtime's decoding of a call under its construct_runtime. *)
DecodeCall(call, version) ==
    CASE call.pallet = BridgePalletIndex[version] /\ call.index = 0 -> "submit_finality_proof"
      [] call.pallet = BridgePalletIndex[version] /\ call.index = 1 -> "initialize"
      [] call.pallet = MessagesPalletIndex[version] /\ call.index = 3 -> "send_message"
      [] call.pallet = MessagesPalletIndex[version] /\ call.index = 5 -> "receive_messages_proof"
      [] call.pallet = MessagesPalletIndex[version] /\ call.index = 6 -> "receive_messages_delivery_proof"
      [] call.pallet \in {BridgePalletIndex[version], MessagesPalletIndex[version]} -> "undecodable"
      [] OTHER -> "other_pallet_call"

(* Mutant: the relay signs with the spec_version the target runs now. *)
SignTransactionWithRuntimeVersion(call, nonce) ==
    [call |-> call, nonce |-> nonce, spec_version |-> target_version]

(* sign_transaction: the call, the nonce and the SignedExtensions built   *)
(* from VERSION, signed by target_sign.                                   *)
SignTransaction(call, nonce) ==
    [call |-> call, nonce |-> nonce, spec_version |-> PinnedVersion]

(* Mutant: the transaction carries the header after the best finalized one. *)
MakeSubmitFinalityProofTransactionNextHeader(nonce, header) ==
    SignTransaction(IF Bridge = "titan_to_wococo" THEN SubmitFinalityProofCall(header + 1)
                    ELSE MillauSubmitFinalityProofCall(header + 1), nonce)

(* make_submit_finality_proof_transaction for the header (and its proof), *)
(* signed with the transaction_nonce it is given.                          *)
MakeSubmitFinalityProofTransaction(nonce, header) ==
    SignTransaction(IF Bridge = "titan_to_wococo" THEN SubmitFinalityProofCall(header)
                    ELSE MillauSubmitFinalityProofCall(header), nonce)

(* Mutant: the delivery transaction is signed with the nonce after the one *)
(* it is given.                                                           *)
MakeMessagesDeliveryTransactionNextNonce(nonce, at, begin, end) ==
    SignTransaction(ReceiveMessagesProofCall(at, begin, end), nonce + 1)

(* make_messages_delivery_transaction: receive_messages_proof of nonces   *)
(* begin..end proven at source header `at`, signed by target_sign with    *)
(* the transaction_nonce it is given.                                      *)
MakeMessagesDeliveryTransaction(nonce, at, begin, end) ==
    SignTransaction(ReceiveMessagesProofCall(at, begin, end), nonce)

(* Mutant: only the spec-version guard is started. *)
StartRelayGuardsNoBalance ==
    IF Bridge = "titan_to_wococo" THEN {"spec_version"} ELSE {}

(* start_relay_guards: titan->Wococo starts both guards; ruby->Millau    *)
(* does not override the (empty) default.                               *)
StartRelayGuards ==
    IF Bridge = "titan_to_wococo" THEN {"spec_version", "balance"} ELSE {}

BalanceDecrease == InitialBalance - balance

(* The task has a transaction of its own waiting in the pool.             *)
Pending(name) == \E tx \in pool : tx.call.name = name

(* Client::next_account_index (system_accountNextIndex): the account      *)
(* nonce, moved past the transactions of the account that the pool holds  *)
(* ready for it.                                                           *)
NextIndex ==
    LET held(k) == \E tx \in pool : tx.nonce = k
    IN CHOOSE k \in account_nonce..(account_nonce + Cardinality(pool)) :
           /\ ~held(k)
           /\ \A i \in account_nonce..(k - 1) : held(i)

(* The pools a submission may leave: a nonce already used is refused as   *)
(* stale; a nonce the pool already holds is refused as too low priority   *)
(* or replaces the held transaction, as their priorities decide.           *)
PoolAfterSubmit(tx) ==
    LET same == {old \in pool : old.nonce = tx.nonce}
    IN IF tx.nonce < account_nonce THEN {pool}
       ELSE IF same = {} THEN {pool \cup {tx}}
       ELSE {pool} \cup {(pool \ {old}) \cup {tx} : old \in same}

Init ==
    /\ source_best = 0
    /\ outbound = <<>>
    /\ target_best = 0
    /\ received = 0
    /\ target_version = PinnedVersion
    /\ balance = InitialBalance
    /\ account_nonce = 0
    /\ running = TRUE
    /\ task = [t \in Tasks |-> NoRead]
    /\ pool = {}
    /\ dispatched = {}
    /\ lost = 0

chainVars == <<target_best, received, target_version, balance, account_nonce, dispatched>>

(* The source chain finalizes its next header. *)
SourceFinalize ==
    /\ source_best < MaxHeader
    /\ source_best' = source_best + 1
    /\ UNCHANGED <<outbound, chainVars, running, task, pool, lost>>

(* send_message on the source: the next header holds the next message. *)
SendMessage ==
    /\ source_best < MaxHeader
    /\ Len(outbound) < MaxMessages
    /\ source_best' = source_best + 1
    /\ outbound' = Append(outbound, source_best + 1)
    /\ UNCHANGED <<chainVars, running, task, pool, lost>>

(* The target chain enacts a runtime upgrade. *)
RuntimeUpgrade ==
    /\ \E v \in Versions : v > target_version /\ target_version' = v
    /\ UNCHANGED <<source_best, outbound, target_best, received, balance, account_nonce,
                   dispatched, running, task, pool, lost>>

(* Another holder of the relayer's key spends from its account. *)
SpendElsewhere ==
    /\ balance >= Drain
    /\ balance' = balance - Drain
    /\ UNCHANGED <<source_best, outbound, target_best, received, target_version,
                   account_nonce, dispatched, running, task, pool, lost>>

(* A pipeline cycle finds the target behind the source with no submission *)
(* of its own pending, and reads the header and the next account index.   *)
FinalityPrepare ==
    /\ running
    /\ task["finality"] = NoRead
    /\ ~Pending("submit_finality_proof")
    /\ source_best > target_best
    /\ task' = [task EXCEPT !["finality"] =
                  [header |-> source_best, begin |-> 0, end |-> 0, nonce |-> NextIndex]]
    /\ UNCHANGED <<source_best, outbound, chainVars, running, pool, lost>>

(* The pipeline signs the proof with the nonce it read and submits it.    *)
FinalitySubmit ==
    LET r == task["finality"] IN
    /\ running
    /\ r # NoRead
    /\ pool' \in PoolAfterSubmit(MakeSubmitFinalityProofTransaction(r.nonce, r.header))
    /\ task' = [task EXCEPT !["finality"] = NoRead]
    /\ UNCHANGED <<source_best, outbound, chainVars, running, lost>>

(* A delivery cycle finds undelivered messages with no delivery of its    *)
(* own pending, defers unless the target knows the source's best header,  *)
(* and reads the batch and the next account index.                        *)
DeliveryPrepare ==
    /\ running
    /\ task["delivery"] = NoRead
    /\ ~Pending("receive_messages_proof")
    /\ received < Len(outbound)
    /\ source_best <= target_best
    /\ task' = [task EXCEPT !["delivery"] =
                  [header |-> source_best, begin |-> received + 1, end |-> Len(outbound),
                   nonce |-> NextIndex]]
    /\ UNCHANGED <<source_best, outbound, chainVars, running, pool, lost>>

(* The delivery sub-loop signs the proof with the nonce it read and       *)
(* submits it.                                                            *)
DeliverySubmit ==
    LET r == task["delivery"] IN
    /\ running
    /\ r # NoRead
    /\ pool' \in PoolAfterSubmit(MakeMessagesDeliveryTransaction(r.nonce, r.header,
                                                                   r.begin, r.end))
    /\ task' = [task EXCEPT !["delivery"] = NoRead]
    /\ UNCHANGED <<source_best, outbound, chainVars, running, lost>>

(* The target includes the transaction at the account's nonce:            *)
(* CheckSpecVersion and the fee payment pass, the nonce and the fee are   *)
(* taken, and the call is dispatched as the current runtime decodes it:   *)
(* the bridge pallet imports a newer header; the inbound lane receives    *)
(* the proven messages if their header is known and they leave no gap.   *)
IncludeTransaction(tx) ==
    LET call == DecodeCall(tx.call, target_version) IN
    /\ tx.nonce = account_nonce
    /\ tx.spec_version = target_version
    /\ balance >= Fee
    /\ balance' = balance - Fee
    /\ account_nonce' = account_nonce + 1
    /\ dispatched' = dispatched \cup {call}
    /\ target_best' = IF call = "submit_finality_proof" /\ tx.call.header > target_best
                      THEN tx.call.header ELSE target_best
    /\ received' = IF /\ call = "receive_messages_proof"
                      /\ tx.call.header <= target_best
                      /\ tx.call.begin <= received + 1
                   THEN IF tx.call.end > received THEN tx.call.end ELSE received
                   ELSE received
    /\ pool' = pool \ {tx}
    /\ UNCHANGED <<source_best, outbound, target_version, running, task, lost>>

(* The target refuses a transaction signed for another spec_version or   *)
(* whose fee cannot be paid; it leaves the pool.                          *)
RejectTransaction(tx) ==
    /\ tx.spec_version # target_version \/ balance < Fee
    /\ pool' = pool \ {tx}
    /\ UNCHANGED <<source_best, outbound, chainVars, running, task, lost>>

(* The network or the pool loses a submitted transaction.                *)
DropTransaction ==
    /\ lost < MaxLost
    /\ \E tx \in pool : pool' = pool \ {tx}
    /\ lost' = lost + 1
    /\ UNCHANGED <<source_best, outbound, chainVars, running, task>>

(* abort_on_spec_version_change: the target runs another spec_version. *)
SpecVersionGuard ==
    /\ "spec_version" \in StartRelayGuards
    /\ running
    /\ target_version # PinnedVersion
    /\ running' = FALSE
    /\ UNCHANGED <<source_best, outbound, chainVars, task, pool, lost>>

(* abort_when_account_balance_decreased: more than the daily maximum was *)
(* spent from the account.                                              *)
BalanceGuard ==
    /\ "balance" \in StartRelayGuards
    /\ running
    /\ BalanceDecrease > MaximalBalanceDecrease
    /\ running' = FALSE
    /\ UNCHANGED <<source_best, outbound, chainVars, task, pool, lost>>

Include == \E tx \in pool : IncludeTransaction(tx) \/ RejectTransaction(tx)

Next ==
    \/ SourceFinalize
    \/ SendMessage
    \/ RuntimeUpgrade
    \/ SpendElsewhere
    \/ FinalityPrepare
    \/ FinalitySubmit
    \/ DeliveryPrepare
    \/ DeliverySubmit
    \/ Include
    \/ SpecVersionGuard
    \/ BalanceGuard

(* The pipeline and the delivery sub-loop tick on the chains' block       *)
(* interval and an awaited submission completes, the guards poll          *)
(* periodically, and the target eventually includes or refuses a ready   *)
(* transaction.                                                          *)
Fairness ==
    /\ WF_vars(FinalityPrepare) /\ WF_vars(FinalitySubmit)
    /\ WF_vars(DeliveryPrepare) /\ WF_vars(DeliverySubmit)
    /\ WF_vars(Include)
    /\ WF_vars(SpecVersionGuard)
    /\ WF_vars(BalanceGuard)

Spec == Init /\ [][Next]_vars /\ Fairness

(* The fault model: the network or the pool may also lose a submitted     *)
(* transaction.                                                           *)
LossyNext == Next \/ DropTransaction

LossySpec == Init /\ [][LossyNext]_vars /\ Fairness

(* ---------------------------------------------------------------------- *)
(* Properties.                                                             *)

Calls == [name : {"submit_finality_proof", "receive_messages_proof"}, pallet : Nat,
          index : {0, 5}, header : 0..(MaxHeader + 1), begin : 0..MaxMessages,
          end : 0..MaxMessages]

Transactions == [call : Calls, nonce : Nat, spec_version : Versions]

TypeOK ==
    /\ source_best \in 0..MaxHeader
    /\ outbound \in Seq(1..MaxHeader) /\ Len(outbound) <= MaxMessages
    /\ target_best \in 0..source_best
    /\ received \in 0..Len(outbound)
    /\ target_version \in Versions
    /\ balance \in 0..InitialBalance
    /\ account_nonce \in Nat
    /\ running \in BOOLEAN
    /\ task \in [Tasks -> {NoRead} \cup [header : 0..MaxHeader, begin : 0..MaxMessages,
                                         end : 0..MaxMessages, nonce : Nat]]
    /\ pool \subseteq Transactions /\ Cardinality(pool) <= Cardinality(Tasks)
    /\ dispatched \subseteq {"submit_finality_proof", "initialize", "send_message",
                             "receive_messages_proof", "receive_messages_delivery_proof",
                             "undecodable", "other_pallet_call"}
    /\ lost \in 0..MaxLost

(* The relayer's account only ever has the calls its tasks built          *)
(* dispatched: a transaction built with the client's call table is never *)
(* executed as another call after the target's runtime moved a pallet.   *)
DispatchedOnlyIntendedCalls ==
    dispatched \subseteq {"submit_finality_proof", "receive_messages_proof"}

(* Each header the source finalizes eventually reaches the target, unless *)
(* a guard has stopped the relay, although the delivery sub-loop signs    *)
(* with the same account and may take, or race for, the nonce the        *)
(* pipeline read.                                                         *)
HeadersEventuallyRelayed ==
    \A n \in 1..MaxHeader : (source_best >= n) ~> (target_best >= n \/ ~running)

(* Each message sent is eventually received by the target's inbound lane, *)
(* unless a guard has stopped the relay: delivery waits for the pipeline  *)
(* to import its header, and neither task's submissions starve the other *)
(* of the account's nonces.                                               *)
MessagesEventuallyDelivered ==
    \A n \in 1..MaxMessages : (Len(outbound) >= n) ~> (received >= n \/ ~running)

(* spec.md: the relay aborts once the target runs another spec_version or *)
(* the relayer's balance fell by more than the daily maximum.             *)
GuardsStopPipeline ==
    (running /\ (target_version # PinnedVersion
                 \/ BalanceDecrease > MaximalBalanceDecrease)) ~> ~running
=============================================================================
