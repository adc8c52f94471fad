---------------------------- MODULE MessageLane ----------------------------
(***************************************************************************)
(* One message lane of the bridge relay (spec.md 4.3, 4.5): the source     *)
(* chain's outbound lane, the target chain's inbound lane with its queue   *)
(* of unrewarded relayers, and a set of permissionless relayers, each     *)
(* running the Delivery and the Confirmation sub-loop.  The relayers are   *)
(* stateless between cycles: every cycle re-reads both chains and submits  *)
(* a transaction built from what it read.  Transactions wait in a pool of  *)
(* the chain they are addressed to, are included in any order, may be      *)
(* dropped, and are re-submitted by later cycles.                          *)
(*                                                                         *)
(* The transactions are the ones built by                                  *)
(* titan_messages_to_wococo.rs: receive_messages_proof (delivery) and      *)
(* receive_messages_delivery_proof (confirmation); the batch limits are    *)
(* the ones computed in its run().                                         *)
(***************************************************************************)
EXTENDS Integers, Sequences, FiniteSets, FiniteSetsExt

CONSTANTS
    Relayers,                 \* relayer accounts (model values)
    MaxNonce,                 \* bound on messages sent on the lane
    MessageWeights,           \* dispatch weights a message may have
    SelectedMaxMessages,      \* max messages returned by select_delivery_transaction_limits
    SelectedMaxWeight,        \* max weight returned by select_delivery_transaction_limits
    MaxUnrewardedRelayerEntries, \* MAX_UNREWARDED_RELAYER_ENTRIES_AT_INBOUND_LANE
    MaxUnconfirmedMessages,   \* MAX_UNCONFIRMED_MESSAGES_AT_INBOUND_LANE
    MaxInFlight,              \* bound on transactions waiting in one pool
    MaxLost                   \* bound on transactions the network drops

ASSUME /\ MaxNonce \in Nat \ {0}
       /\ MessageWeights \subseteq Nat \ {0}
       /\ MaxUnrewardedRelayerEntries \in Nat \ {0}
       /\ MaxUnconfirmedMessages \in Nat \ {0}

VARIABLES
    outbound,              \* source outbound lane: nonce -> [at: source block, weight]
    source_best,           \* best finalized source block
    out_latest_received,   \* OutboundLaneApi latest_received_nonce (source)
    best_source_at_target, \* best finalized source header known at the target
    in_latest_received,    \* InboundLaneApi latest_received_nonce (target)
    in_latest_confirmed,   \* InboundLaneApi latest_confirmed_nonce (target)
    relayers,              \* InboundLaneApi unrewarded relayers queue (target)
    delivered_by,          \* history: nonce -> relayer whose transaction delivered it
    reward_count,          \* history: nonce -> number of rewards paid for it at the source
    rewarded_to,           \* history: nonce -> relayers rewarded for it
    to_target,             \* delivery transactions waiting for the target
    to_source,             \* confirmation transactions waiting for the source
    lost                   \* transactions dropped so far

chainVars == <<outbound, source_best, out_latest_received, best_source_at_target,
               in_latest_received, in_latest_confirmed, relayers>>
historyVars == <<delivered_by, reward_count, rewarded_to>>
netVars == <<to_target, to_source, lost>>
vars == <<chainVars, historyVars, netVars>>

Nonces == 1..MaxNonce
Entry == [relayer : Relayers, begin : Nonces, end : Nonces]

-----------------------------------------------------------------------------
(* Batch limits of run(): 2/3 of the extrinsic is reserved, and the limits *)
(* taken from the Rialto weights are halved for the Wococo runtime.        *)
MaxMessagesInSingleBatch == SelectedMaxMessages \div 2
MaxMessagesWeightInSingleBatch == SelectedMaxWeight \div 2

(* Mutant: messages_count computed as nonces_end - nonces_start.         *)
DeliveryTransactionCountOffByOne(r, begin, end, at, confirmed, weight) ==
    [relayer |-> r, begin |-> begin, end |-> end, count |-> end - begin,
     at |-> at, confirmed |-> confirmed, weight |-> weight]

(* make_messages_delivery_transaction: receive_messages_proof carrying the *)
(* relayer's source account, the proof of nonces begin..end at source      *)
(* header `at` (with the outbound lane state `confirmed`), the message     *)
(* count end - begin + 1 and the dispatch weight.                          *)
DeliveryTransaction(r, begin, end, at, confirmed, weight) ==
    [relayer |-> r, begin |-> begin, end |-> end, count |-> end - begin + 1,
     at |-> at, confirmed |-> confirmed, weight |-> weight]

(* make_messages_receiving_proof_transaction: receive_messages_delivery_   *)
(* proof carrying the proof of the inbound lane and the relayers state.    *)
ReceivingProofTransaction(r, received, entries) ==
    [relayer |-> r, received |-> received, relayers |-> entries]

-----------------------------------------------------------------------------
(* A proof built at source header h is accepted by the target only when   *)
(* the target already knows a source header at or above h.                 *)
HeaderKnownAtTarget(h) == h <= best_source_at_target

(* Total dispatch weight of nonces from..to.                               *)
BatchWeight(from, to) == MapThenSumSet(LAMBDA n : outbound[n].weight, from..to)

(* Mutant: only entries confirmed as a whole are popped.                 *)
PruneRelayersWholeEntries(queue, conf) == SelectSeq(queue, LAMBDA e : e.end > conf)

(* The queue after the target has learned that nonces up to `conf` are     *)
(* confirmed: fully confirmed entries are popped from the front, a         *)
(* partially confirmed one is shortened.                                   *)
PruneRelayers(queue, conf) ==
    LET kept == SelectSeq(queue, LAMBDA e : e.end > conf)
    IN [i \in DOMAIN kept |->
          [kept[i] EXCEPT !.begin = IF @ > conf THEN @ ELSE conf + 1]]

(* Mutant: the batch is not cut at the count ceiling.                   *)
SelectNoncesNoCountLimit(first, generated, conf, queue) ==
    LET capacity == MaxUnconfirmedMessages - (first - 1 - conf)
        ok(k) == /\ k <= capacity
                 /\ \A n \in first..(first + k - 1) : n > out_latest_received
                 /\ BatchWeight(first, first + k - 1) <= MaxMessagesWeightInSingleBatch
    IN IF Len(PruneRelayers(queue, conf)) >= MaxUnrewardedRelayerEntries
       THEN 0
       ELSE Max({k \in 0..(generated - first + 1) : ok(k)})

(* Delivery step 3 with the target's limits: the longest contiguous prefix *)
(* of the undelivered nonces, starting at first, whose details the source *)
(* still holds, within the count and weight ceilings, the free unconfirmed *)
(* capacity, and none at all when no relayer entry is free.                *)
SelectNonces(first, generated, conf, queue) ==
    LET capacity == MaxUnconfirmedMessages - (first - 1 - conf)
        ok(k) == /\ k <= MaxMessagesInSingleBatch
                 /\ k <= capacity
                 /\ \A n \in first..(first + k - 1) : n > out_latest_received
                 /\ BatchWeight(first, first + k - 1) <= MaxMessagesWeightInSingleBatch
    IN IF Len(PruneRelayers(queue, conf)) >= MaxUnrewardedRelayerEntries
       THEN 0
       ELSE Max({k \in 0..(generated - first + 1) : ok(k)})

-----------------------------------------------------------------------------
Init ==
    /\ outbound = <<>>
    /\ source_best = 0
    /\ out_latest_received = 0
    /\ best_source_at_target = 0
    /\ in_latest_received = 0
    /\ in_latest_confirmed = 0
    /\ relayers = <<>>
    /\ delivered_by = <<>>
    /\ reward_count = [n \in Nonces |-> 0]
    /\ rewarded_to = [n \in Nonces |-> {}]
    /\ to_target = {}
    /\ to_source = {}
    /\ lost = 0

(* send_message on the source: the message gets the next nonce and a new  *)
(* finalized source block holds it.                                        *)
SendMessage(w) ==
    /\ Len(outbound) < MaxNonce
    /\ outbound' = Append(outbound, [at |-> source_best + 1, weight |-> w])
    /\ source_best' = source_best + 1
    /\ UNCHANGED <<out_latest_received, best_source_at_target, in_latest_received,
                   in_latest_confirmed, relayers, historyVars, netVars>>

(* The finality pipeline of the source -> target direction makes the      *)
(* source's best finalized header known at the target.                     *)
SyncSourceHeader ==
    /\ best_source_at_target < source_best
    /\ best_source_at_target' = source_best
    /\ UNCHANGED <<outbound, source_best, out_latest_received, in_latest_received,
                   in_latest_confirmed, relayers, historyVars, netVars>>

(* Delivery sub-loop (spec.md 4.3 steps 1-6).  The relayer reads the     *)
(* latest generated nonce at the source's best finalized header, the      *)
(* target's received nonce and unrewarded relayers, and the source's      *)
(* outbound lane state; defers while the target does not know that        *)
(* header; otherwise submits the selected batch.  With no batch to send   *)
(* but confirmations the target has not seen, it submits a proof of the   *)
(* outbound lane state alone, which lets the target prune its queue.      *)
DeliveryCycle(r) ==
    LET generated == Len(outbound)
        first == in_latest_received + 1
        k == SelectNonces(first, generated, out_latest_received, relayers)
    IN /\ k > 0 \/ out_latest_received > in_latest_confirmed
       /\ HeaderKnownAtTarget(source_best)
       /\ Cardinality(to_target) < MaxInFlight
       /\ to_target' = to_target \cup
            {DeliveryTransaction(r, first, first + k - 1, source_best,
                                 out_latest_received, BatchWeight(first, first + k - 1))}
       /\ UNCHANGED <<chainVars, historyVars, to_source, lost>>

(* Confirmation sub-loop: when the target has received nonces the source *)
(* has not confirmed, submit a receiving proof with the relayers queue.   *)
ConfirmationCycle(r) ==
    /\ in_latest_received > out_latest_received
    /\ Cardinality(to_source) < MaxInFlight
    /\ to_source' = to_source \cup
         {ReceivingProofTransaction(r, in_latest_received, relayers)}
    /\ UNCHANGED <<chainVars, historyVars, to_target, lost>>

(* What the target's inbound lane does with a delivery transaction: learn *)
(* the confirmed nonce and prune, then receive the nonces above the        *)
(* latest received one, extending the last queue entry when it belongs to *)
(* the same relayer.  The transaction is valid only if its header is       *)
(* known, it leaves no gap, and the queue limits hold afterwards.          *)
InboundOutcome(tx) ==
    LET conf == Max({in_latest_confirmed, tx.confirmed})
        pruned == PruneRelayers(relayers, conf)
        newEnd == Max({in_latest_received, tx.end})
        fresh == newEnd - in_latest_received
        extends == pruned # <<>> /\ pruned[Len(pruned)].relayer = tx.relayer
        queue == IF fresh = 0 THEN pruned
                 ELSE IF extends THEN [pruned EXCEPT ![Len(pruned)].end = newEnd]
                 ELSE Append(pruned, [relayer |-> tx.relayer,
                                      begin |-> in_latest_received + 1, end |-> newEnd])
    IN [valid |-> /\ HeaderKnownAtTarget(tx.at)
                  /\ tx.count = tx.end - tx.begin + 1
                  /\ tx.begin <= in_latest_received + 1
                  /\ Len(queue) <= MaxUnrewardedRelayerEntries
                  /\ newEnd - conf <= MaxUnconfirmedMessages,
        conf |-> conf, queue |-> queue, newEnd |-> newEnd, fresh |-> fresh]

(* The target includes a valid delivery transaction.                      *)
ReceiveMessagesProof(tx) ==
    LET o == InboundOutcome(tx) IN
    /\ tx \in to_target
    /\ o.valid
    /\ to_target' = to_target \ {tx}
    /\ in_latest_confirmed' = o.conf
    /\ relayers' = o.queue
    /\ in_latest_received' = o.newEnd
    /\ delivered_by' = delivered_by \o [i \in 1..o.fresh |-> tx.relayer]
    /\ UNCHANGED <<outbound, source_best, out_latest_received, best_source_at_target,
                   reward_count, rewarded_to, to_source, lost>>

(* The target rejects a delivery transaction (ChainRejected): the whole   *)
(* transaction is reverted.                                                *)
RejectMessagesProof(tx) ==
    /\ tx \in to_target
    /\ ~InboundOutcome(tx).valid
    /\ to_target' = to_target \ {tx}
    /\ UNCHANGED <<chainVars, historyVars, to_source, lost>>

(* Mutant: the source accepts a confirmation that does not advance it.    *)
ReceiveMessagesDeliveryProofNoStaleCheck(tx) ==
    LET newly == (out_latest_received + 1)..tx.received
        covering(n) == {i \in DOMAIN tx.relayers :
                           n \in tx.relayers[i].begin..tx.relayers[i].end}
    IN /\ tx \in to_source
       /\ to_source' = to_source \ {tx}
       /\ out_latest_received' = tx.received
       /\ reward_count' = [n \in Nonces |->
             IF n \in newly THEN reward_count[n] + Cardinality(covering(n))
                            ELSE reward_count[n]]
       /\ rewarded_to' = [n \in Nonces |->
             IF n \in newly THEN rewarded_to[n] \cup {tx.relayers[i].relayer : i \in covering(n)}
                            ELSE rewarded_to[n]]
       /\ UNCHANGED <<outbound, source_best, best_source_at_target, in_latest_received,
                      in_latest_confirmed, relayers, delivered_by, to_target, lost>>

(* Mutant: the source rewards every nonce of the proof's queue entries,   *)
(* not only the newly confirmed ones.                                      *)
ReceiveMessagesDeliveryProofPayAll(tx) ==
    LET covering(n) == {i \in DOMAIN tx.relayers :
                           n \in tx.relayers[i].begin..tx.relayers[i].end}
    IN /\ tx \in to_source
       /\ tx.received > out_latest_received
       /\ to_source' = to_source \ {tx}
       /\ out_latest_received' = tx.received
       /\ reward_count' = [n \in Nonces |-> reward_count[n] + Cardinality(covering(n))]
       /\ rewarded_to' = [n \in Nonces |->
             rewarded_to[n] \cup {tx.relayers[i].relayer : i \in covering(n)}]
       /\ UNCHANGED <<outbound, source_best, best_source_at_target, in_latest_received,
                      in_latest_confirmed, relayers, delivered_by, to_target, lost>>

(* The source includes a confirmation that advances its latest received   *)
(* nonce: each newly confirmed nonce is rewarded to the relayer(s) of the *)
(* queue entries in the proof that cover it.                               *)
ReceiveMessagesDeliveryProof(tx) ==
    LET newly == (out_latest_received + 1)..tx.received
        covering(n) == {i \in DOMAIN tx.relayers :
                           n \in tx.relayers[i].begin..tx.relayers[i].end}
    IN /\ tx \in to_source
       /\ tx.received > out_latest_received
       /\ to_source' = to_source \ {tx}
       /\ out_latest_received' = tx.received
       /\ reward_count' = [n \in Nonces |->
             IF n \in newly THEN reward_count[n] + Cardinality(covering(n))
                            ELSE reward_count[n]]
       /\ rewarded_to' = [n \in Nonces |->
             IF n \in newly THEN rewarded_to[n] \cup {tx.relayers[i].relayer : i \in covering(n)}
                            ELSE rewarded_to[n]]
       /\ UNCHANGED <<outbound, source_best, best_source_at_target, in_latest_received,
                      in_latest_confirmed, relayers, delivered_by, to_target, lost>>

(* A confirmation that brings nothing new is included without effect.    *)
IgnoreDeliveryProof(tx) ==
    /\ tx \in to_source
    /\ tx.received <= out_latest_received
    /\ to_source' = to_source \ {tx}
    /\ UNCHANGED <<chainVars, historyVars, to_target, lost>>

(* The network or the pool loses a submitted transaction.                 *)
DropTransaction ==
    /\ lost < MaxLost
    /\ lost' = lost + 1
    /\ \/ \E tx \in to_target : to_target' = to_target \ {tx} /\ UNCHANGED to_source
       \/ \E tx \in to_source : to_source' = to_source \ {tx} /\ UNCHANGED to_target
    /\ UNCHANGED <<chainVars, historyVars>>

(* Every sent message is delivered and confirmed and the target has       *)
(* learned the confirmation: the relayers keep polling without effect.    *)
Quiescent ==
    /\ Len(outbound) = MaxNonce
    /\ in_latest_confirmed = MaxNonce
    /\ to_target = {} /\ to_source = {}
    /\ UNCHANGED vars

Next ==
    \/ \E w \in MessageWeights : SendMessage(w)
    \/ SyncSourceHeader
    \/ \E r \in Relayers : DeliveryCycle(r)
    \/ \E r \in Relayers : ConfirmationCycle(r)
    \/ \E tx \in to_target : ReceiveMessagesProof(tx)
    \/ \E tx \in to_target : RejectMessagesProof(tx)
    \/ \E tx \in to_source : ReceiveMessagesDeliveryProof(tx)
    \/ \E tx \in to_source : IgnoreDeliveryProof(tx)
    \/ DropTransaction
    \/ Quiescent

(* Relayer loops tick periodically (spec.md 5) and the chains keep         *)
(* producing blocks, so every relayer and chain step that stays enabled    *)
(* is eventually taken.  Users sending messages and the network losing     *)
(* transactions are not fair.                                              *)
Fairness ==
    /\ WF_vars(SyncSourceHeader)
    /\ \A r \in Relayers : WF_vars(DeliveryCycle(r)) /\ WF_vars(ConfirmationCycle(r))
    /\ WF_vars(\E tx \in to_target : ReceiveMessagesProof(tx) \/ RejectMessagesProof(tx))
    /\ WF_vars(\E tx \in to_source : ReceiveMessagesDeliveryProof(tx) \/ IgnoreDeliveryProof(tx))

Spec == Init /\ [][Next]_vars /\ Fairness

-----------------------------------------------------------------------------
TypeOK ==
    /\ outbound \in Seq([at : Nat, weight : MessageWeights])
    /\ Len(outbound) <= MaxNonce
    /\ {source_best, best_source_at_target, lost} \subseteq Nat
    /\ {out_latest_received, in_latest_received, in_latest_confirmed} \subseteq 0..MaxNonce
    /\ relayers \in Seq(Entry)
    /\ delivered_by \in Seq(Relayers)
    /\ reward_count \in [Nonces -> Nat]
    /\ rewarded_to \in [Nonces -> SUBSET Relayers]
    /\ to_target \subseteq [relayer : Relayers, begin : 1..(MaxNonce + 1), end : 0..MaxNonce,
                            count : 0..MaxMessagesInSingleBatch, at : Nat,
                            confirmed : 0..MaxNonce, weight : Nat]
    /\ to_source \subseteq [relayer : Relayers, received : Nonces, relayers : Seq(Entry)]

-----------------------------------------------------------------------------
(* The target's unrewarded relayers queue (spec.md 4.5) stays within both *)
(* limits, and its entries are a FIFO of contiguous ranges that cover      *)
(* exactly the received but unconfirmed nonces, each range naming the     *)
(* relayer that delivered it.                                              *)
UnrewardedRelayersStateConsistent ==
    /\ Len(relayers) <= MaxUnrewardedRelayerEntries
    /\ in_latest_received - in_latest_confirmed <= MaxUnconfirmedMessages
    /\ \A i \in DOMAIN relayers :
         /\ relayers[i].begin <= relayers[i].end
         /\ relayers[i].begin = IF i = 1 THEN in_latest_confirmed + 1
                                         ELSE relayers[i - 1].end + 1
         /\ \A n \in relayers[i].begin..relayers[i].end :
               delivered_by[n] = relayers[i].relayer
    /\ in_latest_received = IF relayers = <<>> THEN in_latest_confirmed
                            ELSE relayers[Len(relayers)].end

(* Every nonce the source has confirmed was rewarded exactly once, to the *)
(* relayer whose transaction delivered it, however stale the confirmation *)
(* proofs and whatever order they were included in; no other nonce was   *)
(* rewarded.                                                               *)
RewardedExactlyOnce ==
    \A n \in Nonces :
        IF n <= out_latest_received
        THEN reward_count[n] = 1 /\ rewarded_to[n] = {delivered_by[n]}
        ELSE reward_count[n] = 0 /\ rewarded_to[n] = {}

(* Every message sent is eventually delivered and confirmed at the source, *)
(* despite lost transactions, rejected stale ones and full queues.         *)
EveryMessageConfirmed ==
    \A n \in Nonces : (Len(outbound) >= n) ~> (out_latest_received >= n)

(* The lane implements MessageLaneAbstract: the sent, received and        *)
(* confirmed nonces of the two chains only ever move as an in-order,      *)
(* gap-free, exactly-once lane allows, whatever stale, duplicated, lost   *)
(* or reordered transactions the relayers submit.                          *)
Abstract == INSTANCE MessageLaneAbstract
    WITH sent <- Len(outbound), received <- in_latest_received,
         confirmed <- out_latest_received

LaneRefinement == Abstract!Spec
====
