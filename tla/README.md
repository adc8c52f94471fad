# TLA+ models of the bridge relay and its primitives

This directory holds TLA+ specifications of the repository's relay, node and
primitive code, with the TLC configurations that check them. `PROJECT.json`
lists three things:
- each component and the module that models it;
- each TLC run and what it shows, with the mutant that proves each property can fail;
- which source lines each definition translates (`map`).

## The system

`spec.md` describes a bridge relay between two chains. It has two concurrent
processes per direction:

* **Finality sync pipeline.** It submits finalized source headers, with their
  proofs, to the target's bridge pallet. Before every submission it runs guards
  that abort on a target runtime upgrade or on a drained balance. Entrypoints:
  `chains/titan_headers_to_wococo.rs` and `chains/ruby_headers_to_millau.rs`.
* **Message lane loop.** Its delivery sub-loop moves nonce ranges from the
  source outbound lane to the target inbound lane, proven at a source header
  the target knows. Its confirmation sub-loop returns the target's received
  nonce and unrewarded-relayers queue to the source, which pays the relayers and
  then prunes the queue. Entrypoint: `chains/titan_messages_to_wococo.rs` (batch
  limits, transaction builders, loop parameters).
* **Chain adapters.** These are the per-chain `Call` tables (call indices),
  `sign_transaction`, and account derivation (`client-*`, `chain-ruby`,
  `cli/bridge.rs`). Only titan's `sign_transaction` is in the repository;
  Wococo's (`client-wococo/src/lib.rs`) is modelled the same way from
  `spec.md` 4.1. The adapters also supply the runtime-API method names each
  relay's clients query (`chain-ruby`'s constants and `decl_runtime_apis`).

The two processes interact in two ways. A delivery is valid only at a
header the finality pipeline has already brought to the target. And at the
target both sign with the same account (`target_sign`), each with the account
index it read from the client before signing, so they race for its nonces.

The loop engine (`messages_relay`, `finality_relay`), the lane pallets and the
substrate client are not in `src/`. Where the models need them, they are
written from `spec.md` and marked `spec_modelled` in the map.

The repository also contains polkadot's v0 primitives (`primitives/src/v0.rs`).
Of these, the backing-statement codec, signing payloads, receipt ordering and
fee schedule are modelled. It also contains the node's CLI (`command.rs`,
modelled), the subsystem error types (`subsystem-types/src/errors.rs` and
availability-recovery's error, modelled), generated weight tables and a
voter-bags tool.

## Modules

| Module | Models | State and actions |
|---|---|---|
| `MessageLane` | lane loop, unrewarded relayers tracker, batch limits | Source lane: `outbound`, `source_best`, `out_latest_received`. Target lane: `in_latest_received`, `in_latest_confirmed`, `relayers` (the queue). Header view: `best_source_at_target`. Pools: `to_target`, `to_source`, `lost`. History for the properties: `delivered_by`, `reward_count`, `rewarded_to`. Actions, one per operation: `SendMessage`, `SyncSourceHeader`, `DeliveryCycle(r)` and `ConfirmationCycle(r)` for each relayer, `ReceiveMessagesProof`/`RejectMessagesProof` (target inclusion), `ReceiveMessagesDeliveryProof`/`IgnoreDeliveryProof` (source inclusion), `DropTransaction`. |
| `MessageLaneAbstract` | what a lane promises | Counters `sent >= received >= confirmed` that only grow. |
| `FinalitySync` | the target side of one direction (`Bridge` = titan→Wococo or ruby→Millau): the finality pipeline composed with the lane's delivery sub-loop, both signing with `target_sign`; the guards, the Wococo call table and `sign_transaction` | `source_best`, `outbound` (nonce → source header holding it), `target_best`, `received` (inbound lane), `target_version` (target runtime), `balance` and `account_nonce` (relayer account), `running` (not aborted), `task` (what each task read: header, batch, account index), `pool`, `dispatched` (calls the target executed), `lost`. Code actions: `FinalityPrepare`/`FinalitySubmit` (read the account index, then build `make_submit_finality_proof_transaction`), `DeliveryPrepare`/`DeliverySubmit` (the same for `make_messages_delivery_transaction`), `SpecVersionGuard`, `BalanceGuard` (started only if `start_relay_guards` starts them). Environment: `SourceFinalize`, `SendMessage`, `RuntimeUpgrade` (may move the pallets), `SpendElsewhere` (another holder of the key), `IncludeTransaction`/`RejectTransaction` (target's nonce check, `CheckSpecVersion`, fee, dispatch), and, in the fault model `LossySpec` only, `DropTransaction`. |
| `AccountDerivation` | `select_full_bridge`, `derive_account_from_titan_id`, the two client ownership digests | Pure operators; the probe is two bridge directions and send-message inputs. |
| `StatementCodec` | v0 `CompactStatement` codec, signing payloads, collator payload | Pure operators; one `probe` input per state. `MC_Primitives` extends it and instantiates `FeeSchedule`, `AccountDerivation`, `SubsystemErrors`, `LaneRuntimeApis`, `CandidateReceiptOrder` and `ChainSpecSelection`, each with `probe <- probe.input`; a probe is a codec input or an input of one of them tagged `fee`, `account`, `error`, `api`, `receipt` or `cli`, and each invariant is guarded by its tag. |
| `SubsystemErrors` | `subsystem-types/src/errors.rs` and availability-recovery's `Error`: every value the two files can build, each `Display` impl (one `fmt` call: a text or a call to format another error), each `source()` (thiserror's `transparent` forwards, `#[from]`/`#[source]` fields), and the report of an error with its source chain | Pure operators; `Errors(n)` is every error with at most `n` wrappers (`with_origin`, the transparent availability variants). Formatting is a chain of calls bounded by `MaxFrames` stack frames. |
| `LaneRuntimeApis` | chain-ruby's runtime-API method names and `decl_runtime_apis` (which runtimes implement each API), the method constants of the titan→Wococo lane and of both header pipelines | Pure operators; a name `<Api>_<fn>` is the record of its API kind, chain and function. A probe is one constant of one relay. What each constant is for (which client calls it, which API and function) comes from the traits, which are outside `src/` and modelled from `spec.md` §6. |
| `LaneConfirmation` | the source side of the titan→Wococo lane: the confirmation sub-loop signing with `source_sign` at titan; `make_messages_receiving_proof_transaction`, titan's `Call` table and titan's `sign_transaction` (stamps `bp_titan::VERSION`) | `received` (Wococo inbound lane), `confirmed` (titan outbound lane), `source_version` (titan runtime), `account_nonce`, `task` (what the cycle read), `awaiting` (the nonce the loop's last submission proves, held in memory), `pool`, `dispatched`, `lost`. Code actions: `ConfirmationPrepare`, `ConfirmationSubmit`, `StallRestart` (the stall teardown and reconnect: the rebuilt loop forgets what it awaited, the pool keeps its transactions). Environment: `TargetReceive`, `RuntimeUpgrade` (moves the messages pallet), `IncludeTransaction`/`RejectTransaction` (`CheckSpecVersion`, nonce, dispatch), `DropTransaction`. |
| `CandidateReceiptOrder` | v0 `Ord` for receipts, `abridge`, `complete`, `to_collation_info`, `into_receipt`, `to_descriptor`, `check_signature` | Pure operators over a pair of receipts; checked in `MC_Primitives` (tag `receipt`), and alone by `MC_CandidateReceiptOrder` for the `Eq` violation. |
| `FeeSchedule` | v0 `compute_message_fee` | Pure operator, Balance narrowed to `BalanceBits`. |
| `ChainSpecSelection` | node `load_spec`, `native_runtime_version`, `ensure_dev`, `set_default_ss58_version`, `run`'s subcommand dispatch and the benchmark/try-runtime runtime choice | Pure operators over one invocation (id, exe name, features, force flags, file); checked in `MC_Primitives` (tag `cli`), and alone for its two violations. |

`MC_*` modules instantiate these with model values.

### How `MessageLane` follows the code

- **Delivery.** `DeliveryTransaction` is `make_messages_delivery_transaction`,
  including `messages_count = end - begin + 1`. That count is 0 for a
  state-only delivery, which carries no messages and only the confirmed nonce.
  The target refuses a delivery whose declared count is not the number of
  nonces it proves, so a wrong count stops the lane (`EveryMessageConfirmed`
  shows it).
- **Confirmation.** `ReceivingProofTransaction` carries the relayers snapshot
  taken when it was built.
- **Batch limits.** The halving of the batch limits (`run`, lines 155-163) is
  `MaxMessagesInSingleBatch` and `MaxMessagesWeightInSingleBatch`.
- **Lane pallets (from `spec.md`).** A delivery is applied only when:
  - its header is known;
  - its declared message count is the size of its range;
  - its range starts at or below `received + 1`;
  - the queue, after pruning by the confirmed nonce it carries, stays within
    both limits.

  Otherwise it is rejected (ChainRejected). A confirmation is applied only if
  it is newer than the source's received nonce. It then pays each newly
  confirmed nonce to the relayer of the snapshot entry that covers it.
- **Unreliable transport.** Submitted transactions sit in unordered pools. Any
  of them may be included, rejected as stale, or lost (at most `MaxLost`
  times).

## Runs

| Run | Checks | Bounds | Result |
|---|---|---|---|
| `lane_safety` | `TypeOK` (its count range is the batch ceiling), `UnrewardedRelayersStateConsistent`, `RewardedExactlyOnce`, `LaneRefinement` (MessageLane implements MessageLaneAbstract); deadlock | 2 relayers (symmetric), 3 messages of weight 1–2, batch 2, queue limits 2 entries / 3 unconfirmed, 2 in flight per pool, 1 loss | pass (~700k states) |
| `lane_liveness` | `EveryMessageConfirmed` | 2 relayers, 2 messages, queue limits 1 / 1 (delivery must wait for confirmations), 1 loss | pass |
| `finality_sync` | `TypeOK`, `DispatchedOnlyIntendedCalls`, `HeadersEventuallyRelayed`, `MessagesEventuallyDelivered` | titan→Wococo; 3 headers, 2 of which carry a message; versions 1→2 with the bridge pallet moving from 40 to 41 and the messages pallet from 43 to 44; balance 7, fee 1, daily maximum 5, spends of 2 elsewhere; no loss | pass |
| `finality_sync_loss` | `HeadersEventuallyRelayed` under `LossySpec` | same, 1 loss | **violation** (finding) |
| `finality_sync_ruby` | `GuardsStopPipeline` | ruby→Millau, no lane, 1 loss | **violation** (finding) |
| `lane_confirmation` | `TypeOK`, `DispatchedOnlyIntendedCalls`, `EveryReceivedConfirmed` | 3 nonces received at Wococo; titan versions 1→2 swapping the messages pallet (44) with another (45); 2 lost transactions | pass |
| `lane_confirmation_version` | `BuildsOnlyForReportedVersion` | same | **violation** (finding) |
| `primitives` | `DecodeMatchesEncode`, `AttestationPayloadsSeparated`, `CollatorSignatureBinding`, `FeeIsSaturatedLinearFee`, `SovereignAccountSeparation`, `DigestBoundToDirection`, `MethodsImplementedWhereCalled`, `ConversionsPreserveReceipt`, `DevChainsOfErrorMessageLoad` | every byte string of length ≤ 7 over 7 byte values; 1-byte hashes; para ids that differ only in their high bytes; every 4-bit base, per-byte fee and size; 5 distinct chain ids, 2 accounts plus root, 2 calls, 2 spec versions, every pair of bridge directions; every error with ≤ 2 wrappers over 2 messages; every method constant of the three relays; receipt pairs over 2 paras, head data ≤ 2 bytes, 2 relay parents, 2 collators, every signer/payload signature; every node invocation (ids, features, force flags, exe names, files) | pass (1.59M inputs, about 2.5 min) |
| `errors_recovery` | `ReportTerminates` | every error with ≤ 2 wrappers, 50 stack frames | **violation** (finding) |
| `receipt_order_eq` | `OrdConsistentWithEq` | the receipt pairs of `primitives` | **violation** (finding) |
| `chain_spec_json` | `JsonPathLoadedFromFile` | the invocations of `primitives` | **violation** (finding) |
| `chain_spec_bench` | `DevSubcommandRunsChainRuntime` | same | **violation** (finding) |

**Why the bounds are enough.**
- Three messages and two relayers are the smallest lane in which all of these
  happen:
  - two relayers deliver overlapping batches;
  - a queue entry is shortened by pruning;
  - a later entry is merged into the last one;
  - a stale confirmation arrives after a newer one.
- The liveness bounds force the limit case: every second message needs a
  confirmation before delivery can continue.
- The finality bounds make every guard reachable for its own reason: the
  upgrade changes the pallet index (so a stale call would dispatch something
  else), relaying alone spends at most 5 (three headers and two deliveries,
  never tripping the balance guard), while an outside spend pushes the
  decrease past the maximum and, with more spends, the balance below the fee.
  Two messages on separate headers make delivery wait for a header import
  between its batches, and two tasks with at most one submission each are
  what it takes for both to read the same account index, or for one to read
  an index above the other's pending transaction.
- Two wrappers are enough for every kind of nesting the error types allow
  (an availability error around a `with_origin` around a leaf); 50 frames is
  far more than any terminating chain needs (at most 3), so only a call that
  never ends reaches `StackOverflow`.
- The method-name probes are all the constants the relays in `src/` define.
- The codec bound covers every prefix of a statement plus one trailing byte,
  with wrong magic bytes in every position.

**Fairness (liveness run).**
- The loop's sub-loops tick on the chains' block intervals (`source_tick` and
  `target_tick` in `run`). So each relayer's `DeliveryCycle` and
  `ConfirmationCycle` is weakly fair, and so is header sync.
- Each chain includes a pending valid transaction eventually, so inclusion from
  each pool is weakly fair.
- Sending messages and losing transactions are not fair.
- In `FinalitySync` the pipeline cycle, the guards (they poll the target on a
  timer) and inclusion are weakly fair; finalization, upgrades, outside spends
  and losses are not. `CHECK_DEADLOCK FALSE` there: once a guard aborts, the
  relay process exits and really stops. The pass run has no losses: a lost
  transaction can leave a nonce gap no task ever fills (finding 5), so
  liveness is checked without them and the loss is a separate fault model
  (`LossySpec`) whose run shows the failure.
- In `LaneConfirmation` the sub-loop's prepare and submit steps (it ticks on
  titan's block interval), inclusion, and the stall teardown are weakly fair.
  The stall timer fires after five minutes without progress; a transaction
  the pool holds is included or refused within a few blocks, so the model
  lets the teardown fire only once the awaited transaction has left the
  pool (`Stalled`). A teardown while it is still pending, racing its late
  inclusion, is left out. Receipts at Wococo, upgrades and losses are not
  fair. `CHECK_DEADLOCK FALSE`: once the last of the bounded nonces is
  confirmed the loop only polls.

**Findings** (details in `PROJECT.json`):
1. `Ord` for candidate receipts, full and abridged, is inconsistent with
   `Eq` (the code's own TODO).
2. `load_spec` rejects `wococo-*.json` files without `rococo-native`, while the
   arms of the other three chains exempt `.json` paths.
3. `benchmark`/`try-runtime` accept rococo/wococo dev specs but run the
   diamond runtime for them, or panic.
4. The ruby→Millau finality pipeline starts no guards (`spec.md` requires
   them before every submission): after a Millau runtime upgrade it keeps
   running and submitting transactions the target refuses, without aborting.
5. Both target-side tasks sign with `target_sign` at the pool-aware next
   account index, and the transactions are immortal. If a delivery
   transaction is lost after the pipeline signed its header at the next
   nonce, that header transaction waits at the gap forever; the pipeline
   awaits it (spec.md 4.2 has no timeout, and section 5 lets in-flight
   submissions "complete or fail naturally"), and delivery waits for that
   header. Nothing is relayed again.
6. `RecoveryError`'s `Display` is `write!(f, "{}", self)`: it formats
   itself until the stack overflows. Every report of an error whose source
   chain contains one (a `with_origin` around it, or availability-recovery's
   transparent wrappers) overflows too.
7. The confirmation transaction is stamped with `bp_titan::VERSION` whatever
   version titan reports, and the message relay starts no guard (`spec.md` 6:
   an adapter refuses to construct a transaction when the versions
   disagree). After a titan upgrade every confirmation is refused; the loop
   stalls, reconnects and builds the same transaction again, forever and
   without a diagnostic. `lane_confirmation` shows the safe half: the
   refused transactions never dispatch the pallet now at index 44.

## Not modelled, and the plan

- **Confirmation and unrewarded relayers in the composition.**
  `FinalitySync` composes the pipeline with the delivery sub-loop only. The
  confirmation sub-loop signs at the source with another account, so it
  shares no nonce with them. Its queue logic is checked in `MessageLane`,
  whose header sync is one abstract action, and its transactions at titan
  in `LaneConfirmation`, where Wococo's received nonce simply grows.
- **Stall timeout and reconnect.** Only `LaneConfirmation` models the
  teardown, where it is what recovers from a lost transaction. There is no
  clock: the timer fires only when the awaited transaction is gone. In
  `MessageLane` and `FinalitySync` each cycle re-derives its state from the
  chains, so a restart changes nothing there.
- **`run_node_inner`** (a light role is refused; `grandpa_pause` indexes two
  values that the CLI parser outside `src/` guarantees) has no state beyond
  what `ChainSpecSelection` already checks.
- **Batch limits at their edge.** `select_delivery_transaction_limits` is
  outside `src/`, so the limits it selects are constants (4 messages, halved
  to 2). A selected limit of 1 would halve to 0 and stop the lane, but
  nothing in the repository says the real selector can return it, so no
  run checks that edge.
- **Properties that only restate the code.** These were dropped because each
  restates one guard or assignment: the known-header check of received
  nonces, the monotonicity of the lane counters, the probe type invariant of
  `MC_Primitives`, `with_origin`'s `#[source]`, full and abridged receipts
  ordered alike (two copies of one comparator), `ensure_dev`'s refusal, and
  "the guards stop the titan pipeline". `GuardsStopPipeline` remains as the
  property of the ruby violation run.
- **Weight tables.** Generated u64 formulas.
- **Voter-bags tool.** Pure I/O.
- **Overseer UI test.** A compile test.
