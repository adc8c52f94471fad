------------------------- MODULE MC_Primitives    -------------------------
(***************************************************************************)
(* Model-checking instance of the pure operators: ChainSpecSelection (the  *)
(* node's command.rs, one invocation tagged "cli"), CandidateReceiptOrder  *)
(* (v0.rs's receipt ordering and conversions, probes tagged "receipt"),   *)
(* StatementCodec (the                                                     *)
(* signed byte layouts of src/primitives/src/v0.rs), FeeSchedule (its      *)
(* message fee) and AccountDerivation (the bridge's derived accounts and   *)
(* ownership digests) and SubsystemErrors (the node's error reports).  The *)
(* probe is one of StatementCodec's probes, or an input of FeeSchedule,    *)
(* AccountDerivation, SubsystemErrors or LaneRuntimeApis (the relays'     *)
(* runtime-API method names) tagged "fee", "account", "error" or "api";    *)
(* each module's invariants concern its own probes only.                   *)
(***************************************************************************)
EXTENDS StatementCodec

CONSTANTS BalanceBits, SizeBits,
          MILLAU_CHAIN_ID, RIALTO_CHAIN_ID, WOCOCO_CHAIN_ID, TITAN_CHAIN_ID,
          titan_CHAIN_ID, Accounts, Calls, SpecVersions,
          x1, x2, call1, call2,
          Strings, MaxNesting, MaxFrames,
          h1, h2, c1, c2, p1, v1, k1, HeadBytes, MaxHeadLen

Fee == INSTANCE FeeSchedule WITH probe <- probe.input

Acc == INSTANCE AccountDerivation WITH probe <- probe.input

Err == INSTANCE SubsystemErrors WITH probe <- probe.input

Api == INSTANCE LaneRuntimeApis WITH probe <- probe.input

(* Two parachains, two relay parents and two collators, so two receipts   *)
(* can agree on the ordered fields and differ elsewhere.                   *)
Rcpt == INSTANCE CandidateReceiptOrder
        WITH probe <- probe.input, ParaIds <- {1, 2}, RelayParents <- {h1, h2},
             Collators <- {c1, c2}, PovHashes <- {p1}, Validations <- {v1},
             Commitments <- {k1}

(* 16777217 and 1 differ only in the most significant byte of a u32, and  *)
(* 65537 and 1 only in the third: a payload dropping either byte of the   *)
(* para id would let one signature verify for two parachains.             *)
MCParaIds == {1, 2000, 65537, 16777217}

FeeProbes == [kind : {"fee"}, input : Fee!Probes]

AccountProbes == [kind : {"account"}, input : Acc!Probes]

ErrorProbes == [kind : {"error"}, input : Err!Probes]

ApiProbes == [kind : {"api"}, input : Api!Probes]

Cli == INSTANCE ChainSpecSelection WITH probe <- probe.input

CliProbes == [kind : {"cli"}, input : Cli!Probes]

ReceiptProbes == [kind : {"receipt"}, input : Rcpt!CandidateReceipts \X Rcpt!CandidateReceipts]

MCInit == probe \in Probes \cup FeeProbes \cup AccountProbes \cup ErrorProbes \cup ApiProbes
                        \cup ReceiptProbes \cup CliProbes

MCSpec == MCInit /\ [][Examine]_probe

(* FeeSchedule::compute_message_fee saturates instead of wrapping and is  *)
(* non-decreasing in the size (FeeSchedule's FeeIsSaturatedLinearFee).    *)
FeeIsSaturatedLinearFee == probe.kind = "fee" => Fee!FeeIsSaturatedLinearFee

(* No two source accounts of different chains derive the same target      *)
(* account under any derive function the relay uses (AccountDerivation's  *)
(* SovereignAccountSeparation).                                           *)
SovereignAccountSeparation == probe.kind = "account" => Acc!SovereignAccountSeparation

(* An ownership digest signed for one bridge direction never equals that  *)
(* of another (AccountDerivation's DigestBoundToDirection).               *)
DigestBoundToDirection == probe.kind = "account" => Acc!DigestBoundToDirection

(* Every method name a relay calls is implemented by the runtime the      *)
(* calling client runs on, and is the function the constant's role asks   *)
(* for (LaneRuntimeApis' MethodsImplementedWhereCalled).                  *)
MethodsImplementedWhereCalled == probe.kind = "api" => Api!MethodsImplementedWhereCalled

(* A receipt keeps its identity and its collator signature through every  *)
(* conversion (CandidateReceiptOrder's ConversionsPreserveReceipt).        *)
ConversionsPreserveReceipt == probe.kind = "receipt" => Rcpt!ConversionsPreserveReceipt

(* Every chain ensure_dev's error message offers as "<chain>-dev" loads,   *)
(* with its runtime compiled, as a spec ensure_dev accepts and that runs  *)
(* that chain's runtime (ChainSpecSelection's                              *)
(* DevChainsOfErrorMessageLoad).                                           *)
DevChainsOfErrorMessageLoad == probe.kind = "cli" => Cli!DevChainsOfErrorMessageLoad
=============================================================================
