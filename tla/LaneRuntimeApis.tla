--------------------------- MODULE LaneRuntimeApis ---------------------------
(***************************************************************************)
(* The runtime-API methods the relays call by name.  Each bridged chain's  *)
(* primitives crate (bp_<chain>, as chain-ruby/src/lib.rs) defines the     *)
(* names of three API traits named after that chain and says which        *)
(* runtimes implement them; the titan->Wococo lane and the two finality    *)
(* pipelines pick one of these &str constants for each query their source  *)
(* and target clients make.  A name is <Api>_<fn>: it is modelled by the   *)
(* three things it is made of, the API kind, the chain the API is named    *)
(* after and the function.                                                 *)
(***************************************************************************)
EXTENDS Naturals

VARIABLE probe

Method(api, chain, fn) == [api |-> api, chain |-> chain, fn |-> fn]

(* bp_<c>'s method-name constants. *)
BEST_FINALIZED_HEADER_METHOD(c) == Method("Finality", c, "best_finalized")
TO_MESSAGE_DETAILS_METHOD(c) == Method("ToOutboundLane", c, "message_details")
TO_LATEST_GENERATED_NONCE_METHOD(c) == Method("ToOutboundLane", c, "latest_generated_nonce")
TO_LATEST_RECEIVED_NONCE_METHOD(c) == Method("ToOutboundLane", c, "latest_received_nonce")
FROM_LATEST_RECEIVED_NONCE_METHOD(c) == Method("FromInboundLane", c, "latest_received_nonce")
FROM_LATEST_CONFIRMED_NONCE_METHOD(c) == Method("FromInboundLane", c, "latest_confirmed_nonce")
FROM_UNREWARDED_RELAYERS_STATE(c) == Method("FromInboundLane", c, "unrewarded_relayers_state")

(* The relays of this repository: titan's messages to Wococo, and the     *)
(* headers of titan to Wococo and of ruby to Millau.                       *)
Lanes == {<<"titan", "Wococo">>}
HeaderPipelines == {<<"titan", "Wococo">>, <<"ruby", "Millau">>}

(* Which runtime implements an API of chain c (decl_runtime_apis doc      *)
(* comments): <c>FinalityApi by runtimes bridging with c, To<c>Outbound-  *)
(* LaneApi by runtimes sending to c, From<c>InboundLaneApi by runtimes     *)
(* receiving from c; never by c's runtime itself.  A chain bridges with    *)
(* the source of a header pipeline into it, and both ends of a lane track  *)
(* each other's headers, since each proves the other's storage.           *)
BridgesWith(runtime, c) ==
    \/ <<c, runtime>> \in HeaderPipelines
    \/ <<c, runtime>> \in Lanes \/ <<runtime, c>> \in Lanes
Implements(runtime, m) ==
    CASE m.api = "Finality" -> BridgesWith(runtime, m.chain)
      [] m.api = "ToOutboundLane" -> <<runtime, m.chain>> \in Lanes
      [] m.api = "FromInboundLane" -> <<m.chain, runtime>> \in Lanes

(* Mutant: the inbound received-nonce query named from bp_wococo, the     *)
(* outbound lane's crate.                                                  *)
LaneMethodsWrongCrate ==
    [OUTBOUND_LANE_MESSAGE_DETAILS_METHOD |-> TO_MESSAGE_DETAILS_METHOD("Wococo"),
     OUTBOUND_LANE_LATEST_GENERATED_NONCE_METHOD |-> TO_LATEST_GENERATED_NONCE_METHOD("Wococo"),
     OUTBOUND_LANE_LATEST_RECEIVED_NONCE_METHOD |-> TO_LATEST_RECEIVED_NONCE_METHOD("Wococo"),
     INBOUND_LANE_LATEST_RECEIVED_NONCE_METHOD |-> TO_LATEST_RECEIVED_NONCE_METHOD("Wococo"),
     INBOUND_LANE_LATEST_CONFIRMED_NONCE_METHOD |-> FROM_LATEST_CONFIRMED_NONCE_METHOD("titan"),
     INBOUND_LANE_UNREWARDED_RELAYERS_STATE |-> FROM_UNREWARDED_RELAYERS_STATE("titan"),
     BEST_FINALIZED_SOURCE_HEADER_ID_AT_TARGET |-> BEST_FINALIZED_HEADER_METHOD("titan"),
     BEST_FINALIZED_TARGET_HEADER_ID_AT_SOURCE |-> BEST_FINALIZED_HEADER_METHOD("Wococo")]

(* The SubstrateMessageLane constants of titanMessagesToWococo. *)
LaneMethods ==
    [OUTBOUND_LANE_MESSAGE_DETAILS_METHOD |-> TO_MESSAGE_DETAILS_METHOD("Wococo"),
     OUTBOUND_LANE_LATEST_GENERATED_NONCE_METHOD |-> TO_LATEST_GENERATED_NONCE_METHOD("Wococo"),
     OUTBOUND_LANE_LATEST_RECEIVED_NONCE_METHOD |-> TO_LATEST_RECEIVED_NONCE_METHOD("Wococo"),
     INBOUND_LANE_LATEST_RECEIVED_NONCE_METHOD |-> FROM_LATEST_RECEIVED_NONCE_METHOD("titan"),
     INBOUND_LANE_LATEST_CONFIRMED_NONCE_METHOD |-> FROM_LATEST_CONFIRMED_NONCE_METHOD("titan"),
     INBOUND_LANE_UNREWARDED_RELAYERS_STATE |-> FROM_UNREWARDED_RELAYERS_STATE("titan"),
     BEST_FINALIZED_SOURCE_HEADER_ID_AT_TARGET |-> BEST_FINALIZED_HEADER_METHOD("titan"),
     BEST_FINALIZED_TARGET_HEADER_ID_AT_SOURCE |-> BEST_FINALIZED_HEADER_METHOD("Wococo")]

(* The SubstrateFinalitySyncPipeline constant of each header pipeline. *)
PipelineMethod(p) == BEST_FINALIZED_HEADER_METHOD(p[1])

(* What each constant is for: the client that calls it (source or target), *)
(* the API it queries and the function.  OUTBOUND_* read the source's      *)
(* outbound lane to the target, INBOUND_* the target's inbound lane from  *)
(* the source, and the header ids are the best finalized header of one     *)
(* chain as the other sees it.                                             *)
Roles ==
    [OUTBOUND_LANE_MESSAGE_DETAILS_METHOD |-> [at |-> 1, api |-> "ToOutboundLane", fn |-> "message_details"],
     OUTBOUND_LANE_LATEST_GENERATED_NONCE_METHOD |-> [at |-> 1, api |-> "ToOutboundLane", fn |-> "latest_generated_nonce"],
     OUTBOUND_LANE_LATEST_RECEIVED_NONCE_METHOD |-> [at |-> 1, api |-> "ToOutboundLane", fn |-> "latest_received_nonce"],
     INBOUND_LANE_LATEST_RECEIVED_NONCE_METHOD |-> [at |-> 2, api |-> "FromInboundLane", fn |-> "latest_received_nonce"],
     INBOUND_LANE_LATEST_CONFIRMED_NONCE_METHOD |-> [at |-> 2, api |-> "FromInboundLane", fn |-> "latest_confirmed_nonce"],
     INBOUND_LANE_UNREWARDED_RELAYERS_STATE |-> [at |-> 2, api |-> "FromInboundLane", fn |-> "unrewarded_relayers_state"],
     BEST_FINALIZED_SOURCE_HEADER_ID_AT_TARGET |-> [at |-> 2, api |-> "Finality", fn |-> "best_finalized"],
     BEST_FINALIZED_TARGET_HEADER_ID_AT_SOURCE |-> [at |-> 1, api |-> "Finality", fn |-> "best_finalized"]]

(* A probe is one call: a relay (its source and target), the constant and  *)
(* the method that constant names.                                         *)
Probes ==
    {[relay |-> l, const |-> k, method |-> LaneMethods[k]] : l \in Lanes, k \in DOMAIN LaneMethods}
    \cup {[relay |-> p, const |-> "BEST_FINALIZED_SOURCE_HEADER_ID_AT_TARGET",
           method |-> PipelineMethod(p)] : p \in HeaderPipelines}

Init == probe \in Probes

Examine == UNCHANGED probe

Spec == Init /\ [][Examine]_probe

(* Every method a relay calls by name exists where it is called: the      *)
(* client that makes the call runs on a runtime implementing that API, and *)
(* the method is the function the constant's role queries.  A constant     *)
(* taken from the other chain's crate (TO_WOCOCO_* for an inbound query)   *)
(* type-checks as a &str and fails only when the lane runs.               *)
MethodsImplementedWhereCalled ==
    LET role == Roles[probe.const]
        caller == probe.relay[role.at]
    IN /\ Implements(caller, probe.method)
       /\ probe.method.api = role.api
       /\ probe.method.fn = role.fn
=============================================================================
