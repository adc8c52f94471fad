--------------------------- MODULE AccountDerivation ---------------------------
(***************************************************************************)
(* Which accounts and signed digests a bridge direction uses to attribute  *)
(* a cross-chain message: select_full_bridge (cli/bridge.rs) binds each    *)
(* FullBridge to its source and target, the target's derive_account and    *)
(* the source client's account_ownership_digest; chain-ruby derives ruby    *)
(* accounts from titan ids; client-titan and client-wococo build the        *)
(* ownership digests.                                                       *)
(*                                                                         *)
(* bp_runtime::derive_account_id, pallet_bridge_dispatch's digest and the  *)
(* Millau/Rialto/Wococo/titan derive functions are outside src/ and are    *)
(* written from spec.md 4.6: a collision-free hash of a chain id and the    *)
(* encoded source account.  Hashes are modelled by the tuples they hash.   *)
(***************************************************************************)
EXTENDS FiniteSets

CONSTANTS MILLAU_CHAIN_ID, RIALTO_CHAIN_ID, WOCOCO_CHAIN_ID,
          TITAN_CHAIN_ID,   \* bp_runtime::TITAN_CHAIN_ID (the digests)
          titan_CHAIN_ID,   \* bp_runtime::titan_CHAIN_ID (chain-ruby)
          Accounts,         \* source account ids
          Calls,            \* encoded target calls
          SpecVersions      \* target spec versions

VARIABLE probe

(* bp_runtime::SourceAccount: the source chain's root or one of its accounts. *)
SourceAccounts == {[kind |-> "Root"]} \cup [kind : {"Account"}, id : Accounts]

(* bp_runtime::derive_account_id followed by AccountIdConverter::convert:  *)
(* the hash of ("root", chain id) or ("account", chain id, id).           *)
DeriveAccountId(bridge_id, id) ==
    IF id.kind = "Root" THEN <<"root", bridge_id>>
    ELSE <<"account", bridge_id, id.id>>

(* Mutant: ruby derives titan accounts under Wococo's chain id. *)
DeriveAccountFromTitanIdWrongChain(id) == DeriveAccountId(WOCOCO_CHAIN_ID, id)

(* chain-ruby derive_account_from_titan_id. *)
DeriveAccountFromTitanId(id) == DeriveAccountId(titan_CHAIN_ID, id)

(* pallet_bridge_dispatch::account_ownership_digest: the encoding of the  *)
(* call, the account, the spec version and the two chain ids.             *)
AccountOwnershipDigest(call, account_id, spec_version, this_chain, bridged_chain) ==
    <<call, account_id, spec_version, this_chain, bridged_chain>>

(* Mutant: the Wococo client passes the chain ids in titan's order. *)
WococoToTitanDigestSwapped(call, account_id, spec_version) ==
    AccountOwnershipDigest(call, account_id, spec_version, TITAN_CHAIN_ID, WOCOCO_CHAIN_ID)

(* client-wococo wococo_to_titan_account_ownership_digest. *)
WococoToTitanAccountOwnershipDigest(call, account_id, spec_version) ==
    AccountOwnershipDigest(call, account_id, spec_version, WOCOCO_CHAIN_ID, TITAN_CHAIN_ID)

(* client-titan titan_to_wococo_account_ownership_digest. *)
TitanToWococoAccountOwnershipDigest(call, account_id, spec_version) ==
    AccountOwnershipDigest(call, account_id, spec_version, TITAN_CHAIN_ID, WOCOCO_CHAIN_ID)

FullBridges == {"MillauToRialto", "RialtoToMillau", "titanToWococo", "WococoTotitan"}

(* select_full_bridge: the Source and Target, the target runtime's        *)
(* derive_account (from the source chain's id) and the source's           *)
(* account_ownership_digest, as functions of their arguments.             *)
SelectFullBridge(bridge) ==
    LET Digest(f(_, _, _)) == [x \in Calls \X Accounts \X SpecVersions |-> f(x[1], x[2], x[3])]
        Derive(cid) == [a \in SourceAccounts |-> DeriveAccountId(cid, a)]
        MillauToRialto(c, a, v) ==
            AccountOwnershipDigest(c, a, v, MILLAU_CHAIN_ID, RIALTO_CHAIN_ID)
        RialtoToMillau(c, a, v) ==
            AccountOwnershipDigest(c, a, v, RIALTO_CHAIN_ID, MILLAU_CHAIN_ID)
    IN CASE bridge = "MillauToRialto" ->
              [source |-> "Millau", target |-> "Rialto",
               derive_account |-> Derive(MILLAU_CHAIN_ID),
               account_ownership_digest |-> Digest(MillauToRialto)]
         [] bridge = "RialtoToMillau" ->
              [source |-> "Rialto", target |-> "Millau",
               derive_account |-> Derive(RIALTO_CHAIN_ID),
               account_ownership_digest |-> Digest(RialtoToMillau)]
         [] bridge = "titanToWococo" ->
              [source |-> "titan", target |-> "Wococo",
               derive_account |-> Derive(TITAN_CHAIN_ID),
               account_ownership_digest |-> Digest(TitanToWococoAccountOwnershipDigest)]
         [] bridge = "WococoTotitan" ->
              [source |-> "Wococo", target |-> "titan",
               derive_account |-> Derive(WOCOCO_CHAIN_ID),
               account_ownership_digest |-> Digest(WococoToTitanAccountOwnershipDigest)]

(* Every derivation the code uses: the four bridges' and ruby's from titan. *)
Derivations ==
    {[source |-> SelectFullBridge(b).source, target |-> SelectFullBridge(b).target,
      derive |-> SelectFullBridge(b).derive_account] : b \in FullBridges}
    \cup {[source |-> "titan", target |-> "ruby",
           derive |-> [a \in SourceAccounts |-> DeriveAccountFromTitanId(a)]]}

(* ---------------------------------------------------------------------- *)
(* The probes: two bridge directions and the inputs of a send-message.    *)

Probes == [b1 : FullBridges, b2 : FullBridges, call : Calls,
           a1 : SourceAccounts, a2 : SourceAccounts, version : SpecVersions]

Init == probe \in Probes

(* Each probe is examined once; the specification then stays put. *)
Examine == UNCHANGED probe

Spec == Init /\ [][Examine]_probe

(* ---------------------------------------------------------------------- *)
(* Properties.                                                             *)

(* Sovereign-account separation (spec.md 4.6): among all derive functions *)
(* the relay uses, two source accounts get the same derived account only  *)
(* if they are the same account of the same source chain, so a message    *)
(* from chain A account X and from chain B account X are attributed to    *)
(* different accounts, and a source's root to neither.                    *)
SovereignAccountSeparation ==
    \A d1, d2 \in Derivations :
        d1.derive[probe.a1] = d2.derive[probe.a2] =>
            d1.source = d2.source /\ probe.a1 = probe.a2

(* An ownership digest signed for one bridge direction never verifies for *)
(* another: the source client's digest binds the (source, target) pair,   *)
(* so a signature for titan->Wococo cannot be replayed Wococo->titan.     *)
DigestBoundToDirection ==
    probe.b1 # probe.b2 =>
        \A a \in Accounts :
            LET k == <<probe.call, a, probe.version>>
            IN SelectFullBridge(probe.b1).account_ownership_digest[k]
                 # SelectFullBridge(probe.b2).account_ownership_digest[k]
=============================================================================
