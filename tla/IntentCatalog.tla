---------------------------- MODULE IntentCatalog ----------------------------
(***************************************************************************)
(* What a caller can ask for: the intents the system knows and the tier     *)
(* each one requires (auth/tier_config.py; IntentTierMap is loaded once and *)
(* never changes), and the commands of shared/global_commands.py.           *)
(***************************************************************************)
EXTENDS Parties

CONSTANTS
    Intents,
    NoIntent,             \* None, where the code holds an optional intent_id
    TierOf                \* tier_for

ASSUME CatalogAssumption ==
    /\ NoIntent \notin Intents
    /\ TierOf \in [Intents -> Tiers]

Commands == {"ESCALATE_TO_CSR", "START_OVER", "REPEAT", "NONE"}
=============================================================================
