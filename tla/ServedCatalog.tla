---------------------------- MODULE ServedCatalog ----------------------------
(***************************************************************************)
(* The catalog where agents serve the intents, in telephony/app.py and in  *)
(* scripts/call_auth_cli.py: they all act for a known customer, and no     *)
(* intent is of tier 0, which would be handed over without one             *)
(* (config/intent_tier_map.yaml).                                          *)
(***************************************************************************)
EXTENDS IntentCatalog

ASSUME ServedAssumption == \A i \in Intents : TierOf[i] # 0
=============================================================================
