-------------------------- MODULE MCIntentCatalog --------------------------
(* A catalog of three entries and three concurrent requests.               *)
EXTENDS IntentCatalog
=============================================================================
