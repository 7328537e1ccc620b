----------------------------- MODULE MCSeeding -----------------------------
(***************************************************************************)
(* Small instances of Seeding for TLC: the script has a row for the        *)
(* glossary and one for the dictionary, or one for another kind.  Either   *)
(* it is to be run twice, or once and there is one import, or it is not    *)
(* run any more and there are several imports.                             *)
(***************************************************************************)
EXTENDS Seeding

Filled(glossary, metric, dictionary, knowledge) ==
    [k \in {"glossary", "metric", "dictionary", "knowledge"} |->
        CASE k = "glossary" -> glossary [] k = "metric" -> metric
          [] k = "dictionary" -> dictionary [] k = "knowledge" -> knowledge]

MCSeedData == {Filled({"term"}, {}, {"value"}, {}), Filled({}, {"metric"}, {}, {}), Filled({}, {}, {}, {"title"})}

MCInit ==
    /\ seeds \in SeedData
    /\ rows = {} /\ lastId = 0
    /\ column \in {0, 1}
    /\ script = NoScript
    /\ \/ runs = 0 /\ imported = MaxImports
       \/ runs = MaxRuns - 1 /\ imported = MaxImports - 1
       \/ runs = MaxRuns /\ imported = 0
    /\ abandoned = {}
    /\ imports = [i \in Importer |-> NoImport]
    /\ fresh = {} /\ unsure = {} /\ disturbed = FALSE /\ swept = TRUE

MCSpec == MCInit /\ [][Next]_vars
=============================================================================
