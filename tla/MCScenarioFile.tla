--------------------------- MODULE MCScenarioFile ---------------------------
(***************************************************************************)
(* Small instance of ScenarioFile: two names, sections of up to three      *)
(* keys, so that a list key, a text key and an unknown key, or two list    *)
(* keys one of them malformed, meet in one file.                           *)
(***************************************************************************)
EXTENDS ScenarioFile, TLC

CONSTANTS n1, n2

MCNames == {n1, n2}
\* the names are interchangeable in from_path
MCSymmetry == Permutations(MCNames)
=============================================================================
