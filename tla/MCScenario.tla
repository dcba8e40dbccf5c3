---------------------------- MODULE MCScenario ------------------------------
(***************************************************************************)
(* Small instance of Scenario: three tests, one capability, one jig.  A    *)
(* test declares at most one requirement and may provide the capability,  *)
(* so chains of length three, self-loops, two-cycles and capability        *)
(* requirements all occur.  No test declares a suggestion: suggestions     *)
(* only choose among orders that already meet every requirement, so they   *)
(* cannot change whether a selected order is a schedule.                   *)
(***************************************************************************)
EXTENDS Scenario, TLC

CONSTANTS a, b, c, x, j

MCNames == {a, b, c}
MCCaps == {x}
MCJigs == {j}
\* at most one requirement, on a test or on the capability
MCReqChoices == {{}} \cup {{n} : n \in MCNames \cup MCCaps}
MCSugChoices == {{}}
MCProvChoices == {{}, {x}}
\* test names are interchangeable: nothing CHOOSEs among them
MCSymmetry == Permutations(MCNames)

(***************************************************************************)
(* The closed form of get_test_order's filter agrees with SelectSeq, the   *)
(* loop's push-if-not-assumed written as a recursion, on every sequence of *)
(* up to four names (repeats included) and every set of assumed names.     *)
(***************************************************************************)
ASSUME FilterAsLoop ==
  \A n \in 0 .. 4 : \A s \in [1 .. n -> MCNames] : \A A \in SUBSET MCNames :
    Filtered(s, A) = SelectSeq(s, LAMBDA m : m \notin A)
=============================================================================
