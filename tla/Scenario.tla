------------------------------- MODULE Scenario ------------------------------
(***************************************************************************)
(* Scenario selection of src/src/units/scenario.rs: is_compatible checks   *)
(* the jig list, get_test_order builds a dependency graph of every test in *)
(* the manager's registry (an AssumptionDependency with no requirements,   *)
(* suggestions or provides in place of each assumed test), resolves the    *)
(* scenario's Tests and drops the assumed names; select then checks out    *)
(* every ordered test into a Scenario.                                     *)
(*                                                                         *)
(* The unit files are parsed before this code runs: the registry, the      *)
(* tests' declared dependencies, the loaded jigs and the scenario's        *)
(* description are chosen in Init among small values and stay fixed.  The *)
(* manager calls select() and later drops the Scenario (deselect).  The    *)
(* order of the Tests list only breaks ties inside the resolver and is     *)
(* abstracted to a set.                                                    *)
(***************************************************************************)
EXTENDS Naturals, Sequences, SequencesExt, FiniteSets

CONSTANTS
  Names,        \* test names
  Caps,         \* capability names a test may provide or require
  Jigs,         \* jig names
  ReqChoices,   \* the requirement sets a test file may declare
  SugChoices,   \* the suggestion sets a test file may declare
  ProvChoices   \* the provides sets a test file may declare

\* The manager's test registry is a finite map.
ASSUME ChoicesAssumption ==
  /\ IsFiniteSet(Names)
  /\ ReqChoices \subseteq SUBSET (Names \cup Caps)
  /\ SugChoices \subseteq SUBSET Names
  /\ ProvChoices \subseteq SUBSET Caps

R == INSTANCE Dependy

TestDef == [req : ReqChoices, sug : SugChoices, prov : ProvChoices]
Desc == [jigs : SUBSET Jigs, tests : SUBSET Names, assumptions : SUBSET Names]

VARIABLES
  registry,     \* names of the tests in manager.get_tests()
  testDefs,     \* each test's declared requirements/suggestions/provides
  loadedJigs,   \* jigs for which manager.jig_is_loaded holds
  desc,         \* the ScenarioDescription: jigs, tests, assumptions
  result,       \* outcome of the last select(): "none" after deselect
  testSequence, \* Scenario.test_sequence (test names stand for handles)
  tests         \* the keys of Scenario.tests

vars == <<registry, testDefs, loadedJigs, desc, result, testSequence, tests>>

\* AssumptionDependency::new(name): no requirements, suggestions or provides.
AssumptionDependency == [req |-> {}, sug |-> {}, prov |-> {}]

(***************************************************************************)
(* The graph get_test_order builds: one node per registry test, the        *)
(* assumption node in place of an assumed test.                            *)
(***************************************************************************)
Graph ==
  [n \in registry |->
     IF n \in desc.assumptions THEN AssumptionDependency ELSE testDefs[n]]

\* The loop of is_compatible: some declared jig is loaded, or none declared.
JigOK == desc.jigs = {} \/ desc.jigs \cap loadedJigs # {}

\* Mutant: the resolved order is returned without dropping the assumptions.
TestOrderUnfiltered(s) == s

(***************************************************************************)
(* The loop at the end of get_test_order pushes, in order, each resolved   *)
(* name that is not assumed.  Its result in closed form: the positions of *)
(* s whose name is kept, and the k-th kept name is the one at the kept     *)
(* position with k kept positions up to and including it.                  *)
(***************************************************************************)
KeptAt(s, A) == {i \in DOMAIN s : s[i] \notin A}
Rank(s, A, i) == Cardinality({p \in KeptAt(s, A) : p <= i})
Filtered(s, A) ==
  [k \in 1 .. Cardinality(KeptAt(s, A)) |->
     s[CHOOSE i \in KeptAt(s, A) : Rank(s, A, i) = k]]

\* get_test_order: drop the assumed names from a resolved order.
TestOrder(s) == Filtered(s, desc.assumptions)

Init ==
  /\ registry \in SUBSET Names
  /\ testDefs \in [Names -> TestDef]
  /\ loadedJigs \in SUBSET Jigs
  /\ desc \in Desc
  /\ result = "none"
  /\ testSequence = <<>>
  /\ tests = {}

(***************************************************************************)
(* select(): is_compatible fails with IncompatibleJig.                     *)
(***************************************************************************)
SelectIncompatibleJig ==
  /\ ~JigOK
  /\ result' = "IncompatibleJig"
  /\ testSequence' = <<>>
  /\ tests' = {}
  /\ UNCHANGED <<registry, testDefs, loadedJigs, desc>>

(***************************************************************************)
(* select(): the resolver rejects the Tests list (missing requirement or   *)
(* cycle); the error is propagated by get_test_order and is_compatible.    *)
(***************************************************************************)
SelectUnresolvable ==
  /\ JigOK
  /\ R!Resolve(Graph, desc.tests) = {}
  /\ result' = "Unresolvable"
  /\ testSequence' = <<>>
  /\ tests' = {}
  /\ UNCHANGED <<registry, testDefs, loadedJigs, desc>>

(***************************************************************************)
(* select(): Scenario::new checks out every name of the filtered order,    *)
(* pushing it on test_sequence and inserting it in tests.                  *)
(***************************************************************************)
SelectOk ==
  /\ JigOK
  /\ \E s \in R!Resolve(Graph, desc.tests) :
       /\ testSequence' = TestOrder(s)
       /\ tests' = ToSet(TestOrder(s))
  /\ result' = "Selected"
  /\ UNCHANGED <<registry, testDefs, loadedJigs, desc>>

(***************************************************************************)
(* The manager drops the Scenario.                                         *)
(***************************************************************************)
Deselect ==
  /\ result = "Selected"
  /\ result' = "none"
  /\ testSequence' = <<>>
  /\ tests' = {}
  /\ UNCHANGED <<registry, testDefs, loadedJigs, desc>>

Next == SelectIncompatibleJig \/ SelectUnresolvable \/ SelectOk \/ Deselect

Spec == Init /\ [][Next]_vars

-----------------------------------------------------------------------------
TypeOK ==
  /\ registry \subseteq Names
  /\ testDefs \in [Names -> TestDef]
  /\ loadedJigs \subseteq Jigs
  /\ desc \in Desc
  /\ result \in {"none", "IncompatibleJig", "Unresolvable", "Selected"}
  /\ testSequence \in Seq(Names)
  /\ tests \subseteq Names

(***************************************************************************)
(* What the spec (4.2, 8) promises of a selected scenario, stated on the   *)
(* tests' own declarations: s runs each registry test at most once, never  *)
(* an assumed one, includes every non-assumed test of the Tests list, and  *)
(* each requirement of a test it runs is met by a test run earlier or by   *)
(* an assumed test of the registry.                                        *)
(***************************************************************************)
MetByAssumption(r) ==
  \E a \in registry \cap desc.assumptions : R!Satisfies(testDefs, a, r)

IsSchedule(s) ==
  /\ IsInjective(s)
  /\ ToSet(s) \subseteq registry \ desc.assumptions
  /\ desc.tests \ desc.assumptions \subseteq ToSet(s)
  /\ \A i \in DOMAIN s : \A r \in testDefs[s[i]].req :
       \/ \E j \in 1 .. i - 1 : R!Satisfies(testDefs, s[j], r)
       \/ MetByAssumption(r)

(***************************************************************************)
(* A selected Scenario runs a valid schedule, and tests is exactly the set *)
(* of names in test_sequence (Scenario.uses_test agrees with the order).   *)
(* Covers the assumption substitution and the filtering of get_test_order. *)
(***************************************************************************)
ScheduleSound ==
  result = "Selected" => IsSchedule(testSequence) /\ tests = ToSet(testSequence)

(***************************************************************************)
(* Spec 4.2: the assumption node "satisfies dependents", so when the      *)
(* assumed tests are registry tests (spec 3) and a schedule exists,        *)
(* select() does not report the dependencies as unresolvable.              *)
(***************************************************************************)
NoSpuriousRejection ==
  (result = "Unresolvable" /\ desc.assumptions \subseteq registry) =>
    ~\E S \in SUBSET (registry \ desc.assumptions) :
       \E s \in SetToSeqs(S) : IsSchedule(s)
=============================================================================
