------------------------------- MODULE Dependy -------------------------------
(***************************************************************************)
(* The dependency resolver that ScenarioDescription::get_test_order calls  *)
(* (crate dependy, not part of this repository).  Modelled from the spec,  *)
(* sections 2, 4.2 and 6: nodes declare requirements, suggestions and     *)
(* provides; resolve_named_dependencies(roots) returns a linear order of  *)
(* the roots and the transitive closure of their requirements, or fails   *)
(* on a missing requirement or a cycle.                                    *)
(*                                                                         *)
(* A graph g is a function from node names to                             *)
(* [req |-> set, sug |-> set, prov |-> set].  A node satisfies a          *)
(* requirement r when r is its name or one of its provides.  Which valid  *)
(* order the resolver returns is left open: Resolve is the set of orders  *)
(* it may return, empty when it fails.                                     *)
(***************************************************************************)
EXTENDS Naturals, Sequences, SequencesExt

\* Node n of g satisfies requirement r.
Satisfies(g, n, r) == r = n \/ r \in g[n].prov

\* Every order of every subset of the nodes.
Orders(g) == UNION {SetToSeqs(S) : S \in SUBSET DOMAIN g}

\* Each requirement of s[i] is satisfied by a node placed before it.
ReqsBefore(g, s, i) ==
  \A r \in g[s[i]].req : \E j \in 1 .. i - 1 : Satisfies(g, s[j], r)

\* s[i] is a root or satisfies a requirement of a node placed after it.
Needed(g, s, roots, i) ==
  \/ s[i] \in roots
  \/ \E j \in i + 1 .. Len(s) : \E r \in g[s[j]].req : Satisfies(g, s[i], r)

\* Suggestions are ordering-only: a suggested node that is present comes first.
SuggestionsBefore(g, s) ==
  \A i, j \in DOMAIN s : s[j] \in g[s[i]].sug => j < i

\* The orders that satisfy every hard constraint.
HardOrders(g, roots) ==
  { s \in Orders(g) :
      /\ roots \subseteq ToSet(s)
      /\ \A i \in DOMAIN s : ReqsBefore(g, s, i) /\ Needed(g, s, roots, i) }

(***************************************************************************)
(* resolve_named_dependencies(roots): the orders it may return; those that *)
(* also honour the suggestions when any does.  {} means Err(reason).       *)
(***************************************************************************)
Resolve(g, roots) ==
  LET hard == HardOrders(g, roots)
      soft == {s \in hard : SuggestionsBefore(g, s)}
  IN IF soft # {} THEN soft ELSE hard
=============================================================================
