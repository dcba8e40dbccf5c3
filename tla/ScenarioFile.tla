----------------------------- MODULE ScenarioFile -----------------------------
(***************************************************************************)
(* ScenarioDescription::from_path of src/src/units/scenario.rs: derive the *)
(* unit name from the path, read and parse the file, require a [Scenario]  *)
(* section, then walk its directive entries and fill in Name, Description, *)
(* Jigs, Tests and Assume; every `?` returns at once with the error.       *)
(*                                                                         *)
(* Data abstraction.  A file is what the systemd parser hands the loop:    *)
(* whether the path, the read and the parse succeed (front), whether the   *)
(* section is present, and the section's entries in order, one per key.   *)
(* An entry carries the values written for its key: one value is a         *)
(* DirectiveEntry::Solo, several are a DirectiveEntry::Many.  A value is   *)
(* NoValue (a key with no `=` value), a list of names, or Malformed (a     *)
(* list that UnitName::from_list rejects); text values are Text.           *)
(***************************************************************************)
EXTENDS Naturals, Sequences, SequencesExt

CONSTANTS
  Names,       \* unit names that may appear in a Jigs/Tests/Assume list
  MaxEntries,  \* bound on the number of keys in the [Scenario] section
  MaxRepeat,   \* bound on how often one key is written
  NoValue,     \* directive.value() is None
  Malformed,   \* a list value UnitName::from_list rejects
  Text         \* a non-empty Name or Description value

ASSUME FileAssumption ==
  /\ MaxEntries \in Nat /\ MaxRepeat \in Nat \ {0}
  /\ NoValue \notin Seq(Names) /\ Malformed \notin Seq(Names)
  /\ NoValue # Malformed

ListKeys == {"Jigs", "Tests", "Assume"}
TextKeys == {"Name", "Description"}
Keys == ListKeys \cup TextKeys \cup {"Other"}

\* The field of ScenarioDescription a recognised key fills in.
Field == [Jigs |-> "jigs", Tests |-> "tests", Assume |-> "assumptions",
          Name |-> "name", Description |-> "description"]

ListValues == {NoValue, Malformed} \cup {<<n>> : n \in Names}
ValuesOf(k) == IF k \in ListKeys THEN ListValues ELSE {NoValue, Text}

Entries ==
  UNION {[key : {k}, values : UNION {[1 .. r -> ValuesOf(k)] : r \in 1 .. MaxRepeat}]
           : k \in Keys}

\* The parser groups the lines of one key into one entry.
Sections ==
  {s \in UNION {[1 .. n -> Entries] : n \in 0 .. MaxEntries} :
     \A i, j \in DOMAIN s : s[i].key = s[j].key => i = j}

Fronts == {"ok", "BadName", "Io", "Syntax"}
Files == [front : Fronts, hasScenario : BOOLEAN, entries : Sections]

Err(e) == [ok |-> FALSE, err |-> e]
Unparsed == [ok |-> FALSE, err |-> "unparsed"]

VARIABLES
  file,    \* the unit file at the path
  result   \* what from_path returned, Unparsed before the call

vars == <<file, result>>

\* The description before the loop: empty strings and lists (lines 101-116).
EmptyDescription ==
  [ok |-> TRUE, name |-> "", description |-> "",
   jigs |-> <<>>, tests |-> <<>>, assumptions |-> <<>>]

\* UnitName::from_list (src/src/unit.rs is not in the tree) rejects a malformed list
FromListFails(v) == v = Malformed

\* directive.value().unwrap_or("").to_owned()
TextOf(v) == IF v = NoValue THEN "" ELSE v

\* match directive.value() { Some(s) => UnitName::from_list(s, ..)?, None => vec![] }
\* (names are already model values, so a list that parses is its names).
ListOf(v) == IF v = NoValue THEN <<>> ELSE v

\* Mutant: the Assume arm, copied from the Tests arm, still fills tests.
DirectiveAssumeIntoTests(acc, e) ==
  LET v == e.values[1]
      f == IF e.key = "Assume" THEN "tests" ELSE Field[e.key]
  IN  IF ~acc.ok \/ Len(e.values) # 1 \/ e.key = "Other" THEN acc
      ELSE IF e.key \in TextKeys THEN [acc EXCEPT ![f] = TextOf(v)]
      ELSE IF FromListFails(v) THEN Err("Malformed")
      ELSE [acc EXCEPT ![f] = ListOf(v)]

(***************************************************************************)
(* One iteration of the for loop over the section's entries.  Once a `?`   *)
(* has returned an error the remaining entries are not looked at.  A Many  *)
(* entry and an unknown key fall into the `&_ => ()` arms.                 *)
(***************************************************************************)
Directive(acc, e) ==
  LET v == e.values[1] IN
  IF ~acc.ok \/ Len(e.values) # 1 \/ e.key = "Other" THEN acc
  ELSE IF e.key \in TextKeys THEN [acc EXCEPT ![Field[e.key]] = TextOf(v)]
  ELSE IF FromListFails(v) THEN Err("Malformed")
  ELSE [acc EXCEPT ![Field[e.key]] = ListOf(v)]

\* from_path: the errors of the path, the read and the parse, then the section.
FromPath(f) ==
  IF f.front # "ok" THEN Err(f.front)
  ELSE IF ~f.hasScenario THEN Err("MissingSection")
  ELSE FoldLeft(Directive, EmptyDescription, f.entries)

Init ==
  /\ file \in Files
  /\ result = Unparsed

\* The manager calls from_path on the file.
Parse ==
  /\ result = Unparsed
  /\ result' = FromPath(file)
  /\ UNCHANGED file

Next == Parse

Spec == Init /\ [][Next]_vars

-----------------------------------------------------------------------------
(***************************************************************************)
(* What spec 4.2 and 5 say from_path returns: the error of the path, read  *)
(* or parse; MissingSection without a [Scenario] section; an error when    *)
(* any Jigs/Tests/Assume value is malformed (no partial description);      *)
(* otherwise each recognised directive populates its field with a value   *)
(* written for it, an absent or valueless one leaving it empty.            *)
(***************************************************************************)
SpecFieldValues(f, k) ==
  LET written == UNION {Range(e.values) : e \in {e \in Range(f.entries) : e.key = k}}
      conv(v) == IF k \in ListKeys THEN ListOf(v) ELSE TextOf(v)
  IN  IF written = {} THEN {conv(NoValue)} ELSE {conv(v) : v \in written}

SpecReadings(f) ==
  IF f.front # "ok" THEN {Err(f.front)}
  ELSE IF ~f.hasScenario THEN {Err("MissingSection")}
  ELSE IF \E e \in Range(f.entries) :
            e.key \in ListKeys /\ Malformed \in Range(e.values)
       THEN {Err("Malformed")}
  ELSE [ok : {TRUE}, name : SpecFieldValues(f, "Name"),
        description : SpecFieldValues(f, "Description"),
        jigs : SpecFieldValues(f, "Jigs"), tests : SpecFieldValues(f, "Tests"),
        assumptions : SpecFieldValues(f, "Assume")]

(***************************************************************************)
(* from_path returns what spec 4.2 describes for the file: the right       *)
(* error, no partially filled description after a malformed list, and    *)
(* every directive of the section read into its field.                     *)
(***************************************************************************)
ParsedAsSpecified == result # Unparsed => result \in SpecReadings(file)
=============================================================================
