-------------------------- MODULE ConfigVersions --------------------------
(***************************************************************************)
(* A strategy's configuration from the editor to the runtime: the route    *)
(* merges defaults and normalises, the store writes an immutable version   *)
(* under a row lock, the plugin decodes what the store reads back.  A      *)
(* config is two integer fields and a decimal one; a number arrives as a   *)
(* JSON number or as text, a decimal with or without trailing zeros.       *)
(***************************************************************************)
EXTENDS Integers, Sequences

CONSTANTS
  Editors,          \* clients of the API, each with the revision it last read
  Drafts,           \* the configs clients write; numbers in tenths
  MaxPeriod,        \* normalize_*: the largest integer field
  MaxEdits

VARIABLES
  instance,         \* the strategy_instances row, or NoInstance
  stored,           \* strategy_config_versions, by version
  editors,          \* the revision each editor last read
  edits

configVars == <<instance, stored, editors, edits>>

NoInstance == [revision |-> -1]
\* A field of a draft is [n, form]: "number", "text", or text "padded" with
\* trailing zeros.
\* A field the client left out takes the default.
Absent == [n |-> -10, form |-> "number"]
Defaults == [fast |-> 10, slow |-> 20, pct |-> 1]

Merged(raw, field) == IF raw[field] = Absent THEN [n |-> Defaults[field], form |-> "number"]
                                             ELSE raw[field]

\* int_value reads a number or its text, neither with a fraction.
IsInteger(v) == v.n % 10 = 0 /\ v.form # "padded"
InPeriod(v) == IsInteger(v) /\ v.n >= 10 /\ v.n <= 10 * MaxPeriod

\* normalize_*_config: the canonical values, with no trace of their form.
Accepts(raw) ==
  /\ \A f \in {"fast", "slow"} : InPeriod(Merged(raw, f))
  /\ Merged(raw, "fast").n < Merged(raw, "slow").n
  /\ raw.pct.n > 0 /\ raw.pct.n <= 10

\* Bug: the values keep the form the client gave them.
AsGiven(raw) == [f \in {"fast", "slow", "pct"} |-> Merged(raw, f)]

Normal(raw) == [f \in {"fast", "slow", "pct"} |->
                  [n |-> Merged(raw, f).n, form |-> IF f = "pct" THEN "text" ELSE "number"]]

\* config_hash of the normalised values: equal exactly when they are.
Hash(values) == values

\* write_typed_config: a column per field; an integer column reads a JSON
\* number, a decimal one a text, and the other form is stored as 0.
WriteTyped(values) ==
  [f \in DOMAIN values |->
     IF (f = "pct") = (values[f].form # "number") THEN values[f].n ELSE 0]

\* list_config_versions reads every column back as text, a decimal with the
\* zeros of its NUMERIC column.
ReadBack(columns) ==
  [f \in DOMAIN columns |->
     [n |-> columns[f], form |-> IF f = "pct" THEN "padded" ELSE "text"]]

\* An editor writes a config of its own, or sends one back as it was read.
Submitted == Drafts \union {ReadBack(stored[v].columns) : v \in DOMAIN stored}

---------------------------------------------------------------------------
ConfigInit ==
  /\ instance = NoInstance
  /\ stored = <<>>
  /\ editors = [e \in Editors |-> -1]
  /\ edits = 0

Look(e) ==
  /\ instance # NoInstance
  /\ editors[e] # instance.revision
  /\ editors' = [editors EXCEPT ![e] = instance.revision]
  /\ UNCHANGED <<instance, stored, edits>>

Version(values) == {v \in DOMAIN stored : stored[v].hash = Hash(values)}
Row(values) == [hash |-> Hash(values), columns |-> WriteTyped(values)]

\* create_config_version, one transaction under the instance's lock: the
\* expected revision, then the version with the same hash, else a new one.  A
\* client that sends no If-Match is not fenced.
Fenced(e, sends) == sends => editors[e] = instance.revision

CreateVersion(e) ==
  /\ edits < MaxEdits /\ instance # NoInstance
  /\ edits' = edits + 1
  /\ \E raw \in Submitted, sends \in BOOLEAN :
       IF ~Accepts(raw) \/ ~Fenced(e, sends) \/ Version(Normal(raw)) # {}
       THEN UNCHANGED <<instance, stored>>
       ELSE /\ stored' = Append(stored, Row(Normal(raw)))
            /\ instance' = [revision |-> instance.revision + 1]
  /\ UNCHANGED editors

\* create_strategy: the instance is committed first, its config after it and
\* without a fence; an instance that exists is written over.
CreateStrategy(e) ==
  /\ edits < MaxEdits
  /\ edits' = edits + 1
  /\ \E raw \in Submitted :
       /\ Accepts(raw)
       /\ LET values == Normal(raw)
              new == Version(values) = {}
          IN /\ stored' = IF new THEN Append(stored, Row(values)) ELSE stored
             /\ instance' = [revision |-> instance.revision + 1 + (IF new THEN 1 ELSE 0)]
  /\ UNCHANGED editors

ConfigNext == \E e \in Editors : Look(e) \/ CreateVersion(e) \/ CreateStrategy(e)

---------------------------------------------------------------------------
\* However a configuration was written, a version is one meaning: no two
\* versions of a strategy store the same columns, whoever created them in
\* whatever form and even by sending back what was read; and what is stored is
\* within the bounds the runtime demands.
VersionsAreMeanings ==
  /\ \A v, w \in DOMAIN stored : stored[v].columns = stored[w].columns => v = w
  /\ \A v \in DOMAIN stored :
       LET c == stored[v].columns IN
       /\ 0 < c.fast /\ c.fast < c.slow /\ c.slow <= 10 * MaxPeriod
       /\ c.fast % 10 = 0 /\ c.slow % 10 = 0

=============================================================================
