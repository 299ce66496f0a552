--------------------------- MODULE ConfigPriority ---------------------------
(***************************************************************************)
(* StepDeploy.renderStaticConfig (application-add-wizard.js l. 457-480): *)
(* the required-config schema of a type is filtered to its labelled      *)
(* entries, sorted with the comparator b.priority - a.priority, and its  *)
(* rows appended to the config table in the sorted order.                *)
(*                                                                         *)
(* ECMAScript leaves the order of elements the comparator calls equal to *)
(* the implementation (Array.prototype.sort need not be stable), so the  *)
(* sort is the set of every permutation the comparator accepts.  A row   *)
(* is identified by the position of its entry in the schema.             *)
(***************************************************************************)
EXTENDS Integers, SequencesExt

CONSTANTS
    Priorities,  \* values of cfg.priority
    Labels,      \* values of cfg.label, including "" and a missing label
    NoLabel,     \* a missing label (undefined)
    MaxConfigs   \* bound on the number of entries of a schema

Entries == [priority : Priorities, label : Labels \cup {NoLabel}]
Schemas == UNION {[1..n -> Entries] : n \in 0..MaxConfigs}

VARIABLES
    schema,  \* catalogEntryItem.config of the answered GET
    table    \* rows of .config-table, as positions in schema

vars == <<schema, table>>

\* if (cfg.label): only entries with a non-empty label become rows.
Labelled(s) ==
    SelectSeq([i \in 1..Len(s) |-> i], LAMBDA i : s[i].label \notin {"", NoLabel})

\* Variant of Compare with its operands swapped (ascending priority).
CompareAscending(s, i, j) == s[i].priority - s[j].priority

\* The comparator of the sort, on the rows at positions i and j.
Compare(s, i, j) == s[j].priority - s[i].priority

\* configs.sort(Compare): every permutation of rows whose consecutive rows
\* the comparator does not ask to swap.
SortOutcomes(s, rows) ==
    LET D == 1..Len(rows) IN
    { [k \in D |-> rows[f[k]]] :
        f \in { g \in [D -> D] : IsInjective(g) } } \cap
    { p \in [D -> Range(rows)] :
        \A k \in 1..Len(rows) - 1 : Compare(s, p[k], p[k + 1]) <= 0 }

\* Any schema the catalog may answer with; the table is empty before.
Init ==
    /\ schema \in Schemas
    /\ table = <<>>

\* renderStaticConfig(catalogEntryItem): the rows, then appended in the
\* order of the sorted array (for (c in configs)).  A schema without
\* labelled entries draws an empty table, which is no change here.
renderStaticConfig ==
    /\ table = <<>> /\ Labelled(schema) # <<>>
    /\ table' \in SortOutcomes(schema, Labelled(schema))
    /\ UNCHANGED schema

Spec == Init /\ [][renderStaticConfig]_vars

(***************************************************************************)
(* Properties                                                              *)
(***************************************************************************)

\* The reference order: labelled entries by descending priority, equal
\* priorities in schema order (a stable sort).
StableReference(s) ==
    CHOOSE p \in SortOutcomes(s, Labelled(s)) :
        \A k \in 1..Len(p) - 1 :
            s[p[k]].priority = s[p[k + 1]].priority => p[k] < p[k + 1]

\* Spec 4.3 and 8: entries of equal priority keep their arrival order, so
\* the drawn table is the stable reference order.
TiesKeepArrivalOrder ==
    table # <<>> => table = StableReference(schema)
=============================================================================
