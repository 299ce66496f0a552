------------------------- MODULE MCConfigPriority -------------------------
(* Schemas of up to three entries with the priorities 3 and 5 of the      *)
(* spec's example, labelled, unlabelled or with an empty label.           *)
EXTENDS ConfigPriority

MCLabels == {"", "Port"}
MCPriorities == {3, 5}
=============================================================================
