------------------------------ MODULE AppSpec ------------------------------
(***************************************************************************)
(* The Application.Spec model (model/application.js) that the add-app      *)
(* wizard builds.  That file is not part of the sources under src/, so the *)
(* mutators here follow the data model of the spec (section 3): a record  *)
(* of attributes, each of which may also have been deleted (Absent).      *)
(* Entities are abstracted to their type; names and per-entity config are *)
(* data no property distinguishes.  Sequences are 1-based, the code's     *)
(* indices 0-based.                                                        *)
(***************************************************************************)
EXTENDS Naturals, SequencesExt

CONSTANTS
    Null,         \* JavaScript null / undefined as a value of spec.type
    Absent,       \* an attribute removed with `delete spec.attributes[k]`
    NoType,       \* the empty type "" of a freshly added entity
    AppTypes,     \* identifiers of the application catalog
    EntityTypes,  \* identifiers of the entity catalog
    Locs,         \* self links of the location catalog
    UserKeys,     \* keys a user may type into a free config row
    Names         \* values of the #application-name field ("" included)

\* A key of the spec's config map: a user key, or the required config of
\* application type t (the rows renderStaticConfig drew for t's schema).
ConfigKeys == AppTypes \cup UserKeys

SpecRecords ==
    [ name      : Names \cup {Absent},
      type      : AppTypes \cup {Null},
      entities  : Seq(EntityTypes \cup {NoType}) \cup {Absent},
      locations : Seq(Locs),
      config    : SUBSET ConfigKeys \cup {Absent} ]

\* Application.Spec defaults: no config attribute, one entity is added by
\* StepCreate.initialize (see Wizard!Init).
InitialSpec ==
    [name |-> "", type |-> Null, entities |-> <<>>, locations |-> <<>>,
     config |-> Absent]

\* getEntities(): a deleted entities attribute reads as the empty list.
GetEntities(sp) == IF sp.entities = Absent THEN <<>> ELSE sp.entities

\* addEntity(entity): append a new, empty entity.
AddEntity(sp) ==
    [sp EXCEPT !.entities = Append(GetEntities(sp), NoType)]

\* removeEntityIndex(i): later entities shift down one index.
RemoveEntityIndex(sp, i) ==
    [sp EXCEPT !.entities = RemoveAt(GetEntities(sp), i)]

\* addLocation(uri)
AddLocation(sp, l) == [sp EXCEPT !.locations = Append(sp.locations, l)]

\* removeLocationIndex(i)
RemoveLocationIndex(sp, i) ==
    [sp EXCEPT !.locations = RemoveAt(sp.locations, i)]

\* setLocationAtIndex(i, uri)
SetLocationAtIndex(sp, i, l) ==
    [sp EXCEPT !.locations = ReplaceAt(sp.locations, i, l)]

\* JSON.stringify(spec.toJSON()) as sent by submitApplication: the
\* attributes that have not been deleted, with their current values.
ToJSON(sp) == [k \in {f \in DOMAIN sp : sp[f] # Absent} |-> sp[k]]
=============================================================================
