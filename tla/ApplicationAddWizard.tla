------------------------- MODULE ApplicationAddWizard -------------------------
(***************************************************************************)
(* The add-application wizard of view/application-add-wizard.js: the      *)
(* ModalWizard controller and its three step views, StepCreate,           *)
(* StepDeploy and StepPreview, sharing one Application.Spec (AppSpec).    *)
(*                                                                         *)
(* Every user event is one action: it is enabled while the modal is open, *)
(* its button is visible (renderCurrentStep's setVisibility) and its step *)
(* view is the current one.  A handler that validates and moves to       *)
(* another step also runs that step's render() and updateForState(), as   *)
(* renderCurrentStep does, in the same action.  The remote calls (the two *)
(* catalog GETs of StepCreate, the required-config GET of StepDeploy and  *)
(* the POST of submitApplication) are requests in flight whose responses  *)
(* arrive later, in any order, successful or failed.  The location fetch  *)
(* of StepDeploy.updateForState is synchronous and happens inside the     *)
(* action that renders the deploy step.                                   *)
(***************************************************************************)
EXTENDS AppSpec

CONSTANTS
    Unknown,      \* an identifier typed by the user that no catalog has
    OtherTabs,    \* create-step tabs validate() does not implement
    MaxEntities,  \* bound on entity editors (the code has none)
    MaxLocations, \* bound on location rows (the code has none)
    MaxFetches,   \* bound on required-config GETs in flight per type
    MaxSubmits,   \* bound on POSTs issued per wizard (the code has none)
    ConfigGetsCanFail  \* the required-config GET may fail for a known type

ASSUME Locs # {} /\ MaxEntities >= 1 /\ MaxLocations >= 1

VARIABLES
    currentStep,          \* ModalWizard.currentStep
    spec,                 \* this.model.spec attributes
    catalogEntityData,    \* this.model.catalogEntityData
    \* StepCreate
    catalogGets,          \* catalog GETs issued by initialize, not answered
    catalogEntityIds,     \* ids of /v1/catalog/entities once answered
    catalogApplicationIds,\* ids of /v1/catalog/applications once answered
    tab,                  \* href of the active create tab
    selectedTemplateId,   \* id of the selected template lozenge
    editors,              \* number of .editable-entity-group boxes
    \* StepDeploy
    locationsLoaded,      \* this.locations holds the location catalog
    locationRows,         \* #selector-container rows, each with its rowId
                          \* attribute and the location its select shows
    configTable,          \* what renderStaticConfig last drew
    configFetches,        \* required-config GETs in flight, per type
    \* submission
    posts,                \* POST /v1/applications bodies in flight
    sent,                 \* POSTs issued so far
    created,              \* POSTs answered with success
    modalOpen,            \* the modal has not been hidden
    lastSubmitError       \* what the last failed POST's handler did

vars == <<currentStep, spec, catalogEntityData, catalogGets, catalogEntityIds,
          catalogApplicationIds, tab, selectedTemplateId, editors,
          locationsLoaded, locationRows, configTable, configFetches, posts, sent, created,
          modalOpen, lastSubmitError>>

createView == <<catalogGets, catalogEntityIds, catalogApplicationIds, tab,
                selectedTemplateId, editors>>
deployView == <<locationsLoaded, locationRows, configTable, configFetches>>
submission == <<posts, sent, created, modalOpen, lastSubmitError>>

Tabs == {"entitiesTab", "templateTab", "appClassTab"} \cup OtherTabs
EntityInputs == EntityTypes \cup {NoType, Unknown}  \* #entity-type values
ClassInputs == AppTypes \cup {NoType, Unknown}      \* #app-java-type values
FetchKeys == AppTypes \cup {Null}   \* '/v1/catalog/entities/'+spec.type
CacheValues == {Null, "LOAD"} \cup AppTypes  \* AppTypes: schema of that type
FirstLoc == CHOOSE l \in Locs : TRUE          \* this.locations.models[0]

\* The JSON bodies of POST /v1/applications: a spec with its deleted
\* attributes left out.
IsBody(b) ==
    LET full == [f \in DOMAIN InitialSpec |->
                    IF f \in DOMAIN b THEN b[f] ELSE Absent]
    IN full \in SpecRecords /\ b = ToJSON(full)

TypeOK ==
    /\ currentStep \in 0..2
    /\ spec \in SpecRecords
    /\ catalogEntityData \in CacheValues
    /\ catalogGets \subseteq {"entities", "applications"}
    /\ catalogEntityIds \in {{}, EntityTypes}
    /\ catalogApplicationIds \in {{}, AppTypes}
    /\ tab \in Tabs
    /\ selectedTemplateId \in AppTypes \cup {Null, Absent}
    /\ editors \in 0..MaxEntities
    /\ locationsLoaded \in BOOLEAN
    /\ locationRows \in Seq([rowId : Nat, location : Locs])
    /\ configTable \in {"empty", "loading"} \cup AppTypes
    /\ configFetches \in [FetchKeys -> 0..MaxFetches]
    /\ \A i \in DOMAIN posts : IsBody(posts[i])
    /\ sent \in 0..MaxSubmits /\ created \in 0..MaxSubmits
    /\ modalOpen \in BOOLEAN
    /\ lastSubmitError \in {"none", "indicated", "uncaught"}

(***************************************************************************)
(* StepCreate                                                              *)
(***************************************************************************)

\* saveEntity($entityGroup) for editor i whose #entity-type field holds v:
\* the save succeeds iff v is a known entity type.
EntitySaves(v) == v # NoType /\ v \in catalogEntityIds

\* The spec after saving the editors in S (of field values vals): each
\* writes its entity and sets type to null.
SaveEntity(sp, S, vals) ==
    IF S = {} THEN sp
    ELSE [sp EXCEPT !.type = Null,
                    !.entities = [j \in DOMAIN GetEntities(sp) |->
                                    IF j \in S THEN vals[j]
                                    ELSE GetEntities(sp)[j]]]

\* saveTemplate(): the selected lozenge must be a known application.
SaveTemplate(sp) ==
    IF selectedTemplateId = Absent \/ selectedTemplateId \notin catalogApplicationIds
    THEN [ok |-> FALSE, spec |-> sp, data |-> catalogEntityData]
    ELSE [ok |-> TRUE, spec |-> [sp EXCEPT !.type = selectedTemplateId],
          data |-> "LOAD"]

\* Variant of SaveAppClass without the catalog membership check.
SaveAppClassUnchecked(sp, cls) ==
    [ok |-> TRUE, spec |-> [sp EXCEPT !.type = cls], data |-> catalogEntityData]

\* saveAppClass() with cls in the #app-java-type field.
SaveAppClass(sp, cls) ==
    IF cls \notin catalogApplicationIds
    THEN [ok |-> FALSE, spec |-> sp, data |-> catalogEntityData]
    ELSE [ok |-> TRUE, spec |-> [sp EXCEPT !.type = cls],
          data |-> catalogEntityData]

\* Variant of ClearEntities that leaves the entities in place.
ClearEntitiesSkipped(r) == r

\* The template and class branches of validate(): after a successful save,
\* this.model.spec.set("entities", []).
ClearEntities(r) == IF r.ok THEN [r EXCEPT !.spec.entities = <<>>] ELSE r

\* StepCreate.validate(): dispatch on the active tab.  In the entities tab
\* every editor is saved (the `&` does not short-circuit), so the ones
\* that succeed are written even when another fails.
CreateValidate(vals, cls) ==
    CASE tab = "entitiesTab" ->
            LET S == {i \in 1..editors : EntitySaves(vals[i])}
                sp == SaveEntity(spec, S, vals)
                ok == S = 1..editors /\ Len(GetEntities(sp)) > 0
            IN [ok |-> ok,
                spec |-> IF ok THEN [sp EXCEPT !.type = Null] ELSE sp,
                data |-> catalogEntityData]
      [] tab = "templateTab" -> ClearEntities(SaveTemplate(spec))
      [] tab = "appClassTab" -> ClearEntities(SaveAppClass(spec, cls))
      [] OTHER -> [ok |-> FALSE, spec |-> spec, data |-> catalogEntityData]

\* Variant of RenderCreate that appends editors without emptying the list.
RenderCreateNoEmpty(sp) == editors + Len(GetEntities(sp))

\* StepCreate.render(): renderConfiguredEntities rebuilds one blank editor
\* per entity of the spec.
RenderCreate(sp) == Len(GetEntities(sp))

(***************************************************************************)
(* StepDeploy                                                              *)
(***************************************************************************)

\* The config rows renderStaticConfig draws for a table: the labelled
\* required-config entries of a fetched schema.
RequiredRows(table) == IF table \in AppTypes THEN {table} ELSE {}

\* renderAddedLocations(): the container emptied, then one row per spec
\* location li, with rowId li and its select set to that location.
RenderAddedLocations(sp) ==
    [i \in DOMAIN sp.locations |-> [rowId |-> i - 1, location |-> sp.locations[i]]]

\* StepDeploy.updateForState() applied to spec value sp and cache value
\* data: the synchronous location fetch (which may fail, leaving the
\* collection as it was), a first location added to an empty spec, and
\* the required config drawn from the cache, with a GET issued on "LOAD".
UpdateForStateDeploy(sp, data) ==
    \E fetched \in BOOLEAN :
        LET loaded == locationsLoaded \/ fetched
            sp2 == IF fetched /\ sp.locations = <<>>
                   THEN AddLocation(sp, FirstLoc) ELSE sp
        IN
        /\ data = "LOAD" => configFetches[sp.type] < MaxFetches
        /\ locationsLoaded' = loaded
        /\ spec' = sp2
        /\ locationRows' = IF fetched THEN RenderAddedLocations(sp2)
                           ELSE locationRows
        /\ configTable' = CASE data = Null -> "empty"
                            [] data = "LOAD" -> "loading"
                            [] OTHER -> data
        /\ configFetches' = IF data = "LOAD"
                            THEN [configFetches EXCEPT ![sp.type] = @ + 1]
                            ELSE configFetches

\* StepDeploy.getConfigMap() with the free config rows rows: the keys of
\* every .app-add-wizard-config-entry in the document, the required rows
\* drawn by renderStaticConfig included.
GetConfigMap(rows) == RequiredRows(configTable) \cup rows

\* Variant of DeployValidate without the locations check.
DeployValidateNoLocations(rows) ==
    [ok |-> TRUE, spec |-> [spec EXCEPT !.config = GetConfigMap(rows)],
     data |-> catalogEntityData]

\* StepDeploy.validate(): the harvested config map replaces the old one,
\* whether or not the locations check then passes.
DeployValidate(rows) ==
    LET sp == [spec EXCEPT !.config = GetConfigMap(rows)] IN
    [ok |-> sp.locations # <<>>, spec |-> sp, data |-> catalogEntityData]

(***************************************************************************)
(* StepPreview                                                             *)
(***************************************************************************)

\* StepPreview.updateForState(): delete empty entities, name and config.
UpdateForStatePreview(sp) ==
    [sp EXCEPT !.entities = IF GetEntities(sp) = <<>> THEN Absent ELSE @,
               !.name = IF @ \in {"", Absent} THEN Absent ELSE @,
               !.config = IF @ \in {{}, Absent} THEN Absent ELSE @]

\* StepPreview.validate(): locations, and a type or some entities.
PreviewValidate ==
    [ok |-> /\ spec.locations # <<>>
            /\ spec.type # Null \/ Len(GetEntities(spec)) > 0,
     spec |-> spec, data |-> catalogEntityData]

(***************************************************************************)
(* ModalWizard                                                             *)
(***************************************************************************)

\* this.currentView.validate() for the current step: the set of its
\* outcomes over the values the user may have left in the step's fields
\* (entity types of the editors, class name, free config rows).
ValidateCurrent ==
    CASE currentStep = 0 ->
            {CreateValidate(vals, cls) :
                vals \in [1..editors -> EntityInputs], cls \in ClassInputs}
      [] currentStep = 1 -> {DeployValidate(rows) : rows \in SUBSET UserKeys}
      [] currentStep = 2 -> {PreviewValidate}

\* renderCurrentStep() for step n, starting from spec value sp and cache
\* value data: the view's render() and updateForState().
RenderCurrentStep(n, sp, data) ==
    /\ currentStep' = n
    /\ catalogEntityData' = data
    /\ CASE n = 0 -> /\ spec' = sp /\ editors' = RenderCreate(sp)
                     /\ UNCHANGED deployView
         [] n = 1 -> UpdateForStateDeploy(sp, data) /\ UNCHANGED editors
         [] n = 2 -> /\ spec' = UpdateForStatePreview(sp)
                     /\ UNCHANGED <<editors, deployView>>

\* nextStep(): validate the current view, and on success render the next.
\* (Its branch for currentStep = 2 is unreachable: no button calling it is
\* visible there.)
nextStep ==
    /\ currentStep < 2
    /\ \E r \in ValidateCurrent :
        IF r.ok
        THEN /\ RenderCurrentStep(currentStep + 1, r.spec, r.data)
             /\ UNCHANGED <<catalogGets, catalogEntityIds,
                           catalogApplicationIds, tab, selectedTemplateId>>
        ELSE /\ spec' = r.spec
             /\ UNCHANGED <<currentStep, catalogEntityData, createView,
                           deployView>>
    /\ UNCHANGED submission

\* #next_step, visible while currentStep < 1.
NextClick == modalOpen /\ currentStep < 1 /\ nextStep

\* #preview_step, visible while currentStep = 1: previewStep calls nextStep.
PreviewClick == modalOpen /\ currentStep = 1 /\ nextStep

\* #prev_step, visible while currentStep > 0: no validation.
PrevClick ==
    /\ modalOpen /\ currentStep > 0
    /\ RenderCurrentStep(currentStep - 1, spec, catalogEntityData)
    /\ UNCHANGED <<catalogGets, catalogEntityIds, catalogApplicationIds, tab,
                  selectedTemplateId>>
    /\ UNCHANGED submission

\* #finish_step, visible while currentStep >= 1: finishStep validates the
\* current view and submitApplication posts the spec, with no guard
\* against a POST already in flight.
FinishClick ==
    /\ modalOpen /\ currentStep >= 1 /\ sent < MaxSubmits
    /\ \E r \in ValidateCurrent :
        /\ spec' = r.spec
        /\ IF r.ok THEN /\ posts' = Append(posts, ToJSON(r.spec))
                        /\ sent' = sent + 1
                   ELSE UNCHANGED <<posts, sent>>
    /\ UNCHANGED <<currentStep, catalogEntityData, createView, deployView,
                  created, modalOpen, lastSubmitError>>

\* Variant of PostSucceeded that does not hide the modal.
PostSucceededKeepOpen == UNCHANGED modalOpen /\ created' = created + 1

\* The POST's success handler: $modal.modal('hide'), then the callback.
PostSucceeded == modalOpen' = FALSE /\ created' = created + 1

\* The POST's success handler hides the modal and calls the callback; its
\* error handler calls steps[currentStep].view.showFailure(), which only
\* StepPreview defines: on the other steps the call throws a TypeError.
PostResponse ==
    /\ \E i \in DOMAIN posts, ok \in BOOLEAN :
        /\ posts' = RemoveAt(posts, i)
        /\ IF ok THEN PostSucceeded /\ UNCHANGED lastSubmitError
                 ELSE /\ lastSubmitError' = IF currentStep = 2
                                            THEN "indicated" ELSE "uncaught"
                      /\ UNCHANGED <<modalOpen, created>>
    /\ UNCHANGED <<currentStep, spec, catalogEntityData, createView,
                  deployView, sent>>

(***************************************************************************)
(* StepCreate events (currentStep = 0)                                     *)
(***************************************************************************)

CreateEvent(A) ==
    /\ modalOpen /\ currentStep = 0 /\ A
    /\ UNCHANGED <<currentStep, catalogEntityData, catalogGets,
                  catalogEntityIds, catalogApplicationIds, deployView,
                  submission>>

\* A click on a create tab (bootstrap's tab switch; onTabChange only shows
\* or hides the filter box).
onTabChange ==
    CreateEvent(\E t \in Tabs : /\ tab' = t
                                /\ UNCHANGED <<spec, selectedTemplateId, editors>>)

\* templateClick on lozenge x (lozenges exist once the catalog arrived):
\* selects x, or deselects it if it was selected.
templateClick ==
    CreateEvent(\E x \in catalogApplicationIds :
                  /\ selectedTemplateId' = IF selectedTemplateId = x THEN Null
                                           ELSE x
                  /\ UNCHANGED <<spec, tab, editors>>)

\* #add-app-entity: a new empty entity and its editor.
addEntityBox ==
    CreateEvent(/\ editors < MaxEntities
                /\ spec' = AddEntity(spec)
                /\ editors' = editors + 1
                /\ UNCHANGED <<tab, selectedTemplateId>>)

\* .remove-entity-button of editor i: removes entity i and the editor.
removeEntityClick ==
    CreateEvent(\E i \in 1..editors :
                  /\ spec' = RemoveEntityIndex(spec, i)
                  /\ editors' = editors - 1
                  /\ UNCHANGED <<tab, selectedTemplateId>>)

\* .editable-entity-button of editor i, whose type field holds v.
saveEntityClick ==
    CreateEvent(\E i \in 1..editors, v \in EntityInputs :
                  /\ spec' = IF EntitySaves(v)
                             THEN SaveEntity(spec, {i}, [j \in {i} |-> v])
                             ELSE spec
                  /\ UNCHANGED <<tab, selectedTemplateId, editors>>)

\* The answer to a catalog GET of StepCreate.initialize; a failed GET has
\* no handler and leaves the id list empty.
CatalogResponse ==
    /\ \E g \in catalogGets, ok \in BOOLEAN :
        /\ catalogGets' = catalogGets \ {g}
        /\ catalogEntityIds' = IF ok /\ g = "entities" THEN EntityTypes
                               ELSE catalogEntityIds
        /\ catalogApplicationIds' = IF ok /\ g = "applications" THEN AppTypes
                                    ELSE catalogApplicationIds
    /\ UNCHANGED <<currentStep, spec, catalogEntityData, tab,
                  selectedTemplateId, editors, deployView, submission>>

(***************************************************************************)
(* StepDeploy events (currentStep = 1)                                     *)
(***************************************************************************)

DeployEvent(A) ==
    /\ modalOpen /\ currentStep = 1 /\ A
    /\ UNCHANGED <<currentStep, catalogEntityData, createView, locationsLoaded,
                  configTable, configFetches, submission>>

\* #add-selector-container: appends the first catalog location and redraws
\* the rows, if the location collection has any.
addLocation ==
    DeployEvent(/\ Len(spec.locations) < MaxLocations
                /\ IF locationsLoaded
                   THEN LET sp == AddLocation(spec, FirstLoc) IN
                        spec' = sp /\ locationRows' = RenderAddedLocations(sp)
                   ELSE UNCHANGED <<spec, locationRows>>)

\* Variant of RemoveLocationRow that removes the clicked row from the DOM
\* instead of redrawing, so the rows after it keep their old rowId.
RemoveLocationRowDomOnly(i) ==
    /\ spec' = RemoveLocationIndex(spec, i)
    /\ locationRows' = SelectSeq(locationRows, LAMBDA r : r.rowId # i - 1)

\* removeLocation for the row whose rowId attribute says i - 1: remove
\* that index from the spec, then renderAddedLocations.
RemoveLocationRow(i) ==
    LET sp == RemoveLocationIndex(spec, i) IN
    spec' = sp /\ locationRows' = RenderAddedLocations(sp)

\* #remove-app-location of a drawn row.
removeLocation ==
    DeployEvent(\E r \in Range(locationRows) : RemoveLocationRow(r.rowId + 1))

\* A change of the select of drawn row i to catalog location l: the select
\* shows l and setLocationAtIndex(rowId, l); the rows are not redrawn.
selection ==
    DeployEvent(\E i \in DOMAIN locationRows, l \in Locs :
                  /\ locationsLoaded
                  /\ locationRows' = [locationRows EXCEPT ![i].location = l]
                  /\ spec' = SetLocationAtIndex(spec, locationRows[i].rowId + 1, l))

\* Blur of #application-name holding n.
updateName ==
    DeployEvent(\E n \in Names : /\ spec' = [spec EXCEPT !.name = n]
                                 /\ UNCHANGED locationRows)

\* Variant of ApplyConfigResult that caches the schema without redrawing.
ApplyConfigResultCacheOnly(k) ==
    catalogEntityData' = k /\ UNCHANGED configTable

\* The $.get success callback: cache the schema, then renderStaticConfig.
ApplyConfigResult(k) ==
    catalogEntityData' = k /\ configTable' = k

\* The answer to GET /v1/catalog/entities/<k>: on success the cache holds
\* k's schema and the (possibly detached) deploy view draws it.  The GET
\* for a null type has no schema to answer with.
ConfigResponse ==
    /\ \E k \in FetchKeys, ok \in IF ConfigGetsCanFail THEN BOOLEAN ELSE {TRUE} :
        /\ configFetches[k] > 0
        /\ configFetches' = [configFetches EXCEPT ![k] = @ - 1]
        /\ IF ok /\ k # Null
           THEN ApplyConfigResult(k)
           ELSE UNCHANGED <<catalogEntityData, configTable>>
    /\ UNCHANGED <<currentStep, spec, createView, locationsLoaded, locationRows,
                  submission>>

(***************************************************************************)
(* The specification                                                       *)
(***************************************************************************)

\* initialize of the wizard and its steps, then the first render(): one
\* entity and its editor, both catalog GETs in flight.
Init ==
    /\ currentStep = 0
    /\ spec = AddEntity(InitialSpec)
    /\ catalogEntityData = Null
    /\ catalogGets = {"entities", "applications"}
    /\ catalogEntityIds = {} /\ catalogApplicationIds = {}
    /\ tab \in Tabs
    /\ selectedTemplateId = Absent
    /\ editors = 1
    /\ locationsLoaded = FALSE
    /\ locationRows = <<>>
    /\ configTable = "empty"
    /\ configFetches = [k \in FetchKeys |-> 0]
    /\ posts = <<>> /\ sent = 0 /\ created = 0
    /\ modalOpen = TRUE
    /\ lastSubmitError = "none"

Next ==
    \/ NextClick \/ PreviewClick \/ PrevClick \/ FinishClick \/ PostResponse
    \/ onTabChange \/ templateClick \/ addEntityBox \/ removeEntityClick
    \/ saveEntityClick \/ CatalogResponse
    \/ addLocation \/ removeLocation \/ selection \/ updateName
    \/ ConfigResponse

Spec == Init /\ [][Next]_vars

\* Every request the wizard sends is eventually answered, with a result or
\* an error (an XHR always completes); the user is under no obligation.
LiveSpec ==
    /\ Spec
    /\ WF_vars(CatalogResponse)
    /\ WF_vars(ConfigResponse)
    /\ WF_vars(PostResponse)

(***************************************************************************)
(* Properties                                                              *)
(***************************************************************************)

\* Invariant I1 (mode exclusivity): once StepCreate.validate has let the
\* wizard past step 0, the application is defined either by a type or by
\* entities, never both and never neither, whatever the user did with
\* tabs, editors, saves and back-navigation before.
ModeExclusive ==
    currentStep \in {1, 2} =>
        ((spec.type # Null) # (Len(GetEntities(spec)) > 0))

\* The entities of a body (a deleted attribute is sent as nothing).
BodyEntities(b) == IF "entities" \in DOMAIN b THEN b.entities ELSE <<>>

\* Every body finishStep hands to submitApplication, from either step,
\* satisfies I1, I2 (some location) and I3 (every entity has a type of
\* the entity catalog).
SubmittedSpecWellFormed ==
    \A i \in DOMAIN posts :
        LET b == posts[i] IN
        /\ b.locations # <<>>
        /\ (b.type # Null) # (BodyEntities(b) # <<>>)
        /\ \A j \in DOMAIN BodyEntities(b) : BodyEntities(b)[j] \in EntityTypes

\* Index integrity: while StepCreate is shown, editor i edits entity i:
\* there are as many .editable-entity-group boxes as spec entities, so
\* saveEntity and removeEntityClick, which address the spec by the box's
\* index(), never miss or hit the wrong entity.
EditorsMatchEntities ==
    currentStep = 0 => editors = Len(GetEntities(spec))

\* The config of a body (a deleted attribute is sent as nothing).
BodyConfig(b) == IF "config" \in DOMAIN b THEN b.config ELSE {}

\* Spec 4.3 and 3: the required configuration StepDeploy.validate harvests
\* into spec.config belongs to the spec's own type, so no POST body
\* carries the required keys of another type, or of any type when the
\* application is defined by entities.
SubmittedConfigMatchesType ==
    \A i \in DOMAIN posts :
        BodyConfig(posts[i]) \cap AppTypes \subseteq {posts[i].type}

\* Spec 7: a validation failure is transient and the user may correct and
\* retry.  StepCreate stays passable: while the modal is open, some catalog
\* GET of initialize (l. 166-179) is still pending or has filled a set of
\* known ids a save can match; nothing else ever fills them.
CreateStepPassable ==
    modalOpen =>
        catalogGets # {} \/ catalogEntityIds # {} \/ catalogApplicationIds # {}

\* A failed POST leaves the workflow open with the current step's failure
\* indicator shown (spec 4.1), rather than an exception in the handler.
NoUncaughtSubmitError == lastSubmitError # "uncaught"

\* Spec 4.3: on "pending" StepDeploy shows a loading indicator and moves to
\* ready on the response.  While the user stays on Deploy, the indicator
\* drawn by updateForState is eventually replaced by the $.get callback
\* (l. 429-432), including when spec.type is null in entities mode and the
\* cached "LOAD" triggers a GET of /v1/catalog/entities/null.
LoadingEventuallyClears ==
    (currentStep = 1 /\ configTable = "loading")
        ~> (configTable # "loading" \/ currentStep # 1)

(***************************************************************************)
(* Refinement: the wizard implements WizardAbstract.  A spec's definition  *)
(* mode is "type" when only type is set, "entities" when only entities are *)
(* present and all have a catalog type, and "invalid" otherwise.           *)
(***************************************************************************)
DefinitionMode(type, ents) ==
    CASE type # Null /\ ents = <<>> -> "type"
      [] type = Null /\ ents # <<>> /\ Range(ents) \subseteq EntityTypes
            -> "entities"
      [] OTHER -> "invalid"

AbstractBody(b) ==
    [mode |-> DefinitionMode(b.type, BodyEntities(b)),
     located |-> b.locations # <<>>]

Abs == INSTANCE WizardAbstract
         WITH RepeatCreation <- FALSE,
              step <- currentStep,
              mode <- DefinitionMode(spec.type, GetEntities(spec)),
              located <- spec.locations # <<>>,
              outbox <- [i \in DOMAIN posts |-> AbstractBody(posts[i])],
              closed <- ~modalOpen,
              created <- created

\* The wizard's steps are steps of WizardAbstract: navigation moves by one;
\* the definition mode changes only on StepCreate and is valid when left;
\* locations change only on StepDeploy; finishStep posts only valid,
\* located bodies; and only the first successful POST closes the modal.
AbstractSpecRefined == Abs!Spec

\* The same mapping onto WizardAbstract with repeated creation allowed.
AbsRepeat == INSTANCE WizardAbstract
               WITH RepeatCreation <- TRUE,
                    step <- currentStep,
                    mode <- DefinitionMode(spec.type, GetEntities(spec)),
                    located <- spec.locations # <<>>,
                    outbox <- [i \in DOMAIN posts |-> AbstractBody(posts[i])],
                    closed <- ~modalOpen,
                    created <- created

\* With POSTs issued while others are in flight, and the user navigating
\* meanwhile, every promise of WizardAbstract except the single creation
\* still holds: each POST body was valid and located when finishStep sent
\* it, and answers arriving after the modal closed change nothing but the
\* count of created applications.
AbstractSpecRefinedWithRepeats == AbsRepeat!Spec

\* Index integrity on StepDeploy (spec 4.3: location rows are index-
\* addressed): row k of #selector-container carries rowId k-1 and shows
\* spec location k, so the rowId removeLocation and selection read (l. 446,
\* 495) addresses the location of the clicked row, also after a removal
\* has shifted the later locations down, a select changed a row in place,
\* or a failed location fetch skipped the redraw.
LocationRowsMatchSpec ==
    currentStep = 1 => locationRows = RenderAddedLocations(spec)
=============================================================================
