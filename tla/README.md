# TLA+ models of the add-application wizard

The source is a single file,
`src/usage/jsgui/src/main/webapp/assets/js/view/application-add-wizard.js`
(555 lines). It is the Backbone modal wizard of the Brooklyn web console. The
wizard builds an `Application.Spec`, checks it step by step, and posts it to
`POST /v1/applications`.

## Inventory

| Component | State it keeps | Operations (handlers) |
|---|---|---|
| **ModalWizard** (controller, l. 30-141) | `currentStep` (0..2), `steps`, `currentView` | `nextStep`, `previewStep`, `prevStep`, `finishStep`, `renderCurrentStep`, `submitApplication` with its success and error handlers |
| **StepCreate** (l. 145-357) | `catalogEntityIds`, `catalogApplicationIds` (filled by two async GETs in `initialize`), `selectedTemplateId`, the active tab, the entity editor boxes | `templateClick`, `addEntityBox`, `removeEntityClick`, `saveEntityClick`/`saveEntity`, `saveTemplate`, `saveAppClass`, `validate`, `render` (which rebuilds the editors) |
| **StepDeploy** (l. 359-513) | `this.locations` (the location catalog, fetched synchronously on every visit), the config table | `updateForState`, `addLocation`, `removeLocation`, `selection`, `updateName`, `renderStaticConfig`, `getConfigMap`, `validate` |
| **StepPreview** (l. 515-552) | none of its own | `updateForState` (deletes empty `entities`, `name` and `config`), `validate`, `showFailure` |
| **Application.Spec** (`model/application.js`, not among the sources) | `name`, `type`, `entities`, `locations`, `config` | `addEntity`, `removeEntityIndex`, `addLocation`, `removeLocationIndex`, `setLocationAtIndex`, `getEntities`, `toJSON` |
| shared `model.catalogEntityData` | a one-slot cache: `null`, `"LOAD"`, or a fetched schema | set to `"LOAD"` by `saveTemplate`; `StepDeploy.updateForState` GETs `/v1/catalog/entities/<type>` on `"LOAD"`; the answer overwrites the cache |
| external services | entity and application catalogs, per-type config schema, location catalog, application creation | answer GETs and the POST, or fail |

How the parts interact:
- All three steps share one `Application.Spec` and the `catalogEntityData` slot by reference.
- The controller calls `validate()` on the current view. On success it calls the next view's `render()` and `updateForState()` in the same handler.
- Every remote call except the location fetch is asynchronous. Its callback runs later on the same event loop, whatever step is shown by then.
- Buttons are shown or hidden by `renderCurrentStep` and stay active while a POST is in flight.

What is hard here:
- **Ordering of asynchronous answers.** The catalog GETs may answer after the user has started. Config-schema GETs may answer after the user has chosen another template. POST answers may arrive after the user has navigated away.
- **Back-navigation.** Going back does not re-validate, so edits on step 0 can put the spec in a mixed state. `StepCreate.render` rebuilds its editors from the spec. `StepPreview` has deleted attributes that the earlier steps then read again.
- **Partial failure.** Validation in the entities tab writes each editor that saves, even when another editor fails. The location fetch can fail. The POST error handler can throw.
- **Repeated submission.** Nothing prevents a second Finish while a POST is in flight.

What makes each component correct:
- **Controller:** past step 0 the spec has exactly one definition mode (I1). Every submitted body has a location (I2), exactly one mode (I1), and only known entity types (I3). A failed POST shows the current step's failure indicator. One wizard creates one application.
- **StepCreate:** editor *i* edits entity *i*. A save succeeds only with a catalog type.
- **StepDeploy:** the required configuration shown, and harvested into `config`, belongs to the spec's current type. The loading indicator eventually clears.
- **StepPreview:** normalisation removes exactly the empty attributes. `validate` rechecks I1 and I2.

## Modules

- `AppSpec.tla` models the `Application.Spec` data model as a record. A deleted attribute has the value `Absent`. The module provides pure operators for the model's mutators. `model/application.js` is not among the sources, so these operators follow the spec's data model (section 3) and are marked `spec_modelled` in `PROJECT.json`. The exception is `ToJSON`, which models `JSON.stringify(spec.toJSON())` at l. 105: deleted attributes are left out of the body.
- `ApplicationAddWizard.tla` models the whole of `application-add-wizard.js`. The steps share the spec and the cache, and the controller composes a validate with the next step's render, so one module holds the three views and the controller, in one section each.
  - **Variables.** `currentStep`, `spec` and `catalogEntityData` are the controller's and the shared model's state. StepCreate's view state is `catalogGets`, `catalogEntityIds`, `catalogApplicationIds`, `tab`, `selectedTemplateId` and `editors` (the number of editor boxes). StepDeploy's is `locationsLoaded`, `locationRows` (the rows `renderAddedLocations` drew into `#selector-container`, each a record of its `rowId` attribute and the location its select shows), `configTable` (what `renderStaticConfig` last drew) and `configFetches` (schema GETs in flight, per type). Submission state is `posts` (POST bodies in flight), `sent`, `created`, `modalOpen` and `lastSubmitError`.
  - **Actions.** There is one action per event handler, named after the handler. An action is enabled only while its button is visible and its step is current.
  - **Validate and render.** `validate()` of each step and `render()`/`updateForState()` of each step are operators, which the navigation actions compose as `renderCurrentStep` does. `ValidateCurrent` is the set of a validate's outcomes over the values the user may have typed into the fields it reads: editor types, class name and config rows. A field's content is data, so it is chosen at the moment the code reads it.
  - **Responses.** `CatalogResponse`, `ConfigResponse` and `PostResponse` deliver answers in any order. Each answer may be a success or a failure.
  - **Fault model.** `ConfigGetsCanFail` says whether a required-config GET may fail. The safety runs let it fail; the passing liveness run does not, because the code has no error callback for it (finding 4).
  - **Fairness.** `LiveSpec` adds weak fairness of `CatalogResponse`, `ConfigResponse` and `PostResponse`: every request is eventually answered. See below.
  - **Refinement.** At the end of the module, `Abs == INSTANCE WizardAbstract WITH ...` maps the wizard onto its abstract specification. The mapping is as follows: `step` is `currentStep`; `mode` is `DefinitionMode` of the spec; `located` holds when the spec has a location; `outbox` is the POST bodies seen the same way; `closed` is `~modalOpen`. `AbstractSpecRefined == Abs!Spec` is checked as a PROPERTY. `WizardAbstract` has one constant, `RepeatCreation`. `Abs` sets it to FALSE. A second instance, `AbsRepeat`, uses the same mapping with `RepeatCreation <- TRUE`; it gives `AbstractSpecRefinedWithRepeats`.
- `WizardAbstract.tla` is what the wizard promises (spec 4.1-4.4), with the spec seen only through its definition mode (`"type"`, `"entities"` or `"invalid"`) and whether it has a location. It has these actions:
  - `Edit`: on step 0 the mode may change to anything.
  - `Relocate`: on step 1 the location may change.
  - `Advance`: step 0 may be left only with a valid mode, and step 1 only with a location. Entering Deploy may add a location.
  - `Retreat`: moves back one step, with no validation.
  - `Submit`: from steps 1-2, only a valid, located spec is sent.
  - `Answer`: the first success closes the workflow and creates the application; a failure changes nothing else.

  It is not a translation of any code, so it has no `map` entry. It is the yardstick the code is measured against.
- `ConfigPriority.tla` models `renderStaticConfig` (l. 457-480) on an answered schema. Only the tie-order question is checked (`config_ties`). That the table is sorted by priority follows from `SortOutcomes` by construction, so it is not stated as a property.
  - `Labelled` is the `if (cfg.label)` filter.
  - `Compare` is the comparator.
  - `SortOutcomes` is `Array.prototype.sort`: every permutation the comparator accepts, because ES5 leaves the order of ties to the engine.
  - The action draws the table once.
  - `StableReference` is the stable sort that the spec's tie-break describes.
- `MCApplicationAddWizard.tla` and `MCConfigPriority.tla` are the TLC instances. The first defines the name-field values (`MCNames`, and `MCEmptyName` for the run that must stay small) and a symmetry set for the application types. The second defines the priority and label sets: `""` counts as no label, like `undefined`.

## Runs

| Run | Expect | Checks |
|---|---|---|
| `wizard_safety` | pass (1.57M distinct states, ~45 s) | `TypeOK`; `ModeExclusive` (I1 at steps 1-2); `SubmittedSpecWellFormed` (every POST body satisfies I1, I2, I3); `EditorsMatchEntities` (editor boxes = spec entities on step 0) |
| `stale_config` | violation | `SubmittedConfigMatchesType`. Choose template t1, reach Deploy (GET t1), go back, choose t2, reach Deploy (cache `"LOAD"`, GET t2). The answer for t1 then arrives, and Deploy shows t1's required config while `spec.type = t2`. Finish harvests it and POSTs a body of type t2 with t1's required keys. |
| `catalog_get_fails` | violation | `CreateStepPassable`. Both catalog GETs of `StepCreate.initialize` fail. Nothing ever fills the known-id sets again, so every save fails and the wizard cannot leave its first step. |
| `submit_error` | violation | `NoUncaughtSubmitError`. Finish on the deploy step, the POST fails, and `steps[1].view.showFailure` is undefined, so the handler throws. |
| `wizard_refines` | pass (1.57M states, ~80 s) | `AbstractSpecRefined`: with one POST, every behaviour of the wizard is one of `WizardAbstract`. Several things follow. Navigation moves by one step. The mode changes only on StepCreate and is valid when the user leaves it. Locations change only on StepDeploy, or when entering it. Only valid, located bodies are posted. Only the first success closes the modal. |
| `wizard_refines_repeat` | pass (1.26M states, ~70 s) | `AbstractSpecRefinedWithRepeats` with two POSTs. The user may click Finish again and navigate while POSTs are in flight, and answers may arrive after the modal is hidden. Every promise of `WizardAbstract` still holds except the single creation. Duplicate creation, which the spec (sections 5 and 9) already describes for two Finish clicks, is therefore the only promise that concurrent submission breaks. |
| `loading_clears` | pass (443K states, ~25 s) | `LoadingEventuallyClears` under `LiveSpec` with GETs that do not fail. This includes the GET for `/v1/catalog/entities/null`: that GET can only be issued while the template's GET, which left `"LOAD"` cached, is still in flight, and its answer redraws the table. |
| `loading_get_fails` | violation | `LoadingEventuallyClears` when a GET may fail. The `$.get` has no error callback, so the indicator stays for good. |
| `location_rows` | pass (1.69M states, ~30 s) | `LocationRowsMatchSpec`: on Deploy, row *k* of `#selector-container` carries rowId *k-1* and shows spec location *k*. The rowId that `removeLocation` and `selection` read (l. 446, 495) therefore addresses the clicked row's location. This holds after a removal shifts the later locations down, after a select changes a row in place, and after a failed location fetch skips the redraw. The run allows two location rows, the fewest where a removal shifts a rowId. |
| `config_ties` | violation | `TiesKeepArrivalOrder`. Two `Port` entries of priority 3 may be drawn as rows 2, 1. |

Each property of a passing run has a mutant in `PROJECT.json` that the run catches:
- `SaveAppClassUnchecked` drops the catalog check, which `TypeOK` catches.
- `ClearEntitiesSkipped` keeps entities after a template or class save, which `ModeExclusive` catches.
- `DeployValidateNoLocations` drops I2, which `SubmittedSpecWellFormed` catches.
- `RenderCreateNoEmpty` stops `renderConfiguredEntities` emptying the list, which `EditorsMatchEntities` catches.
- `DeployValidateNoLocations` also breaks `AbstractSpecRefined`: Deploy is left without a location.
- `RemoveLocationRowDomOnly` makes `removeLocation` delete the clicked row from the DOM instead of redrawing. The next row keeps rowId 1 although it now shows location 1, which `LocationRowsMatchSpec` catches. This needs two rows.
- `PostSucceededKeepOpen` makes the success handler skip `$modal.modal('hide')`, which `AbstractSpecRefinedWithRepeats` catches.
- `ApplyConfigResultCacheOnly` makes the GET callback cache the schema without redrawing, which `LoadingEventuallyClears` catches.

### Bounds

- `wizard_safety` uses one application type and one entity type. Two locations, so that `selection` changes something. One location row. Two entity editors, the fewest where removal shifts indices. One schema GET in flight per type. One POST. No free config keys, since they are data no property distinguishes.
- The violation runs use the same bounds, except `stale_config`, which needs two application types, and `location_rows`, which needs two location rows and so narrows the rest: the empty name only, and no free key or unimplemented tab.
- `wizard_refines_repeat` needs two POSTs, which multiplies the state space. To stay well inside five minutes it uses one entity editor, one location, the empty name only, and no unimplemented tab. Each of these is covered by `wizard_safety`.
- The liveness runs use one entity editor. Liveness is checked without symmetry.
- `ConfigPriority` uses schemas of up to three entries, with priorities {3, 5} and labels {"", "Port", missing}. Three entries are enough for two ties next to a different priority, and for a filtered-out entry between two rows.
- Every bound is a named constant used in a guard: `MaxEntities`, `MaxLocations`, `MaxFetches` and `MaxSubmits`. The code has none of them. One of them constrains the control flow: `MaxFetches` blocks entering Deploy while a schema GET for the same type is still in flight, which the code allows. With one in flight per type, a second entry still reuses the `"LOAD"` cache, and with two types it still races (finding 1).
- `OtherTabs = {otherTab}` stands for the tabs that `validate` reports as "NOT IMPLEMENTED YET".
- The initial active tab is any of the tabs, because the markup of `create.html` is not among the sources.

### Deadlock and fairness

Deadlock is not checked (`CHECK_DEADLOCK FALSE`). After a successful POST the modal is hidden, and once the remaining answers have arrived nothing can happen: the wizard really stops there. `LiveSpec` assumes weak fairness of the three response actions only. The assumption is that a browser XHR always completes, with a result, an error or a timeout, so every request the wizard sends is eventually answered. A user owes the wizard nothing, so no user action is fair. `LoadingEventuallyClears` therefore only asks about behaviours in which the user stays on Deploy. A user leaving Deploy discharges it.

## Findings

1. **Stale required config** (spec/code divergence). `catalogEntityData` is one slot that any late answer overwrites (l. 430). `saveAppClass` and the entities tab never reset it (l. 296, 334). Deploy can therefore show, and `validate` harvest into `spec.config`, another type's required configuration, and Finish then POSTs it (`stale_config`). The spec says the cache is keyed by the selected type.
2. **TypeError on a failed POST from the deploy step** (code bug, l. 113). Only `StepPreview` defines `showFailure`.
3. **Unstable tie order** (spec gap, l. 474). ES5 does not require `sort` to be stable, so required entries of equal priority may be drawn in either order. The spec asks for arrival order and flags the question as open.
4. **Loading forever on a failed GET** (code bug, l. 429). The required-config `$.get` has no error callback. A failed GET leaves the indicator, and `"LOAD"` in the cache.
5. **GET for a null type** (observation, l. 426). Entities mode after a template visit keeps `"LOAD"`, so Deploy requests `/v1/catalog/entities/null`, although the spec fetches only when a type is set. `loading_clears` shows the request is harmless while GETs succeed: the template GET that left `"LOAD"` cached is then still in flight, and its answer redraws the table.
6. **No way past a failed catalog load** (spec gap, l. 166). The catalog GETs have no error callback and no retry. Once both have failed, the user is told, transiently, to correct an input that no input can make valid. The stuck state is a state predicate (`CreateStepPassable`) rather than a liveness property, because it is permanent: no action refills the sets.

## Not modelled, and why

- **Markup and animation.** Templates, typeahead, `applyFilter` and `expandEntity` are display-only.
- **Entity names and per-entity config.** These are data that no property tells apart. The wizard's name field is kept only so that preview normalisation has something to delete.
- **String `rowId` passed to `removeLocationIndex` (l. 446).** The model passes the number the attribute spells. Any coercion it undergoes happens in `model/application.js`, which is not among the sources.
- **Free config rows are ordered by the DOM.** `getConfigMap` is a set union in the model. Last-write-wins on duplicate keys is not distinguished, because the model has one free key.

## Plan for later sittings

1. Model the values of free config rows (`getConfigMap`, l. 481-489), so that last-write-wins between a required row and a free row with the same key can be checked. This needs the row order of `deploy.html`, which is not among the sources.
2. If `model/application.js` becomes available, model `removeLocationIndex` and `setLocationAtIndex` with the string `rowId` they receive (l. 446, 494).
