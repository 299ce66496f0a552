----------------------- MODULE MCApplicationAddWizard -----------------------
(***************************************************************************)
(* Model-checking instance of ApplicationAddWizard.  The cfg files choose  *)
(* the application, entity and location sets; this module supplies the    *)
(* values of the #application-name field and the symmetry of the types.   *)
(***************************************************************************)
EXTENDS ApplicationAddWizard, TLC

\* An empty name (deleted by StepPreview) and a typed one.
MCNames == {"", "app"}

\* Only the empty name, for runs that do not need the name to survive.
MCEmptyName == {""}

MCSymmetry == Permutations(AppTypes)
=============================================================================
