--------------------------- MODULE WizardAbstract ---------------------------
(***************************************************************************)
(* What the add-application wizard promises (spec sections 4.1-4.4), with *)
(* the application spec seen only through the two facts the workflow      *)
(* guards: its definition mode (I1 and I3) and whether it has a location  *)
(* (I2).  Steps move one at a time; the mode is chosen on the first step  *)
(* and is valid whenever the user has left it; locations are edited on    *)
(* the second; only a valid, located spec is submitted; and the workflow  *)
(* closes, creating one application, on the first successful answer.     *)
(***************************************************************************)
EXTENDS Naturals, Sequences, SequencesExt

CONSTANT
    RepeatCreation  \* a success after closing creates one more application

VARIABLES
    step,     \* 0 = create, 1 = deploy, 2 = preview
    mode,     \* "type" (template or class), "entities", or "invalid"
    located,  \* the spec has at least one location
    outbox,   \* requests in flight, each [mode, located] of its body
    closed,   \* the workflow has closed after a successful submission
    created   \* applications created

vars == <<step, mode, located, outbox, closed, created>>

ValidModes == {"type", "entities"}
Modes == ValidModes \cup {"invalid"}
Bodies == [mode : Modes, located : BOOLEAN]

TypeOK ==
    /\ step \in 0..2
    /\ mode \in Modes
    /\ located \in BOOLEAN
    /\ outbox \in Seq(Bodies)
    /\ closed \in BOOLEAN
    /\ created \in Nat

Init ==
    /\ step = 0
    /\ mode = "invalid"
    /\ located = FALSE
    /\ outbox = <<>>
    /\ closed = FALSE
    /\ created = 0

\* On the create step the user may leave the spec in any mode.
Edit ==
    /\ ~closed /\ step = 0
    /\ mode' \in Modes
    /\ UNCHANGED <<step, located, outbox, closed, created>>

\* On the deploy step the user adds and removes locations.
Relocate ==
    /\ ~closed /\ step = 1
    /\ located' \in BOOLEAN
    /\ UNCHANGED <<step, mode, outbox, closed, created>>

\* Entering the deploy step may add a default location, never remove one.
EnterDeploy == located' \in {located, TRUE}

\* Forward by one step, gated by the step being left: the create step
\* leaves a valid mode behind, the deploy step requires a location.
Advance ==
    /\ ~closed /\ step < 2
    /\ step' = step + 1
    /\ IF step = 0 THEN mode' \in ValidModes /\ EnterDeploy
                   ELSE located /\ UNCHANGED <<mode, located>>
    /\ UNCHANGED <<outbox, closed, created>>

\* Back by one step, with no validation.
Retreat ==
    /\ ~closed /\ step > 0
    /\ step' = step - 1
    /\ IF step = 2 THEN EnterDeploy ELSE UNCHANGED located
    /\ UNCHANGED <<mode, outbox, closed, created>>

\* Submission from deploy or preview sends a valid, located spec.
Submit ==
    /\ ~closed /\ step >= 1
    /\ mode \in ValidModes /\ located
    /\ outbox' = Append(outbox, [mode |-> mode, located |-> located])
    /\ UNCHANGED <<step, mode, located, closed, created>>

\* An answer to any request in flight: a success closes the open workflow
\* and creates the application (with RepeatCreation, also once closed);
\* a failure changes nothing else.
Answer ==
    /\ \E i \in DOMAIN outbox :
        /\ outbox' = RemoveAt(outbox, i)
        /\ \/ /\ ~closed \/ RepeatCreation
              /\ closed' = TRUE
              /\ created' = created + 1
           \/ UNCHANGED <<closed, created>>
    /\ UNCHANGED <<step, mode, located>>

Next == Edit \/ Relocate \/ Advance \/ Retreat \/ Submit \/ Answer

Spec == Init /\ [][Next]_vars
=============================================================================
