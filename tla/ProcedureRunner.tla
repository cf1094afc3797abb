------------------------- MODULE ProcedureRunner -------------------------
(***************************************************************************)
(* The runner that walks a procedure of the knowledge graph.               *)
(* It calls the primitive of one step after another until one asks a       *)
(* question (the cursor is then the step that asked), completes the        *)
(* procedure, or fails.  A failure hands nothing back: the caller keeps    *)
(* the cursor of the last question, and may answer it again.               *)
(***************************************************************************)
EXTENDS Sequences, FiniteSets, Functions

CONSTANTS
    Steps,    \* the steps in the order of their step_index
    Routes,   \* <<step, label>> -> step, the StepRoutes of the procedure
    NoStep,   \* no step is being run
    NoInput   \* a step is entered, not answered

VARIABLES
    current,  \* the step run() is at
    cursor,   \* the step whose question is open
    input     \* the answer the step is resumed with

runner_vars == <<current, cursor, input>>

RunnerTypeOK ==
    /\ current \in Range(Steps) \cup {NoStep}
    /\ cursor \in Range(Steps) \cup {NoStep}

start ==
    /\ current = Head(Steps)
    /\ cursor = NoStep
    /\ input = NoInput

resume(answer) ==
    /\ current = NoStep
    /\ cursor # NoStep
    /\ current' = cursor
    /\ input' = answer
    /\ UNCHANGED cursor

\* A label the step has no route for falls through to the step after it.
next_step(step, label) ==
    IF <<step, label>> \in DOMAIN Routes
    THEN Routes[<<step, label>>]
    ELSE LET i == CHOOSE i \in DOMAIN Steps : Steps[i] = step IN Steps[i + 1]

at(step) == current = step

entered(step) == current = step /\ input = NoInput
answered(step) == current = step /\ input # NoInput

\* What a primitive returns.
advance(label) ==
    /\ current' = next_step(current, label)
    /\ input' = NoInput
    /\ UNCHANGED cursor

pending ==
    /\ current' = NoStep
    /\ cursor' = current
    /\ input' = NoInput

failed ==
    /\ current' = NoStep
    /\ input' = NoInput
    /\ UNCHANGED cursor

complete == failed
=============================================================================
