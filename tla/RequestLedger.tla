-------------------------- MODULE RequestLedger --------------------------
(***************************************************************************)
(* What the LLM system promises whoever submits a request: its callback    *)
(* runs at most once, and never once it was cancelled in time.  How many   *)
(* turns with tools the answer takes does not show.                        *)
(***************************************************************************)
EXTENDS Naturals, Sequences

VARIABLES
    open,       \* requests submitted and neither answered nor dropped
    answered,   \* requests in the order their callbacks ran
    silenced,   \* requests cancelled in time
    dropped     \* requests dropped without a callback

vars == <<open, answered, silenced, dropped>>

Init == open = {} /\ answered = <<>> /\ silenced = {} /\ dropped = {}

WasAnswered(r) == \E i \in DOMAIN answered : answered[i] = r

\* Under any name not used before.
Submit ==
    /\ \E r \in open' \ open : /\ ~WasAnswered(r) /\ r \notin dropped
                               /\ open' = open \cup {r}
    /\ UNCHANGED <<answered, silenced, dropped>>

Answer ==
    /\ \E r \in open \ silenced : /\ open' = open \ {r}
                                  /\ answered' = Append(answered, r)
    /\ UNCHANGED <<silenced, dropped>>

\* Best effort: a cancellation that comes too late changes nothing.
Cancel ==
    /\ \E r \in open : silenced' = silenced \cup {r}
    /\ UNCHANGED <<open, answered, dropped>>

Drop ==
    /\ \E r \in open \cap silenced : /\ open' = open \ {r}
                                     /\ dropped' = dropped \cup {r}
    /\ UNCHANGED <<answered, silenced>>

Next == Submit \/ Answer \/ Cancel \/ Drop

Spec == Init /\ [][Next]_vars
=============================================================================
