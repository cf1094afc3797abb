-------------------------- MODULE OutcomeExecutor --------------------------
(***************************************************************************)
(* OutcomeExecutor, which carries out what a rulebook says happens to a    *)
(* character.  A rule is a graph of outcomes: sequences, choices and       *)
(* effects.  The executor first plans all of it, changing nothing: each    *)
(* effect appends operations to the plan and reads the world as the plan   *)
(* will leave it (PlannedWorld).  The plan is applied as one batch, or not *)
(* at all, and the dice it rolled stay rolled only then.  A choice nobody  *)
(* has answered ends the planning with a question; the caller comes back   *)
(* with the answer and the same rule, and all is planned anew.             *)
(*                                                                         *)
(* The target is one character with integer attributes and parts, of which *)
(* each says how much there is of one thing: money, possessions and skills *)
(* have this form.  Malformed rules other than cyclic ones, text, and what *)
(* callers do with granted table rolls are left out.                       *)
(***************************************************************************)
EXTENDS Integers, Sequences, FiniteSets, SequencesExt

CONSTANTS
    Outcomes,     \* the outcome entities of the rulebook
    Rule,         \* what each of them says
    Roots,        \* the rules callers apply
    Attributes,
    Lowest, Highest,  \* the schema's limits on attributes
    Picks,        \* what the attribute selector may answer
    Sides,        \* values of a die
    None,
    Period,       \* bound: the dice repeat themselves after so many rolls
    MaxAmount     \* bound: how much of a thing there is

VARIABLES
    attributes,     \* of the character
    parts,          \* its parts: [thing, amount], the newest last
    stream,         \* what the dice are going to show
    rolled,         \* how many have been: the length of the journal, modulo Period
    rules_reached,  \* rules_reached_
    dialogue        \* a caller's, with the executor: [root, selections, asked, stray]

\* History: the rolls and the rules of what was applied, by the rulebook alone.
VARIABLES owed_rolls, owed_rules

history == <<owed_rolls, owed_rules>>
vars == <<attributes, parts, stream, rolled, rules_reached, dialogue, history>>

NoDialogue == [root |-> None, selections |-> <<>>, asked |-> None, stray |-> FALSE]

OutcomeChoices == {o \in Outcomes : Rule[o].kind = "OutcomeChoice"}

\* Options count from 1; 0 stands for one the choice does not have.
Options == 0 .. 2

Init ==
    /\ attributes \in [Attributes -> {Highest}]
    /\ parts = <<>>
    /\ stream \in [0 .. Period - 1 -> Sides]
    /\ rolled = 0
    /\ rules_reached = {}
    /\ dialogue = NoDialogue
    /\ owed_rolls = 0 /\ owed_rules = {}

-----------------------------------------------------------------------------
\* PlannedWorld: the world as the operations planned so far will leave it.
\* A reference is to a part that exists (its place) or to one the plan creates
\* (the outcome that creates it, which the alias is made of).

\* Mutant: the oldest write wins.
NewestFirst_oldest(ops) == ops

NewestFirst(ops) == Reverse(ops)

FirstOr(seq, default) == IF seq = <<>> THEN default ELSE Head(seq)

planned_attribute(ops, name) ==
    LET writes == SelectSeq(NewestFirst(ops),
                            LAMBDA op : op.op = "set_attribute" /\ op.name = name)
    IN  FirstOr(writes, [value |-> attributes[name]]).value

planned_amount(ops, ref) ==
    LET writes == SelectSeq(NewestFirst(ops), LAMBDA op : op.op = "set_amount" /\ op.ref = ref)
        creates == SelectSeq(ops, LAMBDA op : op.op = "create" /\ op.ref = ref)
    IN  IF writes # <<>> THEN Head(writes).value
        ELSE IF creates # <<>> THEN Head(creates).value
        ELSE parts[ref.place].amount

matching_parts(ops, thing) ==
    {[place |-> i] : i \in {j \in DOMAIN parts : parts[j].thing = thing}}
        \cup {op.ref : op \in {op \in Range(ops) : op.op = "create" /\ op.thing = thing}}

-----------------------------------------------------------------------------
\* The plan, and what appends to it

EmptyPlan == [ops |-> <<>>, rolls |-> 0, requests |-> <<>>, limited |-> <<>>,
              reached |-> <<>>, used |-> <<>>, pending |-> None, error |-> None]

Going(plan) == plan.error = None /\ plan.pending = None

Failing(plan, why) == [plan EXCEPT !.error = why]

\* What the next die shows; the roll is the plan's until it is committed.
NextRoll(plan) == stream[(rolled + plan.rolls) % Period]

Amount(plan, rule) == IF rule.rolls THEN NextRoll(plan) ELSE rule.amount

Rolled(plan, rule) == IF rule.rolls THEN [plan EXCEPT !.rolls = @ + 1] ELSE plan

\* How much of the thing the target will have, None if it has no part for it.
amount_held(ops, thing) ==
    LET matches == matching_parts(ops, thing)
    IN  IF matches = {} THEN None ELSE planned_amount(ops, CHOOSE ref \in matches : TRUE)

\* The part for the thing is made, or its amount set.
plan_part(outcome, plan, thing, value) ==
    LET matches == matching_parts(plan.ops, thing)
        op == IF matches = {}
              THEN [op |-> "create", ref |-> [alias |-> outcome], thing |-> thing,
                    value |-> value]
              ELSE [op |-> "set_amount", ref |-> CHOOSE ref \in matches : TRUE,
                    value |-> value]
    IN  IF Cardinality(matches) > 1 THEN Failing(plan, "duplicate parts")
        ELSE [plan EXCEPT !.ops = Append(@, op)]

\* GainFixedMoney, GainRolledMoney and GainPossession.
plan_gain(outcome, plan) ==
    LET rule == Rule[outcome]
        held == amount_held(plan.ops, rule.thing)
        gain == Amount(plan, rule)
    IN  plan_part(outcome, Rolled(plan, rule), rule.thing,
                  IF held = None THEN gain ELSE held + gain)

\* EnsureSkillLevel and AdvanceSkill.
plan_skill(outcome, plan) ==
    LET rule == Rule[outcome]
        held == amount_held(plan.ops, rule.thing)
        level == IF held = None \/ (rule.ensure /\ held < rule.initial) THEN rule.initial
                 ELSE IF rule.ensure THEN held
                 ELSE held + rule.delta
    IN  IF level < 0 THEN Failing(plan, "negative skill")
        ELSE IF level = held THEN plan
        ELSE plan_part(outcome, plan, rule.thing, level)

clamp_to_schema(value) ==
    IF value < Lowest THEN Lowest ELSE IF value > Highest THEN Highest ELSE value

\* ModifyAttribute: a change the schema does not take in full is reported.
plan_attribute(plan, name, delta) ==
    LET wanted == planned_attribute(plan.ops, name) + delta
        next == clamp_to_schema(wanted)
        written == [plan EXCEPT !.ops = Append(@, [op |-> "set_attribute", name |-> name,
                                                   value |-> next])]
    IN  IF next = wanted THEN written
        ELSE [written EXCEPT !.limited = Append(@, [name |-> name, requested |-> wanted])]

\* ModifyAttributesInGroup: one delta, for all of the group or for those the
\* selector picks, which is not trusted.  Dice say how much, the rule which way.
plan_attributes_in_group(outcome, plan, picks) ==
    LET rule == Rule[outcome]
        delta == IF ~rule.rolls THEN rule.amount
                 ELSE IF rule.reduces THEN -NextRoll(plan) ELSE NextRoll(plan)
        chosen == IF rule.count = Len(rule.group) THEN rule.group ELSE picks
        allowed == /\ Len(chosen) = rule.count
                   /\ Range(chosen) \subseteq Range(rule.group)
                   /\ IsInjective(chosen)
    IN  IF ~allowed THEN Failing(plan, "not the selector's to choose")
        ELSE FoldLeft(LAMBDA p, name : plan_attribute(p, name, delta),
                      Rolled(plan, rule), chosen)

\* Mutant: a selection counts as often as its choice is reached.
MarkUsed_each_time(used, choice) == Append(used, choice)

MarkUsed(used, choice) == IF choice \in Range(used) THEN used ELSE Append(used, choice)

-----------------------------------------------------------------------------
\* Planner::node.  call says what the caller gave: selections, a resolver (a
\* function from choices, or None), and what the selector picks.  Options count
\* from 1; an option out of range stands for a refusal as well.
RECURSIVE node(_, _, _, _)

Steps(outcome, plan, call, stack) ==
    FoldLeft(LAMBDA p, step : IF Going(p) THEN node(step, p, call, stack) ELSE p,
             plan, Rule[outcome].parts)

\* An explicit selection wins, failing that the resolver answers in place, failing
\* that the question goes back to the caller.
Choose(outcome, plan, call, stack) ==
    LET options == Rule[outcome].parts
        Take(p, option) == IF option \in DOMAIN options
                           THEN node(options[option], p, call, stack)
                           ELSE Failing(plan, "no such option")
    IN  IF outcome \in DOMAIN call.selections
        THEN Take([plan EXCEPT !.used = MarkUsed(@, outcome)], call.selections[outcome])
        ELSE IF call.resolver # None THEN Take(plan, call.resolver[outcome])
        ELSE [plan EXCEPT !.pending = outcome]

Effect(outcome, plan, call) ==
    LET rule == Rule[outcome]
    IN  CASE rule.kind = "NoEffect" -> plan
          [] rule.kind = "Gain" -> plan_gain(outcome, plan)
          [] rule.kind = "Skill" -> plan_skill(outcome, plan)
          [] rule.kind = "ModifyAttribute" -> plan_attribute(plan, rule.name, rule.amount)
          [] rule.kind = "ModifyAttributesInGroup" ->
                plan_attributes_in_group(outcome, plan, call.picks)
          [] rule.kind = "GrantTableRoll" ->
                [plan EXCEPT !.requests = Append(@, rule.table)]

node(outcome, plan, call, stack) ==
    LET here == [plan EXCEPT !.reached = Append(@, outcome)]
        within == stack \cup {outcome}
    IN  IF outcome \in stack THEN Failing(plan, "cyclic outcome graph")
        ELSE CASE Rule[outcome].kind = "OutcomeSequence" -> Steps(outcome, here, call, within)
               [] Rule[outcome].kind = "OutcomeChoice" -> Choose(outcome, here, call, within)
               [] OTHER -> Effect(outcome, here, call)

-----------------------------------------------------------------------------
\* The reference: a rule performed as it is written, every effect at once, on a
\* character with no parts, operations, references or plans.

Before ==
    [attributes |-> attributes,
     amounts |-> [t \in {parts[i].thing : i \in DOMAIN parts} |->
                     parts[CHOOSE i \in DOMAIN parts : parts[i].thing = t].amount],
     rolls |-> 0, rules |-> {}, answered |-> {}, requests |-> <<>>, end |-> None]

Die(w) == stream[(rolled + w.rolls) % Period]

Own(w, thing, amount) == [w EXCEPT !.amounts = (thing :> amount) @@ @]

Moved(w, names, delta) ==
    [w EXCEPT !.attributes = [x \in Attributes |->
         IF x \in names THEN clamp_to_schema(@[x] + delta) ELSE @[x]]]

Written(o, w, call) ==
    LET rule == Rule[o]
        has == rule.thing \in DOMAIN w.amounts
        after == [w EXCEPT !.rolls = @ + 1]
    IN  CASE rule.kind = "NoEffect" -> w
          [] rule.kind = "GrantTableRoll" -> [w EXCEPT !.requests = Append(@, rule.table)]
          [] rule.kind = "Gain" ->
                Own(IF rule.rolls THEN after ELSE w, rule.thing,
                    (IF has THEN w.amounts[rule.thing] ELSE 0)
                        + (IF rule.rolls THEN Die(w) ELSE rule.amount))
          [] rule.kind = "Skill" ->
                IF ~has THEN Own(w, rule.thing, rule.initial)
                ELSE IF rule.ensure
                THEN Own(w, rule.thing, Max({w.amounts[rule.thing], rule.initial}))
                ELSE IF w.amounts[rule.thing] + rule.delta < 0 THEN [w EXCEPT !.end = "FAILED"]
                ELSE Own(w, rule.thing, w.amounts[rule.thing] + rule.delta)
          [] rule.kind = "ModifyAttribute" -> Moved(w, {rule.name}, rule.amount)
          [] rule.kind = "ModifyAttributesInGroup" ->
                LET picked == IF rule.count = Len(rule.group) THEN Range(rule.group)
                              ELSE Range(call.picks)
                IN  IF Cardinality(picked) # rule.count \/ ~(picked \subseteq Range(rule.group))
                       \/ (rule.count # Len(rule.group) /\ Len(call.picks) # rule.count)
                    THEN [w EXCEPT !.end = "FAILED"]
                    ELSE Moved(IF rule.rolls THEN after ELSE w, picked,
                               IF rule.rolls
                               THEN (IF rule.reduces THEN -1 ELSE 1) * Die(w)
                               ELSE rule.amount)

\* Rules and choices in the order in which a reader comes to them.
RECURSIVE perform(_, _, _, _)

perform(o, w, call, stack) ==
    LET here == [w EXCEPT !.rules = @ \cup {o}]
        chosen == IF o \in DOMAIN call.selections THEN call.selections[o] ELSE call.resolver[o]
        known == [here EXCEPT !.answered = @ \cup ({o} \cap DOMAIN call.selections)]
    IN  IF w.end # None THEN w
        ELSE IF o \in stack THEN [w EXCEPT !.end = "FAILED"]
        ELSE CASE Rule[o].kind = "OutcomeSequence" ->
                     FoldLeft(LAMBDA v, step : perform(step, v, call, stack \cup {o}),
                              here, Rule[o].parts)
               [] Rule[o].kind = "OutcomeChoice" ->
                     IF o \notin DOMAIN call.selections /\ call.resolver = None
                     THEN [here EXCEPT !.end = "PENDING_CHOICE"]
                     ELSE IF chosen \notin DOMAIN Rule[o].parts
                     THEN [known EXCEPT !.end = "FAILED"]
                     ELSE perform(Rule[o].parts[chosen], known, call, stack \cup {o})
               [] OTHER -> Written(o, here, call)

EndOf(w, call) ==
    IF w.end # None THEN w.end
    ELSE IF w.answered # DOMAIN call.selections THEN "STRAY_SELECTION" ELSE "APPLIED"

-----------------------------------------------------------------------------
\* OutcomeExecutor::apply

\* apply_kg_ops_atomically, for a batch that succeeds.
Committed(ops) ==
    FoldLeft(LAMBDA w, op :
                 CASE op.op = "set_attribute" -> [w EXCEPT !.attributes[op.name] = op.value]
                   [] op.op = "create" ->
                        [w EXCEPT !.parts = Append(@, [thing |-> op.thing, amount |-> op.value]),
                                  !.places = Append(@, op.ref)]
                   [] op.op = "set_amount" ->
                        LET place == CHOOSE i \in DOMAIN w.places : w.places[i] = op.ref
                        IN  [w EXCEPT !.parts[place].amount = op.value],
             [attributes |-> attributes, parts |-> parts,
              places |-> [i \in DOMAIN parts |-> [place |-> i]]],
             ops)

\* What becomes of the plan if the batch is not refused.
Status(plan, call) ==
    IF plan.error # None THEN "FAILED"
    ELSE IF plan.pending # None THEN "PENDING_CHOICE"
    ELSE IF Len(plan.used) # Cardinality(DOMAIN call.selections) THEN "STRAY_SELECTION"
    ELSE "APPLIED"

\* Mutant: the dice of a plan stay rolled, whatever becomes of it.
rolls_kept_always(plan, status) == plan.rolls

\* The dice transaction is rolled back but for a plan that was applied.
rolls_kept(plan, status) == IF status = "APPLIED" THEN plan.rolls ELSE 0

\* Bound on the amounts.
Affordable(list) == \A i \in DOMAIN list : list[i].amount <= MaxAmount

carry_out(root, call, plan, status) ==
    /\ IF status = "APPLIED"
       THEN LET world == Committed(plan.ops)
                said == perform(root, Before, call, {})
            IN  /\ Affordable(world.parts)
                /\ attributes' = world.attributes
                /\ parts' = world.parts
                /\ rules_reached' = rules_reached \cup Range(plan.reached)
                /\ owed_rolls' = (owed_rolls + said.rolls) % Period
                /\ owed_rules' = owed_rules \cup said.rules
       ELSE UNCHANGED <<attributes, parts, rules_reached, history>>
    /\ rolled' = (rolled + rolls_kept(plan, status)) % Period
    /\ UNCHANGED stream

-----------------------------------------------------------------------------
\* Callers.  The graph's validation may refuse any batch.

Resolvers == {None} \cup {[c \in OutcomeChoices |-> option] : option \in Options}
Selections == UNION {[C -> Options] : C \in SUBSET OutcomeChoices}

Calls == [selections : Selections, resolver : Resolvers, picks : Picks]

StatusOrRefused(plan, call) ==
    {Status(plan, call)} \cup IF Status(plan, call) = "APPLIED" THEN {"REFUSED"} ELSE {}

\* Whoever calls with a resolver, or with selections from somewhere.
apply(root, call) ==
    LET plan == node(root, EmptyPlan, call, {})
    IN  /\ \E status \in StatusOrRefused(plan, call) : carry_out(root, call, plan, status)
        /\ UNCHANGED dialogue

\* A caller that asks the player: the rule is applied with the answers so far, and
\* the question this ends with is the next.
ask(root, selections) ==
    \E picks \in Picks :
        LET call == [selections |-> selections, resolver |-> None, picks |-> picks]
            plan == node(root, EmptyPlan, call, {})
        IN  \E status \in StatusOrRefused(plan, call) :
                /\ carry_out(root, call, plan, status)
                /\ dialogue' =
                       IF status = "PENDING_CHOICE"
                       THEN [root |-> root, selections |-> selections,
                             asked |-> plan.pending, stray |-> FALSE]
                       ELSE [NoDialogue EXCEPT !.stray = (status = "STRAY_SELECTION")]

begin(root) == dialogue.asked = None /\ ask(root, <<>>)

answer(option) ==
    /\ dialogue.asked # None
    /\ ask(dialogue.root, (dialogue.asked :> option) @@ dialogue.selections)

Next ==
    \/ \E root \in Roots : begin(root) \/ \E call \in Calls : apply(root, call)
    \/ \E option \in Options : answer(option)

Spec == Init /\ [][Next]_vars

-----------------------------------------------------------------------------
\* Properties

\* Planning and then applying comes to the same as doing what the rule says, line
\* by line: "a second step of the same rule ... would silently clobber the first"
\* (outcome_executor.h) never happens, over rules that touch one thing several
\* times, through several outcomes or one that is reached twice, with parts that
\* exist and parts the plan itself makes; and it ends with the same verdict.
PlansAreRules ==
    \A root \in Roots, call \in Calls :
        LET plan == node(root, EmptyPlan, call, {})
            world == Committed(plan.ops)
            said == perform(root, Before, call, {})
        IN  /\ Status(plan, call) = EndOf(said, call)
            /\ Status(plan, call) = "APPLIED" =>
                   /\ world.attributes = said.attributes
                   /\ {<<p.thing, p.amount>> : p \in Range(world.parts)} =
                          {<<t, said.amounts[t]>> : t \in DOMAIN said.amounts}
                   /\ Len(world.parts) = Cardinality(DOMAIN said.amounts)
                   /\ plan.requests = said.requests

\* "Only applied plans count" (outcome_executor.h): the journal of the dice and the
\* rules reached are those of the rules carried out.  A plan that ends with a
\* question, a failure or a refused batch leaves no roll behind, so a player who
\* is asked again faces the same dice.
OnlyAppliedPlansCount == rolled = owed_rolls /\ rules_reached = owed_rules

\* A caller who answers what it is asked is asked each question once, also where
\* the rule comes to a choice twice, and never told that its answers belong to
\* another rule; whatever other callers do in between.
AskedOnce ==
    /\ dialogue.asked \notin DOMAIN dialogue.selections
    /\ ~dialogue.stray
=============================================================================
