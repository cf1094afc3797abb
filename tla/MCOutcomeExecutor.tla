------------------------ MODULE MCOutcomeExecutor ------------------------
(***************************************************************************)
(* A rulebook with a rule that comes to the same gain and the same choice  *)
(* twice, one way through another choice, one that moves attributes up and *)
(* down and may fail at its end, and a rule that contains itself.          *)
(***************************************************************************)
EXTENDS OutcomeExecutor

Gain(thing, amount, rolls) ==
    [kind |-> "Gain", thing |-> thing, amount |-> amount, rolls |-> rolls]
Skill(ensure, initial, delta) ==
    [kind |-> "Skill", thing |-> "skill", ensure |-> ensure, initial |-> initial,
     delta |-> delta]
Group(count, amount, rolls, reduces) ==
    [kind |-> "ModifyAttributesInGroup", thing |-> None, group |-> <<"str", "dex">>,
     count |-> count, amount |-> amount, rolls |-> rolls, reduces |-> reduces]

MCRule ==
    [life      |-> [kind |-> "OutcomeSequence",
                    parts |-> <<"pay", "branch", "pay", "fork">>],
     branch    |-> [kind |-> "OutcomeChoice", parts |-> <<"windfall", "training">>],
     training  |-> [kind |-> "OutcomeSequence",
                    parts |-> <<"study", "fork", "study", "rest">>],
     fork      |-> [kind |-> "OutcomeChoice", parts |-> <<"wound", "talent">>],
     injury    |-> [kind |-> "OutcomeSequence",
                    parts |-> <<"wound", "heal", "boost", "scar", "scar", "scare",
                                "lesson">>],
     loop      |-> [kind |-> "OutcomeSequence", parts |-> <<"pay", "loop">>],
     pay       |-> Gain("cash", 1, FALSE),
     windfall  |-> Gain("cash", 0, TRUE),
     study     |-> Skill(FALSE, 0, 1),
     talent    |-> Skill(TRUE, 1, 0),
     lesson    |-> Skill(FALSE, 0, -1),
     wound     |-> Group(1, 0, TRUE, TRUE),
     scar      |-> Group(2, -1, FALSE, FALSE),
     boost     |-> Group(1, 0, TRUE, FALSE),
     rest      |-> [kind |-> "NoEffect", thing |-> None],
     scare     |-> [kind |-> "GrantTableRoll", thing |-> None, table |-> "fears"],
     heal      |-> [kind |-> "ModifyAttribute", thing |-> None, name |-> "str", amount |-> 2]]

MCOutcomes == DOMAIN MCRule
MCPicks == {<<"str">>, <<"dex">>}
=============================================================================
