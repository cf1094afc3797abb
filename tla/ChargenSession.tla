-------------------------- MODULE ChargenSession -------------------------
(***************************************************************************)
(* A life of the logovger game: the session's primitives, run step by step *)
(* by the procedure runner, and a player who types answers.                *)
(* Dice are free choices.  The referee may fail to answer a question that  *)
(* an aging or an injury row asks; every other outcome applies.  The table *)
(* a training roll is made on, skills, titles and the characteristics that *)
(* are not ruined are left out.                                            *)
(***************************************************************************)
EXTENDS Integers, Sequences, FiniteSetsExt

CONSTANTS
    Careers,             \* the careers in the order findByType lists them
    Drifter,             \* the one that is always open
    Ladderless,          \* careers with no commission or advancement check
    Drafts,              \* the services of the Draft table
    TopRank,             \* the last rung of a ladder
    ExtraBenefits,       \* extra_benefits_by_rank
    max_terms,           \* the RuleConstants
    cash_benefit_roll_max,
    aging_start_age,     \* in half-terms lived since the start
    Prices,              \* what medical care can cost
    NoCareer, NoStep, NoInput,
    MaxCareers,          \* bound: careers listed on a sheet
    MaxForced,           \* bound: terms beyond max_terms
    MaxCredits,          \* bound: the purse
    MaxUnanswered        \* bound: injuries the referee leaves undecided

ASSUME CareersAssumption ==
    /\ Careers \in Seq(Range(Careers))
    /\ {Drifter} \cup Drafts \subseteq Range(Careers)
ASSUME ConstantsAssumption ==
    /\ {TopRank, max_terms, cash_benefit_roll_max, aging_start_age, MaxCredits} \subseteq Nat
    /\ ExtraBenefits \in [0 .. TopRank -> Nat]
    /\ Prices \subseteq Nat

VARIABLES
    current, cursor, input,  \* of the procedure runner
    session,  \* the fields of ChargenSession
    sheet,    \* the sheet and the Character entity it mirrors
    history   \* history: what the life was owed and given

vars == <<current, cursor, input, session, sheet, history>>
kept == <<session, sheet, history>>

basic_chargen ==
    <<"generate_characteristics", "choose_career", "roll_qualification",
      "basic_training", "grant_rank_zero", "roll_survival", "roll_commission",
      "roll_advancement", "roll_training", "advance_term", "roll_aging",
      "roll_reenlistment", "choose_term_end", "survival_mishap", "muster_out",
      "finish_character", "draft_or_drifter">>

\* The rows step, label, next step.
step_routes ==
    {<<"choose_career", "finish", "finish_character">>,
     <<"roll_qualification", "failed", "draft_or_drifter">>,
     <<"draft_or_drifter", "took_it", "basic_training">>,
     <<"roll_survival", "failed", "survival_mishap">>,
     <<"survival_mishap", "died", "finish_character">>,
     <<"roll_aging", "died", "finish_character">>,
     <<"roll_reenlistment", "forced", "roll_survival">>,
     <<"roll_reenlistment", "must_leave", "muster_out">>,
     <<"roll_reenlistment", "may_choose", "choose_term_end">>,
     <<"choose_term_end", "continue", "roll_survival">>,
     <<"choose_term_end", "muster_out", "muster_out">>,
     <<"muster_out", "continue", "choose_career">>}

routes ==
    [r \in {<<row[1], row[2]>> : row \in step_routes} |->
        CHOOSE next \in Range(basic_chargen) : <<r[1], r[2], next>> \in step_routes]

INSTANCE ProcedureRunner WITH Steps <- basic_chargen, Routes <- routes

Keys == <<"1", "2", "3", "4", "5", "6">>
Answers == {"1", "2", "3", "finish", "something else"}

choice(key, subject) == [key |-> key, subject |-> subject]
find_choice(answer) == {c \in session.choices : c.key = answer}

ASSUME NoneAssumption ==
    /\ NoStep \notin Range(basic_chargen)
    /\ NoInput \notin Answers

-----------------------------------------------------------------------------
\* The start of a life

NewSession ==
    [choices |-> {}, finished |-> FALSE, career |-> NoCareer,
     training_rolls_owed |-> 0, benefit_rolls_owed |-> 0, cash_rolls_left |-> 0,
     crisis_open |-> FALSE, crisis_price |-> 0, benefits_forfeited |-> FALSE]

NewSheet ==
    [careers_served |-> <<>>, rank |-> 0, terms_in_career |-> 0, terms_served |-> 0,
     age |-> 0, credits |-> 0, ruined |-> FALSE, qualification_barred |-> FALSE]

NewHistory ==
    [entered |-> 0,      \* careers entered
     entry |-> 0,        \* terms served when the career was entered
     rank |-> 0,         \* rank when the term began
     trained |-> 0,      \* training rolls taken in the term
     forced |-> FALSE,   \* the term was begun by a natural 12
     taken |-> 0,        \* benefit rolls taken on leaving the career
     cashed |-> 0,       \* those of them taken in cash
     lost |-> FALSE,     \* a mishap of the career cost all benefits
     mishaps |-> 0,      \* mishaps since the failed survival throw
     unanswered |-> 0]   \* injuries of theirs the referee left undecided

Init ==
    /\ start
    /\ session = NewSession
    /\ sheet = NewSheet
    /\ history = NewHistory

\* "again", typed at any question or after the end.
start_life ==
    /\ current = NoStep
    /\ current' = Head(basic_chargen)
    /\ cursor' = NoStep
    /\ input' = NoInput
    /\ session' = NewSession
    /\ sheet' = NewSheet
    /\ history' = NewHistory

choose(answer) ==
    /\ ~session.finished
    /\ cursor = "choose_career" /\ answer # "finish" =>
           Len(sheet.careers_served) + 1 < MaxCareers
    /\ resume(answer)
    /\ UNCHANGED kept

generate_characteristics ==
    /\ at("generate_characteristics")
    /\ advance("")
    /\ UNCHANGED kept

\* A primitive's `pending` with its choices, which accept() puts on display.
ask(choices) ==
    /\ pending
    /\ session' = [session EXCEPT !.choices = choices]

\* find_choice knows no such answer.
not_an_option ==
    /\ input # NoInput
    /\ find_choice(input) = {}
    /\ failed
    /\ UNCHANGED kept

-----------------------------------------------------------------------------
\* Entering a career

offered_careers ==
    LET open == {i \in DOMAIN Careers :
                    Careers[i] = Drifter \/ Careers[i] \notin Range(sheet.careers_served)}
    IN  {choice(Keys[Cardinality({j \in open : j <= i})], Careers[i]) : i \in open}

may_finish ==
    IF sheet.careers_served = <<>> THEN {} ELSE {choice("finish", NoCareer)}

\* What enter_career() makes of the session and of the sheet.
enter_career ==
    [session |-> [session EXCEPT !.benefit_rolls_owed = 0, !.cash_rolls_left = 0],
     sheet |-> [sheet EXCEPT !.rank = 0, !.terms_in_career = 0]]

\* A career is set, listed and entered, and the choices go off the table.
take_career(career) ==
    /\ session' = [enter_career.session EXCEPT !.career = career, !.choices = {}]
    /\ sheet' = [enter_career.sheet EXCEPT !.careers_served = Append(@, career)]

\* The career takes the character in.
Admitted == [history EXCEPT !.entered = @ + 1, !.entry = sheet.terms_served,
                !.taken = 0, !.cashed = 0, !.lost = FALSE, !.forced = FALSE]

choose_career ==
    \/ /\ entered("choose_career")
       /\ sheet.terms_served >= max_terms
       /\ advance("finish")
       /\ UNCHANGED kept
    \/ /\ entered("choose_career")
       /\ sheet.terms_served < max_terms
       /\ ask(offered_careers \cup may_finish)
       /\ UNCHANGED <<sheet, history>>
    \/ /\ answered("choose_career")
       /\ not_an_option
    \/ /\ answered("choose_career")
       /\ \E c \in find_choice(input) :
            IF c.key = "finish"
            THEN /\ advance("finish")
                 /\ session' = [session EXCEPT !.choices = {}]
                 /\ UNCHANGED sheet
            ELSE /\ advance("")
                 /\ take_career(c.subject)
       /\ UNCHANGED history

\* Mutant: the career that refused stays listed.
turned_away_without_pop ==
    /\ session' = [session EXCEPT !.career = NoCareer]
    /\ UNCHANGED sheet

turned_away ==
    /\ session' = [session EXCEPT !.career = NoCareer]
    /\ sheet' = [sheet EXCEPT !.careers_served = SubSeq(@, 1, Len(@) - 1)]

\* A survivor of a crisis is turned away with no throw, and stays listed.
roll_qualification ==
    /\ at("roll_qualification")
    /\ \/ /\ sheet.qualification_barred
          /\ advance("failed")
          /\ UNCHANGED kept
       \/ /\ ~sheet.qualification_barred
          /\ advance("passed")
          /\ history' = Admitted
          /\ UNCHANGED <<session, sheet>>
       \/ /\ ~sheet.qualification_barred
          /\ advance("failed")
          /\ turned_away
          /\ UNCHANGED history

draft_or_drifter ==
    \/ /\ entered("draft_or_drifter")
       /\ ask({choice("1", Drifter), choice("2", NoCareer)})
       /\ UNCHANGED <<sheet, history>>
    \/ /\ answered("draft_or_drifter")
       /\ not_an_option
    \/ /\ answered("draft_or_drifter")
       /\ \E c \in find_choice(input) :
            \E career \in IF c.key = "2" THEN Drafts ELSE {Drifter} : take_career(career)
       /\ advance("took_it")
       /\ history' = Admitted

\* The first career teaches its whole service table, a later one a skill.
basic_training ==
    \/ /\ entered("basic_training")
       /\ Len(sheet.careers_served) <= 1
       /\ advance("")
       /\ UNCHANGED kept
    \/ /\ entered("basic_training")
       /\ Len(sheet.careers_served) > 1
       /\ ask({choice("1", "skill")})
       /\ UNCHANGED <<sheet, history>>
    \/ /\ answered("basic_training")
       /\ not_an_option
    \/ /\ answered("basic_training")
       /\ find_choice(input) # {}
       /\ advance("")
       /\ session' = [session EXCEPT !.choices = {}]
       /\ UNCHANGED <<sheet, history>>

grant_rank_zero ==
    /\ at("grant_rank_zero")
    /\ advance("")
    /\ UNCHANGED kept

-----------------------------------------------------------------------------
\* A term

roll_survival ==
    /\ at("roll_survival")
    /\ \/ /\ advance("passed")
          /\ history' = [history EXCEPT !.rank = sheet.rank, !.trained = 0]
       \/ /\ advance("failed")
          /\ history' = [history EXCEPT !.mishaps = 0, !.unanswered = 0]
    /\ UNCHANGED <<session, sheet>>

\* Commission takes a rank 0 character, advancement the others.
roll_promotion(step, eligible) ==
    \/ /\ at(step)
       /\ session.career \in Ladderless
       /\ advance("")
       /\ session' = [session EXCEPT !.training_rolls_owed =
                         IF step = "roll_commission" THEN @ + 1 ELSE @]
       /\ UNCHANGED <<sheet, history>>
    \/ /\ at(step)
       /\ session.career \notin Ladderless
       /\ ~eligible \/ sheet.rank = TopRank
       /\ advance("")
       /\ UNCHANGED kept
    \/ /\ entered(step)
       /\ session.career \notin Ladderless
       /\ eligible /\ sheet.rank < TopRank
       /\ ask({choice("1", "try"), choice("2", "decline")})
       /\ UNCHANGED <<sheet, history>>
    \/ /\ answered(step)
       /\ session.career \notin Ladderless
       /\ eligible /\ sheet.rank < TopRank
       /\ \/ not_an_option
          \/ \E c \in find_choice(input), thrown \in BOOLEAN :
               /\ advance("")
               /\ IF c.key = "1" /\ thrown
                  THEN /\ session' = [session EXCEPT !.choices = {},
                                         !.training_rolls_owed = @ + 1]
                       /\ sheet' = [sheet EXCEPT !.rank = @ + 1]
                  ELSE /\ session' = [session EXCEPT !.choices = {}]
                       /\ UNCHANGED sheet
               /\ UNCHANGED history

roll_commission == roll_promotion("roll_commission", sheet.rank = 0)
roll_advancement == roll_promotion("roll_advancement", sheet.rank >= 1)

training_tables == {choice("1", "table")}

\* Mutant: the term's own roll is granted only when nothing else is owed.
enter_training_if_none_owed ==
    /\ pending
    /\ session' = [session EXCEPT !.training_rolls_owed = IF @ = 0 THEN 1 ELSE @,
                      !.choices = training_tables]
    /\ UNCHANGED <<sheet, history>>

\* The term's own roll comes on top of what a promotion or the lack of a
\* ladder has earned.
enter_training ==
    /\ pending
    /\ session' = [session EXCEPT !.training_rolls_owed = @ + 1,
                      !.choices = training_tables]
    /\ UNCHANGED <<sheet, history>>

roll_training ==
    \/ /\ entered("roll_training")
       /\ enter_training
    \/ /\ answered("roll_training")
       /\ not_an_option
    \/ /\ answered("roll_training")
       /\ find_choice(input) # {}
       /\ LET owed == session.training_rolls_owed - 1
          IN  /\ IF owed > 0 THEN pending ELSE advance("")
              /\ session' = [session EXCEPT !.training_rolls_owed = owed,
                                !.choices = IF owed > 0 THEN training_tables ELSE {}]
       /\ history' = [history EXCEPT !.trained = @ + 1]
       /\ UNCHANGED sheet

\* The step declares an outcome, four more years, which its wrapper applies.
advance_term ==
    /\ at("advance_term")
    /\ advance("")
    /\ sheet' = [sheet EXCEPT !.age = Min({@ + 2, aging_start_age}),
                    !.terms_served = @ + 1, !.terms_in_career = @ + 1]
    /\ UNCHANGED <<session, history>>

roll_reenlistment ==
    /\ at("roll_reenlistment")
    /\ \/ /\ sheet.terms_served < max_terms + MaxForced
          /\ advance("forced")
          /\ history' = [history EXCEPT !.forced = TRUE]
       \/ /\ \E label \in {"must_leave", "may_choose"} : advance(label)
          /\ UNCHANGED history
    /\ UNCHANGED <<session, sheet>>

\* Mutant: the end of a term asks, whatever the number of terms.
choose_term_end_uncapped ==
    \/ /\ entered("choose_term_end")
       /\ ask({choice("1", "serve"), choice("2", "leave")})
       /\ UNCHANGED <<sheet, history>>
    \/ /\ answered("choose_term_end")
       /\ \/ not_an_option
          \/ /\ \E c \in find_choice(input) :
                  /\ advance(IF c.key = "1" THEN "continue" ELSE "muster_out")
                  /\ history' = [history EXCEPT !.forced = FALSE]
             /\ session' = [session EXCEPT !.choices = {}]
             /\ UNCHANGED sheet

choose_term_end ==
    \/ /\ entered("choose_term_end")
       /\ sheet.terms_served >= max_terms
       /\ advance("muster_out")
       /\ UNCHANGED kept
    \/ /\ entered("choose_term_end")
       /\ sheet.terms_served < max_terms
       /\ ask({choice("1", "serve"), choice("2", "leave")})
       /\ UNCHANGED <<sheet, history>>
    \/ /\ answered("choose_term_end")
       /\ not_an_option
    \/ /\ answered("choose_term_end")
       /\ \E c \in find_choice(input) :
            /\ advance(IF c.key = "1" THEN "continue" ELSE "muster_out")
            /\ history' = [history EXCEPT !.forced = FALSE]
       /\ session' = [session EXCEPT !.choices = {}]
       /\ UNCHANGED sheet

-----------------------------------------------------------------------------
\* Mutant: the care is offered to anybody.
crisis_choices_for_all(price) == {choice("1", "pay"), choice("2", "refuse")}

\* A characteristic at 0

\* The care is priced before the question; who cannot pay is offered refusal only.
crisis_choices(price) ==
    {choice("2", "refuse")}
        \cup IF sheet.credits >= price THEN {choice("1", "pay")} ELSE {}

begin_crisis(fields) ==
    \E price \in Prices :
        /\ pending
        /\ session' = [fields EXCEPT !.crisis_open = TRUE, !.crisis_price = price,
                          !.choices = crisis_choices(price)]

\* Any answer but "1" refuses; "1" pays what there is.
resolve_crisis ==
    /\ session.crisis_open
    /\ session' = [session EXCEPT !.crisis_open = FALSE]
    /\ \/ /\ input = "1"
          /\ advance("")
          /\ sheet' = [sheet EXCEPT !.credits = @ - Min({@, session.crisis_price}),
                          !.ruined = FALSE, !.qualification_barred = TRUE]
       \/ /\ input # "1"
          /\ advance("died")
          /\ UNCHANGED sheet
    /\ UNCHANGED history

\* Mutant: the characteristics are asked before the loss is read back.
unless_ruined_before(fields) ==
    IF sheet.ruined THEN begin_crisis(fields) ELSE advance("") /\ session' = fields

\* The end of a step that may have reduced a characteristic to 0; `fields` is
\* the session as the step has left it.
unless_ruined(fields) ==
    IF sheet'.ruined THEN begin_crisis(fields) ELSE advance("") /\ session' = fields

\* The referee says which characteristics the years take, or does not answer.
age ==
    /\ at("roll_aging")
    /\ ~session.crisis_open
    /\ sheet.age >= aging_start_age
    /\ \/ failed /\ UNCHANGED kept
       \/ /\ \E toll \in BOOLEAN : sheet' = [sheet EXCEPT !.ruined = @ \/ toll]
          /\ unless_ruined(session)
          /\ UNCHANGED history

roll_aging ==
    \/ answered("roll_aging") /\ resolve_crisis
    \/ /\ at("roll_aging")
       /\ ~session.crisis_open
       /\ sheet.age < aging_start_age
       /\ advance("")
       /\ UNCHANGED kept
    \/ age

\* The rows of the Survival Mishaps table: the half-terms they cost, whether the
\* benefits go too, and an injury of the row's own or a roll for one.
Mishaps ==
    {[halves |-> 1, forfeits |-> FALSE, injury |-> i] : i \in {"none", "own", "rolled"}}
        \cup {[halves |-> h, forfeits |-> TRUE, injury |-> "none"] : h \in {1, 2}}

suffer(row, toll, unanswered) ==
    /\ sheet' = [sheet EXCEPT !.age = Min({@ + row.halves, aging_start_age}),
                    !.ruined = @ \/ toll]
    /\ history' = [history EXCEPT !.mishaps = @ + 1, !.lost = @ \/ row.forfeits,
                      !.unanswered = @ + unanswered]

forfeit(row) ==
    [session EXCEPT !.benefits_forfeited = @ \/ row.forfeits]

take_mishap ==
    \E row \in Mishaps :
        \* The row's own question goes unanswered: nothing is applied.
        \/ /\ row.injury # "none"
           /\ failed
           /\ UNCHANGED kept
        \* The row is applied, the injury it sends to the table for is not.
        \/ /\ row.injury = "rolled"
           /\ history.unanswered < MaxUnanswered
           /\ failed
           /\ suffer(row, FALSE, 1)
           /\ session' = forfeit(row)
        \/ \E toll \in IF row.injury = "none" THEN {FALSE} ELSE BOOLEAN :
             /\ suffer(row, toll, 0)
             /\ unless_ruined(forfeit(row))

\* Mutant: an answer to the crisis is read as one to the mishap.
survival_mishap_unrouted ==
    \/ /\ entered("survival_mishap")
       /\ ask({choice("1", "mishap"), choice("2", "die")})
       /\ UNCHANGED <<sheet, history>>
    \/ /\ answered("survival_mishap")
       /\ IF input = "1" THEN take_mishap ELSE advance("died") /\ UNCHANGED kept

\* The step asks two questions: an answer goes to the crisis when one is open.
\* Any answer but "1" lets the character die.
survival_mishap ==
    \/ answered("survival_mishap") /\ resolve_crisis
    \/ /\ entered("survival_mishap")
       /\ ask({choice("1", "mishap"), choice("2", "die")})
       /\ UNCHANGED <<sheet, history>>
    \/ /\ answered("survival_mishap")
       /\ ~session.crisis_open
       /\ input # "1"
       /\ advance("died")
       /\ UNCHANGED kept
    \/ /\ answered("survival_mishap")
       /\ ~session.crisis_open
       /\ input = "1"
       /\ take_mishap

-----------------------------------------------------------------------------
\* Mutant: every term of the life pays, in each career.
rolls_due_of_the_life ==
    IF session.benefit_rolls_owed = 0
    THEN sheet.terms_served + ExtraBenefits[sheet.rank]
    ELSE session.benefit_rolls_owed

\* The end of a career and of a life

\* Worked out when nothing is owed yet; 0 stands for that.
rolls_due ==
    IF session.benefit_rolls_owed = 0
    THEN sheet.terms_in_career + ExtraBenefits[sheet.rank]
    ELSE session.benefit_rolls_owed

cash_left ==
    IF session.benefit_rolls_owed = 0 THEN cash_benefit_roll_max ELSE session.cash_rolls_left

\* Mutant: cash stays on offer when its rolls are used up.
benefit_tables_uncapped(cash) == {choice("1", "cash"), choice("2", "goods")}

benefit_tables(cash) ==
    {choice("2", "goods")} \cup IF cash > 0 THEN {choice("1", "cash")} ELSE {}

benefit_roll(table) ==
    LET owed == rolls_due - 1
        cash == IF table = "cash" THEN cash_left - 1 ELSE cash_left
    IN  /\ session' = [session EXCEPT !.benefit_rolls_owed = owed, !.cash_rolls_left = cash,
                          !.choices = IF owed > 0 THEN benefit_tables(cash) ELSE {}]
        /\ IF owed > 0 THEN pending ELSE advance("continue")
        /\ sheet' = [sheet EXCEPT !.credits =
                        IF table = "cash" THEN Min({@ + 1, MaxCredits}) ELSE @]
        /\ history' = [history EXCEPT !.taken = @ + 1,
                          !.cashed = IF table = "cash" THEN @ + 1 ELSE @]

muster_out ==
    \/ /\ at("muster_out")
       /\ session.benefits_forfeited
       /\ advance("continue")
       /\ session' = [session EXCEPT !.benefits_forfeited = FALSE]
       /\ UNCHANGED <<sheet, history>>
    \/ /\ at("muster_out")
       /\ ~session.benefits_forfeited
       /\ rolls_due = 0
       /\ advance("continue")
       /\ session' = [session EXCEPT !.cash_rolls_left = cash_left]
       /\ UNCHANGED <<sheet, history>>
    \/ /\ entered("muster_out")
       /\ ~session.benefits_forfeited
       /\ rolls_due > 0
       /\ pending
       /\ session' = [session EXCEPT !.benefit_rolls_owed = rolls_due,
                         !.cash_rolls_left = cash_left, !.choices = benefit_tables(cash_left)]
       /\ UNCHANGED <<sheet, history>>
    \/ /\ answered("muster_out")
       /\ ~session.benefits_forfeited
       /\ rolls_due > 0
       /\ \/ not_an_option
          \/ \E c \in find_choice(input) : benefit_roll(c.subject)

finish_character ==
    /\ at("finish_character")
    /\ complete
    /\ session' = [session EXCEPT !.finished = TRUE, !.choices = {}]
    /\ UNCHANGED <<sheet, history>>

Next ==
    \/ start_life
    \/ \E answer \in Answers : choose(answer)
    \/ generate_characteristics
    \/ choose_career
    \/ roll_qualification
    \/ draft_or_drifter
    \/ basic_training
    \/ grant_rank_zero
    \/ roll_survival
    \/ roll_commission
    \/ roll_advancement
    \/ roll_training
    \/ advance_term
    \/ roll_aging
    \/ roll_reenlistment
    \/ choose_term_end
    \/ survival_mishap
    \/ muster_out
    \/ finish_character

Spec == Init /\ [][Next]_vars

-----------------------------------------------------------------------------
\* Properties

\* The state's shape, the purse and the rolls in cash within their limits.  Nothing
\* is said here of what is on display: the steps that ask determine it.
TypeOK ==
    /\ RunnerTypeOK
    /\ input \in Answers \cup {NoInput}
    /\ session \in [choices : {session.choices}, finished : BOOLEAN,
                    career : Range(Careers) \cup {NoCareer},
                    training_rolls_owed : Nat, benefit_rolls_owed : Nat,
                    cash_rolls_left : 0 .. cash_benefit_roll_max,
                    crisis_open : BOOLEAN, crisis_price : Prices \cup {0},
                    benefits_forfeited : BOOLEAN]
    /\ sheet \in [careers_served : Seq(Range(Careers)), rank : 0 .. TopRank,
                  terms_in_career : Nat, terms_served : Nat, age : 0 .. aging_start_age,
                  credits : 0 .. MaxCredits, ruined : BOOLEAN,
                  qualification_barred : BOOLEAN]
    /\ history \in [entered : Nat, entry : Nat, rank : 0 .. TopRank, trained : Nat,
                    forced : BOOLEAN, taken : Nat, cashed : Nat, lost : BOOLEAN,
                    mishaps : Nat, unanswered : Nat]

\* A term teaches one training roll, one more for every rank climbed in it, one
\* more where there is no ladder; none is lost, replaced or carried into the
\* next term (roll_training's comment on promotions that replaced the term's roll).
TrainingIsExact ==
    [][sheet'.terms_served > sheet.terms_served =>
          history.trained = 1 + (sheet.rank - history.rank)
                              + (IF session.career \in Ladderless THEN 1 ELSE 0)]_vars

\* Who leaves a career takes one benefit roll per full term served in it and those
\* of the rank, in cash only so many; a mishap that forfeits leaves none.  The
\* counter's 0 means both "none left" and "not worked out yet".
BenefitsAreExact ==
    [][(current = "muster_out" /\ current' = "choose_career") =>
          /\ history'.taken = IF history.lost THEN 0
                              ELSE sheet.terms_served - history.entry + ExtraBenefits[sheet.rank]
          /\ history'.cashed <= cash_benefit_roll_max]_vars

\* No term begins beyond the book's limit but by a natural 12, in whichever career
\* and however it was left.
TermsCapped == sheet.terms_served > max_terms => history.forced

\* "For your first term in your first career, you get every skill": the whole
\* table is taught exactly once in a life, on entering the first career that takes
\* the character, although the code goes by the length of a list that refusals
\* and the Draft also write.
FullTrainingOnce ==
    [][(current = "basic_training" /\ input = NoInput) =>
          (current' # NoStep <=> history.entered = 1)]_vars

\* Nobody goes on with a characteristic at 0: while a life waits for an answer with
\* one, the answer it waits for is the crisis's, and who ends with one has died.
NobodyWalksAtZero ==
    (current = NoStep /\ sheet.ruined) => session.crisis_open \/ session.finished

\* A failed survival throw costs one mishap; a further one is suffered only for
\* an injury the referee left undecided, whose question is asked over ("a second
\* mishap was rolled, two more years added", survival_mishap).
OneMishapEach == history.mishaps <= 1 + history.unanswered

\* Who takes the care on offer pays the price that was quoted, in full.
CareIsPaidInFull ==
    [][(sheet.ruined /\ ~sheet'.ruined /\ find_choice(input) # {}) =>
          sheet'.credits = sheet.credits - session.crisis_price]_vars
=============================================================================
