---------------------- MODULE ChargenSessionProofs ----------------------
(* A life of any length, with any careers, ladders and prices: what it is  *)
(* owed, what it has been given and what is on offer agree at every step.  *)
EXTENDS ChargenSession, SequenceTheorems, TLAPS

-----------------------------------------------------------------------------
\* The invariant

\* A life is at one place: the step the runner is at, or the step whose question
\* is open.  It is over, or stuck, when it waits with nothing on offer.
asked == current = NoStep \/ input # NoInput

where ==
    IF asked /\ session.choices = {} THEN NoStep
    ELSE IF current = NoStep THEN cursor ELSE current

\* Steps within a career, before the first term of one, and within a term.
Enlisted ==
    {"basic_training", "grant_rank_zero", "roll_survival", "roll_commission",
     "roll_advancement", "roll_training", "advance_term", "roll_aging",
     "roll_reenlistment", "choose_term_end", "survival_mishap", "muster_out"}
Beginning == {"roll_qualification", "draft_or_drifter", "basic_training",
              "grant_rank_zero"}
Serving == {"roll_survival", "roll_commission", "roll_advancement", "roll_training",
            "advance_term"}

\* Where the runner is.
Placed ==
    /\ current = NoStep => input = NoInput
    /\ input # NoInput => current = cursor
    /\ session.finished => current = NoStep
    /\ cursor \notin {"advance_term", "finish_character"}
    /\ session.finished => session.choices = {}
    /\ (asked /\ session.choices = {}) => session.finished \/ cursor = "roll_training"
    /\ (current \in {"advance_term", "roll_aging"} /\ input = NoInput) =>
           cursor = "roll_training" /\ session.choices = {}

\* What is on offer is what the open question offered.
Offered ==
    /\ (asked /\ where = "choose_career") =>
           \A c \in session.choices : c.key = "finish" \/ c.subject \in Range(Careers)
    /\ (asked /\ where = "muster_out") =>
           \A c \in session.choices : c.subject = "cash" => session.cash_rolls_left > 0

\* A crisis is the question that is open, and one is open while anybody is ruined.
Crises ==
    /\ session.crisis_open =>
           /\ asked
           /\ where \in {"roll_aging", "survival_mishap"}
           /\ session.crisis_price \in Prices
           /\ session.choices = crisis_choices(session.crisis_price)
    /\ sheet.ruined => session.crisis_open \/ session.finished \/ where = "finish_character"

Ladder == IF session.career \in Ladderless THEN 1 ELSE 0
Climbed == sheet.rank - history.rank

\* Training rolls, taken and owed.
Training ==
    /\ where \notin {"roll_commission", "roll_advancement", "roll_training"} =>
           session.training_rolls_owed = 0
    /\ where = "roll_commission" =>
           session.training_rolls_owed = 0 /\ Climbed = 0 /\ history.trained = 0
    /\ where = "roll_advancement" =>
           session.training_rolls_owed = Climbed + Ladder /\ history.trained = 0
    /\ (where = "roll_training" /\ ~asked) =>
           session.training_rolls_owed = Climbed + Ladder /\ history.trained = 0
    /\ (where = "roll_training" /\ asked) =>
           /\ session.training_rolls_owed > 0
           /\ history.trained + session.training_rolls_owed = 1 + Climbed + Ladder
    /\ where = "advance_term" => history.trained = 1 + Climbed + Ladder

\* Terms served against the book's limit.
Terms ==
    /\ TermsCapped
    /\ (asked /\ where = "choose_career") => sheet.terms_served < max_terms
    /\ (asked /\ where = "choose_term_end") => sheet.terms_served < max_terms
    /\ where \in Beginning => sheet.terms_served < max_terms
    /\ where \in Serving => sheet.terms_served < max_terms \/ history.forced

\* Benefit rolls, taken and owed.
Benefits ==
    /\ session.benefit_rolls_owed > 0 => where = "muster_out" /\ asked
    /\ session.benefits_forfeited =>
           where \in {"survival_mishap", "muster_out", "finish_character", NoStep}
    /\ where = "roll_qualification" => sheet.terms_in_career = 0
    /\ where \in Enlisted =>
           /\ sheet.terms_in_career = sheet.terms_served - history.entry
           /\ (history.lost <=> session.benefits_forfeited)
           /\ (where = "muster_out" /\ asked) \/ (history.taken = 0 /\ history.cashed = 0)
    /\ (where = "muster_out" /\ asked) =>
           /\ ~session.benefits_forfeited
           /\ session.benefit_rolls_owed > 0
           /\ history.taken + session.benefit_rolls_owed =
                  sheet.terms_in_career + ExtraBenefits[sheet.rank]
           /\ history.cashed + session.cash_rolls_left = cash_benefit_roll_max

\* The list of careers against the careers entered.
Careering ==
    /\ Len(sheet.careers_served) >= history.entered
    /\ ~sheet.qualification_barred =>
           Len(sheet.careers_served) =
               history.entered + IF where = "roll_qualification" THEN 1 ELSE 0
    /\ sheet.qualification_barred => history.entered > 0
    /\ where \in Enlisted => history.entered > 0
    /\ (where = "basic_training" /\ sheet.qualification_barred) => history.entered > 1
    /\ where = "roll_qualification" => sheet.careers_served # <<>>

Mishapping ==
    /\ OneMishapEach
    /\ (where = "survival_mishap" /\ asked /\ ~session.crisis_open) =>
           history.mishaps <= history.unanswered
    /\ (where = "survival_mishap" /\ ~asked) => history.mishaps <= history.unanswered

LifeInv ==
    /\ TypeOK
    /\ Placed
    /\ Offered
    /\ Crises
    /\ Training
    /\ Terms
    /\ Benefits
    /\ Careering
    /\ Mishapping

-----------------------------------------------------------------------------
LEMMA StepNames ==
    Range(basic_chargen) =
        {"generate_characteristics", "choose_career", "roll_qualification",
         "basic_training", "grant_rank_zero", "roll_survival", "roll_commission",
         "roll_advancement", "roll_training", "advance_term", "roll_aging",
         "roll_reenlistment", "choose_term_end", "survival_mishap", "muster_out",
         "finish_character", "draft_or_drifter"}
BY DEF basic_chargen, Range

LEMMA RoutedSteps ==
    ASSUME NEW step, NEW label
    PROVE  <<step, label>> \in DOMAIN routes <=> \E next : <<step, label, next>> \in step_routes
<1>1. \A row \in step_routes : row = <<row[1], row[2], row[3]>>
      BY DEF step_routes
<1>2. DOMAIN routes = {<<row[1], row[2]>> : row \in step_routes}
      BY DEF routes
<1>3. ASSUME NEW row \in step_routes, <<step, label>> = <<row[1], row[2]>>
      PROVE  <<step, label, row[3]>> \in step_routes
    <2>1. step = row[1] /\ label = row[2]
          BY <1>3
    <2> QED BY <1>1, <2>1, <1>3
<1>4. ASSUME NEW next, <<step, label, next>> \in step_routes
      PROVE  <<step, label>> \in {<<row[1], row[2]>> : row \in step_routes}
      BY <1>4
<1> QED BY <1>2, <1>3, <1>4

LEMMA Routed ==
    ASSUME NEW step, NEW label, NEW next \in Range(basic_chargen),
           <<step, label, next>> \in step_routes,
           \A other : <<step, label, other>> \in step_routes => other = next
    PROVE  next_step(step, label) = next
<1>1. <<step, label>> \in DOMAIN routes
      BY RoutedSteps
<1> DEFINE pair == <<step, label>>
<1>2. routes[pair] = CHOOSE n \in Range(basic_chargen) : <<pair[1], pair[2], n>> \in step_routes
      BY <1>1 DEF routes
<1>3. pair[1] = step /\ pair[2] = label
      OBVIOUS
<1>4. routes[pair] = CHOOSE n \in Range(basic_chargen) : <<step, label, n>> \in step_routes
      BY <1>2, <1>3
<1>5. routes[pair] = next
      BY <1>4
<1> QED BY <1>1, <1>5 DEF next_step

Follows(step, next) ==
    \E i \in 1 .. 16 : basic_chargen[i] = step /\ basic_chargen[i + 1] = next

\* A label without a route falls through.
LEMMA Unrouted ==
    ASSUME NEW step, NEW label, NEW next, Follows(step, next),
           \A other : <<step, label, other>> \notin step_routes
    PROVE  next_step(step, label) = next
<1> PICK i \in 1 .. 16 : basic_chargen[i] = step /\ basic_chargen[i + 1] = next
    BY DEF Follows
<1>1. <<step, label>> \notin DOMAIN routes
      BY RoutedSteps
<1>2. DOMAIN basic_chargen = 1 .. 17
      BY DEF basic_chargen
<1>3. \A k \in 1 .. 17 : basic_chargen[k] = step => k = i
      BY DEF basic_chargen
<1>4. (CHOOSE k \in DOMAIN basic_chargen : basic_chargen[k] = step) = i
      BY <1>2, <1>3
<1> QED BY <1>1, <1>4 DEF next_step

\* Where the primitives' labels lead.
LEMMA NextSteps ==
    /\ next_step("generate_characteristics", "") = "choose_career"
    /\ next_step("choose_career", "finish") = "finish_character"
    /\ next_step("choose_career", "") = "roll_qualification"
    /\ next_step("roll_qualification", "failed") = "draft_or_drifter"
    /\ next_step("roll_qualification", "passed") = "basic_training"
    /\ next_step("draft_or_drifter", "took_it") = "basic_training"
    /\ next_step("basic_training", "") = "grant_rank_zero"
    /\ next_step("grant_rank_zero", "") = "roll_survival"
    /\ next_step("roll_survival", "passed") = "roll_commission"
    /\ next_step("roll_survival", "failed") = "survival_mishap"
    /\ next_step("roll_commission", "") = "roll_advancement"
    /\ next_step("roll_advancement", "") = "roll_training"
    /\ next_step("roll_training", "") = "advance_term"
    /\ next_step("advance_term", "") = "roll_aging"
    /\ next_step("roll_aging", "") = "roll_reenlistment"
    /\ next_step("roll_aging", "died") = "finish_character"
    /\ next_step("roll_reenlistment", "forced") = "roll_survival"
    /\ next_step("roll_reenlistment", "must_leave") = "muster_out"
    /\ next_step("roll_reenlistment", "may_choose") = "choose_term_end"
    /\ next_step("choose_term_end", "continue") = "roll_survival"
    /\ next_step("choose_term_end", "muster_out") = "muster_out"
    /\ next_step("survival_mishap", "") = "muster_out"
    /\ next_step("survival_mishap", "died") = "finish_character"
    /\ next_step("muster_out", "continue") = "choose_career"
<1>1. \A other : /\ \A step : <<step, "", other>> \notin step_routes
                  /\ <<"roll_qualification", "passed", other>> \notin step_routes
                  /\ <<"roll_survival", "passed", other>> \notin step_routes
      BY DEF step_routes
<1>2. /\ Follows("generate_characteristics", "choose_career")
      /\ Follows("choose_career", "roll_qualification")
      /\ Follows("roll_qualification", "basic_training")
      /\ Follows("basic_training", "grant_rank_zero")
      /\ Follows("grant_rank_zero", "roll_survival")
      /\ Follows("roll_survival", "roll_commission")
      /\ Follows("roll_commission", "roll_advancement")
      /\ Follows("roll_advancement", "roll_training")
      /\ Follows("roll_training", "advance_term")
      /\ Follows("advance_term", "roll_aging")
      /\ Follows("roll_aging", "roll_reenlistment")
      /\ Follows("survival_mishap", "muster_out")
      BY DEF Follows, basic_chargen
<1>3. /\ next_step("generate_characteristics", "") = "choose_career"
      /\ next_step("choose_career", "") = "roll_qualification"
      /\ next_step("roll_qualification", "passed") = "basic_training"
      /\ next_step("basic_training", "") = "grant_rank_zero"
      /\ next_step("grant_rank_zero", "") = "roll_survival"
      /\ next_step("roll_survival", "passed") = "roll_commission"
      /\ next_step("roll_commission", "") = "roll_advancement"
      /\ next_step("roll_advancement", "") = "roll_training"
      /\ next_step("roll_training", "") = "advance_term"
      /\ next_step("advance_term", "") = "roll_aging"
      /\ next_step("roll_aging", "") = "roll_reenlistment"
      /\ next_step("survival_mishap", "") = "muster_out"
      BY <1>1, <1>2, Unrouted
<1>4. /\ next_step("choose_career", "finish") = "finish_character"
      /\ next_step("roll_qualification", "failed") = "draft_or_drifter"
      /\ next_step("draft_or_drifter", "took_it") = "basic_training"
      /\ next_step("roll_survival", "failed") = "survival_mishap"
      /\ next_step("roll_aging", "died") = "finish_character"
      /\ next_step("roll_reenlistment", "forced") = "roll_survival"
      /\ next_step("roll_reenlistment", "must_leave") = "muster_out"
      /\ next_step("roll_reenlistment", "may_choose") = "choose_term_end"
      /\ next_step("choose_term_end", "continue") = "roll_survival"
      /\ next_step("choose_term_end", "muster_out") = "muster_out"
      /\ next_step("survival_mishap", "died") = "finish_character"
      /\ next_step("muster_out", "continue") = "choose_career"
      BY Routed, StepNames DEF step_routes
<1> QED BY <1>3, <1>4

LEMMA NoneNames ==
    /\ NoStep \notin Range(basic_chargen)
    /\ NoInput \notin Answers
BY NoneAssumption

-----------------------------------------------------------------------------
\* Moves from step to step.

\* The step the runner is at.
LEMMA AtStep ==
    ASSUME LifeInv, NEW step \in Range(basic_chargen), current = step
    PROVE  /\ ~session.finished
           /\ input = NoInput => where = step /\ ~asked
           /\ input # NoInput =>
                  /\ asked /\ cursor = step
                  /\ session.choices # {} => where = step
                  /\ session.choices = {} => where = NoStep /\ step = "roll_training"
BY NoneNames DEF LifeInv, Placed, asked, where

LEMMA Advanced ==
    ASSUME LifeInv, NEW label, advance(label), NEW step \in Range(basic_chargen),
           next_step(current, label) = step
    PROVE  /\ current' = step /\ input' = NoInput /\ cursor' = cursor
           /\ where' = step /\ ~asked'
BY NoneNames DEF advance, asked, where

LEMMA Paused ==
    ASSUME pending, session.choices' # {}
    PROVE  /\ current' = NoStep /\ input' = NoInput /\ cursor' = current
           /\ where' = current /\ asked'
BY DEF pending, asked, where

Sessions == [choices : {session.choices}, finished : BOOLEAN,
             career : Range(Careers) \cup {NoCareer},
             training_rolls_owed : Nat, benefit_rolls_owed : Nat,
             cash_rolls_left : 0 .. cash_benefit_roll_max,
             crisis_open : BOOLEAN, crisis_price : Prices \cup {0},
             benefits_forfeited : BOOLEAN]
Sheets == [careers_served : Seq(Range(Careers)), rank : 0 .. TopRank,
           terms_in_career : Nat, terms_served : Nat, age : 0 .. aging_start_age,
           credits : 0 .. MaxCredits, ruined : BOOLEAN,
           qualification_barred : BOOLEAN]
Histories == [entered : Nat, entry : Nat, rank : 0 .. TopRank, trained : Nat,
              forced : BOOLEAN, taken : Nat, cashed : Nat, lost : BOOLEAN,
              mishaps : Nat, unanswered : Nat]

LEMMA Typed ==
    TypeOK <=> /\ RunnerTypeOK
               /\ input \in Answers \cup {NoInput}
               /\ session \in Sessions
               /\ sheet \in Sheets
               /\ history \in Histories
BY DEF TypeOK, Sessions, Sheets, Histories

LEMMA TypedNext ==
    TypeOK' <=> /\ RunnerTypeOK'
                /\ input' \in Answers \cup {NoInput}
                /\ session' \in Sessions'
                /\ sheet' \in Sheets
                /\ history' \in Histories
BY DEF TypeOK, Sessions, Sheets, Histories

Same(r, s, changed) == \A f \in DOMAIN r \ changed : s[f] = r[f]

\* Steps that only go on: from where to where.
GoesOn ==
    {<<"generate_characteristics", "choose_career">>, <<"choose_career", "finish_character">>,
     <<"basic_training", "grant_rank_zero">>, <<"grant_rank_zero", "roll_survival">>,
     <<"roll_commission", "roll_advancement">>, <<"roll_advancement", "roll_training">>,
     <<"roll_aging", "roll_reenlistment">>, <<"roll_reenlistment", "muster_out">>,
     <<"roll_reenlistment", "choose_term_end">>, <<"choose_term_end", "muster_out">>,
     <<"survival_mishap", "finish_character">>}

\* A step that changes nothing, but that it may take the choices off the table.
LEMMA QuietStep ==
    ASSUME LifeInv, ~session.crisis_open, ~session.finished,
           session' \in Sessions', Same(session, session', {"choices"}),
           UNCHANGED <<sheet, history>>,
           NEW step, <<where, step>> \in GoesOn,
           where = "roll_commission" => session.career \notin Ladderless,
           current' = step, input' = NoInput, cursor' = cursor, where' = step, ~asked'
    PROVE  LifeInv'
<1>1. /\ RunnerTypeOK /\ session \in Sessions /\ sheet \in Sheets /\ history \in Histories
      /\ step \in Range(basic_chargen)
      BY Typed, StepNames DEF LifeInv, GoesOn
<1> USE DEF LifeInv
<1>2. TypeOK'
      BY <1>1, Typed, TypedNext DEF RunnerTypeOK
<1>3. Placed'
      BY <1>1, NoneNames, StepNames DEF Placed, Same, Sessions, GoesOn
<1>4. Offered' /\ Crises'
      BY <1>1, NoneNames, StepNames DEF Offered, Crises, Same, Sessions, GoesOn
<1>5. Training'
    <2>1. /\ Ladder' = Ladder /\ Climbed' = Climbed
          /\ session'.training_rolls_owed = session.training_rolls_owed
          BY <1>1 DEF Ladder, Climbed, Same, Sessions
    <2>2. /\ Climbed \in Int
          /\ where = "roll_commission" => Ladder = 0
          BY <1>1 DEF Ladder, Climbed, Sheets, Histories
    <2> QED BY <2>1, <2>2 DEF Training, GoesOn
<1>6. Terms'
      BY <1>1 DEF Terms, TermsCapped, Beginning, Serving, GoesOn
<1>7. Benefits'
      BY <1>1, NoneNames, StepNames DEF Benefits, Enlisted, Same, Sessions, GoesOn
<1>8. Careering'
      BY <1>1 DEF Careering, Enlisted, GoesOn
<1>9. Mishapping'
      BY <1>1 DEF Mishapping, OneMishapEach, GoesOn
<1> QED BY <1>2, <1>3, <1>4, <1>5, <1>6, <1>7, <1>8, <1>9

\* A step asks its question.
LEMMA AskStep ==
    ASSUME LifeInv, NEW step \in Range(basic_chargen), entered(step),
           step \in {"choose_career", "draft_or_drifter", "basic_training", "roll_commission",
                     "roll_advancement", "choose_term_end", "survival_mishap"},
           NEW choices, choices # {}, ask(choices), UNCHANGED <<sheet, history>>,
           step = "choose_career" =>
               /\ sheet.terms_served < max_terms
               /\ \A c \in choices : c.key = "finish" \/ c.subject \in Range(Careers),
           step = "choose_term_end" => sheet.terms_served < max_terms
    PROVE  LifeInv'
<1>1. /\ RunnerTypeOK /\ session \in Sessions /\ sheet \in Sheets /\ history \in Histories
      BY Typed DEF LifeInv
<1>2. /\ current = step /\ where = step /\ ~asked /\ ~session.finished
      BY AtStep DEF entered
<1>3. /\ session' \in Sessions' /\ Same(session, session', {"choices"})
      /\ session'.choices = choices
      BY <1>1 DEF ask, Sessions, Same
<1>4. /\ current' = NoStep /\ input' = NoInput /\ cursor' = step
      /\ where' = step /\ asked'
      BY <1>2, <1>3, Paused DEF ask
<1> USE DEF LifeInv
<1>5. TypeOK'
      BY <1>1, <1>3, <1>4, Typed, TypedNext DEF RunnerTypeOK
<1>6. Placed'
      BY <1>1, <1>2, <1>3, <1>4, NoneNames, StepNames DEF Placed, Same, Sessions
<1>7. Offered' /\ Crises'
      BY <1>1, <1>2, <1>3, <1>4, NoneNames, StepNames DEF Offered, Crises, Same, Sessions
<1>8. Training'
      BY <1>1, <1>2, <1>3, <1>4 DEF Training, Ladder, Climbed, Same, Sessions, Sheets, Histories
<1>9. Terms'
      BY <1>1, <1>2, <1>3, <1>4 DEF Terms, TermsCapped, Beginning, Serving
<1>10. Benefits'
      BY <1>1, <1>2, <1>3, <1>4, NoneNames, StepNames DEF Benefits, Enlisted, Same, Sessions
<1>11. Careering'
      BY <1>1, <1>2, <1>3, <1>4 DEF Careering, Enlisted
<1>12. Mishapping'
      BY <1>1, <1>2, <1>3, <1>4 DEF Mishapping, OneMishapEach
<1> QED BY <1>5, <1>6, <1>7, <1>8, <1>9, <1>10, <1>11, <1>12

\* A step leaves its question open, or it is answered: nothing moves.
LEMMA StillOpen ==
    ASSUME LifeInv, UNCHANGED kept, UNCHANGED <<cursor, where>>, asked, asked',
           RunnerTypeOK', input' \in Answers \cup {NoInput},
           current' = NoStep => input' = NoInput,
           input' # NoInput => current' = cursor,
           ~session.finished
    PROVE  LifeInv'
<1>1. /\ session \in Sessions /\ sheet \in Sheets /\ history \in Histories
      BY Typed DEF LifeInv
<1>2. session' \in Sessions'
      BY <1>1 DEF kept, Sessions
<1>3. /\ session' = session /\ sheet' = sheet /\ history' = history
      BY DEF kept
<1> USE DEF LifeInv
<1>4. TypeOK'
      BY <1>1, <1>2, <1>3, TypedNext
<1>5. Placed'
      BY <1>3, NoneNames, StepNames DEF Placed, asked
<1>6. Offered' /\ Crises'
      BY <1>3 DEF Offered, Crises, crisis_choices, choice
<1>7. Training' /\ Terms' /\ Mishapping'
      BY <1>3 DEF Training, Ladder, Climbed, Terms, TermsCapped, Mishapping, OneMishapEach
<1>8. Benefits' /\ Careering'
      BY <1>3 DEF Benefits, Careering
<1> QED BY <1>4, <1>5, <1>6, <1>7, <1>8

LEMMA NotAnOption ==
    ASSUME LifeInv, NEW step \in Range(basic_chargen), answered(step), not_an_option
    PROVE  LifeInv'
<1>1. current = step /\ input # NoInput /\ cursor = step /\ asked /\ ~session.finished
      BY AtStep DEF answered
<1>2. current' = NoStep /\ input' = NoInput /\ cursor' = cursor /\ session' = session
      BY DEF not_an_option, failed, kept
<1>3. asked' /\ where' = where
      BY <1>1, <1>2, NoneNames DEF asked, where
<1>4. UNCHANGED kept
      BY DEF not_an_option
<1>5. RunnerTypeOK'
      BY <1>1, <1>2 DEF RunnerTypeOK
<1> QED BY <1>1, <1>2, <1>3, <1>4, <1>5, StillOpen

LEMMA ChooseInv ==
    ASSUME LifeInv, NEW answer \in Answers, choose(answer)
    PROVE  LifeInv'
<1>1. /\ current = NoStep /\ cursor # NoStep /\ current' = cursor /\ input' = answer
      /\ cursor' = cursor /\ session' = session /\ ~session.finished
      BY DEF choose, resume, kept
<1>2. asked /\ asked' /\ where' = where /\ input' # NoInput
      BY <1>1, NoneNames DEF asked, where
<1>3. UNCHANGED kept
      BY DEF choose
<1>4. RunnerTypeOK'
      BY <1>1 DEF RunnerTypeOK, LifeInv, TypeOK
<1> QED BY <1>1, <1>2, <1>3, <1>4, StillOpen

\* A primitive whose step has been entered or answered, and what advancing does.
LEMMA GoOn ==
    ASSUME LifeInv, NEW step \in Range(basic_chargen), current = step,
           session.choices # {} \/ step # "roll_training",
           NEW label, advance(label), NEW to, <<step, to>> \in GoesOn,
           next_step(step, label) = to,
           ~session.crisis_open,
           session' \in Sessions', Same(session, session', {"choices"}),
           UNCHANGED <<sheet, history>>,
           step = "roll_commission" => session.career \notin Ladderless
    PROVE  LifeInv'
<1>1. where = step /\ ~session.finished
      BY AtStep
<1>2. to \in Range(basic_chargen)
      BY StepNames DEF GoesOn
<1>3. current' = to /\ input' = NoInput /\ cursor' = cursor /\ where' = to /\ ~asked'
      BY <1>2, Advanced
<1> QED BY <1>1, <1>3, QuietStep

\* Nothing, or only the choices, is written.
LEMMA KeptSame ==
    ASSUME LifeInv
    PROVE  /\ UNCHANGED kept => /\ session' \in Sessions' /\ Same(session, session', {"choices"})
                               /\ UNCHANGED <<sheet, history>>
           /\ session' = [session EXCEPT !.choices = {}] =>
                  session' \in Sessions' /\ Same(session, session', {"choices"})
<1>1. session \in Sessions
      BY Typed DEF LifeInv
<1>2. UNCHANGED kept => /\ session' \in Sessions' /\ Same(session, session', {"choices"})
                        /\ UNCHANGED <<sheet, history>>
      BY <1>1 DEF kept, Sessions, Same
<1>3. session' = [session EXCEPT !.choices = {}] =>
          session' \in Sessions' /\ Same(session, session', {"choices"})
      BY <1>1 DEF Sessions, Same
<1> QED BY <1>2, <1>3

\* No crisis is open but at the steps that have opened one.
LEMMA NoCrisis ==
    ASSUME LifeInv, NEW step \in Range(basic_chargen), current = step,
           step \notin {"roll_aging", "survival_mishap"}
    PROVE  ~session.crisis_open
BY AtStep, NoneNames, StepNames DEF LifeInv, Crises

LEMMA GenerateInv ==
    ASSUME LifeInv, generate_characteristics
    PROVE  LifeInv'
<1>1. current = "generate_characteristics" /\ advance("") /\ UNCHANGED kept
      BY DEF generate_characteristics, at
<1>2. <<"generate_characteristics", "choose_career">> \in GoesOn
      BY DEF GoesOn
<1> QED BY <1>1, <1>2, StepNames, NextSteps, NoCrisis, KeptSame, GoOn

LEMMA RankZeroInv ==
    ASSUME LifeInv, grant_rank_zero
    PROVE  LifeInv'
<1>1. current = "grant_rank_zero" /\ advance("") /\ UNCHANGED kept
      BY DEF grant_rank_zero, at
<1>2. <<"grant_rank_zero", "roll_survival">> \in GoesOn
      BY DEF GoesOn
<1> QED BY <1>1, <1>2, StepNames, NextSteps, NoCrisis, KeptSame, GoOn

LEMMA OfferedCareers ==
    /\ offered_careers \cup may_finish # {}
    /\ \A c \in offered_careers \cup may_finish :
          c.key = "finish" \/ c.subject \in Range(Careers)
<1>1. PICK d \in DOMAIN Careers : Careers[d] = Drifter
      BY CareersAssumption DEF Range
<1> DEFINE open == {i \in DOMAIN Careers :
                       Careers[i] = Drifter \/ Careers[i] \notin Range(sheet.careers_served)}
           key(i) == Keys[Cardinality({j \in open : j <= i})]
<1>2. offered_careers = {choice(key(i), Careers[i]) : i \in open}
      BY DEF offered_careers
<1>3. d \in open
      BY <1>1
<1> HIDE DEF key, open
<1>4. choice(key(d), Careers[d]) \in offered_careers
      BY <1>2, <1>3
<1>5. \A c \in offered_careers : c.subject \in Range(Careers)
    <2> SUFFICES ASSUME NEW i \in open PROVE choice(key(i), Careers[i]).subject \in Range(Careers)
        BY <1>2
    <2>1. i \in DOMAIN Careers
          BY DEF open
    <2> QED BY <2>1 DEF choice, Range
<1>6. \A c \in may_finish : c.key = "finish"
      BY DEF may_finish, choice
<1> QED BY <1>4, <1>5, <1>6

LEMMA Numbers ==
    /\ TopRank \in Nat /\ max_terms \in Nat /\ cash_benefit_roll_max \in Nat
    /\ aging_start_age \in Nat /\ MaxCredits \in Nat
    /\ 0 \in 0 .. TopRank /\ 0 \in 0 .. cash_benefit_roll_max
    /\ \A rank \in 0 .. TopRank : ExtraBenefits[rank] \in Nat
BY ConstantsAssumption

\* A career is entered: by a choice, or on a draft or a drift.
LEMMA EnterCareer ==
    ASSUME LifeInv, NEW career \in Range(Careers), take_career(career)
    PROVE  /\ session' \in Sessions' /\ sheet' \in Sheets
           /\ Same(session, session', {"career", "choices", "benefit_rolls_owed", "cash_rolls_left"})
           /\ session'.benefit_rolls_owed = 0
           /\ Same(sheet, sheet', {"careers_served", "rank", "terms_in_career"})
           /\ Len(sheet'.careers_served) = Len(sheet.careers_served) + 1
           /\ sheet'.careers_served # <<>>
           /\ sheet'.rank = 0 /\ sheet'.terms_in_career = 0
<1>1. session \in Sessions /\ sheet \in Sheets
      BY Typed DEF LifeInv
<1>2. /\ session' \in Sessions'
      /\ Same(session, session', {"career", "choices", "benefit_rolls_owed", "cash_rolls_left"})
      /\ session'.benefit_rolls_owed = 0
    <2>1. session' = [session EXCEPT !.career = career, !.choices = {},
                         !.benefit_rolls_owed = 0, !.cash_rolls_left = 0]
          BY DEF take_career, enter_career
    <2>2. session' \in Sessions'
          BY <1>1, <2>1, Numbers DEF Sessions
    <2> QED BY <1>1, <2>1, <2>2 DEF Sessions, Same
<1>3. /\ sheet' = [sheet EXCEPT !.careers_served = Append(sheet.careers_served, career),
                      !.rank = 0, !.terms_in_career = 0]
      /\ sheet.careers_served \in Seq(Range(Careers))
      BY <1>1 DEF take_career, enter_career, Sheets
<1>4. PICK served : served = Append(sheet.careers_served, career)
      OBVIOUS
<1>5. /\ served \in Seq(Range(Careers)) /\ served # <<>>
      /\ Len(served) = Len(sheet.careers_served) + 1
      BY <1>3, <1>4
<1>6. /\ sheet' \in Sheets
      /\ Same(sheet, sheet', {"careers_served", "rank", "terms_in_career"})
      /\ sheet'.careers_served = served /\ sheet'.rank = 0 /\ sheet'.terms_in_career = 0
    <2>1. sheet' = [sheet EXCEPT !.careers_served = served, !.rank = 0, !.terms_in_career = 0]
          BY <1>3, <1>4
    <2>2. sheet' \in Sheets
          BY <1>1, <1>5, <2>1, Numbers DEF Sheets
    <2> QED BY <1>1, <2>1, <2>2 DEF Sheets, Same
<1> QED BY <1>2, <1>5, <1>6

LEMMA ChooseCareerInv ==
    ASSUME LifeInv, choose_career
    PROVE  LifeInv'
<1>1. current = "choose_career" /\ ~session.crisis_open
      BY NoCrisis, StepNames DEF choose_career, entered, answered
<1>2. CASE advance("finish") /\ UNCHANGED kept
    <2>1. <<"choose_career", "finish_character">> \in GoesOn
          BY DEF GoesOn
    <2> QED BY <1>1, <1>2, <2>1, StepNames, NextSteps, KeptSame, GoOn
<1>3. CASE /\ entered("choose_career") /\ sheet.terms_served < max_terms
           /\ ask(offered_careers \cup may_finish) /\ UNCHANGED <<sheet, history>>
      BY <1>3, OfferedCareers, StepNames, AskStep
<1>4. CASE answered("choose_career") /\ not_an_option
      BY <1>4, NotAnOption, StepNames
<1>5. ASSUME answered("choose_career"), NEW c \in find_choice(input), UNCHANGED history,
             c.key = "finish", advance("finish"), session' = [session EXCEPT !.choices = {}],
             UNCHANGED sheet
      PROVE  LifeInv'
    <2>1. <<"choose_career", "finish_character">> \in GoesOn
          BY DEF GoesOn
    <2>2. session' \in Sessions' /\ Same(session, session', {"choices"})
          BY <1>5, KeptSame
    <2> QED BY <1>1, <1>5, <2>1, <2>2, StepNames, NextSteps, GoOn
<1>6. ASSUME answered("choose_career"), NEW c \in find_choice(input), UNCHANGED history,
             c.key # "finish", advance(""), take_career(c.subject)
      PROVE  LifeInv'
    <2>1. /\ where = "choose_career" /\ asked /\ ~session.finished /\ c \in session.choices
          BY <1>1, <1>6, AtStep, StepNames DEF answered, find_choice
    <2>2. c.subject \in Range(Careers)
          BY <1>6, <2>1 DEF LifeInv, Offered
    <2>3. /\ session' \in Sessions' /\ sheet' \in Sheets
          /\ Same(session, session', {"career", "choices", "benefit_rolls_owed", "cash_rolls_left"})
          /\ session'.benefit_rolls_owed = 0
          /\ Same(sheet, sheet', {"careers_served", "rank", "terms_in_career"})
          /\ Len(sheet'.careers_served) = Len(sheet.careers_served) + 1
          /\ sheet'.careers_served # <<>> /\ sheet'.terms_in_career = 0
          BY <1>6, <2>2, EnterCareer
    <2>4. /\ current' = "roll_qualification" /\ input' = NoInput /\ cursor' = cursor
          /\ where' = "roll_qualification" /\ ~asked'
          BY <1>1, <1>6, NextSteps, StepNames, Advanced
    <2>5. /\ RunnerTypeOK /\ session \in Sessions /\ sheet \in Sheets /\ history \in Histories
          BY Typed DEF LifeInv
    <2>6. history' = history
          BY <1>6
    <2> USE DEF LifeInv
    <2>7. TypeOK'
          BY <2>3, <2>4, <2>5, <2>6, StepNames, TypedNext DEF RunnerTypeOK
    <2>8. Placed'
          BY <2>1, <2>3, <2>4, <2>5, NoneNames, StepNames DEF Placed, Same, Sessions
    <2>9. Offered' /\ Crises'
          BY <1>1, <2>1, <2>3, <2>4, <2>5, StepNames DEF Offered, Crises, Same, Sessions, Sheets
    <2>10. Training'
        <3>1. session'.training_rolls_owed = session.training_rolls_owed
              BY <2>3, <2>5 DEF Same, Sessions
        <3> QED BY <2>1, <2>4, <3>1 DEF Training
    <2>11. Terms'
          BY <2>1, <2>3, <2>4, <2>5, <2>6 DEF Terms, TermsCapped, Beginning, Serving, Same, Sheets
    <2>12. Benefits'
        <3>1. ~session.benefits_forfeited
              BY <2>1, NoneNames, StepNames DEF Benefits
        <3>2. ~session'.benefits_forfeited
              BY <2>3, <2>5, <3>1 DEF Same, Sessions
        <3> QED BY <2>3, <2>4, <3>2 DEF Benefits, Enlisted
    <2>13. Careering'
        <3>1. sheet'.qualification_barred = sheet.qualification_barred
              BY <2>3, <2>5 DEF Same, Sheets
        <3>2. Len(sheet.careers_served) \in Nat /\ history.entered \in Nat
              BY <2>5 DEF Sheets, Histories
        <3> QED BY <2>1, <2>3, <2>4, <2>6, <3>1, <3>2 DEF Careering, Enlisted
    <2>14. Mishapping'
          BY <2>4, <2>6 DEF Mishapping, OneMishapEach
    <2> QED BY <2>7, <2>8, <2>9, <2>10, <2>11, <2>12, <2>13, <2>14
<1> QED BY <1>2, <1>3, <1>4, <1>5, <1>6 DEF choose_career

LEMMA AdmittedHistory ==
    ASSUME LifeInv, history' = Admitted
    PROVE  /\ history' \in Histories
           /\ Same(history, history', {"entered", "entry", "taken", "cashed", "lost", "forced"})
           /\ history'.entered = history.entered + 1 /\ history'.entry = sheet.terms_served
           /\ history'.taken = 0 /\ history'.cashed = 0
           /\ history'.lost = FALSE /\ history'.forced = FALSE
<1>1. sheet \in Sheets /\ history \in Histories
      BY Typed DEF LifeInv
<1>2. sheet.terms_served \in Nat /\ history.entered \in Nat
      BY <1>1 DEF Sheets, Histories
<1>3. history' = [history EXCEPT !.entered = history.entered + 1, !.entry = sheet.terms_served,
                     !.taken = 0, !.cashed = 0, !.lost = FALSE, !.forced = FALSE]
      BY DEF Admitted
<1>4. history' \in Histories
    <2>1. history.entered + 1 \in Nat
          BY <1>2
    <2>2. history' = [entered |-> history.entered + 1, entry |-> sheet.terms_served,
                      rank |-> history.rank, trained |-> history.trained, forced |-> FALSE,
                      taken |-> 0, cashed |-> 0, lost |-> FALSE,
                      mishaps |-> history.mishaps, unanswered |-> history.unanswered]
          BY <1>1, <1>3 DEF Histories
    <2> QED BY <1>1, <1>2, <2>1, <2>2 DEF Histories
<1> QED BY <1>1, <1>3, <1>4 DEF Histories, Same

LEMMA QualificationInv ==
    ASSUME LifeInv, roll_qualification
    PROVE  LifeInv'
<1>1. current = "roll_qualification"
      BY DEF roll_qualification, at
<1>2. /\ where = "roll_qualification" /\ ~session.crisis_open /\ ~session.finished
      BY <1>1, AtStep, NoCrisis, StepNames, NoneNames DEF LifeInv, Placed
<1>3. /\ RunnerTypeOK /\ session \in Sessions /\ sheet \in Sheets /\ history \in Histories
      BY Typed DEF LifeInv
<1>4. CASE sheet.qualification_barred /\ advance("failed") /\ UNCHANGED kept
    <2>1. /\ current' = "draft_or_drifter" /\ input' = NoInput /\ cursor' = cursor
          /\ where' = "draft_or_drifter" /\ ~asked'
          BY <1>1, <1>4, NextSteps, StepNames, Advanced
    <2>2. session' = session /\ sheet' = sheet /\ history' = history /\ session' \in Sessions'
          BY <1>3, <1>4 DEF kept, Sessions
    <2> USE DEF LifeInv
    <2>3. TypeOK' /\ Placed'
          BY <1>2, <1>3, <2>1, <2>2, NoneNames, StepNames, TypedNext DEF RunnerTypeOK, Placed
    <2>4. Offered' /\ Crises' /\ Training' /\ Mishapping'
          BY <1>2, <2>1, <2>2, StepNames DEF Offered, Crises, Training, Mishapping, OneMishapEach
    <2>5. Terms' /\ Careering'
          BY <1>2, <1>4, <2>1, <2>2 DEF Terms, TermsCapped, Beginning, Serving, Careering, Enlisted
    <2>6. Benefits'
          BY <1>2, <2>1, <2>2, NoneNames, StepNames DEF Benefits, Enlisted
    <2> QED BY <2>3, <2>4, <2>5, <2>6
<1>5. CASE /\ ~sheet.qualification_barred /\ advance("passed") /\ history' = Admitted
           /\ UNCHANGED <<session, sheet>>
    <2>1. /\ current' = "basic_training" /\ input' = NoInput /\ cursor' = cursor
          /\ where' = "basic_training" /\ ~asked'
          BY <1>1, <1>5, NextSteps, StepNames, Advanced
    <2>2. session' = session /\ sheet' = sheet /\ session' \in Sessions'
          BY <1>3, <1>5 DEF Sessions
    <2>3. /\ history' \in Histories
          /\ Same(history, history', {"entered", "entry", "taken", "cashed", "lost", "forced"})
          /\ history'.entered = history.entered + 1 /\ history'.entry = sheet.terms_served
          /\ history'.taken = 0 /\ history'.cashed = 0
          /\ history'.lost = FALSE /\ history'.forced = FALSE
          BY <1>5, AdmittedHistory
    <2> USE DEF LifeInv
    <2>4. TypeOK' /\ Placed'
          BY <1>2, <1>3, <2>1, <2>2, <2>3, NoneNames, StepNames, TypedNext DEF RunnerTypeOK, Placed
    <2>5. Offered' /\ Crises' /\ Training'
          BY <1>2, <2>1, <2>2, StepNames DEF Offered, Crises, Training
    <2>6. Terms'
          BY <1>2, <1>3, <2>1, <2>2, Numbers DEF Terms, TermsCapped, Beginning, Serving, Sheets
    <2>7. Benefits'
        <3>1. session.benefits_forfeited = FALSE /\ sheet.terms_in_career = 0
              BY <1>2, <1>3, NoneNames, StepNames DEF Benefits, Sessions
        <3>2. session.benefit_rolls_owed = 0
              BY <1>2, <1>3 DEF Benefits, Sessions
        <3>3. sheet.terms_served \in Nat
              BY <1>3 DEF Sheets
        <3> QED BY <2>1, <2>2, <2>3, <3>1, <3>2, <3>3 DEF Benefits, Enlisted
    <2>8. Careering'
          BY <1>2, <1>3, <1>5, <2>1, <2>2, <2>3 DEF Careering, Enlisted, Histories
    <2>9. Mishapping'
          BY <1>3, <2>1, <2>3 DEF Mishapping, OneMishapEach, Same, Histories
    <2> QED BY <2>4, <2>5, <2>6, <2>7, <2>8, <2>9
<1>6. CASE ~sheet.qualification_barred /\ advance("failed") /\ turned_away /\ UNCHANGED history
    <2>1. /\ current' = "draft_or_drifter" /\ input' = NoInput /\ cursor' = cursor
          /\ where' = "draft_or_drifter" /\ ~asked'
          BY <1>1, <1>6, NextSteps, StepNames, Advanced
    <2>2. /\ session' = [session EXCEPT !.career = NoCareer] /\ history' = history
          /\ sheet' = [sheet EXCEPT !.careers_served =
                          SubSeq(sheet.careers_served, 1, Len(sheet.careers_served) - 1)]
          BY <1>6 DEF turned_away
    <2>3. session' \in Sessions' /\ Same(session, session', {"career"})
          BY <1>3, <2>2 DEF Sessions, Same
    <2>4. /\ sheet' \in Sheets /\ Same(sheet, sheet', {"careers_served"})
          /\ Len(sheet'.careers_served) = Len(sheet.careers_served) - 1
        <3>1. sheet.careers_served \in Seq(Range(Careers)) /\ sheet.careers_served # <<>>
              BY <1>2, <1>3 DEF LifeInv, Careering, Sheets
        <3>2. PICK served : served = SubSeq(sheet.careers_served, 1, Len(sheet.careers_served) - 1)
              OBVIOUS
        <3>3. served \in Seq(Range(Careers)) /\ Len(served) = Len(sheet.careers_served) - 1
              BY <3>1, <3>2
        <3> QED BY <1>3, <2>2, <3>2, <3>3 DEF Sheets, Same
    <2> USE DEF LifeInv
    <2>5. TypeOK' /\ Placed'
          BY <1>2, <1>3, <2>1, <2>2, <2>3, <2>4, NoneNames, StepNames, TypedNext
             DEF RunnerTypeOK, Placed, Same, Sessions
    <2>6. Offered' /\ Crises' /\ Mishapping'
          BY <1>2, <1>3, <2>1, <2>2, <2>3, <2>4, StepNames
             DEF Offered, Crises, Mishapping, OneMishapEach, Same, Sessions, Sheets
    <2>7. Training'
        <3>1. session'.training_rolls_owed = session.training_rolls_owed
              BY <1>3, <2>3 DEF Same, Sessions
        <3> QED BY <1>2, <2>1, <3>1 DEF Training
    <2>8. Terms'
          BY <1>2, <1>3, <2>1, <2>2, <2>4 DEF Terms, TermsCapped, Beginning, Serving, Same, Sheets
    <2>9. Benefits'
          BY <1>2, <1>3, <2>1, <2>3, NoneNames, StepNames DEF Benefits, Enlisted, Same, Sessions
    <2>10. Careering'
        <3>1. sheet'.qualification_barred = sheet.qualification_barred
              BY <1>3, <2>4 DEF Same, Sheets
        <3>2. Len(sheet.careers_served) \in Nat /\ history.entered \in Nat
              BY <1>3 DEF Sheets, Histories
        <3> QED BY <1>2, <1>6, <2>1, <2>2, <2>4, <3>1, <3>2 DEF Careering, Enlisted
    <2> QED BY <2>5, <2>6, <2>7, <2>8, <2>9, <2>10
<1> QED BY <1>4, <1>5, <1>6 DEF roll_qualification

LEMMA DraftInv ==
    ASSUME LifeInv, draft_or_drifter
    PROVE  LifeInv'
<1>1. current = "draft_or_drifter" /\ ~session.crisis_open
      BY NoCrisis, StepNames DEF draft_or_drifter, entered, answered
<1>2. CASE /\ entered("draft_or_drifter")
           /\ ask({choice("1", Drifter), choice("2", NoCareer)})
           /\ UNCHANGED <<sheet, history>>
      BY <1>2, StepNames, AskStep
<1>3. CASE answered("draft_or_drifter") /\ not_an_option
      BY <1>3, NotAnOption, StepNames
<1>4. ASSUME answered("draft_or_drifter"), NEW c \in find_choice(input),
             NEW career \in IF c.key = "2" THEN Drafts ELSE {Drifter}, take_career(career),
             advance("took_it"), history' = Admitted
      PROVE  LifeInv'
    <2>1. /\ where = "draft_or_drifter" /\ asked /\ ~session.finished
          BY <1>1, <1>4, AtStep, StepNames DEF answered, find_choice
    <2>2. career \in Range(Careers)
          BY <1>4, CareersAssumption
    <2>3. /\ session' \in Sessions' /\ sheet' \in Sheets
          /\ Same(session, session', {"career", "choices", "benefit_rolls_owed", "cash_rolls_left"})
          /\ session'.benefit_rolls_owed = 0
          /\ Same(sheet, sheet', {"careers_served", "rank", "terms_in_career"})
          /\ Len(sheet'.careers_served) = Len(sheet.careers_served) + 1
          /\ sheet'.terms_in_career = 0
          BY <1>4, <2>2, EnterCareer
    <2>4. /\ history' \in Histories
          /\ Same(history, history', {"entered", "entry", "taken", "cashed", "lost", "forced"})
          /\ history'.entered = history.entered + 1 /\ history'.entry = sheet.terms_served
          /\ history'.taken = 0 /\ history'.cashed = 0
          /\ history'.lost = FALSE /\ history'.forced = FALSE
          BY <1>4, AdmittedHistory
    <2>5. /\ current' = "basic_training" /\ input' = NoInput /\ cursor' = cursor
          /\ where' = "basic_training" /\ ~asked'
          BY <1>1, <1>4, NextSteps, StepNames, Advanced
    <2>6. /\ RunnerTypeOK /\ session \in Sessions /\ sheet \in Sheets /\ history \in Histories
          BY Typed DEF LifeInv
    <2>7. sheet'.terms_served = sheet.terms_served /\ sheet.terms_served \in Nat
          BY <2>3, <2>6 DEF Same, Sheets
    <2> USE DEF LifeInv
    <2>8. TypeOK'
          BY <2>3, <2>4, <2>5, <2>6, StepNames, TypedNext DEF RunnerTypeOK
    <2>9. Placed'
          BY <2>1, <2>3, <2>5, <2>6, NoneNames, StepNames DEF Placed, Same, Sessions
    <2>10. Offered' /\ Crises'
          BY <1>1, <2>1, <2>3, <2>5, <2>6, StepNames DEF Offered, Crises, Same, Sessions, Sheets
    <2>11. Training'
        <3>1. session'.training_rolls_owed = session.training_rolls_owed
              BY <2>3, <2>6 DEF Same, Sessions
        <3> QED BY <2>1, <2>5, <3>1 DEF Training
    <2>12. Terms'
          BY <2>1, <2>5, <2>7, Numbers DEF Terms, TermsCapped, Beginning, Serving
    <2>13. Benefits'
        <3>1. ~session.benefits_forfeited
              BY <2>1, NoneNames, StepNames DEF Benefits
        <3>2. ~session'.benefits_forfeited
              BY <2>3, <2>6, <3>1 DEF Same, Sessions
        <3> QED BY <2>3, <2>4, <2>5, <2>7, <3>2 DEF Benefits, Enlisted
    <2>14. Careering'
        <3>1. sheet'.qualification_barred = sheet.qualification_barred
              BY <2>3, <2>6 DEF Same, Sheets
        <3>2. Len(sheet.careers_served) \in Nat /\ history.entered \in Nat
              BY <2>6 DEF Sheets, Histories
        <3> QED BY <2>1, <2>3, <2>4, <2>5, <3>1, <3>2 DEF Careering, Enlisted
    <2>15. Mishapping'
          BY <2>4, <2>5, <2>6 DEF Mishapping, OneMishapEach, Same, Histories
    <2> QED BY <2>8, <2>9, <2>10, <2>11, <2>12, <2>13, <2>14, <2>15
<1> QED BY <1>2, <1>3, <1>4 DEF draft_or_drifter

LEMMA BasicTrainingInv ==
    ASSUME LifeInv, basic_training
    PROVE  LifeInv'
<1>1. current = "basic_training" /\ ~session.crisis_open
      BY NoCrisis, StepNames DEF basic_training, entered, answered
<1>2. <<"basic_training", "grant_rank_zero">> \in GoesOn
      BY DEF GoesOn
<1>3. CASE advance("") /\ UNCHANGED kept
      BY <1>1, <1>2, <1>3, StepNames, NextSteps, KeptSame, GoOn
<1>4. CASE /\ entered("basic_training") /\ ask({choice("1", "skill")})
           /\ UNCHANGED <<sheet, history>>
      BY <1>4, StepNames, AskStep
<1>5. CASE answered("basic_training") /\ not_an_option
      BY <1>5, NotAnOption, StepNames
<1>6. CASE /\ advance("") /\ session' = [session EXCEPT !.choices = {}]
           /\ UNCHANGED <<sheet, history>>
      BY <1>1, <1>2, <1>6, StepNames, NextSteps, KeptSame, GoOn
<1> QED BY <1>3, <1>4, <1>5, <1>6 DEF basic_training

LEMMA SurvivalInv ==
    ASSUME LifeInv, roll_survival
    PROVE  LifeInv'
<1>1. current = "roll_survival" /\ UNCHANGED <<session, sheet>>
      BY DEF roll_survival, at
<1>2. where = "roll_survival" /\ ~session.crisis_open /\ ~session.finished
      BY <1>1, AtStep, NoCrisis, StepNames, NoneNames DEF LifeInv, Placed
<1>3. /\ RunnerTypeOK /\ session \in Sessions /\ sheet \in Sheets /\ history \in Histories
      BY Typed DEF LifeInv
<1>4. session' = session /\ sheet' = sheet /\ session' \in Sessions'
      BY <1>1, <1>3 DEF Sessions
<1>5. CASE /\ advance("passed")
           /\ history' = [history EXCEPT !.rank = sheet.rank, !.trained = 0]
    <2>1. /\ current' = "roll_commission" /\ input' = NoInput /\ cursor' = cursor
          /\ where' = "roll_commission" /\ ~asked'
          BY <1>1, <1>5, NextSteps, StepNames, Advanced
    <2>2. /\ history' \in Histories /\ Same(history, history', {"rank", "trained"})
          /\ history'.rank = sheet.rank /\ history'.trained = 0
          BY <1>3, <1>5 DEF Histories, Sheets, Same
    <2> USE DEF LifeInv
    <2>3. TypeOK' /\ Placed'
          BY <1>2, <1>3, <1>4, <2>1, <2>2, NoneNames, StepNames, TypedNext DEF RunnerTypeOK, Placed
    <2>4. Offered' /\ Crises'
          BY <1>2, <1>4, <2>1 DEF Offered, Crises
    <2>5. Training'
          BY <1>2, <1>3, <1>4, <2>1, <2>2 DEF Training, Climbed, Sheets
    <2>6. Terms'
          BY <1>2, <1>3, <1>4, <2>1, <2>2
             DEF Terms, TermsCapped, Beginning, Serving, Same, Histories
    <2>7. Benefits'
          BY <1>2, <1>3, <1>4, <2>1, <2>2, NoneNames, StepNames
             DEF Benefits, Enlisted, Same, Histories
    <2>8. Careering' /\ Mishapping'
          BY <1>2, <1>3, <1>4, <2>1, <2>2
             DEF Careering, Mishapping, OneMishapEach, Enlisted, Same, Histories
    <2> QED BY <2>3, <2>4, <2>5, <2>6, <2>7, <2>8
<1>6. CASE /\ advance("failed")
           /\ history' = [history EXCEPT !.mishaps = 0, !.unanswered = 0]
    <2>1. /\ current' = "survival_mishap" /\ input' = NoInput /\ cursor' = cursor
          /\ where' = "survival_mishap" /\ ~asked'
          BY <1>1, <1>6, NextSteps, StepNames, Advanced
    <2>2. /\ history' \in Histories /\ Same(history, history', {"mishaps", "unanswered"})
          /\ history'.mishaps = 0 /\ history'.unanswered = 0
          BY <1>3, <1>6 DEF Histories, Same
    <2> USE DEF LifeInv
    <2>3. TypeOK' /\ Placed'
          BY <1>2, <1>3, <1>4, <2>1, <2>2, NoneNames, StepNames, TypedNext DEF RunnerTypeOK, Placed
    <2>4. Offered' /\ Crises'
          BY <1>2, <1>4, <2>1 DEF Offered, Crises
    <2>5. Training' /\ Mishapping'
          BY <1>2, <1>4, <2>1, <2>2 DEF Training, Mishapping, OneMishapEach
    <2>6. Terms'
          BY <1>2, <1>3, <1>4, <2>1, <2>2
             DEF Terms, TermsCapped, Beginning, Serving, Same, Histories
    <2>7. Benefits'
          BY <1>2, <1>3, <1>4, <2>1, <2>2, NoneNames, StepNames
             DEF Benefits, Enlisted, Same, Histories
    <2>8. Careering'
          BY <1>2, <1>3, <1>4, <2>1, <2>2 DEF Careering, Enlisted, Same, Histories
    <2> QED BY <2>3, <2>4, <2>5, <2>6, <2>7, <2>8
<1> QED BY <1>5, <1>6 DEF roll_survival

LEMMA RankType ==
    ASSUME NEW s \in Sheets
    PROVE  s.rank \in Nat /\ s.rank <= TopRank
<1>1. s.rank \in 0 .. TopRank
      BY DEF Sheets
<1>2. TopRank \in Nat
      BY Numbers
<1> QED BY <1>1, <1>2

LEMMA Climbing ==
    ASSUME LifeInv
    PROVE  Climbed \in Int /\ Ladder \in {0, 1}
<1>1. sheet \in Sheets /\ history.rank \in 0 .. TopRank
      BY Typed DEF LifeInv, Histories
<1>2. sheet.rank \in Nat /\ history.rank \in Nat
      BY <1>1, RankType, Numbers
<1> QED BY <1>2 DEF Climbed, Ladder

Promotes == {<<"roll_commission", "roll_advancement">>, <<"roll_advancement", "roll_training">>}

\* A ladder is climbed, or missing, and that much more training is owed.
LEMMA PromotionStep ==
    ASSUME LifeInv, ~session.crisis_open, ~session.finished,
           session' \in Sessions', sheet' \in Sheets, UNCHANGED history,
           Same(session, session', {"choices", "training_rolls_owed"}),
           Same(sheet, sheet', {"rank"}),
           session'.training_rolls_owed = session.training_rolls_owed + (sheet'.rank - sheet.rank)
               + (IF where = "roll_commission" THEN Ladder ELSE 0),
           NEW step, <<where, step>> \in Promotes,
           current' = step, input' = NoInput, cursor' = cursor, where' = step, ~asked'
    PROVE  LifeInv'
<1>1. /\ RunnerTypeOK /\ session \in Sessions /\ sheet \in Sheets /\ history \in Histories
      /\ step \in Range(basic_chargen) /\ history' = history
      BY Typed, StepNames DEF LifeInv, Promotes
<1>2. /\ where \in {"roll_commission", "roll_advancement"}
      /\ step \in {"roll_advancement", "roll_training"}
      /\ where = "roll_commission" => step = "roll_advancement"
      /\ where = "roll_advancement" => step = "roll_training"
      BY DEF Promotes
<1> USE DEF LifeInv
<1>3. TypeOK'
      BY <1>1, TypedNext, Typed DEF RunnerTypeOK
<1>4. Placed'
      BY <1>1, <1>2, NoneNames, StepNames DEF Placed, Same, Sessions
<1>5. Offered' /\ Crises'
      BY <1>1, <1>2, NoneNames, StepNames DEF Offered, Crises, Same, Sessions, Sheets
<1>6. Training'
    <2>1. /\ Ladder' = Ladder /\ Ladder \in {0, 1}
          BY <1>1 DEF Ladder, Same, Sessions
    <2>2. /\ Climbed' = Climbed + (sheet'.rank - sheet.rank) /\ Climbed \in Int
          /\ sheet.rank \in Nat /\ sheet'.rank \in Nat
        <3>1. history.rank \in 0 .. TopRank
              BY <1>1 DEF Histories
        <3>2. history.rank \in Nat
              BY <3>1, Numbers
        <3>3. sheet.rank \in Nat /\ sheet'.rank \in Nat
              BY <1>1, RankType
        <3> QED BY <1>1, <3>2, <3>3 DEF Climbed
    <2>3. CASE where = "roll_commission" /\ step = "roll_advancement"
          BY <1>1, <2>1, <2>2, <2>3 DEF Training
    <2>4. CASE where = "roll_advancement" /\ step = "roll_training"
          BY <1>1, <2>1, <2>2, <2>4 DEF Training
    <2> QED BY <1>2, <2>3, <2>4
<1>7. Terms'
      BY <1>1, <1>2 DEF Terms, TermsCapped, Beginning, Serving, Same, Sheets
<1>8. Benefits'
    <2>1. /\ session'.benefit_rolls_owed = session.benefit_rolls_owed
          /\ session'.benefits_forfeited = session.benefits_forfeited
          BY <1>1 DEF Same, Sessions
    <2>2. /\ sheet'.terms_in_career = sheet.terms_in_career
          /\ sheet'.terms_served = sheet.terms_served
          BY <1>1 DEF Same, Sheets
    <2> QED BY <1>1, <1>2, <2>1, <2>2, NoneNames, StepNames DEF Benefits, Enlisted
<1>9. Careering'
      BY <1>1, <1>2 DEF Careering, Enlisted, Same, Sheets
<1>10. Mishapping'
      BY <1>1, <1>2 DEF Mishapping, OneMishapEach
<1> QED BY <1>3, <1>4, <1>5, <1>6, <1>7, <1>8, <1>9, <1>10

LEMMA PromotionInv ==
    ASSUME LifeInv, NEW step \in {"roll_commission", "roll_advancement"},
           NEW eligible \in BOOLEAN, roll_promotion(step, eligible)
    PROVE  LifeInv'
<1>1. /\ current = step /\ step \in Range(basic_chargen) /\ ~session.crisis_open
      BY NoCrisis, StepNames DEF roll_promotion, at, entered, answered
<1>2. where = step /\ ~session.finished
      BY <1>1, AtStep
<1>3. PICK to : /\ next_step(step, "") = to /\ <<step, to>> \in GoesOn
                /\ to \in Range(basic_chargen)
                /\ <<step, to>> \in Promotes
      BY NextSteps, StepNames DEF GoesOn, Promotes
<1>4. session \in Sessions /\ sheet \in Sheets
      BY Typed DEF LifeInv
<1>5. advance("") => /\ current' = to /\ input' = NoInput /\ cursor' = cursor
                     /\ where' = to /\ ~asked'
      BY <1>1, <1>3, Advanced
<1>6. CASE /\ session.career \in Ladderless /\ advance("")
           /\ session' = [session EXCEPT !.training_rolls_owed =
                             IF step = "roll_commission" THEN @ + 1 ELSE @]
           /\ UNCHANGED <<sheet, history>>
    <2>1. PICK owed \in Nat : owed = IF step = "roll_commission"
                                     THEN session.training_rolls_owed + 1
                                     ELSE session.training_rolls_owed
          BY <1>4 DEF Sessions
    <2>2. session' = [session EXCEPT !.training_rolls_owed = owed]
          BY <1>6, <2>1
    <2>3. /\ session' \in Sessions' /\ Same(session, session', {"choices", "training_rolls_owed"})
          /\ session'.training_rolls_owed = owed
          BY <1>4, <2>2 DEF Sessions, Same
    <2>4. /\ sheet' = sheet /\ sheet' \in Sheets /\ Same(sheet, sheet', {"rank"})
          BY <1>4, <1>6 DEF Same
    <2>7. sheet.rank \in Nat /\ session.training_rolls_owed \in Nat
          BY <1>4, RankType DEF Sessions
    <2>5. Ladder = 1
          BY <1>6 DEF Ladder
    <2>6. session'.training_rolls_owed = session.training_rolls_owed + (sheet'.rank - sheet.rank)
              + (IF where = "roll_commission" THEN Ladder ELSE 0)
          BY <1>2, <2>1, <2>3, <2>4, <2>5, <2>7
    <2>8. <<where, to>> \in Promotes
          BY <1>2, <1>3
    <2> QED BY <1>1, <1>2, <1>3, <1>5, <1>6, <2>3, <2>4, <2>6, <2>8, PromotionStep
<1>7. CASE session.career \notin Ladderless /\ advance("") /\ UNCHANGED kept
      BY <1>1, <1>3, <1>7, KeptSame, GoOn
<1>8. CASE /\ entered(step) /\ ask({choice("1", "try"), choice("2", "decline")})
           /\ UNCHANGED <<sheet, history>>
      BY <1>1, <1>8, AskStep
<1>9. CASE answered(step) /\ not_an_option
      BY <1>1, <1>9, NotAnOption
<1>10. CASE /\ session.career \notin Ladderless /\ sheet.rank < TopRank /\ advance("")
            /\ session' = [session EXCEPT !.choices = {}, !.training_rolls_owed = @ + 1]
            /\ sheet' = [sheet EXCEPT !.rank = @ + 1] /\ UNCHANGED history
    <2>1. PICK owed \in Nat : owed = session.training_rolls_owed + 1
          BY <1>4 DEF Sessions
    <2>2. session' = [session EXCEPT !.choices = {}, !.training_rolls_owed = owed]
          BY <1>10, <2>1
    <2>3. /\ session' \in Sessions' /\ Same(session, session', {"choices", "training_rolls_owed"})
          /\ session'.training_rolls_owed = owed
          BY <1>4, <2>2 DEF Sessions, Same
    <2>4. PICK rank \in 0 .. TopRank : rank = sheet.rank + 1
        <3>1. sheet.rank \in Nat /\ TopRank \in Nat
              BY <1>4, RankType, Numbers
        <3>2. sheet.rank < TopRank
              BY <1>10
        <3>3. sheet.rank + 1 \in 0 .. TopRank
              BY <3>1, <3>2
        <3> QED BY <3>3
    <2>5. sheet' = [sheet EXCEPT !.rank = rank]
          BY <1>10, <2>4
    <2>6. /\ sheet' \in Sheets /\ Same(sheet, sheet', {"rank"}) /\ sheet'.rank = rank
          BY <1>4, <2>5 DEF Sheets, Same
    <2>7. Ladder = 0
          BY <1>10 DEF Ladder
    <2>8. sheet.rank \in Nat /\ session.training_rolls_owed \in Nat
          BY <1>4, RankType DEF Sessions
    <2>9. session'.training_rolls_owed = session.training_rolls_owed + (sheet'.rank - sheet.rank)
                     + (IF where = "roll_commission" THEN Ladder ELSE 0)
          BY <2>1, <2>3, <2>4, <2>6, <2>7, <2>8
    <2>10. <<where, to>> \in Promotes
          BY <1>2, <1>3
    <2> QED BY <1>1, <1>2, <1>3, <1>5, <1>10, <2>3, <2>6, <2>9, <2>10, PromotionStep
<1>11. CASE /\ session.career \notin Ladderless /\ advance("")
            /\ session' = [session EXCEPT !.choices = {}] /\ UNCHANGED <<sheet, history>>
      BY <1>1, <1>3, <1>11, KeptSame, GoOn
<1> QED BY <1>6, <1>7, <1>8, <1>9, <1>10, <1>11 DEF roll_promotion

\* Min of two numbers, as it is used for ages and purses.
LEMMA MinOfTwo ==
    ASSUME NEW a \in Int, NEW b \in Int
    PROVE  Min({a, b}) = IF a <= b THEN a ELSE b
<1> DEFINE m == IF a <= b THEN a ELSE b
<1>1. m \in {a, b} /\ \A y \in {a, b} : m <= y
      OBVIOUS
<1>2. \A x \in {a, b} : (\A y \in {a, b} : x <= y) => x = m
      OBVIOUS
<1> HIDE DEF m
<1>3. Min({a, b}) = m
      BY <1>1, <1>2 DEF Min
<1> QED BY <1>3 DEF m

LEMMA AgeType ==
    ASSUME NEW years \in Int, 0 <= years
    PROVE  Min({years, aging_start_age}) \in 0 .. aging_start_age
<1>1. aging_start_age \in Nat
      BY Numbers
<1>2. Min({years, aging_start_age}) = IF years <= aging_start_age THEN years ELSE aging_start_age
      BY <1>1, MinOfTwo
<1> QED BY <1>1, <1>2

LEMMA TrainingInv ==
    ASSUME LifeInv, roll_training
    PROVE  LifeInv'
<1>1. current = "roll_training" /\ ~session.crisis_open /\ ~session.finished
      BY AtStep, NoCrisis, StepNames DEF roll_training, entered, answered
<1>2. /\ RunnerTypeOK /\ session \in Sessions /\ sheet \in Sheets /\ history \in Histories
      BY Typed DEF LifeInv
<1>3. PICK owed \in Nat : owed = session.training_rolls_owed
      BY <1>2 DEF Sessions
<1>4. CASE entered("roll_training") /\ enter_training
    <2>1. where = "roll_training" /\ ~asked
          BY <1>4, AtStep, StepNames DEF entered
    <2>2. /\ pending /\ sheet' = sheet /\ history' = history
          /\ session' = [session EXCEPT !.training_rolls_owed = owed + 1, !.choices = training_tables]
          BY <1>3, <1>4 DEF enter_training
    <2>3. /\ session' \in Sessions' /\ Same(session, session', {"choices", "training_rolls_owed"})
          /\ session'.training_rolls_owed = owed + 1 /\ session'.choices # {}
        <3>1. owed + 1 \in Nat
              BY <1>3
        <3> QED BY <1>2, <2>2, <3>1 DEF Sessions, Same, training_tables
    <2>4. /\ current' = NoStep /\ input' = NoInput /\ cursor' = "roll_training"
          /\ where' = "roll_training" /\ asked'
          BY <1>1, <2>2, <2>3, Paused
    <2> USE DEF LifeInv
    <2>5. TypeOK' /\ Placed'
          BY <1>1, <1>2, <2>2, <2>3, <2>4, NoneNames, StepNames, TypedNext
             DEF RunnerTypeOK, Placed, Same, Sessions
    <2>6. Offered' /\ Crises'
          BY <1>1, <1>2, <2>1, <2>2, <2>3, <2>4, StepNames DEF Offered, Crises, Same, Sessions
    <2>7. Training'
        <3>1. Ladder' = Ladder /\ Climbed' = Climbed
              BY <1>2, <2>2, <2>3 DEF Ladder, Climbed, Same, Sessions
        <3>2. owed = Climbed + Ladder /\ history.trained = 0
              BY <1>3, <2>1 DEF Training
        <3> QED BY <1>3, <2>2, <2>3, <2>4, <3>1, <3>2, Climbing DEF Training
    <2>8. Terms' /\ Careering' /\ Mishapping'
          BY <2>1, <2>2, <2>4 DEF Terms, TermsCapped, Beginning, Serving, Careering, Enlisted,
                                  Mishapping, OneMishapEach
    <2>9. Benefits'
          BY <1>2, <2>1, <2>2, <2>3, <2>4, NoneNames, StepNames
             DEF Benefits, Enlisted, Same, Sessions
    <2> QED BY <2>5, <2>6, <2>7, <2>8, <2>9
<1>5. CASE answered("roll_training") /\ not_an_option
      BY <1>5, NotAnOption, StepNames
<1>6. CASE /\ answered("roll_training") /\ find_choice(input) # {}
           /\ IF owed - 1 > 0 THEN pending ELSE advance("")
           /\ session' = [session EXCEPT !.training_rolls_owed = owed - 1,
                             !.choices = IF owed - 1 > 0 THEN training_tables ELSE {}]
           /\ history' = [history EXCEPT !.trained = @ + 1]
           /\ UNCHANGED sheet
    <2>1. where = "roll_training" /\ asked /\ cursor = "roll_training"
          BY <1>6, AtStep, StepNames DEF answered, find_choice
    <2>2. /\ owed > 0
          /\ history.trained + owed = 1 + Climbed + Ladder
          BY <1>3, <2>1 DEF LifeInv, Training
    <2>3. /\ session' \in Sessions' /\ Same(session, session', {"choices", "training_rolls_owed"})
          /\ session'.training_rolls_owed = owed - 1
          /\ session'.choices = IF owed - 1 > 0 THEN training_tables ELSE {}
        <3>1. owed - 1 \in Nat
              BY <1>3, <2>2
        <3> QED BY <1>2, <1>6, <3>1 DEF Sessions, Same
    <2>4. /\ history' \in Histories /\ Same(history, history', {"trained"})
          /\ history'.trained = history.trained + 1 /\ history.trained \in Nat
        <3>1. PICK trained \in Nat : trained = history.trained + 1
              BY <1>2 DEF Histories
        <3>2. history' = [history EXCEPT !.trained = trained]
              BY <1>6, <3>1
        <3> QED BY <1>2, <3>1, <3>2 DEF Histories, Same
    <2>5. Ladder' = Ladder /\ Climbed' = Climbed /\ sheet' = sheet
          BY <1>2, <1>6, <2>3, <2>4 DEF Ladder, Climbed, Same, Sessions, Histories
    <2>6. CASE owed - 1 > 0
        <3>1. /\ current' = NoStep /\ input' = NoInput /\ cursor' = "roll_training"
              /\ where' = "roll_training" /\ asked'
              BY <1>1, <1>6, <2>3, <2>6, Paused DEF training_tables
        <3> USE DEF LifeInv
        <3>2. TypeOK' /\ Placed'
              BY <1>1, <1>2, <2>3, <2>4, <2>5, <3>1, NoneNames, StepNames, TypedNext
                 DEF RunnerTypeOK, Placed, Same, Sessions
        <3>3. session'.choices # {}
              BY <2>3, <2>6 DEF training_tables
        <3>4. Placed'
              BY <1>1, <1>2, <2>3, <3>1, <3>3, NoneNames, StepNames DEF Placed, Same, Sessions
        <3>5. Training'
              BY <1>3, <2>2, <2>3, <2>4, <2>5, <2>6, <3>1, Climbing DEF Training
        <3>6. Offered' /\ Crises'
              BY <1>1, <1>2, <2>1, <2>3, <2>5, <3>1, StepNames DEF Offered, Crises, Same, Sessions
        <3>7. Terms' /\ Careering' /\ Mishapping'
              BY <1>2, <2>1, <2>4, <2>5, <3>1
                 DEF Terms, TermsCapped, Beginning, Serving, Careering, Enlisted, Mishapping,
                     OneMishapEach, Same, Histories
        <3>8. Benefits'
              BY <1>2, <2>1, <2>3, <2>4, <2>5, <3>1, NoneNames, StepNames
                 DEF Benefits, Enlisted, Same, Sessions, Histories
        <3> QED BY <3>2, <3>4, <3>5, <3>6, <3>7, <3>8
    <2>7. CASE owed - 1 = 0
        <3>1. /\ current' = "advance_term" /\ input' = NoInput /\ cursor' = "roll_training"
              /\ where' = "advance_term" /\ ~asked' /\ session'.choices = {}
            <4>1. ~(owed - 1 > 0)
                  BY <1>3, <2>7
            <4>2. advance("") /\ session'.choices = {}
                  BY <1>6, <2>3, <4>1
            <4> QED BY <1>1, <2>1, <4>2, NextSteps, StepNames, Advanced
        <3> USE DEF LifeInv
        <3>2. TypeOK' /\ Placed'
              BY <1>1, <1>2, <2>3, <2>4, <2>5, <3>1, NoneNames, StepNames, TypedNext
                 DEF RunnerTypeOK, Placed, Same, Sessions
        <3>3. Training'
              BY <1>3, <2>2, <2>3, <2>4, <2>5, <2>7, <3>1, Climbing DEF Training
        <3>4. Offered' /\ Crises'
              BY <1>1, <1>2, <2>1, <2>3, <2>5, <3>1, StepNames DEF Offered, Crises, Same, Sessions
        <3>5. Terms' /\ Careering' /\ Mishapping'
              BY <1>2, <2>1, <2>4, <2>5, <3>1
                 DEF Terms, TermsCapped, Beginning, Serving, Careering, Enlisted, Mishapping,
                     OneMishapEach, Same, Histories
        <3>6. Benefits'
              BY <1>2, <2>1, <2>3, <2>4, <2>5, <3>1, NoneNames, StepNames
                 DEF Benefits, Enlisted, Same, Sessions, Histories
        <3> QED BY <3>2, <3>3, <3>4, <3>5, <3>6
    <2> QED BY <1>3, <2>2, <2>6, <2>7
<1> QED BY <1>3, <1>4, <1>5, <1>6 DEF roll_training

LEMMA AdvanceTermInv ==
    ASSUME LifeInv, advance_term
    PROVE  LifeInv'
<1>1. current = "advance_term" /\ advance("") /\ UNCHANGED <<session, history>>
      BY DEF advance_term, at
<1>2. /\ where = "advance_term" /\ ~session.crisis_open /\ ~session.finished /\ ~asked
      /\ cursor = "roll_training" /\ session.choices = {}
    <2>1. where = "advance_term" /\ ~session.crisis_open /\ ~session.finished
          BY <1>1, AtStep, NoCrisis, StepNames
    <2>2. input = NoInput
          BY <1>1 DEF LifeInv, Placed
    <2> QED BY <1>1, <2>1, <2>2, AtStep, StepNames DEF LifeInv, Placed
<1>3. /\ RunnerTypeOK /\ session \in Sessions /\ sheet \in Sheets /\ history \in Histories
      /\ session' = session /\ history' = history
      BY <1>1, Typed DEF LifeInv
<1>4. session' \in Sessions'
      BY <1>3 DEF Sessions
<1>5. /\ sheet' \in Sheets /\ Same(sheet, sheet', {"age", "terms_served", "terms_in_career"})
      /\ sheet'.terms_served = sheet.terms_served + 1 /\ sheet.terms_served \in Nat
      /\ sheet'.terms_in_career = sheet.terms_in_career + 1 /\ sheet.terms_in_career \in Nat
    <2>1. sheet.terms_served \in Nat /\ sheet.terms_in_career \in Nat /\ sheet.age \in 0 .. aging_start_age
          BY <1>3 DEF Sheets
    <2>2. Min({sheet.age + 2, aging_start_age}) \in 0 .. aging_start_age
          BY <2>1, Numbers, AgeType
    <2>3. PICK a \in 0 .. aging_start_age : a = Min({sheet.age + 2, aging_start_age})
          BY <2>2
    <2>4. PICK t \in Nat, u \in Nat : t = sheet.terms_served + 1 /\ u = sheet.terms_in_career + 1
          BY <2>1
    <2>5. sheet' = [sheet EXCEPT !.age = a, !.terms_served = t, !.terms_in_career = u]
          BY <2>3, <2>4 DEF advance_term
    <2> QED BY <1>3, <2>1, <2>4, <2>5 DEF Sheets, Same
<1>6. /\ current' = "roll_aging" /\ input' = NoInput /\ cursor' = cursor
      /\ where' = "roll_aging" /\ ~asked'
      BY <1>1, NextSteps, StepNames, Advanced
<1> USE DEF LifeInv
<1>7. TypeOK' /\ Placed'
      BY <1>2, <1>3, <1>4, <1>5, <1>6, NoneNames, StepNames, TypedNext DEF RunnerTypeOK, Placed
<1>8. Offered' /\ Crises'
      BY <1>2, <1>3, <1>5, <1>6, StepNames DEF Offered, Crises, Same, Sheets
<1>9. Training' /\ Mishapping'
      BY <1>2, <1>3, <1>6 DEF Training, Mishapping, OneMishapEach
<1>10. Terms'
      BY <1>2, <1>3, <1>5, <1>6, Numbers DEF Terms, TermsCapped, Beginning, Serving
<1>11. Benefits'
    <2>1. history.entry \in Nat
          BY <1>3 DEF Histories
    <2> QED BY <1>2, <1>3, <1>5, <1>6, <2>1, NoneNames, StepNames DEF Benefits, Enlisted
<1>12. Careering'
      BY <1>2, <1>3, <1>5, <1>6 DEF Careering, Enlisted, Same, Sheets
<1> QED BY <1>7, <1>8, <1>9, <1>10, <1>11, <1>12

LEMMA ReenlistmentInv ==
    ASSUME LifeInv, roll_reenlistment
    PROVE  LifeInv'
<1>1. current = "roll_reenlistment" /\ UNCHANGED <<session, sheet>>
      BY DEF roll_reenlistment, at
<1>2. where = "roll_reenlistment" /\ ~session.crisis_open /\ ~session.finished
      BY <1>1, AtStep, NoCrisis, StepNames
<1>3. /\ RunnerTypeOK /\ session \in Sessions /\ sheet \in Sheets /\ history \in Histories
      /\ session' = session /\ sheet' = sheet
      BY <1>1, Typed DEF LifeInv
<1>4. session' \in Sessions'
      BY <1>3 DEF Sessions
<1>5. CASE advance("forced") /\ history' = [history EXCEPT !.forced = TRUE]
    <2>1. /\ current' = "roll_survival" /\ input' = NoInput /\ cursor' = cursor
          /\ where' = "roll_survival" /\ ~asked'
          BY <1>1, <1>5, NextSteps, StepNames, Advanced
    <2>2. /\ history' \in Histories /\ Same(history, history', {"forced"})
          /\ history'.forced = TRUE
          BY <1>3, <1>5 DEF Histories, Same
    <2> USE DEF LifeInv
    <2>3. TypeOK' /\ Placed'
          BY <1>2, <1>3, <1>4, <2>1, <2>2, NoneNames, StepNames, TypedNext DEF RunnerTypeOK, Placed
    <2>4. Offered' /\ Crises' /\ Training'
          BY <1>2, <1>3, <2>1 DEF Offered, Crises, Training
    <2>5. Terms'
          BY <1>2, <1>3, <2>1, <2>2 DEF Terms, TermsCapped, Beginning, Serving
    <2>6. Benefits'
          BY <1>2, <1>3, <2>1, <2>2, NoneNames, StepNames DEF Benefits, Enlisted, Same, Histories
    <2>7. Careering' /\ Mishapping'
          BY <1>2, <1>3, <2>1, <2>2
             DEF Careering, Mishapping, OneMishapEach, Enlisted, Same, Histories
    <2> QED BY <2>3, <2>4, <2>5, <2>6, <2>7
<1>6. CASE advance("must_leave") /\ UNCHANGED history
    <2>1. <<"roll_reenlistment", "muster_out">> \in GoesOn
          BY DEF GoesOn
    <2>2. UNCHANGED kept
          BY <1>1, <1>6 DEF kept
    <2> QED BY <1>1, <1>2, <1>6, <2>1, <2>2, StepNames, NextSteps, KeptSame, GoOn
<1>7. CASE advance("may_choose") /\ UNCHANGED history
    <2>1. <<"roll_reenlistment", "choose_term_end">> \in GoesOn
          BY DEF GoesOn
    <2>2. UNCHANGED kept
          BY <1>1, <1>7 DEF kept
    <2> QED BY <1>1, <1>2, <1>7, <2>1, <2>2, StepNames, NextSteps, KeptSame, GoOn
<1> QED BY <1>5, <1>6, <1>7 DEF roll_reenlistment

LEMMA TermEndInv ==
    ASSUME LifeInv, choose_term_end
    PROVE  LifeInv'
<1>1. current = "choose_term_end" /\ ~session.crisis_open
      BY NoCrisis, StepNames DEF choose_term_end, entered, answered
<1>2. CASE advance("muster_out") /\ UNCHANGED kept
    <2>1. <<"choose_term_end", "muster_out">> \in GoesOn
          BY DEF GoesOn
    <2> QED BY <1>1, <1>2, <2>1, StepNames, NextSteps, KeptSame, GoOn
<1>3. CASE /\ entered("choose_term_end") /\ sheet.terms_served < max_terms
           /\ ask({choice("1", "serve"), choice("2", "leave")}) /\ UNCHANGED <<sheet, history>>
      BY <1>3, StepNames, AskStep
<1>4. CASE answered("choose_term_end") /\ not_an_option
      BY <1>4, NotAnOption, StepNames
<1>5. ASSUME answered("choose_term_end"), NEW c \in find_choice(input),
             advance(IF c.key = "1" THEN "continue" ELSE "muster_out"),
             history' = [history EXCEPT !.forced = FALSE],
             session' = [session EXCEPT !.choices = {}], UNCHANGED sheet
      PROVE  LifeInv'
    <2>1. where = "choose_term_end" /\ asked /\ ~session.finished
          BY <1>5, <1>1, AtStep, StepNames DEF answered, find_choice
    <2>2. /\ RunnerTypeOK /\ session \in Sessions /\ sheet \in Sheets /\ history \in Histories
          /\ sheet' = sheet
          BY <1>5, Typed DEF LifeInv
    <2>3. session' \in Sessions' /\ Same(session, session', {"choices"})
          BY <1>5, KeptSame
    <2>4. /\ history' \in Histories /\ Same(history, history', {"forced"})
          BY <1>5, <2>2 DEF Histories, Same
    <2>5. /\ current' \in {"roll_survival", "muster_out"} /\ input' = NoInput /\ cursor' = cursor
          /\ where' = current' /\ ~asked'
        <3>1. CASE c.key = "1"
              BY <1>1, <1>5, <3>1, NextSteps, StepNames, Advanced
        <3>2. CASE c.key # "1"
              BY <1>1, <1>5, <3>2, NextSteps, StepNames, Advanced
        <3> QED BY <3>1, <3>2
    <2> USE DEF LifeInv
    <2>6. TypeOK' /\ Placed'
          BY <2>1, <2>2, <2>3, <2>4, <2>5, NoneNames, StepNames, TypedNext
             DEF RunnerTypeOK, Placed, Same, Sessions
    <2>7. Offered' /\ Crises'
          BY <1>1, <2>1, <2>2, <2>3, <2>5, StepNames DEF Offered, Crises, Same, Sessions
    <2>8. Training'
        <3>1. session'.training_rolls_owed = session.training_rolls_owed
              BY <2>2, <2>3 DEF Same, Sessions
        <3> QED BY <2>1, <2>5, <3>1 DEF Training
    <2>9. Terms'
          BY <2>1, <2>2, <2>5, Numbers DEF Terms, TermsCapped, Beginning, Serving, Sheets
    <2>10. Benefits'
          BY <2>1, <2>2, <2>3, <2>4, <2>5, NoneNames, StepNames
             DEF Benefits, Enlisted, Same, Sessions, Histories
    <2>11. Careering' /\ Mishapping'
          BY <2>1, <2>2, <2>4, <2>5
             DEF Careering, Mishapping, OneMishapEach, Enlisted, Same, Histories
    <2> QED BY <2>6, <2>7, <2>8, <2>9, <2>10, <2>11
<1> QED BY <1>2, <1>3, <1>4, <1>5 DEF choose_term_end

LEMMA CrisisOpens ==
    ASSUME LifeInv, NEW step \in {"roll_aging", "survival_mishap"}, current = step,
           NEW fields, fields \in Sessions, Same(session, fields, {"benefits_forfeited"}),
           begin_crisis(fields), sheet'.credits = sheet.credits
    PROVE  /\ session' \in Sessions'
           /\ Same(session, session', {"benefits_forfeited", "crisis_open", "crisis_price", "choices"})
           /\ session'.benefits_forfeited = fields.benefits_forfeited
           /\ session'.crisis_open = TRUE /\ session'.crisis_price \in Prices
           /\ session'.choices = crisis_choices(session.crisis_price)'
           /\ current' = NoStep /\ input' = NoInput /\ cursor' = step
           /\ where' = step /\ asked'
<1>1. session \in Sessions
      BY Typed DEF LifeInv
<1>2. PICK price \in Prices :
          /\ pending
          /\ session' = [fields EXCEPT !.crisis_open = TRUE, !.crisis_price = price,
                            !.choices = crisis_choices(price)]
      BY DEF begin_crisis
<1>3. PICK offered : offered = crisis_choices(price)
      OBVIOUS
<1>4. session' = [fields EXCEPT !.crisis_open = TRUE, !.crisis_price = price, !.choices = offered]
      BY <1>2, <1>3
<1>5. /\ session' \in Sessions'
      /\ Same(session, session', {"benefits_forfeited", "crisis_open", "crisis_price", "choices"})
      /\ session'.benefits_forfeited = fields.benefits_forfeited
      /\ session'.crisis_open = TRUE /\ session'.crisis_price = price
      /\ session'.choices = offered
      BY <1>1, <1>4 DEF Sessions, Same
<1>6. offered = crisis_choices(session.crisis_price)' /\ offered # {}
      BY <1>3, <1>5 DEF crisis_choices, choice
<1>7. /\ current' = NoStep /\ input' = NoInput /\ cursor' = step /\ where' = step /\ asked'
      BY <1>2, <1>5, <1>6, Paused
<1> QED BY <1>5, <1>6, <1>7

LEMMA ResolveInv ==
    ASSUME LifeInv, NEW step \in {"roll_aging", "survival_mishap"}, answered(step), resolve_crisis
    PROVE  LifeInv'
<1>1. /\ current = step /\ step \in Range(basic_chargen) /\ session.crisis_open
      /\ history' = history /\ session' = [session EXCEPT !.crisis_open = FALSE]
      BY StepNames DEF answered, resolve_crisis
<1>2. /\ RunnerTypeOK /\ session \in Sessions /\ sheet \in Sheets /\ history \in Histories
      BY Typed DEF LifeInv
<1>3. /\ where = step /\ asked /\ ~session.finished
      BY <1>1, AtStep, NoneNames DEF LifeInv, Crises, answered
<1>4. /\ session' \in Sessions' /\ Same(session, session', {"crisis_open"})
      /\ session'.crisis_open = FALSE
      BY <1>1, <1>2 DEF Sessions, Same
<1>5. PICK to : /\ to \in {"roll_reenlistment", "muster_out", "finish_character"}
                /\ step = "roll_aging" => to # "muster_out"
                /\ step = "survival_mishap" => to # "roll_reenlistment"
                /\ current' = to /\ input' = NoInput /\ cursor' = cursor /\ where' = to /\ ~asked'
                /\ to = "finish_character" \/ ~sheet'.ruined
                /\ sheet' \in Sheets
                /\ Same(sheet, sheet', {"credits", "ruined", "qualification_barred"})
                /\ sheet.qualification_barred => sheet'.qualification_barred
    <2>1. CASE /\ advance("")
               /\ sheet' = [sheet EXCEPT !.credits = @ - Min({@, session.crisis_price}),
                               !.ruined = FALSE, !.qualification_barred = TRUE]
        <3>1. PICK to \in {"roll_reenlistment", "muster_out"} :
                  /\ next_step(step, "") = to /\ to \in Range(basic_chargen)
                  /\ step = "roll_aging" => to # "muster_out"
                  /\ step = "survival_mishap" => to # "roll_reenlistment"
              BY NextSteps, StepNames
        <3>2. current' = to /\ input' = NoInput /\ cursor' = cursor /\ where' = to /\ ~asked'
              BY <1>1, <2>1, <3>1, Advanced
        <3>3. sheet.credits - Min({sheet.credits, session.crisis_price}) \in 0 .. MaxCredits
            <4>1. sheet.credits \in 0 .. MaxCredits /\ session.crisis_price \in Prices \cup {0}
                  BY <1>2 DEF Sheets, Sessions
            <4>2. session.crisis_price \in Nat
                <5>1. Prices \cup {0} \subseteq Nat
                      BY ConstantsAssumption
                <5>2. session.crisis_price \in Prices \cup {0}
                      BY <4>1
                <5> QED BY <5>1, <5>2
            <4>4. MaxCredits \in Nat
                  BY Numbers
            <4>5. sheet.credits \in Nat /\ sheet.credits <= MaxCredits
                  BY <4>1, <4>4
            <4>3. Min({sheet.credits, session.crisis_price}) =
                      IF sheet.credits <= session.crisis_price
                      THEN sheet.credits ELSE session.crisis_price
                  BY <4>2, <4>5, MinOfTwo
            <4> QED BY <4>2, <4>3, <4>4, <4>5
        <3>4. PICK credits \in 0 .. MaxCredits :
                  credits = sheet.credits - Min({sheet.credits, session.crisis_price})
              BY <3>3
        <3>5. sheet' = [sheet EXCEPT !.credits = credits, !.ruined = FALSE,
                           !.qualification_barred = TRUE]
              BY <2>1, <3>4
        <3>6. /\ sheet' \in Sheets /\ Same(sheet, sheet', {"credits", "ruined", "qualification_barred"})
              /\ sheet'.ruined = FALSE /\ sheet'.qualification_barred = TRUE
              BY <1>2, <3>5 DEF Sheets, Same
        <3> QED BY <3>1, <3>2, <3>6
    <2>2. CASE advance("died") /\ UNCHANGED sheet
        <3>1. next_step(step, "died") = "finish_character"
              BY NextSteps
        <3>2. sheet' = sheet /\ Same(sheet, sheet', {"credits", "ruined", "qualification_barred"})
              BY <2>2 DEF Same
        <3>3. /\ current' = "finish_character" /\ input' = NoInput /\ cursor' = cursor
              /\ where' = "finish_character" /\ ~asked'
              BY <1>1, <2>2, <3>1, StepNames, Advanced
        <3> QED BY <1>2, <3>2, <3>3
    <2> QED BY <2>1, <2>2 DEF resolve_crisis
<1> USE DEF LifeInv
<1>6. TypeOK' /\ Placed'
      BY <1>1, <1>2, <1>3, <1>4, <1>5, NoneNames, StepNames, TypedNext
         DEF RunnerTypeOK, Placed, Same, Sessions
<1>7. Offered' /\ Crises'
      BY <1>4, <1>5 DEF Offered, Crises
<1>8. Training'
    <2>1. session'.training_rolls_owed = session.training_rolls_owed
          BY <1>2, <1>4 DEF Same, Sessions
    <2> QED BY <1>3, <1>5, <2>1 DEF Training
<1>9. Terms'
    <2>1. sheet'.terms_served = sheet.terms_served
          BY <1>2, <1>5 DEF Same, Sheets
    <2> QED BY <1>1, <1>5, <2>1 DEF Terms, TermsCapped, Beginning, Serving
<1>10. Benefits'
    <2>1. /\ session'.benefit_rolls_owed = session.benefit_rolls_owed
          /\ session'.benefits_forfeited = session.benefits_forfeited
          BY <1>2, <1>4 DEF Same, Sessions
    <2>2. /\ sheet'.terms_in_career = sheet.terms_in_career
          /\ sheet'.terms_served = sheet.terms_served
          BY <1>2, <1>5 DEF Same, Sheets
    <2>3. session.benefit_rolls_owed = 0
        <3>1. session.benefit_rolls_owed \in Nat
              BY <1>2 DEF Sessions
        <3> QED BY <1>3, <3>1 DEF Benefits
    <2>4. step = "roll_aging" => session.benefits_forfeited = FALSE
        <3>1. session.benefits_forfeited \in BOOLEAN
              BY <1>2 DEF Sessions
        <3> QED BY <1>3, <3>1, NoneNames, StepNames DEF Benefits
    <2>5. ~session'.benefits_forfeited \/ to \in {"muster_out", "finish_character"}
          BY <1>5, <2>1, <2>4
    <2>6. /\ sheet.terms_in_career = sheet.terms_served - history.entry
          /\ (history.lost <=> session.benefits_forfeited)
          /\ history.taken = 0 /\ history.cashed = 0
          BY <1>3 DEF Benefits, Enlisted
    <2> QED BY <1>1, <1>5, <2>1, <2>2, <2>3, <2>5, <2>6 DEF Benefits, Enlisted
<1>11. Careering'
    <2>1. /\ sheet'.careers_served = sheet.careers_served
          /\ {sheet.qualification_barred, sheet'.qualification_barred} \subseteq BOOLEAN
          BY <1>2, <1>5 DEF Same, Sheets
    <2> QED BY <1>1, <1>3, <1>5, <2>1 DEF Careering, Enlisted
<1>12. Mishapping'
      BY <1>1, <1>5 DEF Mishapping, OneMishapEach
<1> QED BY <1>6, <1>7, <1>8, <1>9, <1>10, <1>11, <1>12


\* Years or an injury have told on the character: a crisis opens, the life goes
\* on, or the question stays open because the referee gave no answer.
LEMMA Harmed ==
    ASSUME LifeInv, NEW step \in {"roll_aging", "survival_mishap"}, where = step,
           ~session.crisis_open, ~session.finished,
           session' \in Sessions',
           Same(session, session', {"benefits_forfeited", "crisis_open", "crisis_price", "choices"}),
           sheet' \in Sheets, Same(sheet, sheet', {"age", "ruined"}),
           history' \in Histories, Same(history, history', {"mishaps", "lost", "unanswered"}),
           history'.lost <=> session'.benefits_forfeited,
           step = "roll_aging" => ~session'.benefits_forfeited,
           history'.mishaps <= 1 + history'.unanswered,
           current' \in Range(basic_chargen) \cup {NoStep}, input' = NoInput,
           cursor' \in {cursor, step},
           \/ /\ current' = NoStep /\ asked' /\ where' = step /\ session'.choices # {}
              /\ \/ /\ session'.crisis_open /\ session'.crisis_price \in Prices
                    /\ session'.choices = crisis_choices(session.crisis_price)'
                 \/ /\ ~session'.crisis_open /\ ~sheet'.ruined
                    /\ history'.mishaps <= history'.unanswered
           \/ /\ ~asked' /\ ~session'.crisis_open /\ ~sheet'.ruined
              /\ <<step, where'>> \in {<<"roll_aging", "roll_reenlistment">>,
                                       <<"survival_mishap", "muster_out">>}
              /\ current' = where'
    PROVE  LifeInv'
<1>1. /\ RunnerTypeOK /\ session \in Sessions /\ sheet \in Sheets /\ history \in Histories
      BY Typed DEF LifeInv
<1>2. /\ session'.training_rolls_owed = session.training_rolls_owed
      /\ session'.benefit_rolls_owed = session.benefit_rolls_owed
      /\ session'.career = session.career /\ session'.finished = session.finished
      BY <1>1 DEF Sessions, Same
<1>3. /\ sheet'.terms_served = sheet.terms_served /\ sheet'.rank = sheet.rank
      /\ sheet'.terms_in_career = sheet.terms_in_career
      /\ sheet'.careers_served = sheet.careers_served
      /\ sheet'.qualification_barred = sheet.qualification_barred
      BY <1>1 DEF Sheets, Same
<1>4. /\ history'.entered = history.entered /\ history'.entry = history.entry
      /\ history'.taken = history.taken /\ history'.cashed = history.cashed
      /\ history'.forced = history.forced
      BY <1>1 DEF Histories, Same
<1>5. /\ where' \in {"roll_aging", "survival_mishap", "roll_reenlistment", "muster_out"}
      /\ where' = "muster_out" => step = "survival_mishap" /\ ~asked'
      /\ where' = "roll_reenlistment" => step = "roll_aging" /\ ~asked'
      /\ where' \in {"roll_aging", "survival_mishap"} => where' = step /\ asked'
      OBVIOUS
<1> USE DEF LifeInv
<1>6. TypeOK'
    <2>1. cursor' \in Range(basic_chargen) \cup {NoStep}
          BY <1>1, StepNames DEF RunnerTypeOK
    <2> QED BY <2>1, TypedNext DEF RunnerTypeOK
<1>7. Placed'
    <2>1. cursor' \notin {"advance_term", "finish_character"}
          BY DEF Placed
    <2>2. current' # NoStep => current' \in {"roll_reenlistment", "muster_out"} /\ ~asked'
          BY NoneNames, StepNames
    <2>3. asked' => session'.choices # {}
          OBVIOUS
    <2> QED BY <1>2, <2>1, <2>2, <2>3, NoneNames, StepNames DEF Placed
<1>8. Offered' /\ Crises'
    <2>1. Offered'
          BY <1>5 DEF Offered
    <2>2. sheet'.ruined => session'.crisis_open
          OBVIOUS
    <2>3. session'.crisis_open => /\ asked' /\ where' = step /\ session'.crisis_price \in Prices
                                  /\ session'.choices = crisis_choices(session.crisis_price)'
          OBVIOUS
    <2> QED BY <2>1, <2>2, <2>3 DEF Crises
<1>9. Training'
      BY <1>2, <1>5 DEF Training
<1>10. Terms'
      BY <1>3, <1>4, <1>5 DEF Terms, TermsCapped, Beginning, Serving
<1>11. Benefits'
    <2>1. session.benefit_rolls_owed = 0
        <3>1. session.benefit_rolls_owed \in Nat
              BY <1>1 DEF Sessions
        <3> QED BY <3>1 DEF Benefits
    <2>2. /\ sheet.terms_in_career = sheet.terms_served - history.entry
          /\ history.taken = 0 /\ history.cashed = 0
          BY DEF Benefits, Enlisted
    <2>3. session'.benefits_forfeited => where' \in {"survival_mishap", "muster_out"}
          BY <1>5
    <2> QED BY <1>2, <1>3, <1>4, <1>5, <2>1, <2>2, <2>3 DEF Benefits, Enlisted
<1>12. Careering'
      BY <1>3, <1>4, <1>5 DEF Careering, Enlisted
<1>13. Mishapping'
    <2>1. (where' = "survival_mishap" /\ asked' /\ ~session'.crisis_open) =>
              history'.mishaps <= history'.unanswered
          BY <1>5
    <2> QED BY <1>5, <2>1 DEF Mishapping, OneMishapEach
<1> QED BY <1>6, <1>7, <1>8, <1>9, <1>10, <1>11, <1>12, <1>13

\* No step leaves a characteristic at 0 unasked.
LEMMA NotRuined ==
    ASSUME LifeInv, ~session.crisis_open, ~session.finished, where # "finish_character"
    PROVE  sheet.ruined = FALSE
<1>1. sheet \in Sheets
      BY Typed DEF LifeInv
<1>2. sheet.ruined \in BOOLEAN
      BY <1>1 DEF Sheets
<1> QED BY <1>2 DEF LifeInv, Crises

LEMMA AgingInv ==
    ASSUME LifeInv, roll_aging
    PROVE  LifeInv'
<1>1. CASE answered("roll_aging") /\ resolve_crisis
      BY <1>1, ResolveInv
<1>2. CASE /\ at("roll_aging") /\ ~session.crisis_open /\ advance("") /\ UNCHANGED kept
    <2>1. <<"roll_aging", "roll_reenlistment">> \in GoesOn
          BY DEF GoesOn
    <2> QED BY <1>2, <2>1, StepNames, NextSteps, KeptSame, GoOn DEF at
<1>3. ASSUME age
      PROVE  LifeInv'
    <2>1. /\ current = "roll_aging" /\ ~session.crisis_open
          /\ where = "roll_aging" /\ ~session.finished
          BY <1>3, AtStep, StepNames DEF age, at
    <2>2. /\ RunnerTypeOK /\ session \in Sessions /\ sheet \in Sheets /\ history \in Histories
          BY Typed DEF LifeInv
    <2>3. CASE failed /\ UNCHANGED kept
        <3>1. /\ current' = NoStep /\ input' = NoInput /\ cursor' = cursor /\ asked'
              /\ session' = session /\ sheet' = sheet /\ history' = history
              BY <2>3 DEF failed, kept, asked
        <3>2. RunnerTypeOK'
              BY <2>2, <3>1 DEF RunnerTypeOK
        <3>3. CASE asked
            <4>1. input # NoInput /\ cursor = "roll_aging" /\ session.choices # {}
                  BY <2>1, <3>3, AtStep, NoneNames, StepNames DEF asked, where
            <4>2. where' = where
                  BY <2>1, <3>1, <4>1 DEF where
            <4> QED BY <2>1, <2>3, <3>1, <3>2, <3>3, <4>2, StillOpen
        <3>4. CASE ~asked
            <4>1. cursor = "roll_training" /\ session.choices = {}
                  BY <2>1, <3>4 DEF LifeInv, Placed, asked
            <4>2. where' = NoStep
                  BY <3>1, <4>1 DEF where
            <4>3. session' \in Sessions'
                  BY <2>2, <3>1 DEF Sessions
            <4>4. NoStep \notin Range(basic_chargen)
                  BY NoneNames
            <4> USE DEF LifeInv
            <4>5. TypeOK' /\ Placed'
                  BY <2>1, <2>2, <3>1, <3>2, <4>1, <4>3, <4>4, StepNames, TypedNext DEF Placed
            <4>6. sheet.ruined = FALSE
                  BY <2>1, NotRuined
            <4>7. Offered' /\ Crises'
                  BY <2>1, <3>1, <4>2, <4>4, <4>6, StepNames DEF Offered, Crises
            <4>8. Training' /\ Terms' /\ Mishapping'
                  BY <2>1, <3>1, <4>2, <4>4, StepNames
                     DEF Training, Terms, TermsCapped, Beginning, Serving, Mishapping, OneMishapEach
            <4>9. Benefits' /\ Careering'
                  BY <2>1, <3>1, <3>4, <4>2, <4>4, StepNames DEF Benefits, Enlisted, Careering
            <4> QED BY <4>5, <4>7, <4>8, <4>9
        <3> QED BY <3>3, <3>4
    <2>4. ASSUME NEW toll \in BOOLEAN, sheet' = [sheet EXCEPT !.ruined = @ \/ toll],
                 unless_ruined(session), UNCHANGED history
          PROVE  LifeInv'
        <3>1. sheet.ruined = FALSE
              BY <2>1, NotRuined
        <3>2. sheet' = [sheet EXCEPT !.ruined = toll]
              BY <2>2, <2>4, <3>1 DEF Sheets
        <3>3. /\ sheet' \in Sheets /\ Same(sheet, sheet', {"age", "ruined"})
              /\ sheet'.credits = sheet.credits
              BY <2>2, <3>2 DEF Sheets, Same
        <3>4. /\ history' \in Histories /\ Same(history, history', {"mishaps", "lost", "unanswered"})
              /\ history'.lost = history.lost
              /\ history'.mishaps <= 1 + history'.unanswered
              BY <2>2, <2>4 DEF Same, LifeInv, Mishapping, OneMishapEach
        <3>5. ~history.lost /\ ~session.benefits_forfeited
            <4>1. ~session.benefits_forfeited
                  BY <2>1, NoneNames, StepNames DEF LifeInv, Benefits
            <4>2. history.lost <=> session.benefits_forfeited
                  BY <2>1 DEF LifeInv, Benefits, Enlisted
            <4> QED BY <4>1, <4>2
        <3>6. CASE begin_crisis(session)
            <4>1. Same(session, session, {"benefits_forfeited"})
                  BY DEF Same
            <4>2. /\ session' \in Sessions'
                  /\ Same(session, session', {"benefits_forfeited", "crisis_open", "crisis_price", "choices"})
                  /\ session'.benefits_forfeited = session.benefits_forfeited
                  /\ session'.crisis_open = TRUE /\ session'.crisis_price \in Prices
                  /\ session'.choices = crisis_choices(session.crisis_price)'
                  /\ current' = NoStep /\ input' = NoInput /\ cursor' = "roll_aging"
                  /\ where' = "roll_aging" /\ asked'
                  BY <2>1, <2>2, <3>3, <3>6, <4>1, CrisisOpens
            <4>3. session'.choices # {}
                  BY <4>2 DEF crisis_choices
            <4> QED BY <2>1, <3>3, <3>4, <3>5, <4>2, <4>3, Harmed
        <3>7. CASE ~sheet'.ruined /\ advance("") /\ session' = session
            <4>1. /\ current' = "roll_reenlistment" /\ input' = NoInput /\ cursor' = cursor
                  /\ where' = "roll_reenlistment" /\ ~asked'
                  BY <2>1, <3>7, NextSteps, StepNames, Advanced
            <4>2. /\ session' \in Sessions'
                  /\ Same(session, session', {"benefits_forfeited", "crisis_open", "crisis_price", "choices"})
                  /\ session'.benefits_forfeited = session.benefits_forfeited
                  /\ session'.crisis_open = session.crisis_open
                  BY <2>2, <3>7 DEF Sessions, Same
            <4>3. current' \in Range(basic_chargen)
                  BY <4>1, StepNames
            <4> QED BY <2>1, <3>3, <3>4, <3>5, <3>7, <4>1, <4>2, <4>3, Harmed
        <3> QED BY <2>4, <3>6, <3>7 DEF unless_ruined
    <2> QED BY <1>3, <2>3, <2>4 DEF age
<1> QED BY <1>1, <1>2, <1>3 DEF roll_aging

LEMMA Rows ==
    ASSUME NEW row \in Mishaps
    PROVE  row.halves \in {1, 2} /\ row.forfeits \in BOOLEAN
<1>1. ASSUME NEW i, row = [halves |-> 1, forfeits |-> FALSE, injury |-> i]
      PROVE  row.halves \in {1, 2} /\ row.forfeits \in BOOLEAN
      BY <1>1
<1>2. ASSUME NEW h \in {1, 2}, row = [halves |-> h, forfeits |-> TRUE, injury |-> "none"]
      PROVE  row.halves \in {1, 2} /\ row.forfeits \in BOOLEAN
      BY <1>2
<1> QED BY <1>1, <1>2 DEF Mishaps

\* The benefits a row costs.
LEMMA Forfeited ==
    ASSUME LifeInv, NEW row \in Mishaps
    PROVE  /\ forfeit(row) \in Sessions
           /\ Same(session, forfeit(row), {"benefits_forfeited"})
           /\ forfeit(row).benefits_forfeited <=> session.benefits_forfeited \/ row.forfeits
<1>1. session \in Sessions
      BY Typed DEF LifeInv
<1>2. row.forfeits \in BOOLEAN
      BY Rows
<1>3. PICK lost \in BOOLEAN : lost <=> session.benefits_forfeited \/ row.forfeits
      OBVIOUS
<1>4. forfeit(row) = [session EXCEPT !.benefits_forfeited = lost]
    <2>1. session.benefits_forfeited \in BOOLEAN
          BY <1>1 DEF Sessions
    <2>2. (session.benefits_forfeited \/ row.forfeits) = lost
          BY <1>2, <1>3, <2>1
    <2> QED BY <2>2 DEF forfeit
<1> QED BY <1>1, <1>3, <1>4 DEF Sessions, Same

\* What a row does to the sheet and to the ledger of mishaps.
LEMMA Suffered ==
    ASSUME LifeInv, sheet.ruined = FALSE, NEW row \in Mishaps, NEW toll \in BOOLEAN,
           NEW unanswered \in {0, 1}, suffer(row, toll, unanswered)
    PROVE  /\ sheet' \in Sheets /\ Same(sheet, sheet', {"age", "ruined"})
           /\ sheet'.credits = sheet.credits /\ sheet'.ruined = toll
           /\ history' \in Histories
           /\ Same(history, history', {"mishaps", "lost", "unanswered"})
           /\ history'.lost <=> history.lost \/ row.forfeits
           /\ history'.mishaps = history.mishaps + 1
           /\ history'.unanswered = history.unanswered + unanswered
           /\ history.mishaps \in Nat /\ history.unanswered \in Nat
<1>1. sheet \in Sheets /\ history \in Histories
      BY Typed DEF LifeInv
<1>2. row.halves \in {1, 2} /\ row.forfeits \in BOOLEAN
      BY Rows
<1>3. PICK a \in 0 .. aging_start_age : a = Min({sheet.age + row.halves, aging_start_age})
    <2>1. sheet.age \in 0 .. aging_start_age
          BY <1>1 DEF Sheets
    <2>2. sheet.age + row.halves \in Int /\ 0 <= sheet.age + row.halves
          BY <1>2, <2>1, Numbers
    <2> QED BY <2>2, AgeType
<1>4. sheet' = [sheet EXCEPT !.age = a, !.ruined = toll]
      BY <1>1, <1>3 DEF suffer, Sheets
<1>5. PICK m \in Nat, u \in Nat : m = history.mishaps + 1 /\ u = history.unanswered + unanswered
      BY <1>1 DEF Histories
<1>6. PICK lost \in BOOLEAN : lost <=> history.lost \/ row.forfeits
      OBVIOUS
<1>7. history' = [history EXCEPT !.mishaps = m, !.lost = lost, !.unanswered = u]
    <2>1. history.lost \in BOOLEAN
          BY <1>1 DEF Histories
    <2>2. (history.lost \/ row.forfeits) = lost
          BY <1>2, <1>6, <2>1
    <2> QED BY <1>5, <2>2 DEF suffer
<1>8. /\ sheet' \in Sheets /\ Same(sheet, sheet', {"age", "ruined"})
      /\ sheet'.credits = sheet.credits /\ sheet'.ruined = toll
      BY <1>1, <1>4 DEF Sheets, Same
<1>9. /\ history' \in Histories /\ Same(history, history', {"mishaps", "lost", "unanswered"})
      /\ history'.lost = lost /\ history'.mishaps = m /\ history'.unanswered = u
      BY <1>1, <1>7 DEF Histories, Same
<1> QED BY <1>1, <1>5, <1>6, <1>8, <1>9 DEF Histories

LEMMA MishapInv ==
    ASSUME LifeInv, survival_mishap
    PROVE  LifeInv'
<1>1. CASE answered("survival_mishap") /\ resolve_crisis
      BY <1>1, ResolveInv
<1>2. CASE /\ entered("survival_mishap")
           /\ ask({choice("1", "mishap"), choice("2", "die")}) /\ UNCHANGED <<sheet, history>>
      BY <1>2, StepNames, AskStep
<1>3. CASE /\ answered("survival_mishap") /\ ~session.crisis_open
           /\ advance("died") /\ UNCHANGED kept
    <2>1. <<"survival_mishap", "finish_character">> \in GoesOn
          BY DEF GoesOn
    <2> QED BY <1>3, <2>1, StepNames, NextSteps, KeptSame, GoOn DEF answered
<1>4. ASSUME answered("survival_mishap"), ~session.crisis_open, take_mishap
      PROVE  LifeInv'
    <2>1. /\ current = "survival_mishap" /\ cursor = "survival_mishap" /\ input # NoInput
          /\ where = "survival_mishap" /\ asked /\ ~session.finished /\ session.choices # {}
        <3>1. /\ current = "survival_mishap" /\ cursor = "survival_mishap" /\ input # NoInput
              /\ asked /\ ~session.finished
              BY <1>4, AtStep, StepNames DEF answered
        <3>2. where = "survival_mishap" /\ session.choices # {}
              BY <3>1, AtStep, NoneNames, StepNames
        <3> QED BY <3>1, <3>2
    <2>2. /\ RunnerTypeOK /\ session \in Sessions /\ sheet \in Sheets /\ history \in Histories
          BY Typed DEF LifeInv
    <2>3. sheet.ruined = FALSE
          BY <1>4, <2>1, NotRuined
    <2>4. /\ history.mishaps <= history.unanswered
          /\ history.lost <=> session.benefits_forfeited
          BY <1>4, <2>1 DEF LifeInv, Mishapping, Benefits, Enlisted
    <2>5. "survival_mishap" \in Range(basic_chargen)
          BY StepNames
    <2>6. PICK row \in Mishaps :
             \/ failed /\ UNCHANGED kept
             \/ failed /\ suffer(row, FALSE, 1) /\ session' = forfeit(row)
             \/ \E toll \in BOOLEAN : suffer(row, toll, 0) /\ unless_ruined(forfeit(row))
          BY <1>4 DEF take_mishap
    <2>7. CASE failed /\ UNCHANGED kept
        <3>1. /\ current' = NoStep /\ input' = NoInput /\ cursor' = cursor /\ asked'
              /\ session' = session
              BY <2>7 DEF failed, kept, asked
        <3>2. where' = where /\ RunnerTypeOK'
              BY <2>1, <2>2, <3>1 DEF where, RunnerTypeOK
        <3> QED BY <2>1, <2>7, <3>1, <3>2, StillOpen
    <2>8. CASE failed /\ suffer(row, FALSE, 1) /\ session' = forfeit(row)
        <3>1. /\ sheet' \in Sheets /\ Same(sheet, sheet', {"age", "ruined"}) /\ sheet'.ruined = FALSE
              /\ history' \in Histories
              /\ Same(history, history', {"mishaps", "lost", "unanswered"})
              /\ history'.lost <=> history.lost \/ row.forfeits
              /\ history'.mishaps = history.mishaps + 1
              /\ history'.unanswered = history.unanswered + 1
              /\ history.mishaps \in Nat /\ history.unanswered \in Nat
              BY <2>3, <2>8, Suffered
        <3>2. /\ session' \in Sessions
              /\ Same(session, session', {"benefits_forfeited"})
              /\ session'.benefits_forfeited <=> session.benefits_forfeited \/ row.forfeits
              BY <2>8, Forfeited
        <3>3. /\ session' \in Sessions' /\ session'.choices = session.choices
              /\ Same(session, session', {"benefits_forfeited", "crisis_open", "crisis_price", "choices"})
              /\ session'.crisis_open = session.crisis_open
              BY <2>2, <3>2 DEF Sessions, Same
        <3>4. /\ current' = NoStep /\ input' = NoInput /\ cursor' = cursor
              /\ asked' /\ where' = "survival_mishap"
              BY <2>1, <2>8, <3>3 DEF failed, asked, where
        <3>5. /\ history'.mishaps <= history'.unanswered
              /\ history'.mishaps <= 1 + history'.unanswered
              BY <2>4, <3>1
        <3>6. history'.lost <=> session'.benefits_forfeited
              BY <2>4, <3>1, <3>2
        <3> QED BY <1>4, <2>1, <3>1, <3>3, <3>4, <3>5, <3>6, Harmed
    <2>9. ASSUME NEW toll \in BOOLEAN, suffer(row, toll, 0), unless_ruined(forfeit(row))
          PROVE  LifeInv'
        <3>1. /\ sheet' \in Sheets /\ Same(sheet, sheet', {"age", "ruined"})
              /\ sheet'.credits = sheet.credits
              /\ history' \in Histories
              /\ Same(history, history', {"mishaps", "lost", "unanswered"})
              /\ history'.lost <=> history.lost \/ row.forfeits
              /\ history'.mishaps = history.mishaps + 1
              /\ history'.unanswered = history.unanswered + 0
              /\ history.mishaps \in Nat /\ history.unanswered \in Nat
              BY <2>3, <2>9, Suffered
        <3>2. /\ forfeit(row) \in Sessions
              /\ Same(session, forfeit(row), {"benefits_forfeited"})
              /\ forfeit(row).benefits_forfeited <=> session.benefits_forfeited \/ row.forfeits
              BY Forfeited
        <3>3. history'.mishaps <= 1 + history'.unanswered
              BY <2>4, <3>1
        <3>4. CASE begin_crisis(forfeit(row))
            <4>1. /\ session' \in Sessions'
                  /\ Same(session, session', {"benefits_forfeited", "crisis_open", "crisis_price", "choices"})
                  /\ session'.benefits_forfeited = forfeit(row).benefits_forfeited
                  /\ session'.crisis_open = TRUE /\ session'.crisis_price \in Prices
                  /\ session'.choices = crisis_choices(session.crisis_price)'
                  /\ current' = NoStep /\ input' = NoInput /\ cursor' = "survival_mishap"
                  /\ where' = "survival_mishap" /\ asked'
                  BY <2>1, <3>1, <3>2, <3>4, CrisisOpens
            <4>2. session'.choices # {}
                  BY <4>1 DEF crisis_choices
            <4>3. history'.lost <=> session'.benefits_forfeited
                  BY <2>4, <3>1, <3>2, <4>1
            <4> QED BY <1>4, <2>1, <3>1, <3>3, <4>1, <4>2, <4>3, Harmed
        <3>5. CASE ~sheet'.ruined /\ advance("") /\ session' = forfeit(row)
            <4>1. /\ current' = "muster_out" /\ input' = NoInput /\ cursor' = cursor
                  /\ where' = "muster_out" /\ ~asked'
                  BY <2>1, <3>5, NextSteps, StepNames, Advanced
            <4>2. /\ session' \in Sessions'
                  /\ Same(session, session', {"benefits_forfeited", "crisis_open", "crisis_price", "choices"})
                  /\ session'.crisis_open = session.crisis_open
                  BY <2>2, <3>2, <3>5 DEF Sessions, Same
            <4>3. history'.lost <=> session'.benefits_forfeited
                  BY <2>4, <3>1, <3>2, <3>5
            <4>4. current' \in Range(basic_chargen)
                  BY <4>1, StepNames
            <4> QED BY <1>4, <2>1, <3>1, <3>3, <3>5, <4>1, <4>2, <4>3, <4>4, Harmed
        <3> QED BY <2>9, <3>4, <3>5 DEF unless_ruined
    <2> QED BY <2>6, <2>7, <2>8, <2>9
<1> QED BY <1>1, <1>2, <1>3, <1>4 DEF survival_mishap

\* What holds while a career is being left.
LEMMA Leaving ==
    ASSUME LifeInv, current = "muster_out"
    PROVE  /\ where = "muster_out" /\ ~session.crisis_open /\ ~session.finished
           /\ sheet.ruined = FALSE
           /\ asked <=> input # NoInput
           /\ session.training_rolls_owed = 0
           /\ session.cash_rolls_left \in Nat /\ session.benefit_rolls_owed \in Nat
           /\ session.benefits_forfeited \in BOOLEAN
           /\ sheet.terms_served \in Nat /\ sheet.terms_in_career \in Nat /\ history.entry \in Nat
           /\ history.taken \in Nat /\ history.cashed \in Nat
           /\ ExtraBenefits[sheet.rank] \in Nat
           /\ history.lost <=> session.benefits_forfeited
           /\ sheet.terms_in_career = sheet.terms_served - history.entry
           /\ ~asked => /\ session.benefit_rolls_owed = 0
                        /\ history.taken = 0 /\ history.cashed = 0
           /\ asked => /\ ~session.benefits_forfeited
                       /\ session.benefit_rolls_owed > 0
                       /\ history.taken + session.benefit_rolls_owed =
                              sheet.terms_in_career + ExtraBenefits[sheet.rank]
                       /\ history.cashed + session.cash_rolls_left = cash_benefit_roll_max
                       /\ \A c \in session.choices : c.subject = "cash" => session.cash_rolls_left > 0
<1>1. /\ session \in Sessions /\ sheet \in Sheets /\ history \in Histories
      BY Typed DEF LifeInv
<1>2. where = "muster_out" /\ ~session.finished
      BY AtStep, NoneNames, StepNames
<1>3. asked <=> input # NoInput
      BY NoneNames, StepNames DEF asked
<1>4. ~session.crisis_open /\ sheet.ruined = FALSE
      BY <1>2, NoCrisis, NotRuined, StepNames
<1>5. session.training_rolls_owed = 0
      BY <1>2 DEF LifeInv, Training
<1>6. session.cash_rolls_left \in Nat
    <2>1. session.cash_rolls_left \in 0 .. cash_benefit_roll_max
          BY <1>1 DEF Sessions
    <2> QED BY <2>1, Numbers
<1>7. /\ session.benefit_rolls_owed \in Nat /\ session.benefits_forfeited \in BOOLEAN
      /\ sheet.terms_served \in Nat /\ sheet.terms_in_career \in Nat /\ history.entry \in Nat
      /\ history.taken \in Nat /\ history.cashed \in Nat /\ sheet.rank \in 0 .. TopRank
      BY <1>1 DEF Sessions, Sheets, Histories
<1>8. ExtraBenefits[sheet.rank] \in Nat
      BY <1>7, Numbers
<1>9. /\ history.lost <=> session.benefits_forfeited
      /\ sheet.terms_in_career = sheet.terms_served - history.entry
      /\ ~asked => history.taken = 0 /\ history.cashed = 0
      BY <1>2 DEF LifeInv, Benefits, Enlisted
<1>10. ~asked => session.benefit_rolls_owed = 0
      BY <1>7 DEF LifeInv, Benefits
<1>11. asked => /\ ~session.benefits_forfeited
                /\ session.benefit_rolls_owed > 0
                /\ history.taken + session.benefit_rolls_owed =
                       sheet.terms_in_career + ExtraBenefits[sheet.rank]
                /\ history.cashed + session.cash_rolls_left = cash_benefit_roll_max
                /\ \A c \in session.choices : c.subject = "cash" => session.cash_rolls_left > 0
      BY <1>2 DEF LifeInv, Benefits, Offered
<1> QED BY <1>2, <1>3, <1>4, <1>5, <1>6, <1>7, <1>8, <1>9, <1>10, <1>11

\* The benefits of a career as they stand when it is left.
PaidOut ==
    /\ history'.taken = IF history.lost THEN 0
                        ELSE sheet.terms_served - history.entry + ExtraBenefits[sheet.rank]
    /\ history'.cashed <= cash_benefit_roll_max

\* A career is left: the next one is chosen.
LEMMA CareerLeft ==
    ASSUME LifeInv, current = "muster_out", session' \in Sessions',
           Same(session, session',
                {"choices", "benefit_rolls_owed", "cash_rolls_left", "benefits_forfeited"}),
           session'.benefit_rolls_owed = 0, ~session'.benefits_forfeited,
           sheet' \in Sheets, Same(sheet, sheet', {"credits"}),
           history' \in Histories, Same(history, history', {"taken", "cashed"}),
           advance("continue")
    PROVE  LifeInv'
<1>1. /\ where = "muster_out" /\ ~session.crisis_open /\ ~session.finished
      /\ sheet.ruined = FALSE /\ session.training_rolls_owed = 0
      BY Leaving
<1>2. /\ current' = "choose_career" /\ input' = NoInput /\ cursor' = cursor
      /\ where' = "choose_career" /\ ~asked'
      BY NextSteps, StepNames, Advanced
<1>3. /\ RunnerTypeOK /\ session \in Sessions /\ sheet \in Sheets /\ history \in Histories
      BY Typed DEF LifeInv
<1>4. /\ session'.training_rolls_owed = 0 /\ session'.crisis_open = session.crisis_open
      /\ session'.finished = session.finished
      BY <1>1, <1>3 DEF Sessions, Same
<1>5. /\ sheet'.terms_served = sheet.terms_served /\ sheet'.ruined = FALSE
      /\ sheet'.careers_served = sheet.careers_served
      /\ sheet'.qualification_barred = sheet.qualification_barred
      BY <1>1, <1>3 DEF Sheets, Same
<1>6. /\ history'.entered = history.entered /\ history'.forced = history.forced
      /\ history'.mishaps = history.mishaps /\ history'.unanswered = history.unanswered
      BY <1>3 DEF Histories, Same
<1> USE DEF LifeInv
<1>7. TypeOK' /\ Placed'
      BY <1>1, <1>2, <1>3, <1>4, NoneNames, StepNames, TypedNext DEF RunnerTypeOK, Placed
<1>8. Offered' /\ Crises' /\ Training'
      BY <1>1, <1>2, <1>4, <1>5 DEF Offered, Crises, Training
<1>9. Terms' /\ Benefits'
      BY <1>2, <1>5, <1>6 DEF Terms, TermsCapped, Beginning, Serving, Benefits, Enlisted
<1>10. Careering' /\ Mishapping'
      BY <1>1, <1>2, <1>5, <1>6 DEF Careering, Enlisted, Mishapping, OneMishapEach
<1> QED BY <1>7, <1>8, <1>9, <1>10

\* A benefit roll is asked for.
LEMMA BenefitAsked ==
    ASSUME LifeInv, current = "muster_out", session' \in Sessions', pending,
           Same(session, session', {"choices", "benefit_rolls_owed", "cash_rolls_left"}),
           session'.choices = benefit_tables(session'.cash_rolls_left),
           ~session.benefits_forfeited,
           sheet' \in Sheets, Same(sheet, sheet', {"credits"}),
           history' \in Histories, Same(history, history', {"taken", "cashed"}),
           session'.benefit_rolls_owed > 0,
           history'.taken + session'.benefit_rolls_owed =
               sheet.terms_in_career + ExtraBenefits[sheet.rank],
           history'.cashed + session'.cash_rolls_left = cash_benefit_roll_max
    PROVE  LifeInv'
<1>1. /\ where = "muster_out" /\ ~session.crisis_open /\ ~session.finished
      /\ sheet.ruined = FALSE /\ session.training_rolls_owed = 0
      /\ history.lost <=> session.benefits_forfeited
      /\ sheet.terms_in_career = sheet.terms_served - history.entry
      BY Leaving
<1>2. session'.choices # {}
      BY DEF benefit_tables
<1>3. /\ current' = NoStep /\ input' = NoInput /\ cursor' = "muster_out"
      /\ where' = "muster_out" /\ asked'
      BY <1>2, Paused
<1>4. /\ RunnerTypeOK /\ session \in Sessions /\ sheet \in Sheets /\ history \in Histories
      BY Typed DEF LifeInv
<1>5. /\ session'.training_rolls_owed = 0 /\ session'.crisis_open = session.crisis_open
      /\ session'.finished = session.finished
      /\ session'.benefits_forfeited = session.benefits_forfeited
      BY <1>1, <1>4 DEF Sessions, Same
<1>6. /\ sheet'.terms_served = sheet.terms_served /\ sheet'.ruined = FALSE
      /\ sheet'.terms_in_career = sheet.terms_in_career /\ sheet'.rank = sheet.rank
      /\ sheet'.careers_served = sheet.careers_served
      /\ sheet'.qualification_barred = sheet.qualification_barred
      BY <1>1, <1>4 DEF Sheets, Same
<1>7. /\ history'.entered = history.entered /\ history'.forced = history.forced
      /\ history'.mishaps = history.mishaps /\ history'.unanswered = history.unanswered
      /\ history'.entry = history.entry /\ history'.lost = history.lost
      BY <1>4 DEF Histories, Same
<1> USE DEF LifeInv
<1>8. TypeOK' /\ Placed'
      BY <1>1, <1>2, <1>3, <1>4, <1>5, NoneNames, StepNames, TypedNext DEF RunnerTypeOK, Placed
<1>9. Offered'
    <2>1. session'.cash_rolls_left > 0 \/ session'.choices = {choice("2", "goods")}
          BY DEF benefit_tables
    <2>2. choice("2", "goods").subject # "cash"
          BY DEF choice
    <2> QED BY <1>3, <2>1, <2>2 DEF Offered
<1>10. Crises' /\ Training' /\ Terms'
      BY <1>1, <1>3, <1>5, <1>6, <1>7
         DEF Crises, Training, Terms, TermsCapped, Beginning, Serving
<1>11. Benefits'
      BY <1>1, <1>3, <1>5, <1>6, <1>7 DEF Benefits, Enlisted
<1>12. Careering' /\ Mishapping'
      BY <1>1, <1>3, <1>6, <1>7 DEF Careering, Enlisted, Mishapping, OneMishapEach
<1> QED BY <1>8, <1>9, <1>10, <1>11, <1>12

LEMMA MusterOutInv ==
    ASSUME LifeInv, muster_out
    PROVE  LifeInv' /\ (current' = "choose_career" => PaidOut)
<1>1. current = "muster_out"
      BY DEF muster_out, at, entered, answered
<1>2. /\ RunnerTypeOK /\ session \in Sessions /\ sheet \in Sheets /\ history \in Histories
      BY Typed DEF LifeInv
<1>3. cash_benefit_roll_max \in Nat
      BY Numbers
<1>4. UNCHANGED <<sheet, history>> =>
          /\ sheet' \in Sheets /\ Same(sheet, sheet', {"credits"})
          /\ history' \in Histories /\ Same(history, history', {"taken", "cashed"})
          /\ history' = history
      BY <1>2 DEF Same
<1>5. CASE /\ session.benefits_forfeited /\ advance("continue")
           /\ session' = [session EXCEPT !.benefits_forfeited = FALSE]
           /\ UNCHANGED <<sheet, history>>
    <2>1. /\ session' \in Sessions'
          /\ Same(session, session',
                  {"choices", "benefit_rolls_owed", "cash_rolls_left", "benefits_forfeited"})
          /\ ~session'.benefits_forfeited
          /\ session'.benefit_rolls_owed = session.benefit_rolls_owed
          BY <1>2, <1>5 DEF Sessions, Same
    <2>2. session.benefit_rolls_owed = 0 /\ history.taken = 0 /\ history.cashed = 0 /\ history.lost
          BY <1>1, <1>5, Leaving
    <2>3. LifeInv'
          BY <1>1, <1>4, <1>5, <2>1, <2>2, CareerLeft
    <2>4. PaidOut
          BY <1>3, <1>4, <1>5, <2>2 DEF PaidOut
    <2> QED BY <2>3, <2>4
<1>6. CASE /\ ~session.benefits_forfeited /\ rolls_due = 0 /\ advance("continue")
           /\ session' = [session EXCEPT !.cash_rolls_left = cash_left]
           /\ UNCHANGED <<sheet, history>>
    <2>1. session.benefit_rolls_owed = 0
          BY <1>6 DEF rolls_due
    <2>2. ~asked /\ history.taken = 0 /\ history.cashed = 0 /\ ~history.lost
          BY <1>1, <1>6, <2>1, Leaving
    <2>3. PICK left \in 0 .. cash_benefit_roll_max : left = cash_left
          BY <1>3, <2>1 DEF cash_left
    <2>4. session' = [session EXCEPT !.cash_rolls_left = left]
          BY <1>6, <2>3
    <2>5. /\ session' \in Sessions'
          /\ Same(session, session',
                  {"choices", "benefit_rolls_owed", "cash_rolls_left", "benefits_forfeited"})
          /\ session'.benefits_forfeited = session.benefits_forfeited
          /\ session'.benefit_rolls_owed = session.benefit_rolls_owed
          BY <1>2, <2>4 DEF Sessions, Same
    <2>6. LifeInv'
          BY <1>1, <1>4, <1>6, <2>1, <2>5, CareerLeft
    <2>7. sheet.terms_in_career + ExtraBenefits[sheet.rank] = 0
          BY <1>6, <2>1 DEF rolls_due
    <2>8. PaidOut
          BY <1>1, <1>3, <1>4, <1>6, <2>2, <2>7, Leaving DEF PaidOut
    <2> QED BY <2>6, <2>8
<1>7. CASE /\ entered("muster_out") /\ ~session.benefits_forfeited /\ rolls_due > 0 /\ pending
           /\ session' = [session EXCEPT !.benefit_rolls_owed = rolls_due,
                             !.cash_rolls_left = cash_left,
                             !.choices = benefit_tables(cash_left)]
           /\ UNCHANGED <<sheet, history>>
    <2>1. /\ session.benefit_rolls_owed = 0 /\ history.taken = 0 /\ history.cashed = 0
          BY <1>1, <1>7, Leaving DEF entered
    <2>2. PICK due \in Nat : due = rolls_due
          BY <1>1, <2>1, Leaving DEF rolls_due
    <2>3. PICK left \in 0 .. cash_benefit_roll_max : left = cash_left /\ left = cash_benefit_roll_max
          BY <1>3, <2>1 DEF cash_left
    <2>4. PICK tables : tables = benefit_tables(left)
          OBVIOUS
    <2>5. session' = [session EXCEPT !.benefit_rolls_owed = due, !.cash_rolls_left = left,
                         !.choices = tables]
          BY <1>7, <2>2, <2>3, <2>4
    <2>6. /\ session' \in Sessions'
          /\ Same(session, session', {"choices", "benefit_rolls_owed", "cash_rolls_left"})
          /\ session'.benefit_rolls_owed = due /\ session'.cash_rolls_left = left
          /\ session'.choices = tables
          BY <1>2, <2>5 DEF Sessions, Same
    <2>7. due = sheet.terms_in_career + ExtraBenefits[sheet.rank]
          BY <2>1, <2>2 DEF rolls_due
    <2>8. /\ history'.taken + session'.benefit_rolls_owed =
                 sheet.terms_in_career + ExtraBenefits[sheet.rank]
          /\ history'.cashed + session'.cash_rolls_left = cash_benefit_roll_max
          /\ session'.benefit_rolls_owed > 0
          BY <1>1, <1>3, <1>4, <1>7, <2>1, <2>2, <2>3, <2>6, <2>7, Leaving
    <2>9. session'.choices = benefit_tables(session'.cash_rolls_left)
          BY <2>4, <2>6
    <2>10. LifeInv'
          BY <1>1, <1>4, <1>7, <2>6, <2>8, <2>9, BenefitAsked
    <2>11. current' = NoStep
          BY <1>7 DEF pending
    <2> QED BY <2>10, <2>11, NoneNames, StepNames
<1>8. CASE answered("muster_out") /\ not_an_option
    <2>1. LifeInv'
          BY <1>8, NotAnOption, StepNames
    <2>2. current' = NoStep
          BY <1>8 DEF not_an_option, failed
    <2> QED BY <2>1, <2>2, NoneNames, StepNames
<1>9. ASSUME answered("muster_out"), ~session.benefits_forfeited, NEW c \in find_choice(input),
             benefit_roll(c.subject)
      PROVE  LifeInv' /\ (current' = "choose_career" => PaidOut)
    <2>1. asked /\ c \in session.choices
          BY <1>1, <1>9, Leaving DEF answered, find_choice
    <2>2. PICK owed \in Nat, left \in Nat, taken \in Nat, cashed \in Nat :
              /\ owed = session.benefit_rolls_owed /\ left = session.cash_rolls_left
              /\ taken = history.taken /\ cashed = history.cashed
          BY <1>1, Leaving
    <2>3. /\ owed > 0 /\ (c.subject = "cash" => left > 0)
          /\ taken + owed = sheet.terms_in_career + ExtraBenefits[sheet.rank]
          /\ cashed + left = cash_benefit_roll_max
          /\ sheet.terms_in_career = sheet.terms_served - history.entry
          /\ ~history.lost
          BY <1>1, <1>9, <2>1, <2>2, Leaving
    <2>4. rolls_due = owed /\ cash_left = left
          BY <2>2, <2>3 DEF rolls_due, cash_left
    <2>5. PICK now \in 0 .. cash_benefit_roll_max, paid \in Nat :
              /\ now = IF c.subject = "cash" THEN left - 1 ELSE left
              /\ paid = IF c.subject = "cash" THEN cashed + 1 ELSE cashed
        <3>1. left \in 0 .. cash_benefit_roll_max
              BY <1>3, <2>3
        <3>2. CASE c.subject = "cash"
            <4>1. left - 1 \in 0 .. cash_benefit_roll_max /\ cashed + 1 \in Nat
                  BY <1>3, <2>3, <3>1, <3>2
            <4> QED BY <3>2, <4>1
        <3>3. CASE c.subject # "cash"
              BY <3>1, <3>3
        <3> QED BY <3>2, <3>3
    <2>6. PICK rest \in Nat, done \in Nat : rest = owed - 1 /\ done = taken + 1
          BY <2>3
    <2>7. PICK offers : offers = IF rest > 0 THEN benefit_tables(now) ELSE {}
          OBVIOUS
    <2>8. /\ session' = [session EXCEPT !.benefit_rolls_owed = rest, !.cash_rolls_left = now,
                            !.choices = offers]
          /\ IF rest > 0 THEN pending ELSE advance("continue")
          BY <1>9, <2>4, <2>5, <2>6, <2>7 DEF benefit_roll
    <2>9. history' = [history EXCEPT !.taken = done, !.cashed = paid]
          BY <1>9, <2>2, <2>5, <2>6 DEF benefit_roll
    <2>10. PICK credits \in 0 .. MaxCredits : sheet' = [sheet EXCEPT !.credits = credits]
        <3>1. sheet.credits \in 0 .. MaxCredits
              BY <1>2 DEF Sheets
        <3>2. MaxCredits \in Nat
              BY Numbers
        <3>3. CASE c.subject = "cash"
            <4>1. sheet.credits + 1 \in Int
                  BY <3>1, <3>2
            <4>2. Min({sheet.credits + 1, MaxCredits}) =
                      IF sheet.credits + 1 <= MaxCredits THEN sheet.credits + 1 ELSE MaxCredits
                  BY <3>2, <4>1, MinOfTwo
            <4>3. Min({sheet.credits + 1, MaxCredits}) \in 0 .. MaxCredits
                  BY <3>1, <3>2, <4>2
            <4>4. sheet' = [sheet EXCEPT !.credits = Min({sheet.credits + 1, MaxCredits})]
                  BY <1>9, <3>3 DEF benefit_roll
            <4> QED BY <4>3, <4>4
        <3>4. CASE c.subject # "cash"
            <4>1. sheet' = [sheet EXCEPT !.credits = sheet.credits]
                  BY <1>9, <3>4 DEF benefit_roll
            <4> QED BY <3>1, <4>1
        <3> QED BY <3>3, <3>4
    <2>11. sheet' \in Sheets /\ Same(sheet, sheet', {"credits"})
          BY <1>2, <2>10 DEF Sheets, Same
    <2>12. /\ history' \in Histories /\ Same(history, history', {"taken", "cashed"})
           /\ history'.taken = done /\ history'.cashed = paid
          BY <1>2, <2>9 DEF Histories, Same
    <2>13. /\ session' \in Sessions'
           /\ Same(session, session', {"choices", "benefit_rolls_owed", "cash_rolls_left"})
           /\ session'.benefit_rolls_owed = rest /\ session'.cash_rolls_left = now
           /\ session'.choices = offers
           /\ session'.benefits_forfeited = session.benefits_forfeited
          BY <1>2, <2>8 DEF Sessions, Same
    <2>14. done + rest = taken + owed
          BY <2>6
    <2>15. now \in Nat /\ paid + now = cash_benefit_roll_max
        <3>1. CASE c.subject = "cash"
              BY <1>3, <2>3, <2>5, <3>1
        <3>2. CASE c.subject # "cash"
              BY <1>3, <2>3, <2>5, <3>2
        <3> QED BY <3>1, <3>2
    <2>16. CASE rest > 0
        <3>1. pending /\ session'.choices = benefit_tables(session'.cash_rolls_left)
              BY <2>7, <2>8, <2>13, <2>16
        <3>2. LifeInv'
              BY <1>1, <1>9, <2>3, <2>11, <2>12, <2>13, <2>14, <2>15, <2>16, <3>1, BenefitAsked
        <3>3. current' = NoStep
              BY <3>1 DEF pending
        <3> QED BY <3>2, <3>3, NoneNames, StepNames
    <2>17. CASE rest = 0
        <3>1. advance("continue")
              BY <2>8, <2>17
        <3>2. Same(session, session',
                  {"choices", "benefit_rolls_owed", "cash_rolls_left", "benefits_forfeited"})
              BY <2>13 DEF Same
        <3>3. LifeInv'
              BY <1>1, <1>9, <2>11, <2>12, <2>13, <2>17, <3>1, <3>2, CareerLeft
        <3>4. PaidOut
              BY <1>3, <2>3, <2>6, <2>12, <2>14, <2>15, <2>17 DEF PaidOut
        <3> QED BY <3>3, <3>4
    <2> QED BY <2>6, <2>16, <2>17
<1> QED BY <1>5, <1>6, <1>7, <1>8, <1>9 DEF muster_out

LEMMA FinishInv ==
    ASSUME LifeInv, finish_character
    PROVE  LifeInv'
<1>1. /\ current = "finish_character" /\ complete
      /\ session' = [session EXCEPT !.finished = TRUE, !.choices = {}]
      /\ sheet' = sheet /\ history' = history
      BY DEF finish_character, at
<1>2. /\ RunnerTypeOK /\ session \in Sessions /\ sheet \in Sheets /\ history \in Histories
      BY Typed DEF LifeInv
<1>3. where = "finish_character"
      BY <1>1, AtStep, StepNames
<1>4. ~session.crisis_open
      BY <1>1, NoCrisis, StepNames
<1>5. /\ session' \in Sessions' /\ Same(session, session', {"finished", "choices"})
      /\ session'.finished = TRUE /\ session'.choices = {}
      BY <1>1, <1>2 DEF Sessions, Same
<1>6. current' = NoStep /\ input' = NoInput /\ cursor' = cursor
      BY <1>1 DEF complete, failed
<1>7. asked' /\ where' = NoStep
      BY <1>5, <1>6 DEF asked, where
<1>8. /\ session'.crisis_open = session.crisis_open
      /\ session'.training_rolls_owed = session.training_rolls_owed
      /\ session'.benefit_rolls_owed = session.benefit_rolls_owed
      BY <1>2, <1>5 DEF Same, Sessions
<1> USE DEF LifeInv
<1>9. TypeOK' /\ Placed'
      BY <1>1, <1>2, <1>5, <1>6, <1>7, NoneNames, StepNames, TypedNext DEF RunnerTypeOK, Placed
<1>10. Offered' /\ Crises' /\ Training'
      BY <1>3, <1>4, <1>5, <1>7, <1>8, NoneNames, StepNames DEF Offered, Crises, Training
<1>11. Terms' /\ Benefits'
      BY <1>1, <1>3, <1>7, <1>8, NoneNames, StepNames
         DEF Terms, TermsCapped, Beginning, Serving, Benefits, Enlisted
<1>12. Careering' /\ Mishapping'
      BY <1>1, <1>3, <1>7, NoneNames, StepNames DEF Careering, Enlisted, Mishapping, OneMishapEach
<1> QED BY <1>9, <1>10, <1>11, <1>12

\* The first state of a life.
LEMMA Born ==
    ASSUME current = Head(basic_chargen), cursor = NoStep, input = NoInput,
           session = NewSession, sheet = NewSheet, history = NewHistory
    PROVE  LifeInv
<1>1. current = "generate_characteristics" /\ current \in Range(basic_chargen)
      BY StepNames DEF basic_chargen
<1>2. /\ session \in Sessions /\ session.finished = FALSE /\ session.crisis_open = FALSE
      /\ session.training_rolls_owed = 0 /\ session.benefit_rolls_owed = 0
      /\ session.benefits_forfeited = FALSE
      BY Numbers DEF NewSession, Sessions
<1>3. /\ sheet \in Sheets /\ sheet.careers_served = <<>> /\ sheet.terms_served = 0
      /\ sheet.ruined = FALSE /\ sheet.qualification_barred = FALSE
    <2>1. 0 \in 0 .. aging_start_age /\ 0 \in 0 .. MaxCredits
          BY Numbers
    <2> QED BY <2>1, Numbers DEF NewSheet, Sheets
<1>4. /\ history \in Histories /\ history.entered = 0 /\ history.mishaps = 0
      /\ history.unanswered = 0
      BY Numbers DEF NewHistory, Histories
<1>5. ~asked /\ where = "generate_characteristics"
      BY <1>1, NoneNames, StepNames DEF asked, where
<1>6. TypeOK
      BY <1>1, <1>2, <1>3, <1>4, Typed DEF RunnerTypeOK
<1>7. Placed
      BY <1>1, <1>2, <1>5, NoneNames, StepNames DEF Placed
<1>8. Offered /\ Crises /\ Training
      BY <1>2, <1>3, <1>5 DEF Offered, Crises, Training
<1>9. Terms
      BY <1>3, <1>5, Numbers DEF Terms, TermsCapped, Beginning, Serving
<1>10. Benefits
      BY <1>2, <1>5 DEF Benefits, Enlisted
<1>11. Careering /\ Mishapping
      BY <1>3, <1>4, <1>5 DEF Careering, Enlisted, Mishapping, OneMishapEach
<1> QED BY <1>6, <1>7, <1>8, <1>9, <1>10, <1>11 DEF LifeInv

Newborn ==
    /\ current = Head(basic_chargen) /\ cursor = NoStep /\ input = NoInput
    /\ session = NewSession /\ sheet = NewSheet /\ history = NewHistory

LEMMA NewbornInv == Newborn => LifeInv
BY Born DEF Newborn

LEMMA InitLife == Init => LifeInv
BY Born DEF Init, start

LEMMA StartLifeInv ==
    ASSUME start_life
    PROVE  LifeInv'
<1>1. Newborn'
      BY DEF start_life, Newborn
<1>2. Newborn' => LifeInv'
      BY NewbornInv, PTL
<1> QED BY <1>1, <1>2

-----------------------------------------------------------------------------
LEMMA NextLife ==
    ASSUME LifeInv, [Next]_vars
    PROVE  LifeInv'
<1>1. CASE UNCHANGED vars
    <2>1. /\ current' = current /\ cursor' = cursor /\ input' = input
          /\ session' = session /\ sheet' = sheet /\ history' = history
          BY <1>1 DEF vars
    <2>2. asked' = asked /\ where' = where
          BY <2>1 DEF asked, where
    <2> USE DEF LifeInv
    <2>3. TypeOK' /\ Placed' /\ Offered' /\ Crises'
          BY <2>1, <2>2 DEF TypeOK, RunnerTypeOK, Placed, Offered, Crises, crisis_choices, choice
    <2>4. Training' /\ Terms' /\ Mishapping'
          BY <2>1, <2>2 DEF Training, Ladder, Climbed, Terms, TermsCapped, Mishapping, OneMishapEach
    <2>5. Benefits' /\ Careering'
          BY <2>1, <2>2 DEF Benefits, Careering
    <2> QED BY <2>3, <2>4, <2>5
<1>2. CASE start_life
      BY <1>2, StartLifeInv
<1>3. CASE \E answer \in Answers : choose(answer)
      BY <1>3, ChooseInv
<1>4. CASE generate_characteristics
      BY <1>4, GenerateInv
<1>5. CASE choose_career
      BY <1>5, ChooseCareerInv
<1>6. CASE roll_qualification
      BY <1>6, QualificationInv
<1>7. CASE draft_or_drifter
      BY <1>7, DraftInv
<1>8. CASE basic_training
      BY <1>8, BasicTrainingInv
<1>9. CASE grant_rank_zero
      BY <1>9, RankZeroInv
<1>10. CASE roll_survival
       BY <1>10, SurvivalInv
<1>11. CASE roll_commission \/ roll_advancement
    <2>1. CASE roll_commission
        <3>1. (sheet.rank = 0) \in BOOLEAN
              OBVIOUS
        <3> QED BY <2>1, <3>1, PromotionInv DEF roll_commission
    <2>2. CASE roll_advancement
        <3>1. (sheet.rank >= 1) \in BOOLEAN
              OBVIOUS
        <3> QED BY <2>2, <3>1, PromotionInv DEF roll_advancement
    <2> QED BY <1>11, <2>1, <2>2
<1>12. CASE roll_training
       BY <1>12, TrainingInv
<1>13. CASE advance_term
       BY <1>13, AdvanceTermInv
<1>14. CASE roll_aging
       BY <1>14, AgingInv
<1>15. CASE roll_reenlistment
       BY <1>15, ReenlistmentInv
<1>16. CASE choose_term_end
       BY <1>16, TermEndInv
<1>17. CASE survival_mishap
       BY <1>17, MishapInv
<1>18. CASE muster_out
       BY <1>18, MusterOutInv
<1>19. CASE finish_character
       BY <1>19, FinishInv
<1> QED BY <1>1, <1>2, <1>3, <1>4, <1>5, <1>6, <1>7, <1>8, <1>9, <1>10, <1>11, <1>12,
           <1>13, <1>14, <1>15, <1>16, <1>17, <1>18, <1>19 DEF Next

\* A life is always where the invariant says it can be: what is owed, what has
\* been given and what is on offer agree at every step of the procedure.
THEOREM LifeInvAlways == Spec => []LifeInv
<1>1. Init => LifeInv
      BY InitLife
<1>2. LifeInv /\ [Next]_vars => LifeInv'
      BY NextLife
<1> QED BY <1>1, <1>2, PTL DEF Spec

\* The life's type invariant (TypeOK).
THEOREM LifeTypeOK == Spec => []TypeOK
<1>1. LifeInv => TypeOK
      BY DEF LifeInv
<1> QED BY <1>1, LifeInvAlways, PTL

\* No term begins beyond the book's limit but by a natural 12 (TermsCapped).
THEOREM TermsStayCapped == Spec => []TermsCapped
<1>1. LifeInv => TermsCapped
      BY DEF LifeInv, Terms
<1> QED BY <1>1, LifeInvAlways, PTL

\* Nobody goes on with a characteristic at 0 (NobodyWalksAtZero): a crisis is open
\* while anybody is ruined.
THEOREM NobodyEverWalksAtZero == Spec => []NobodyWalksAtZero
<1>1. LifeInv => NobodyWalksAtZero
    <2> SUFFICES ASSUME LifeInv, current = NoStep, sheet.ruined,
                        ~session.crisis_open, ~session.finished
                 PROVE  FALSE
        BY DEF NobodyWalksAtZero
    <2>1. where = "finish_character"
          BY DEF LifeInv, Crises
    <2>2. cursor # "finish_character"
          BY DEF LifeInv, Placed
    <2> QED BY <2>1, <2>2, NoneNames, StepNames DEF where, asked
<1> QED BY <1>1, LifeInvAlways, PTL

\* A failed survival throw costs one mishap (OneMishapEach).
THEOREM MishapsStayOne == Spec => []OneMishapEach
<1>1. LifeInv => OneMishapEach
      BY DEF LifeInv, Mishapping
<1> QED BY <1>1, LifeInvAlways, PTL

\* The step that runs is the step the runner is at.
LEMMA OnlyStep ==
    ASSUME Next, current # NoStep
    PROVE  /\ ~start_life /\ \A answer \in Answers : ~choose(answer)
           /\ current = "muster_out" => muster_out
           /\ current = "basic_training" => basic_training
           /\ muster_out => current = "muster_out"
           /\ basic_training => current = "basic_training"
<1>1. ~start_life /\ \A answer \in Answers : ~choose(answer)
      BY DEF start_life, choose, resume
<1>2. ASSUME \/ generate_characteristics \/ choose_career \/ roll_qualification
             \/ draft_or_drifter \/ grant_rank_zero \/ roll_survival
      PROVE  current \notin {"muster_out", "basic_training"}
      BY <1>2 DEF generate_characteristics, choose_career, roll_qualification, draft_or_drifter,
                  grant_rank_zero, roll_survival, at, entered, answered
<1>3. ASSUME \/ roll_commission \/ roll_advancement \/ roll_training \/ advance_term
             \/ roll_aging \/ roll_reenlistment
      PROVE  current \notin {"muster_out", "basic_training"}
      BY <1>3 DEF roll_commission, roll_advancement, roll_promotion, roll_training, advance_term,
                  roll_aging, age, roll_reenlistment, at, entered, answered
<1>4. ASSUME choose_term_end \/ survival_mishap \/ finish_character
      PROVE  current \notin {"muster_out", "basic_training"}
      BY <1>4 DEF choose_term_end, survival_mishap, finish_character, at, entered, answered
<1>5. muster_out => current = "muster_out"
      BY DEF muster_out, at, entered, answered
<1>6. basic_training => current = "basic_training"
      BY DEF basic_training, entered, answered
<1> QED BY <1>1, <1>2, <1>3, <1>4, <1>5, <1>6 DEF Next

\* Who leaves a career takes the benefit rolls of its terms and of the rank, or
\* none where a mishap forfeits them, and in cash only so many (BenefitsAreExact).
THEOREM BenefitsStayExact == Spec => BenefitsAreExact
<1>1. ASSUME LifeInv, [Next]_vars, current = "muster_out", current' = "choose_career"
      PROVE  PaidOut
    <2>1. Next
          BY <1>1 DEF vars
    <2>2. current # NoStep
          BY <1>1, NoneNames, StepNames
    <2> QED BY <1>1, <2>1, <2>2, OnlyStep, MusterOutInv
<1>2. LifeInv /\ [Next]_vars =>
          [(current = "muster_out" /\ current' = "choose_career") => PaidOut]_vars
      BY <1>1
<1>3. (current = "muster_out" /\ current' = "choose_career" => PaidOut) =>
          (current = "muster_out" /\ current' = "choose_career" =>
              /\ history'.taken = IF history.lost THEN 0
                                  ELSE sheet.terms_served - history.entry + ExtraBenefits[sheet.rank]
              /\ history'.cashed <= cash_benefit_roll_max)
      BY DEF PaidOut
<1> QED BY <1>2, <1>3, LifeInvAlways, PTL DEF Spec, BenefitsAreExact

\* The whole service table is taught exactly once in a life (FullTrainingOnce).
THEOREM FullTrainingStaysOnce == Spec => FullTrainingOnce
<1>1. ASSUME LifeInv, [Next]_vars
      PROVE  [(current = "basic_training" /\ input = NoInput) =>
                 (current' # NoStep <=> history.entered = 1)]_vars
    <2> SUFFICES ASSUME Next, current = "basic_training", input = NoInput
                 PROVE  current' # NoStep <=> history.entered = 1
        BY <1>1
    <2>1. basic_training /\ where = "basic_training"
          BY <1>1, OnlyStep, AtStep, NoneNames, StepNames
    <2>2. /\ history.entered \in Nat /\ Len(sheet.careers_served) \in Nat
          BY <1>1, Typed DEF LifeInv, Sheets, Histories
    <2>3. history.entered = 1 <=> Len(sheet.careers_served) <= 1
          BY <1>1, <2>1, <2>2 DEF LifeInv, Careering, Enlisted
    <2>4. CASE Len(sheet.careers_served) <= 1 /\ advance("")
        <3>1. current' = "grant_rank_zero"
              BY <2>4, NextSteps DEF advance
        <3> QED BY <2>3, <2>4, <3>1, NoneNames, StepNames
    <2>5. CASE Len(sheet.careers_served) > 1 /\ ask({choice("1", "skill")})
          BY <2>2, <2>3, <2>5 DEF ask, pending
    <2> QED BY <2>1, <2>4, <2>5 DEF basic_training, entered, answered
<1> QED BY <1>1, LifeInvAlways, PTL DEF Spec, FullTrainingOnce

\* Only four more years add a term; only the care makes a ruined character whole.
LEMMA SheetSteps ==
    ASSUME LifeInv, Next, ~start_life
    PROVE  /\ advance_term \/ sheet'.terms_served = sheet.terms_served
           /\ \/ sheet.ruined => sheet'.ruined
              \/ resolve_crisis /\ current \in {"roll_aging", "survival_mishap"} /\ input # NoInput
<1> DEFINE Kept == /\ sheet'.terms_served = sheet.terms_served
                   /\ sheet.ruined => sheet'.ruined
<1>1. sheet \in Sheets /\ session \in Sessions
      BY Typed DEF LifeInv
<1>2. UNCHANGED sheet \/ UNCHANGED kept => Kept
      BY DEF kept
<1> HIDE DEF Kept
<1>3. ASSUME \/ \E answer \in Answers : choose(answer)
             \/ generate_characteristics \/ basic_training \/ grant_rank_zero \/ roll_survival
      PROVE  Kept
      BY <1>2, <1>3 DEF choose, generate_characteristics, basic_training, not_an_option,
                        grant_rank_zero, roll_survival
<1>4. ASSUME roll_training \/ roll_reenlistment \/ choose_term_end \/ finish_character
      PROVE  Kept
      BY <1>2, <1>4 DEF roll_training, enter_training, not_an_option, roll_reenlistment,
                        choose_term_end, finish_character
<1>5. ASSUME NEW career, take_career(career)
      PROVE  Kept
      BY <1>1, <1>5 DEF take_career, enter_career, Kept, Sheets
<1>6. ASSUME turned_away
      PROVE  Kept
      BY <1>1, <1>6 DEF turned_away, Kept, Sheets
<1>7. ASSUME choose_career \/ roll_qualification \/ draft_or_drifter
      PROVE  Kept
      BY <1>2, <1>5, <1>6, <1>7 DEF choose_career, roll_qualification, draft_or_drifter, not_an_option
<1>8. ASSUME roll_commission \/ roll_advancement
      PROVE  Kept
    <2>1. sheet' = [sheet EXCEPT !.rank = @ + 1] => Kept
          BY <1>1 DEF Kept, Sheets
    <2> QED BY <1>2, <1>8, <2>1
            DEF roll_commission, roll_advancement, roll_promotion, not_an_option
<1>9. ASSUME muster_out
      PROVE  Kept
    <2>1. ASSUME NEW table, benefit_roll(table)
          PROVE  Kept
          BY <1>1, <2>1 DEF benefit_roll, Kept, Sheets
    <2> QED BY <1>2, <1>9, <2>1 DEF muster_out, not_an_option
<1>10. ASSUME age
       PROVE  Kept
    <2>1. ASSUME NEW toll, sheet' = [sheet EXCEPT !.ruined = @ \/ toll]
          PROVE  Kept
          BY <1>1, <2>1 DEF Kept, Sheets
    <2> QED BY <1>2, <1>10, <2>1 DEF age
<1>11. ASSUME take_mishap
       PROVE  Kept
    <2>1. ASSUME NEW row, NEW toll, NEW unanswered, suffer(row, toll, unanswered)
          PROVE  Kept
          BY <1>1, <2>1 DEF suffer, Kept, Sheets
    <2> QED BY <1>2, <1>11, <2>1 DEF take_mishap
<1>12. ASSUME resolve_crisis
       PROVE  sheet'.terms_served = sheet.terms_served
       BY <1>1, <1>12 DEF resolve_crisis, Sheets
<1>13. CASE roll_aging
    <2>1. CASE answered("roll_aging") /\ resolve_crisis
          BY <1>12, <2>1 DEF answered
    <2>2. CASE Kept
          BY <2>2 DEF Kept
    <2> QED BY <1>2, <1>10, <1>13, <2>1, <2>2 DEF roll_aging
<1>14. CASE survival_mishap
    <2>1. CASE answered("survival_mishap") /\ resolve_crisis
          BY <1>12, <2>1 DEF answered
    <2>2. CASE Kept
          BY <2>2 DEF Kept
    <2> QED BY <1>2, <1>11, <1>14, <2>1, <2>2 DEF survival_mishap
<1>15. CASE advance_term
       BY <1>1, <1>15 DEF advance_term, Sheets
<1>16. CASE Kept
       BY <1>16 DEF Kept
<1> QED BY <1>3, <1>4, <1>7, <1>8, <1>9, <1>13, <1>14, <1>15, <1>16 DEF Next

\* A term teaches one training roll, one more for every rank climbed in it and one
\* more where there is no ladder (TrainingIsExact).
THEOREM TrainingStaysExact == Spec => TrainingIsExact
<1>1. ASSUME LifeInv, [Next]_vars
      PROVE  [sheet'.terms_served > sheet.terms_served =>
                 history.trained = 1 + (sheet.rank - history.rank)
                     + (IF session.career \in Ladderless THEN 1 ELSE 0)]_vars
    <2> SUFFICES ASSUME Next, sheet'.terms_served > sheet.terms_served
                 PROVE  history.trained = 1 + (sheet.rank - history.rank)
                            + (IF session.career \in Ladderless THEN 1 ELSE 0)
        BY <1>1
    <2>1. sheet.terms_served \in Nat
          BY <1>1, Typed DEF LifeInv, Sheets
    <2>2. ~start_life
          BY <2>1 DEF start_life, NewSheet
    <2>3. advance_term
          BY <1>1, <2>1, <2>2, SheetSteps
    <2>4. where = "advance_term"
        <3>1. current = "advance_term"
              BY <2>3 DEF advance_term, at
        <3>2. input = NoInput
              BY <1>1, <3>1, NoneNames, StepNames DEF LifeInv, Placed
        <3> QED BY <1>1, <3>1, <3>2, AtStep, StepNames
    <2> QED BY <1>1, <2>4 DEF LifeInv, Training, Climbed, Ladder
<1> QED BY <1>1, LifeInvAlways, PTL DEF Spec, TrainingIsExact

\* Who takes the care on offer pays the price that was quoted, in full
\* (CareIsPaidInFull): what cannot be paid for is not on offer.
THEOREM CareStaysPaidInFull == Spec => CareIsPaidInFull
<1>1. ASSUME LifeInv, [Next]_vars
      PROVE  [(sheet.ruined /\ ~sheet'.ruined /\ find_choice(input) # {}) =>
                 sheet'.credits = sheet.credits - session.crisis_price]_vars
    <2> SUFFICES ASSUME Next, sheet.ruined, ~sheet'.ruined, find_choice(input) # {}
                 PROVE  sheet'.credits = sheet.credits - session.crisis_price
        BY <1>1
    <2>1. /\ session \in Sessions /\ sheet \in Sheets
          BY <1>1, Typed DEF LifeInv
    <2>2. PICK c \in session.choices : c.key = input
          BY DEF find_choice
    <2>3. session.crisis_open =>
              \/ c.key = "2"
              \/ c.key = "1" /\ sheet.credits >= session.crisis_price
        <3> SUFFICES ASSUME session.crisis_open
                     PROVE  \/ c.key = "2"
                            \/ c.key = "1" /\ sheet.credits >= session.crisis_price
            OBVIOUS
        <3>1. c \in crisis_choices(session.crisis_price)
              BY <1>1, <2>2 DEF LifeInv, Crises
        <3>2. choice("2", "refuse").key = "2" /\ choice("1", "pay").key = "1"
              BY DEF choice
        <3>3. CASE sheet.credits >= session.crisis_price
              BY <3>1, <3>2, <3>3 DEF crisis_choices
        <3>4. CASE ~(sheet.credits >= session.crisis_price)
              BY <3>1, <3>2, <3>4 DEF crisis_choices
        <3> QED BY <3>3, <3>4
    <2>4. ~start_life
        <3> SUFFICES ASSUME start_life PROVE FALSE
            OBVIOUS
        <3>1. current = NoStep /\ input = NoInput
              BY <1>1 DEF start_life, LifeInv, Placed
        <3>2. session.crisis_open \/ session.finished \/ where = "finish_character"
              BY <1>1 DEF LifeInv, Crises
        <3>3. CASE session.crisis_open
              BY <2>2, <2>3, <3>1, <3>3, NoneNames DEF Answers
        <3>4. CASE session.finished
              BY <1>1, <2>2, <3>4 DEF LifeInv, Placed
        <3>5. CASE where = "finish_character"
              BY <1>1, <3>1, <3>5, NoneNames, StepNames DEF where, LifeInv, Placed
        <3> QED BY <3>2, <3>3, <3>4, <3>5
    <2>5. resolve_crisis
          BY <1>1, <2>4, SheetSteps
    <2>6. /\ input = "1"
          /\ sheet' = [sheet EXCEPT !.credits = @ - Min({@, session.crisis_price}),
                          !.ruined = FALSE, !.qualification_barred = TRUE]
          BY <2>5 DEF resolve_crisis
    <2>7. sheet.credits >= session.crisis_price
          BY <2>2, <2>3, <2>5, <2>6 DEF resolve_crisis
    <2>8. sheet.credits \in Int /\ session.crisis_price \in Int
        <3>1. Prices \cup {0} \subseteq Int
              BY ConstantsAssumption
        <3>2. session.crisis_price \in Prices \cup {0}
              BY <2>1 DEF Sessions
        <3>3. sheet.credits \in 0 .. MaxCredits
              BY <2>1 DEF Sheets
        <3> QED BY <3>1, <3>2, <3>3
    <2>9. Min({sheet.credits, session.crisis_price}) = session.crisis_price
          BY <2>7, <2>8, MinOfTwo
    <2>10. sheet'.credits = sheet.credits - Min({sheet.credits, session.crisis_price})
          BY <2>1, <2>6 DEF Sheets
    <2> QED BY <2>9, <2>10
<1> QED BY <1>1, LifeInvAlways, PTL DEF Spec, CareIsPaidInFull
=============================================================================
