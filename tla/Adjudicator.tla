--------------------------- MODULE Adjudicator ---------------------------
(***************************************************************************)
(* The adjudicator asks a model the questions a rule leaves open, over an  *)
(* LLMSystemHTTP of its own, and waits: decide submits, then polls until   *)
(* its callback has run or the time is up.  The callback writes through    *)
(* references into the frame of the decide that submitted it.  A decide    *)
(* that gives up leaves its request behind; when the late reply is polled, *)
(* by the next decide, that frame is gone and its place on the stack may   *)
(* be the next one's.  What such a write does is undefined: it hits the    *)
(* variables of the decide that polls, or something else.                  *)
(*                                                                         *)
(* The referee of voyager asks the same way.  Of a reply only the question *)
(* it replies to is kept, so whether it can be read is a free choice.      *)
(***************************************************************************)
EXTENDS LLMSystemHTTP

CONSTANTS
    Questions,   \* judgments, with their seeds: what the cache key is made of
    Attempts     \* attempts_, at least 1

VARIABLES
    asked,       \* the question decide is about, or None between two calls
    attempt,     \* which attempt it is at
    current,     \* the id of the attempt's request
    done,        \* done
    got,         \* got: the question the reply it holds replies to
    about,       \* the question each request asks
    cache,       \* the cached replies: to each question, what the reply replies to
    verdict      \* what the last call returned: [to, reply], reply None if it failed

adjudicator == <<asked, attempt, current, done, got, about, cache, verdict>>
AdjudicatorVars == <<vars, adjudicator>>

AdjudicatorInit ==
    /\ Init
    /\ asked = None /\ attempt = 0 /\ current = 0
    /\ done = FALSE /\ got = None
    /\ about = <<>> /\ cache = <<>>
    /\ verdict = [to |-> None, reply |-> None]

Polling == asked # None /\ main = "free" /\ inside = "no"

Returns(choice) ==
    /\ verdict' = [to |-> asked, reply |-> choice]
    /\ asked' = None

-----------------------------------------------------------------------------
\* An attempt: fresh variables and a request.
Attempt(q) ==
    /\ submit_request
    /\ current' = next_request_id
    /\ about' = With(about, next_request_id, q)
    /\ done' = FALSE /\ got' = None

\* A cached reply is served without asking.
decide_cached(q) ==
    /\ asked = None
    /\ q \in DOMAIN cache
    /\ verdict' = [to |-> q, reply |-> cache[q]]
    /\ UNCHANGED <<vars, asked, attempt, current, done, got, about, cache>>

decide(q) ==
    /\ asked = None
    /\ q \notin DOMAIN cache
    /\ Attempt(q)
    /\ asked' = q /\ attempt' = 1
    /\ UNCHANGED <<cache, verdict>>

\* The callback of this attempt writes its variables; that of one given up
\* writes where they were.
reply_arrives ==
    /\ answer
    /\ \/ /\ done' = TRUE
          /\ got' = about[reply.root]
       \/ /\ reply.root # current
          /\ UNCHANGED <<done, got>>
    /\ UNCHANGED <<asked, attempt, current, about, cache, verdict>>

\* One turn of the wait, while nothing has come.
poll ==
    /\ asked # None
    /\ inside = "no" => ~done
    /\ reply_arrives

\* The time is up: decide fails, and its request stays with the system.
decide_timeout ==
    /\ Polling
    /\ ~done
    /\ Returns(None)
    /\ UNCHANGED <<vars, attempt, current, done, got, about, cache>>

\* The transport failed, other than by truncation, or the attempts are used up.
decide_failed ==
    /\ Polling
    /\ done
    /\ Returns(None)
    /\ UNCHANGED <<vars, attempt, current, done, got, about, cache>>

\* A truncated reply, or one that cannot be read, is asked for again.
decide_again ==
    /\ Polling
    /\ done
    /\ attempt < Attempts
    /\ Attempt(asked)
    /\ attempt' = attempt + 1
    /\ UNCHANGED <<asked, cache, verdict>>

\* A reply that fits the question's options is cached and returned.
decide_chosen ==
    /\ Polling
    /\ done
    /\ cache' = With(cache, asked, got)
    /\ Returns(got)
    /\ UNCHANGED <<vars, attempt, current, done, got, about>>

-----------------------------------------------------------------------------
SystemStep ==
    /\ initialize \/ notify_one \/ callback_returns \/ poll_ends \/ WorkerStep
    /\ UNCHANGED adjudicator

AdjudicatorNext ==
    \/ \E q \in Questions : decide_cached(q) \/ decide(q)
    \/ poll
    \/ decide_timeout \/ decide_failed \/ decide_again \/ decide_chosen
    \/ SystemStep

AdjudicatorSpec == AdjudicatorInit /\ [][AdjudicatorNext]_AdjudicatorVars

-----------------------------------------------------------------------------
\* A choice decide returns, or keeps in its cache for the next run, is the
\* model's reply to that question; a decide that cannot have it fails.
AnswersTheQuestion ==
    /\ verdict.reply \in {None, verdict.to}
    /\ \A q \in DOMAIN cache : cache[q] = q
=============================================================================
