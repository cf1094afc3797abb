-------------------------- MODULE LLMSystemHTTP --------------------------
(***************************************************************************)
(* LLMSystemHTTP: the application submits prompts and polls for replies on *)
(* the main thread, one worker thread carries each request to the server.  *)
(* A reply that calls a tool is not delivered: the main thread runs the    *)
(* tool and submits a continuation, a new request with a new id that keeps *)
(* the root id of the first.  The callback runs when a reply calls no tool *)
(* or the conversation is stopped because it repeats itself, fails too     *)
(* often or has taken MaxIterations turns.                                 *)
(*                                                                         *)
(* Texts are left out: a call is a tool with its arguments, a result is    *)
(* one of a few, and an error reply travels like one without a tool.       *)
(* request_mutex_ shows in one place: worker = "dozing" is a worker that   *)
(* has found its wait predicate false and still holds the mutex.  What the *)
(* other mutexes guard is read and written in one step.                    *)
(***************************************************************************)
EXTENDS Naturals, Sequences, FiniteSets, Functions

CONSTANTS
    Tools,               \* tool calls a model may make, name and arguments
    Results,             \* what a tool may return
    FailedResults,       \* those in which the code finds an error
    None,                \* no tool, no request
    MaxIterations,       \* MAX_ITERATIONS
    RepeatThreshold,     \* REPETITION_THRESHOLD
    RepeatWindow,        \* REPETITION_WINDOW
    MaxErrors,           \* MAX_CONSECUTIVE_ERRORS
    MaxSubmitted         \* bound: requests the application submits

ASSUME ToolsAssumption == None \notin Tools
ASSUME NoneAssumption == None \notin [id : Nat, root : Nat, iteration : Nat]
ASSUME ResultsAssumption == FailedResults \subseteq Results
ASSUME BoundsAssumption ==
    /\ {MaxIterations, MaxSubmitted} \subseteq Nat
    /\ {RepeatThreshold, RepeatWindow, MaxErrors} \subseteq Nat \ {0}

VARIABLES
    request_queue,       \* request_queue_
    response_queue,      \* response_queue_
    cancelled_requests,  \* cancelled_requests_
    next_request_id,     \* next_request_id_
    shutdown_requested,  \* shutdown_requested_
    call_history,        \* call_history, by root id
    error_counts,        \* error_counts, by root id
    main,                \* what the main thread is doing inside the system
    inside,              \* where it is in process_completed_responses
    worker,              \* where the worker thread is; "none" when there is none
    hand                 \* the request the worker took, or None

\* History: what the application has seen.
VARIABLES
    open,                \* requests submitted and not yet answered or dropped
    answered,            \* requests in the order their callbacks ran
    silenced,            \* requests cancelled before their first reply was taken
    dropped,             \* requests dropped without a callback
    stopped,             \* requests answered because they were going nowhere
    transcript           \* the tool calls and results of each conversation

system == <<request_queue, response_queue, cancelled_requests, next_request_id,
            shutdown_requested, call_history, error_counts>>
history == <<open, answered, silenced, dropped, stopped, transcript>>
vars == <<system, main, inside, worker, hand, history>>

Init ==
    /\ request_queue = <<>> /\ response_queue = <<>>
    /\ cancelled_requests = {}
    /\ next_request_id = 1
    /\ shutdown_requested = FALSE
    /\ call_history = <<>> /\ error_counts = <<>>
    /\ main = "free" /\ inside = "no"
    /\ worker = "none" /\ hand = None
    /\ open = {} /\ answered = <<>> /\ silenced = {} /\ dropped = {} /\ stopped = {}
    /\ transcript = <<>>

-----------------------------------------------------------------------------
\* What reads state without changing it

\* The application runs on the main thread, between polls and in callbacks.
Application == main = "free" /\ inside \in {"no", "callback", "last"}

MutexFree == worker # "dozing"

\* A notify moves a sleeping worker on to look at its predicate again.
woken == IF worker = "asleep" THEN "testing" ELSE worker

\* The requests and replies under way, nearest to their callback first.
InHand == IF hand = None THEN <<>> ELSE <<hand>>
Carriers == response_queue \o InHand \o request_queue

\* An unordered_map creates an entry on first access.
HistoryOf(r) == IF r \in DOMAIN call_history THEN call_history[r] ELSE <<>>
ErrorsOf(r) == IF r \in DOMAIN error_counts THEN error_counts[r] ELSE 0
With(map, r, x) == [q \in DOMAIN map \cup {r} |-> IF q = r THEN x ELSE map[q]]
Without(map, r) == Restrict(map, DOMAIN map \ {r})

\* How often a call with this result is in the history.
Repeats(calls, call) == Cardinality({i \in DOMAIN calls : calls[i] = call})

\* Mutant: the history is never trimmed to the window.
Remember_untrimmed(calls, call) == Append(calls, call)

\* Mutant: the newest call is trimmed.
Remember_oldest(calls, call) ==
    IF Len(calls) = RepeatWindow THEN calls ELSE Append(calls, call)

Remember(calls, call) ==
    IF Len(calls) = RepeatWindow THEN Append(Tail(calls), call) ELSE Append(calls, call)

-----------------------------------------------------------------------------
\* The application's calls

initialize ==
    /\ Application /\ inside = "no"
    /\ worker = "none"
    /\ shutdown_requested' = FALSE
    /\ worker' = "looping"
    /\ UNCHANGED <<request_queue, response_queue, cancelled_requests, next_request_id,
                   call_history, error_counts, main, inside, hand, history>>

\* submit_request: a new id, queued under the mutex;
submit_request ==
    /\ Application
    /\ worker # "none" /\ MutexFree
    /\ Cardinality(DOMAIN transcript) < MaxSubmitted
    /\ request_queue' = Append(request_queue, [id |-> next_request_id,
                                               root |-> next_request_id, iteration |-> 0])
    /\ next_request_id' = next_request_id + 1
    /\ main' = "notifying"
    /\ open' = open \cup {next_request_id}
    /\ transcript' = With(transcript, next_request_id, <<>>)
    /\ UNCHANGED <<response_queue, cancelled_requests, shutdown_requested, call_history,
                   error_counts, inside, worker, hand, answered, silenced, dropped, stopped>>

\* Mutant: nobody is woken.
notify_one_nobody ==
    /\ main = "notifying"
    /\ main' = "free"
    /\ UNCHANGED <<system, inside, worker, hand, history>>

\* then the worker is woken, here and after a continuation.
notify_one ==
    /\ main = "notifying"
    /\ worker' = woken
    /\ main' = "free"
    /\ UNCHANGED <<system, inside, hand, history>>

\* The application knows the root id.  It silences a request that still
\* carries that id; a continuation has another.
cancel_request(r) ==
    /\ Application
    /\ r \in DOMAIN transcript
    /\ cancelled_requests' = cancelled_requests \cup {r}
    /\ silenced' = IF \E i \in DOMAIN Carriers : Carriers[i].id = r
                   THEN silenced \cup {r} ELSE silenced
    /\ UNCHANGED <<request_queue, response_queue, next_request_id, shutdown_requested,
                   call_history, error_counts, main, inside, worker, hand,
                   open, answered, dropped, stopped, transcript>>

\* shutdown: the flag is set without the mutex;
shutdown ==
    /\ Application /\ inside = "no"
    /\ worker # "none"
    /\ shutdown_requested' = TRUE
    /\ main' = "stopping"
    /\ UNCHANGED <<request_queue, response_queue, cancelled_requests, next_request_id,
                   call_history, error_counts, inside, worker, hand, history>>

\* so is the notification sent;
shutdown_notify ==
    /\ main = "stopping"
    /\ worker' = woken
    /\ main' = "joining"
    /\ UNCHANGED <<system, inside, hand, history>>

\* then the worker is joined.
shutdown_join ==
    /\ main = "joining"
    /\ worker = "done"
    /\ worker' = "none"
    /\ main' = "free"
    /\ UNCHANGED <<system, inside, hand, history>>

-----------------------------------------------------------------------------
\* process_completed_responses: one action per way through the loop's body.
\* What happens between popping a reply and the end of the body concerns only
\* this reply, so the body is one step, at the instant it queues a continuation
\* if it does.

\* The reply this turn pops.
reply == Head(response_queue)

PopReply ==
    /\ main = "free" /\ inside \in {"no", "loop"}
    /\ response_queue # <<>>
    /\ response_queue' = Tail(response_queue)

\* Mutant: a reply is delivered whether or not its request was cancelled.
IsCancelled_never == FALSE

IsCancelled == reply.id \in cancelled_requests

\* The request was cancelled while the server had it: no callback.
skip_cancelled ==
    /\ PopReply
    /\ IsCancelled
    /\ cancelled_requests' = cancelled_requests \ {reply.id}
    /\ open' = open \ {reply.root}
    /\ dropped' = dropped \cup {reply.root}
    /\ inside' = "loop"
    /\ UNCHANGED <<request_queue, next_request_id, shutdown_requested, call_history,
                   error_counts, main, worker, hand, answered, silenced, stopped, transcript>>

CallsTool == reply.tool # None /\ reply.iteration < MaxIterations

\* The callback runs: the main thread is in application code again.
Callback(then) ==
    /\ open' = open \ {reply.root}
    /\ answered' = Append(answered, reply.root)
    /\ inside' = then
    /\ UNCHANGED <<silenced, dropped>>

\* No tool called, or no turn left.  What the code erases after the callback
\* are other tables of the same names: the histories stay.
answer ==
    /\ PopReply
    /\ ~IsCancelled /\ ~CallsTool
    /\ Callback("callback")
    /\ UNCHANGED <<request_queue, cancelled_requests, next_request_id, shutdown_requested,
                   call_history, error_counts, main, worker, hand, stopped, transcript>>

\* A tool is run with some result.
RunTool(result) ==
    /\ PopReply
    /\ ~IsCancelled /\ CallsTool
    /\ transcript' = [transcript EXCEPT ![reply.root] =
                         Append(@, [tool |-> reply.tool, result |-> result])]

CallOf(result) == [tool |-> reply.tool, result |-> result]

\* Mutant: the history is looked up by the id of the request.
IsRepeated_by_request(result) ==
    Repeats(HistoryOf(reply.id), CallOf(result)) >= RepeatThreshold

IsRepeated(result) ==
    Repeats(HistoryOf(reply.root), CallOf(result)) >= RepeatThreshold

\* The same call with the same result again: the conversation is stopped, and
\* the poll with it.
stop_repetition(result) ==
    /\ RunTool(result)
    /\ IsRepeated(result)
    /\ Callback("last")
    /\ stopped' = stopped \cup {reply.root}
    /\ call_history' = Without(call_history, reply.root)
    /\ UNCHANGED <<request_queue, cancelled_requests, next_request_id, shutdown_requested,
                   error_counts, main, worker, hand>>

\* Mutant: a success does not reset the count.
NextErrors_kept(result) ==
    ErrorsOf(reply.root) + IF result \in FailedResults THEN 1 ELSE 0

\* Consecutive failures, this one included.
NextErrors(result) ==
    IF result \in FailedResults THEN ErrorsOf(reply.root) + 1 ELSE 0

\* Another failure in a row: likewise.
stop_errors(result) ==
    /\ RunTool(result)
    /\ ~IsRepeated(result)
    /\ NextErrors(result) >= MaxErrors
    /\ Callback("last")
    /\ stopped' = stopped \cup {reply.root}
    /\ call_history' = Without(call_history, reply.root)
    /\ error_counts' = Without(error_counts, reply.root)
    /\ UNCHANGED <<request_queue, cancelled_requests, next_request_id, shutdown_requested,
                   main, worker, hand>>

\* The conversation goes on: the call is remembered and a continuation queued.
continue_conversation(result) ==
    /\ RunTool(result)
    /\ ~IsRepeated(result)
    /\ NextErrors(result) < MaxErrors
    /\ MutexFree
    /\ call_history' =
         With(call_history, reply.root, Remember(HistoryOf(reply.root), CallOf(result)))
    /\ error_counts' = With(error_counts, reply.root, NextErrors(result))
    /\ request_queue' = Append(request_queue, [id |-> next_request_id, root |-> reply.root,
                                               iteration |-> reply.iteration + 1])
    /\ next_request_id' = next_request_id + 1
    /\ main' = "notifying"
    /\ inside' = "loop"
    /\ UNCHANGED <<cancelled_requests, shutdown_requested, worker, hand,
                   open, answered, silenced, dropped, stopped>>

\* The callback returns: to the loop, or out of a poll that stopped a conversation.
callback_returns ==
    /\ main = "free" /\ inside \in {"callback", "last"}
    /\ inside' = IF inside = "callback" THEN "loop" ELSE "no"
    /\ UNCHANGED <<system, main, worker, hand, history>>

poll_ends ==
    /\ main = "free" /\ inside = "loop"
    /\ response_queue = <<>>
    /\ inside' = "no"
    /\ UNCHANGED <<system, main, worker, hand, history>>

-----------------------------------------------------------------------------
\* worker_thread_main

\* while (!shutdown_requested_)
worker_loop ==
    /\ worker = "looping"
    /\ worker' = IF shutdown_requested THEN "done" ELSE "testing"
    /\ UNCHANGED <<system, main, inside, hand, history>>

\* Mutant: the request is read and left in the queue.
TakeRequest_copy == hand' = Head(request_queue) /\ UNCHANGED request_queue

TakeRequest == hand' = Head(request_queue) /\ request_queue' = Tail(request_queue)

\* Under the mutex: leave on shutdown, else take the front request, else doze.
worker_take ==
    /\ worker = "testing"
    /\ \/ /\ shutdown_requested
          /\ worker' = "done"
          /\ UNCHANGED <<request_queue, hand>>
       \/ /\ ~shutdown_requested /\ request_queue # <<>>
          /\ worker' = "screening"
          /\ TakeRequest
       \/ /\ ~shutdown_requested /\ request_queue = <<>>
          /\ worker' = "dozing"
          /\ UNCHANGED <<request_queue, hand>>
    /\ UNCHANGED <<response_queue, cancelled_requests, next_request_id, shutdown_requested,
                   call_history, error_counts, main, inside, history>>

\* The wait goes to sleep and releases the mutex, in one step.
worker_sleep ==
    /\ worker = "dozing"
    /\ worker' = "asleep"
    /\ UNCHANGED <<system, main, inside, hand, history>>

\* A condition variable may wake nobody in particular.
spurious_wakeup ==
    /\ worker = "asleep"
    /\ worker' = "testing"
    /\ UNCHANGED <<system, main, inside, hand, history>>

\* A request cancelled while it was queued is dropped here.
worker_screen ==
    /\ worker = "screening"
    /\ \/ /\ hand.id \in cancelled_requests
          /\ cancelled_requests' = cancelled_requests \ {hand.id}
          /\ open' = open \ {hand.root}
          /\ dropped' = dropped \cup {hand.root}
          /\ worker' = "looping"
          /\ hand' = None
       \/ /\ hand.id \notin cancelled_requests
          /\ worker' = "generating"
          /\ UNCHANGED <<cancelled_requests, open, dropped, hand>>
    /\ UNCHANGED <<request_queue, response_queue, next_request_id, shutdown_requested,
                   call_history, error_counts, main, inside, answered, silenced, stopped,
                   transcript>>

\* The server has replied, with a tool call or without, or has failed.
worker_answer(tool) ==
    /\ worker = "generating"
    /\ response_queue' = Append(response_queue,
                                [id |-> hand.id, root |-> hand.root,
                                 iteration |-> hand.iteration, tool |-> tool])
    /\ worker' = "looping"
    /\ hand' = None
    /\ UNCHANGED <<request_queue, cancelled_requests, next_request_id, shutdown_requested,
                   call_history, error_counts, main, inside, history>>

-----------------------------------------------------------------------------
ProcessStep ==
    \/ skip_cancelled
    \/ answer
    \/ \E result \in Results : \/ stop_repetition(result)
                               \/ stop_errors(result)
                               \/ continue_conversation(result)

MainContinues ==
    notify_one \/ callback_returns \/ poll_ends \/ shutdown_notify \/ shutdown_join

WorkerStep ==
    \/ worker_loop \/ worker_take \/ worker_sleep \/ worker_screen
    \/ \E tool \in Tools \cup {None} : worker_answer(tool)

Next ==
    \/ initialize
    \/ submit_request
    \/ \E r \in DOMAIN transcript : cancel_request(r)
    \/ shutdown
    \/ ProcessStep
    \/ MainContinues
    \/ WorkerStep
    \/ spurious_wakeup

Spec == Init /\ [][Next]_vars

\* Both threads are scheduled, callbacks return, the transport times out, and
\* the main loop polls every frame.  Nothing forces the application to submit,
\* cancel or shut down, nor a spurious wakeup.
Fairness ==
    /\ WF_vars(MainContinues)
    /\ WF_vars(WorkerStep)
    /\ SF_vars(ProcessStep)

FairSpec == Spec /\ Fairness

-----------------------------------------------------------------------------
\* Properties

Requests == [id : Nat, root : Nat, iteration : 0 .. MaxIterations]
Replies == [id : Nat, root : Nat, iteration : 0 .. MaxIterations, tool : Tools \cup {None}]
Calls == [tool : Tools, result : Results]

\* The state's shape; a history never exceeds its window nor a count its limit.
TypeOK ==
    /\ request_queue \in Seq(Requests)
    /\ response_queue \in Seq(Replies)
    /\ cancelled_requests \subseteq Nat
    /\ next_request_id \in Nat
    /\ shutdown_requested \in BOOLEAN
    /\ \A r \in DOMAIN call_history : /\ call_history[r] \in Seq(Calls)
                                      /\ Len(call_history[r]) <= RepeatWindow
    /\ \A r \in DOMAIN error_counts : error_counts[r] \in 0 .. MaxErrors - 1
    /\ main \in {"free", "notifying", "stopping", "joining"}
    /\ inside \in {"no", "loop", "callback", "last"}
    /\ worker \in {"none", "looping", "testing", "dozing", "asleep", "screening",
                   "generating", "done"}
    /\ hand \in Requests \cup {None}
    /\ (hand # None) <=> (worker \in {"screening", "generating"})

\* Every request that waits for its callback is carried by exactly one queued
\* request, taken request or queued reply, through any number of continuations,
\* cancellations and restarts of the worker: none is lost, none is answered
\* twice, and nothing is carried that nobody waits for.
OneCarrier ==
    /\ {Carriers[i].root : i \in DOMAIN Carriers} = open
    /\ \A i, j \in DOMAIN Carriers : Carriers[i].root = Carriers[j].root => i = j

\* To whoever submits, continuations, ids and the two cancellation checks do not
\* show: the callback runs at most once, and never for a request cancelled in time.
Ledger == INSTANCE RequestLedger
ImplementsLedger == Ledger!Spec

\* What the window and the error count mean, said of the whole conversation:
\* the last call has had the same result RepeatThreshold times among the
\* RepeatWindow calls before it, or the last MaxErrors calls have failed.
GoingNowhere(calls) ==
    LET n == Len(calls) IN
    /\ n > 0
    /\ \/ Cardinality({i \in 1 .. n - 1 : i >= n - RepeatWindow /\ calls[i] = calls[n]})
            >= RepeatThreshold
       \/ /\ n >= MaxErrors
          /\ \A i \in n - MaxErrors + 1 .. n : calls[i].result \in FailedResults

\* A conversation is stopped when it is going nowhere, and only then, though
\* each of its turns has another request id and the tables that remember it are
\* shared by all conversations; and none has more than MaxIterations turns.
StopsExactlyWhenStuck ==
    \A r \in DOMAIN transcript :
        /\ GoingNowhere(transcript[r]) <=> r \in stopped
        /\ Len(transcript[r]) <= MaxIterations

\* The n-th submitted request is open.
IsOpen(n) == \E r \in open : Cardinality({q \in DOMAIN transcript : q <= r}) = n

\* Every request is answered or dropped in the end, unless the system is shut
\* down: no notification is lost between a poll, a continuation and the worker.
AnsweredInTheEnd ==
    \A n \in 1 .. MaxSubmitted : IsOpen(n) ~> (~IsOpen(n) \/ shutdown_requested)

\* shutdown() returns.
ShutdownReturns == (main = "stopping") ~> (main = "free")
=============================================================================
