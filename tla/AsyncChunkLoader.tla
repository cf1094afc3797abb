------------------------- MODULE AsyncChunkLoader -------------------------
(***************************************************************************)
(* AsyncChunkLoader: the thread that generates chunks in the background.   *)
(* The main thread requests, polls, starts and stops; the worker waits on  *)
(* a condition variable, generates and hands back.  Three mutexes guard    *)
(* three structures one at a time, so a request is three critical sections *)
(* with gaps between them.  request_mutex_ is explicit, because sleeping   *)
(* on the condition variable releases it; what the others guard is read    *)
(* and written in one step.                                                *)
(*                                                                         *)
(* Whether generating succeeds is left out: a failed result travels like   *)
(* any other.                                                              *)
(***************************************************************************)
EXTENDS Naturals, Sequences

CONSTANTS
    Coords,          \* chunk coordinates
    None,            \* not a coordinate
    max_queue_size   \* max_queue_size_: accepted requests not yet begun

ASSUME NoneAssumption == None \notin Coords
ASSUME QueueSizeAssumption == max_queue_size \in Nat \ {0}

VARIABLES
    running,         \* running_
    request_queue,   \* request_queue_
    result_queue,    \* result_queue_
    pending_coords,  \* pending_coords_
    request_mutex,   \* request_mutex_: "free" or who holds it
    main,            \* [at, coord]: where the main thread is, and for which chunk
    worker,          \* where the worker thread is; "none" when there is none
    hand             \* the request the worker took, or None

vars == <<running, request_queue, result_queue, pending_coords, request_mutex,
          main, worker, hand>>

Idle == [at |-> "idle", coord |-> None]

Init ==
    /\ running = FALSE
    /\ request_queue = <<>>
    /\ result_queue = <<>>
    /\ pending_coords = {}
    /\ request_mutex = "free"
    /\ main = Idle
    /\ worker = "none"
    /\ hand = None

\* A notify moves a sleeping worker on to re-take the mutex.
woken == IF worker = "asleep" THEN "waiting" ELSE worker

-----------------------------------------------------------------------------
\* The main thread

start ==
    /\ main = Idle
    /\ ~running
    /\ running' = TRUE
    /\ worker' = "looping"
    /\ UNCHANGED <<request_queue, result_queue, pending_coords, request_mutex, main, hand>>

\* Mutant: nothing asks whether the chunk is pending.
request_check_unchecked(c) ==
    /\ main = Idle
    /\ main' = [at |-> "queueing", coord |-> c]
    /\ UNCHANGED <<running, request_queue, result_queue, pending_coords, request_mutex,
                   worker, hand>>

\* request_load: refuse a pending chunk;
request_check(c) ==
    /\ main = Idle
    /\ c \notin pending_coords
    /\ main' = [at |-> "queueing", coord |-> c]
    /\ UNCHANGED <<running, request_queue, result_queue, pending_coords, request_mutex,
                   worker, hand>>

\* then refuse when the queue is full, else queue it;
request_push ==
    /\ main.at = "queueing"
    /\ request_mutex = "free"
    /\ IF Len(request_queue) >= max_queue_size
       THEN main' = Idle /\ UNCHANGED request_queue
       ELSE /\ main' = [main EXCEPT !.at = "marking"]
            /\ request_queue' = Append(request_queue, main.coord)
    /\ UNCHANGED <<running, result_queue, pending_coords, request_mutex, worker, hand>>

\* then mark it pending, when the worker may already be at it;
request_mark ==
    /\ main.at = "marking"
    /\ pending_coords' = pending_coords \cup {main.coord}
    /\ main' = [main EXCEPT !.at = "notifying"]
    /\ UNCHANGED <<running, request_queue, result_queue, request_mutex, worker, hand>>

\* Mutant: the worker is not woken.
request_notify_nobody ==
    /\ main.at = "notifying"
    /\ main' = Idle
    /\ UNCHANGED <<running, request_queue, result_queue, pending_coords, request_mutex,
                   worker, hand>>

\* then wake the worker.
request_notify ==
    /\ main.at = "notifying"
    /\ worker' = woken
    /\ main' = Idle
    /\ UNCHANGED <<running, request_queue, result_queue, pending_coords, request_mutex, hand>>

\* Mutant: a popped chunk stays marked.
pop_ready_still_marked ==
    /\ main = Idle
    /\ result_queue # <<>>
    /\ result_queue' = Tail(result_queue)
    /\ UNCHANGED <<running, request_queue, pending_coords, request_mutex, main, worker, hand>>

\* pop_ready, called only after has_ready.
pop_ready ==
    /\ main = Idle
    /\ result_queue # <<>>
    /\ result_queue' = Tail(result_queue)
    /\ pending_coords' = pending_coords \ {Head(result_queue)}
    /\ UNCHANGED <<running, request_queue, request_mutex, main, worker, hand>>

\* stop: clear the flag without the mutex;
stop_flag ==
    /\ main = Idle
    /\ running
    /\ running' = FALSE
    /\ main' = [main EXCEPT !.at = "stopping"]
    /\ UNCHANGED <<request_queue, result_queue, pending_coords, request_mutex, worker, hand>>

\* Mutant: stop notifies without the mutex, which may fall between the worker's
\* predicate and its sleep.
stop_notify_unlocked ==
    /\ main.at = "stopping"
    /\ worker' = woken
    /\ main' = [main EXCEPT !.at = "joining"]
    /\ UNCHANGED <<running, request_queue, result_queue, pending_coords, request_mutex, hand>>

\* then notify under it;
stop_notify ==
    /\ main.at = "stopping"
    /\ request_mutex = "free"
    /\ worker' = woken
    /\ main' = [main EXCEPT !.at = "joining"]
    /\ UNCHANGED <<running, request_queue, result_queue, pending_coords, request_mutex, hand>>

\* then join.
stop_join ==
    /\ main.at = "joining"
    /\ worker = "exited"
    /\ worker' = "none"
    /\ main' = Idle
    /\ UNCHANGED <<running, request_queue, result_queue, pending_coords, request_mutex, hand>>

-----------------------------------------------------------------------------
\* The worker thread

\* while (running_)
worker_loop ==
    /\ worker = "looping"
    /\ worker' = IF running THEN "waiting" ELSE "exited"
    /\ UNCHANGED <<running, request_queue, result_queue, pending_coords, request_mutex,
                   main, hand>>

\* Take the mutex and evaluate the wait predicate: a request there or a stop.
worker_predicate ==
    /\ worker = "waiting"
    /\ request_mutex = "free"
    /\ request_mutex' = "worker"
    /\ worker' = IF request_queue # <<>> \/ ~running THEN "taking" ELSE "dozing"
    /\ UNCHANGED <<running, request_queue, result_queue, pending_coords, main, hand>>

\* The predicate was false: fall asleep and release the mutex, in one step.
worker_sleep ==
    /\ worker = "dozing"
    /\ worker' = "asleep"
    /\ request_mutex' = "free"
    /\ UNCHANGED <<running, request_queue, result_queue, pending_coords, main, hand>>

\* Mutant: the newest request is taken first.
worker_take_newest ==
    /\ worker = "taking"
    /\ request_mutex' = "free"
    /\ IF request_queue = <<>>
       THEN worker' = "exited" /\ UNCHANGED <<request_queue, hand>>
       ELSE /\ worker' = "generating"
            /\ hand' = request_queue[Len(request_queue)]
            /\ request_queue' = SubSeq(request_queue, 1, Len(request_queue) - 1)
    /\ UNCHANGED <<running, result_queue, pending_coords, main>>

\* It was true: leave if it was the stop, else take the front request.
worker_take ==
    /\ worker = "taking"
    /\ request_mutex' = "free"
    /\ IF request_queue = <<>>
       THEN worker' = "exited" /\ UNCHANGED <<request_queue, hand>>
       ELSE /\ worker' = "generating"
            /\ hand' = Head(request_queue)
            /\ request_queue' = Tail(request_queue)
    /\ UNCHANGED <<running, result_queue, pending_coords, main>>

\* Mutant: the hand is emptied before the result is pushed.
worker_push_late ==
    /\ worker = "generating"
    /\ hand' = None
    /\ result_queue' = Append(result_queue, hand')
    /\ worker' = "looping"
    /\ UNCHANGED <<running, request_queue, pending_coords, request_mutex, main>>

\* The create callback, then the result.
worker_push ==
    /\ worker = "generating"
    /\ result_queue' = Append(result_queue, hand)
    /\ hand' = None
    /\ worker' = "looping"
    /\ UNCHANGED <<running, request_queue, pending_coords, request_mutex, main>>

\* A condition variable may wake nobody in particular.
spurious_wakeup ==
    /\ worker = "asleep"
    /\ worker' = "waiting"
    /\ UNCHANGED <<running, request_queue, result_queue, pending_coords, request_mutex,
                   main, hand>>

-----------------------------------------------------------------------------
MainContinues ==
    request_push \/ request_mark \/ request_notify \/ stop_notify \/ stop_join

WorkerStep ==
    worker_loop \/ worker_predicate \/ worker_sleep \/ worker_take \/ worker_push

Next ==
    \/ start
    \/ \E c \in Coords : request_check(c)
    \/ MainContinues
    \/ pop_ready
    \/ stop_flag
    \/ WorkerStep
    \/ spurious_wakeup

Spec == Init /\ [][Next]_vars

\* Both threads are scheduled; a blocked lock is eventually granted; the main
\* loop polls for results every frame.  Nothing forces a start, a request, a
\* stop or a spurious wakeup.
Fairness ==
    /\ WF_vars(MainContinues)
    /\ SF_vars(stop_notify)
    /\ SF_vars(request_push)
    /\ WF_vars(WorkerStep)
    /\ SF_vars(worker_predicate)
    /\ SF_vars(pop_ready)

FairSpec == Spec /\ Fairness

-----------------------------------------------------------------------------
\* Properties

\* The state's shape.
TypeOK ==
    /\ running \in BOOLEAN
    /\ request_queue \in Seq(Coords)
    /\ result_queue \in Seq(Coords)
    /\ pending_coords \subseteq Coords
    /\ request_mutex \in {"free", "worker"}
    /\ main \in [at : {"idle", "queueing", "marking", "notifying", "stopping", "joining"},
                 coord : Coords \cup {None}]
    /\ worker \in {"none", "looping", "waiting", "dozing", "asleep", "taking",
                   "generating", "exited"}
    /\ hand \in Coords \cup {None}

InHand == IF hand = None THEN <<>> ELSE <<hand>>
Contents == result_queue \o InHand \o request_queue
Within(c) == \E i \in DOMAIN Contents : Contents[i] = c

\* is_pending is exact between two calls of the main thread: a chunk is marked
\* pending if and only if it is queued, being generated, or waiting to be
\* popped.  A mark too many would keep the chunk from ever being asked for
\* again, one too few would generate it twice.
PendingIsExact ==
    main = Idle => pending_coords = {c \in Coords : Within(c)}

\* No chunk is in flight twice, though the pending check, the push and the mark
\* are three critical sections and the worker may finish between the last two.
InFlightOnce ==
    \A i, j \in DOMAIN Contents : Contents[i] = Contents[j] => i = j

\* The loader implements the pipeline: chunks come out once each, in request
\* order, and a stop with requests left, or a restart, loses and doubles none.
Pipeline == INSTANCE ChunkPipeline WITH
    pipeline <- Contents, ready <- Len(result_queue)
ImplementsPipeline == Pipeline!Spec

\* stop() returns: the worker cannot miss the notification and sleep on while
\* the main thread joins it.
StopReturns == (main.at = "stopping") ~> (main = Idle)

\* An accepted chunk comes out of the loader, unless the loader is stopped.
AcceptedIsDelivered == \A c \in Coords : Within(c) ~> (~Within(c) \/ ~running)
=============================================================================
