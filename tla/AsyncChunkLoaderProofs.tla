---------------------- MODULE AsyncChunkLoaderProofs ----------------------
(* Proofs about AsyncChunkLoader, for any set of chunks and any queue size. *)
EXTENDS AsyncChunkLoader, SequenceTheorems, TLAPS

-----------------------------------------------------------------------------
\* Sequences as queues

InSeq(s, x) == \E i \in DOMAIN s : s[i] = x
Distinct(s) == \A i, j \in DOMAIN s : s[i] = s[j] => i = j

LEMMA AppendMembers ==
    ASSUME NEW S, NEW s \in Seq(S), NEW x \in S
    PROVE  /\ \A c : InSeq(Append(s, x), c) <=> InSeq(s, c) \/ c = x
           /\ Distinct(s) /\ ~InSeq(s, x) => Distinct(Append(s, x))
<1>1. /\ DOMAIN s = 1 .. Len(s) /\ Len(s) \in Nat
      /\ DOMAIN Append(s, x) = 1 .. Len(s) + 1
      /\ \A i \in 1 .. Len(s) : Append(s, x)[i] = s[i]
      /\ Append(s, x)[Len(s) + 1] = x
      OBVIOUS
<1> QED BY <1>1 DEF InSeq, Distinct

\* The head of a queue without duplicates leaves it for good.
LEMMA TailMembers ==
    ASSUME NEW S, NEW s \in Seq(S), s # <<>>, Distinct(s)
    PROVE  /\ \A c : InSeq(Tail(s), c) <=> InSeq(s, c) /\ c # Head(s)
           /\ Distinct(Tail(s))
<1>1. /\ DOMAIN s = 1 .. Len(s) /\ Len(s) \in Nat /\ Len(s) > 0
      /\ DOMAIN Tail(s) = 1 .. Len(s) - 1
      /\ \A i \in 1 .. Len(s) - 1 : Tail(s)[i] = s[i + 1]
      /\ Head(s) = s[1]
      OBVIOUS
<1>2. ASSUME NEW c, InSeq(Tail(s), c)
      PROVE  InSeq(s, c) /\ c # Head(s)
      BY <1>1, <1>2 DEF InSeq, Distinct
<1>3. ASSUME NEW c, InSeq(s, c), c # Head(s)
      PROVE  InSeq(Tail(s), c)
    <2>1. PICK i \in 1 .. Len(s) : s[i] = c
          BY <1>1, <1>3 DEF InSeq
    <2>2. i - 1 \in 1 .. Len(s) - 1 /\ Tail(s)[i - 1] = c
          BY <1>1, <1>3, <2>1
    <2> QED BY <1>1, <2>2 DEF InSeq
<1>4. Distinct(Tail(s))
      BY <1>1 DEF Distinct
<1> QED BY <1>2, <1>3, <1>4

\* An element on its way from one queue to the next.
LEMMA PassesOn ==
    ASSUME NEW S, NEW r \in Seq(S), NEW q \in Seq(S), NEW h \in S
    PROVE  /\ Append(r, h) \o <<>> \o q = r \o <<h>> \o q
           /\ q # <<>> => r \o <<Head(q)>> \o Tail(q) = r \o <<>> \o q
<1>1. Append(r, h) \o <<>> = r \o <<h>>
      BY AppendIsConcat, AppendProperties, ConcatEmptySeq
<1>2. ASSUME q # <<>>
      PROVE  r \o <<Head(q)>> \o Tail(q) = r \o <<>> \o q
    <2>1. Head(q) \in S /\ Tail(q) \in Seq(S) /\ <<Head(q)>> \in Seq(S)
          BY <1>2
    <2>2. r \o <<Head(q)>> \o Tail(q) = r \o (<<Head(q)>> \o Tail(q))
          BY <2>1, ConcatAssociative
    <2>3. <<Head(q)>> \o Tail(q) = q
          BY <1>2, <2>1
    <2>4. r \o <<>> = r
          BY ConcatEmptySeq
    <2> QED BY <2>2, <2>3, <2>4
<1> QED BY <1>1, <1>2

-----------------------------------------------------------------------------
\* The inductive invariant

\* Who is where.  The worker has a request in hand exactly while it generates;
\* a loader that is neither running nor being stopped has no worker, so a start
\* finds no request in an old worker's hand.
Places ==
    /\ main.at = "idle" <=> main = Idle
    /\ main.at \in {"queueing", "marking", "notifying"} => main.coord \in Coords
    /\ hand # None <=> worker = "generating"
    /\ running => main.at \notin {"stopping", "joining"}
    /\ ~running /\ main.at \notin {"stopping", "joining"} => worker = "none"

\* The marks are exact but between the push of a request and its mark.
Marks ==
    /\ main.at # "marking" => \A c \in Coords : c \in pending_coords <=> Within(c)
    /\ main.at = "queueing" => main.coord \notin pending_coords
    /\ main.at = "marking" => \A c \in Coords : Within(c) <=> c \in pending_coords \cup {main.coord}

LoaderInv == TypeOK /\ Places /\ Marks /\ InFlightOnce

LEMMA ContentsType ==
    ASSUME TypeOK
    PROVE  /\ Contents \in Seq(Coords)
           /\ result_queue # <<>> =>
                 /\ Contents # <<>>
                 /\ Head(Contents) = Head(result_queue)
                 /\ Tail(Contents) = Tail(result_queue) \o InHand \o request_queue
<1>1. InHand \in Seq(Coords)
      BY DEF TypeOK, InHand
<1>2. /\ result_queue \in Seq(Coords) /\ request_queue \in Seq(Coords)
      BY DEF TypeOK
<1> QED BY <1>1, <1>2 DEF Contents

LEMMA InitLoaderInv == Init => LoaderInv
<1> SUFFICES ASSUME Init PROVE LoaderInv
    OBVIOUS
<1>1. TypeOK
    <2>1. <<>> \in Seq(Coords)
          OBVIOUS
    <2> QED BY <2>1 DEF Init, TypeOK, Idle
<1>2. Contents = <<>>
      BY DEF Init, Contents, InHand
<1>3. Places /\ Marks /\ InFlightOnce
      BY <1>2 DEF Init, Idle, Places, Marks, InFlightOnce, Within
<1> QED BY <1>1, <1>3 DEF LoaderInv

-----------------------------------------------------------------------------
\* What a step does to the chunks in flight: one is pushed behind them, one is
\* popped in front, or they only change places.

Pushes ==
    /\ request_push
    /\ main'.at = "marking" /\ main'.coord = main.coord
    /\ Contents' = Append(Contents, main.coord)
    /\ result_queue' = result_queue

Pops ==
    /\ pop_ready
    /\ Contents' = Tail(Contents)

Moves ==
    /\ ~pop_ready
    /\ request_push => main' = Idle
    /\ Contents' = Contents
    /\ \/ result_queue' = result_queue
       \/ hand # None /\ result_queue' = Append(result_queue, hand)

\* Shapes and places are kept.
LEMMA TypeStep ==
    ASSUME TypeOK, Places, [Next]_vars
    PROVE  TypeOK' /\ Places'
<1> USE NoneAssumption DEF TypeOK, Places
<1>1. CASE start
      BY <1>1 DEF start, Idle
<1>2. ASSUME NEW c \in Coords, request_check(c)
      PROVE  TypeOK' /\ Places'
      BY <1>2 DEF request_check, Idle
<1>3. CASE request_push
    <2>1. request_queue' \in Seq(Coords)
          BY <1>3 DEF request_push
    <2> QED BY <1>3, <2>1 DEF request_push, Idle
<1>4. CASE request_mark
      BY <1>4 DEF request_mark, Idle
<1>5. CASE request_notify
      BY <1>5 DEF request_notify, woken, Idle
<1>6. CASE pop_ready
    <2>1. result_queue' \in Seq(Coords)
          BY <1>6 DEF pop_ready
    <2> QED BY <1>6, <2>1 DEF pop_ready, Idle
<1>7. CASE stop_flag
      BY <1>7 DEF stop_flag, Idle
<1>8. CASE stop_notify
      BY <1>8 DEF stop_notify, woken, Idle
<1>9. CASE stop_join
      BY <1>9 DEF stop_join, Idle
<1>10. CASE worker_loop
       BY <1>10 DEF worker_loop, Idle
<1>11. CASE worker_predicate
       BY <1>11 DEF worker_predicate, Idle
<1>12. CASE worker_sleep
       BY <1>12 DEF worker_sleep, Idle
<1>13. CASE worker_take
    <2>1. request_queue' \in Seq(Coords) /\ hand' \in Coords \cup {None}
          BY <1>13 DEF worker_take
    <2>2. hand' # None <=> worker' = "generating"
          BY <1>13 DEF worker_take
    <2> QED BY <1>13, <2>1, <2>2 DEF worker_take, Idle
<1>14. CASE worker_push
    <2>1. result_queue' \in Seq(Coords)
          BY <1>14 DEF worker_push
    <2> QED BY <1>14, <2>1 DEF worker_push, Idle
<1>15. CASE spurious_wakeup
       BY <1>15 DEF spurious_wakeup, Idle
<1>16. CASE UNCHANGED vars
       BY <1>16 DEF vars, Idle
<1> QED BY <1>1, <1>2, <1>3, <1>4, <1>5, <1>6, <1>7, <1>8, <1>9, <1>10, <1>11, <1>12,
           <1>13, <1>14, <1>15, <1>16 DEF Next, MainContinues, WorkerStep

LEMMA ContentsStep ==
    ASSUME TypeOK, Places, [Next]_vars
    PROVE  Pushes \/ Pops \/ Moves
<1> USE NoneAssumption
<1>a. /\ result_queue \in Seq(Coords) /\ request_queue \in Seq(Coords)
      /\ InHand \in Seq(Coords)
      /\ hand \in Coords \cup {None}
      BY DEF TypeOK, InHand
<1>1. CASE request_push
    <2>1. CASE Len(request_queue) >= max_queue_size
          BY <1>1, <2>1 DEF request_push, Moves, Contents, InHand, pop_ready, Idle
    <2>2. CASE ~(Len(request_queue) >= max_queue_size)
        <3>1. main.coord \in Coords /\ request_queue' = Append(request_queue, main.coord)
              BY <1>1, <2>2 DEF request_push, Places
        <3>2. Contents' = Append(Contents, main.coord)
            <4>1. Contents' = result_queue \o InHand \o Append(request_queue, main.coord)
                  BY <1>1, <3>1 DEF request_push, Contents, InHand
            <4> QED BY <4>1, <3>1, <1>a DEF Contents
        <3>3. /\ main'.at = "marking" /\ main'.coord = main.coord
              /\ result_queue' = result_queue
              BY <1>1, <2>2 DEF request_push, TypeOK
        <3> QED BY <1>1, <3>2, <3>3 DEF Pushes
    <2> QED BY <2>1, <2>2
<1>2. CASE pop_ready
    <2>1. Contents' = Tail(result_queue) \o InHand \o request_queue
          BY <1>2 DEF pop_ready, Contents, InHand
    <2> QED BY <1>2, <2>1, ContentsType DEF Pops, pop_ready
<1>3. CASE worker_take
    <2>1. Contents' = Contents
        <3>1. CASE request_queue = <<>>
              BY <1>3, <3>1 DEF worker_take, Contents, InHand
        <3>2. CASE request_queue # <<>>
            <4>1. hand = None /\ hand' = Head(request_queue) /\ hand' \in Coords
                  BY <1>3, <3>2, <1>a DEF worker_take, Places
            <4>2. /\ Contents = result_queue \o <<>> \o request_queue
                  /\ Contents' = result_queue \o <<Head(request_queue)>> \o Tail(request_queue)
                  BY <1>3, <3>2, <4>1 DEF worker_take, Contents, InHand
            <4>3. Head(request_queue) \in Coords
                  BY <4>1
            <4> QED BY <3>2, <4>2, <4>3, <1>a, PassesOn
        <3> QED BY <3>1, <3>2
    <2> QED BY <1>3, <2>1 DEF worker_take, Moves, pop_ready, request_push, Places, TypeOK, Idle
<1>4. CASE worker_push
    <2>1. hand \in Coords /\ hand' = None /\ result_queue' = Append(result_queue, hand)
          BY <1>4, <1>a DEF worker_push, Places
    <2>2. /\ Contents = result_queue \o <<hand>> \o request_queue
          /\ Contents' = Append(result_queue, hand) \o <<>> \o request_queue
          BY <1>4, <2>1 DEF worker_push, Contents, InHand
    <2>3. Contents' = Contents
        <3>1. Append(result_queue, hand) \o <<>> \o request_queue
                 = result_queue \o <<hand>> \o request_queue
              BY <2>1, <1>a, PassesOn
        <3> QED BY ONLY <2>2, <3>1
    <2>4. ~pop_ready /\ ~request_push
          BY <1>4, <2>1 DEF worker_push, pop_ready, request_push, Idle
    <2> QED BY <2>1, <2>3, <2>4 DEF Moves
<1>5. CASE /\ UNCHANGED <<request_queue, result_queue, hand>>
           /\ ~request_push /\ ~pop_ready
      BY <1>5 DEF Moves, Contents, InHand
<1>6. CASE start \/ (\E c \in Coords : request_check(c)) \/ request_mark \/ request_notify
           \/ stop_flag \/ stop_notify \/ stop_join
    <2>1. UNCHANGED <<request_queue, result_queue, hand>>
          BY <1>6 DEF start, request_check, request_mark, request_notify, stop_flag,
                      stop_notify, stop_join
    <2> QED BY <2>1, <1>1, <1>2, <1>5
<1>7. CASE worker_loop \/ worker_predicate \/ worker_sleep \/ spurious_wakeup \/ UNCHANGED vars
    <2>1. UNCHANGED <<request_queue, result_queue, hand>>
          BY <1>7 DEF worker_loop, worker_predicate, worker_sleep, spurious_wakeup, vars
    <2> QED BY <2>1, <1>1, <1>2, <1>5
<1> QED BY <1>1, <1>2, <1>3, <1>4, <1>6, <1>7 DEF Next, MainContinues, WorkerStep

-----------------------------------------------------------------------------
LEMMA MarksStep ==
    ASSUME LoaderInv, [Next]_vars
    PROVE  Marks' /\ InFlightOnce'
<1> USE NoneAssumption
<1>1. /\ TypeOK /\ Places /\ Marks /\ Distinct(Contents)
      /\ Contents \in Seq(Coords)
      /\ \A c : Within(c) <=> InSeq(Contents, c)
      BY ContentsType DEF LoaderInv, InFlightOnce, Distinct, Within, InSeq
<1>2. /\ InFlightOnce' <=> Distinct(Contents')
      /\ \A c : Within(c)' <=> InSeq(Contents', c)
      BY DEF InFlightOnce, Distinct, Within, InSeq
<1>3. CASE Pushes
    <2>1. main.coord \in Coords /\ main.at = "queueing"
          BY <1>1, <1>3 DEF Pushes, request_push, Places
    <2>2. ~InSeq(Contents, main.coord)
          BY <1>1, <2>1 DEF Marks
    <2>3. /\ Distinct(Contents')
          /\ \A c : InSeq(Contents', c) <=> InSeq(Contents, c) \/ c = main.coord
          BY <1>1, <1>3, <2>1, <2>2, AppendMembers DEF Pushes
    <2>4. pending_coords' = pending_coords
          BY <1>3 DEF Pushes, request_push
    <2> QED BY <1>1, <1>2, <1>3, <2>1, <2>3, <2>4 DEF Pushes, Marks
<1>4. CASE Pops
    <2>1. Contents # <<>> /\ Head(Contents) = Head(result_queue)
          BY <1>1, <1>4, ContentsType DEF Pops, pop_ready
    <2>2. /\ Distinct(Contents')
          /\ \A c : InSeq(Contents', c) <=> InSeq(Contents, c) /\ c # Head(Contents)
          BY <1>1, <1>4, <2>1, TailMembers DEF Pops
    <2>3. /\ main = Idle /\ main' = Idle
          /\ pending_coords' = pending_coords \ {Head(Contents)}
          BY <1>4, <2>1 DEF Pops, pop_ready
    <2> QED BY <1>1, <1>2, <2>2, <2>3 DEF Marks, Idle
<1>5. CASE Moves
    <2>1. InFlightOnce' /\ \A c : Within(c)' <=> Within(c)
          BY <1>1, <1>2, <1>5 DEF Moves
    <2>2. CASE request_push
          BY <1>1, <1>5, <2>1, <2>2 DEF Moves, request_push, Marks, Idle
    <2>3. ASSUME NEW c \in Coords, request_check(c)
          PROVE  Marks'
          BY <1>1, <2>1, <2>3 DEF request_check, Marks, Idle
    <2>4. CASE request_mark
          BY <1>1, <2>1, <2>4 DEF request_mark, Marks, TypeOK
    <2>5. CASE request_notify
          BY <1>1, <2>1, <2>5 DEF request_notify, Marks, Idle
    <2>6. CASE start \/ WorkerStep \/ spurious_wakeup \/ UNCHANGED vars
        <3>1. UNCHANGED <<main, pending_coords>>
              BY <2>6 DEF start, WorkerStep, worker_loop, worker_predicate, worker_sleep,
                          worker_take, worker_push, spurious_wakeup, vars
        <3> QED BY <1>1, <2>1, <3>1 DEF Marks
    <2>7. CASE stop_flag \/ stop_notify \/ stop_join
        <3>1. /\ pending_coords' = pending_coords
              /\ main.at \notin {"queueing", "marking"} /\ main'.at \notin {"queueing", "marking"}
              BY <1>1, <2>7 DEF stop_flag, stop_notify, stop_join, Idle, TypeOK
        <3> QED BY <1>1, <2>1, <3>1 DEF Marks
    <2> QED BY <1>5, <2>1, <2>2, <2>3, <2>4, <2>5, <2>6, <2>7 DEF Next, MainContinues, Moves
<1> QED BY <1>1, <1>3, <1>4, <1>5, ContentsStep

\* The invariant holds in every reachable state.
THEOREM LoaderInvAlways == Spec => []LoaderInv
<1>1. LoaderInv /\ [Next]_vars => LoaderInv'
      BY TypeStep, MarksStep DEF LoaderInv
<1> QED BY InitLoaderInv, <1>1, PTL DEF Spec

\* The loader's state keeps its shape.
THEOREM LoaderTypeCorrect == Spec => []TypeOK
<1>1. LoaderInv => TypeOK
      BY DEF LoaderInv
<1> QED BY LoaderInvAlways, <1>1, PTL

\* Between two calls of the main thread a chunk is marked pending exactly if it is
\* queued, being generated or waiting to be popped, for any number of chunks.
THEOREM MarksAreExact == Spec => []PendingIsExact
<1>1. LoaderInv => PendingIsExact
    <2>1. SUFFICES ASSUME LoaderInv, main = Idle
                   PROVE  pending_coords = {c \in Coords : Within(c)}
          BY DEF PendingIsExact
    <2>2. pending_coords \subseteq Coords /\ \A c \in Coords : c \in pending_coords <=> Within(c)
          BY <2>1 DEF LoaderInv, TypeOK, Marks, Idle
    <2> QED BY <2>2
<1> QED BY LoaderInvAlways, <1>1, PTL

\* No chunk is in flight twice.
THEOREM NeverTwiceInFlight == Spec => []InFlightOnce
<1>1. LoaderInv => InFlightOnce
      BY DEF LoaderInv
<1> QED BY LoaderInvAlways, <1>1, PTL

-----------------------------------------------------------------------------
\* Refinement

\* A step of the loader is a step of the pipeline or a stutter.
LEMMA PipelineStep ==
    ASSUME LoaderInv, [Next]_vars
    PROVE  [Pipeline!Next]_Pipeline!vars
<1>1. /\ TypeOK /\ Places /\ Marks
      /\ result_queue \in Seq(Coords) /\ request_queue \in Seq(Coords)
      /\ hand \in Coords \cup {None}
      BY DEF LoaderInv, TypeOK
<1>2. CASE Pushes
    <2>1. main.coord \in Coords /\ ~Within(main.coord)
          BY <1>1, <1>2 DEF Pushes, request_push, Places, Marks
    <2>2. Pipeline!Accept(main.coord)
          BY <1>2, <2>1 DEF Pushes, Pipeline!Accept, Pipeline!InPipeline, Within
    <2> QED BY <2>1, <2>2 DEF Pipeline!Next
<1>3. CASE Pops
    <2>1. Len(result_queue) > 0 /\ Len(result_queue') = Len(result_queue) - 1
          BY <1>1, <1>3 DEF Pops, pop_ready
    <2>2. Pipeline!Deliver
          BY <1>3, <2>1 DEF Pops, Pipeline!Deliver
    <2> QED BY <2>2 DEF Pipeline!Next
<1>4. CASE Moves /\ result_queue' = result_queue
      BY <1>4 DEF Moves, Pipeline!vars
<1>5. CASE Moves /\ hand # None /\ result_queue' = Append(result_queue, hand)
    <2>1. hand \in Coords /\ InHand = <<hand>>
          BY <1>1, <1>5 DEF InHand
    <2>2. Len(result_queue) < Len(Contents)
        <3>1. Len(result_queue \o <<hand>>) = Len(result_queue) + 1
              BY <1>1, <2>1
        <3>2. Len(Contents) = Len(result_queue) + 1 + Len(request_queue)
              BY <1>1, <2>1, <3>1 DEF Contents
        <3> QED BY <1>1, <3>2
    <2>3. Len(result_queue') = Len(result_queue) + 1
          BY <1>1, <1>5, <2>1
    <2>4. Pipeline!Finish
          BY <1>5, <2>2, <2>3 DEF Moves, Pipeline!Finish
    <2> QED BY <2>4 DEF Pipeline!Next
<1> QED BY <1>1, <1>2, <1>3, <1>4, <1>5, ContentsStep DEF Moves

\* The loader implements the pipeline: with its gaps between critical sections,
\* stops and restarts it delivers each chunk once and in the order of the requests.
THEOREM LoaderIsAPipeline == Spec => ImplementsPipeline
<1>1. Init => Pipeline!Init
    <2>1. Init => Contents = <<>> /\ Len(result_queue) = 0
          BY DEF Init, Contents, InHand
    <2> QED BY <2>1 DEF Pipeline!Init
<1>2. LoaderInv /\ [Next]_vars => [Pipeline!Next]_Pipeline!vars
      BY PipelineStep
<1> QED BY LoaderInvAlways, <1>1, <1>2, PTL DEF Spec, ImplementsPipeline, Pipeline!Spec
=============================================================================
