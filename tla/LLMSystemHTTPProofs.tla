----------------------- MODULE LLMSystemHTTPProofs -----------------------
(* Proofs about LLMSystemHTTP, for any tools, results, thresholds and number *)
(* of conversations: that each open request has one carrier, and, on top of  *)
(* that, that conversations keep the promises of RequestLedger and are       *)
(* stopped exactly when they go nowhere.                                     *)
EXTENDS LLMSystemHTTP, SequenceTheorems, FiniteSetTheorems, FunctionTheorems, TLAPS

-----------------------------------------------------------------------------
\* Types

LEMMA NonEmptyTail ==
    ASSUME NEW S, NEW s \in Seq(S), s # <<>>
    PROVE  Tail(s) \in Seq(S) /\ Head(s) \in S
BY HeadTailProperties

\* An entry written over a table, and what the other entries keep.
LEMMA WriteEntry ==
    ASSUME NEW map, NEW r, NEW x
    PROVE  /\ DOMAIN With(map, r, x) = DOMAIN map \cup {r}
           /\ With(map, r, x)[r] = x
           /\ \A q \in DOMAIN map \ {r} : With(map, r, x)[q] = map[q]
BY DEF With

LEMMA EraseEntry ==
    ASSUME NEW map, NEW r
    PROVE  /\ DOMAIN Without(map, r) = DOMAIN map \ {r}
           /\ \A q \in DOMAIN map \ {r} : Without(map, r)[q] = map[q]
BY DEF Without, Restrict

\* A table whose entries are all in S stays one.
LEMMA WriteKind ==
    ASSUME NEW S, NEW map, \A q \in DOMAIN map : map[q] \in S, NEW r, NEW x \in S
    PROVE  \A q \in DOMAIN With(map, r, x) : With(map, r, x)[q] \in S
BY DEF With

LEMMA EraseKind ==
    ASSUME NEW S, NEW map, \A q \in DOMAIN map : map[q] \in S, NEW r
    PROVE  \A q \in DOMAIN Without(map, r) : Without(map, r)[q] \in S
BY DEF Without, Restrict

Histories == {calls \in Seq(Calls) : Len(calls) <= RepeatWindow}

LEMMA HistoriesOf ==
    ASSUME TypeOK
    PROVE  /\ \A q \in DOMAIN call_history : call_history[q] \in Histories
           /\ \A r : HistoryOf(r) \in Histories
           /\ \A r : ErrorsOf(r) \in 0 .. MaxErrors - 1
<1>1. \A q \in DOMAIN call_history : call_history[q] \in Histories
      BY DEF TypeOK, Histories
<1>2. <<>> \in Histories
      BY EmptySeq, BoundsAssumption DEF Histories
<1>3. \A r : HistoryOf(r) \in Histories
      BY <1>1, <1>2 DEF HistoryOf
<1>4. 0 \in 0 .. MaxErrors - 1
      BY BoundsAssumption
<1>5. \A r : ErrorsOf(r) \in 0 .. MaxErrors - 1
      BY <1>4 DEF ErrorsOf, TypeOK
<1> QED BY <1>1, <1>3, <1>5

LEMMA RememberType ==
    ASSUME NEW calls \in Histories, NEW call \in Calls
    PROVE  Remember(calls, call) \in Histories
<1> USE DEF Histories
<1>1. RepeatWindow \in Nat \ {0} /\ Len(calls) \in Nat
      BY BoundsAssumption
<1>2. CASE Len(calls) = RepeatWindow
    <2>1. calls # <<>>
          BY <1>1, <1>2
    <2>2. Tail(calls) \in Seq(Calls) /\ Len(Tail(calls)) = RepeatWindow - 1
          BY <1>2, <2>1, HeadTailProperties
    <2> QED BY <1>1, <1>2, <2>2, AppendProperties DEF Remember
<1>3. CASE Len(calls) # RepeatWindow
      BY <1>1, <1>3, AppendProperties DEF Remember
<1> QED BY <1>2, <1>3

\* A reply that calls a tool, taken off its queue.
LEMMA ReplyType ==
    ASSUME TypeOK, PopReply
    PROVE  /\ reply \in Replies /\ response_queue' \in Seq(Replies)
           /\ CallsTool => reply.tool \in Tools /\ reply.iteration + 1 \in 0 .. MaxIterations
<1>1. reply \in Replies /\ response_queue' \in Seq(Replies)
      BY NonEmptyTail DEF TypeOK, PopReply, reply
<1>2. MaxIterations \in Nat
      BY BoundsAssumption
<1> QED BY <1>1, <1>2 DEF Replies, CallsTool

\* A submitted request has an id from the past.
Typed ==
    /\ TypeOK
    /\ next_request_id > 0
    /\ DOMAIN transcript \subseteq 1 .. next_request_id - 1

LEMMA SubmitType == Typed /\ submit_request => Typed'
<1> SUFFICES ASSUME Typed, submit_request PROVE Typed'
    OBVIOUS
<1>1. [id |-> next_request_id, root |-> next_request_id, iteration |-> 0] \in Requests
      BY BoundsAssumption DEF Typed, TypeOK, Requests
<1>2. request_queue' \in Seq(Requests)
      BY <1>1, AppendProperties DEF Typed, TypeOK, submit_request
<1>3. next_request_id \in Nat /\ next_request_id' = next_request_id + 1
      BY DEF Typed, TypeOK, submit_request
<1>4. DOMAIN transcript' = DOMAIN transcript \cup {next_request_id}
      BY WriteEntry DEF submit_request
<1>5. ASSUME NEW n \in DOMAIN transcript'
      PROVE  n \in 1 .. next_request_id' - 1
    <2>1. CASE n = next_request_id
          BY <1>3, <2>1 DEF Typed
    <2>2. CASE n \in DOMAIN transcript
          BY <1>3, <2>2 DEF Typed
    <2> QED BY <1>4, <2>1, <2>2
<1> QED BY <1>2, <1>3, <1>5 DEF Typed, TypeOK, submit_request

LEMMA CancelType ==
    ASSUME Typed, NEW r \in DOMAIN transcript, cancel_request(r)
    PROVE  Typed'
<1>1. r \in Nat
      BY DEF Typed, TypeOK
<1> QED BY <1>1 DEF Typed, TypeOK, cancel_request

LEMMA ProcessType == Typed /\ ProcessStep => Typed'
<1> SUFFICES ASSUME Typed, ProcessStep PROVE Typed'
    OBVIOUS
<1>1. TypeOK
      BY DEF Typed
<1>2. PopReply
      BY DEF ProcessStep, skip_cancelled, answer, stop_repetition, stop_errors,
             continue_conversation, RunTool
<1>3. response_queue' \in Seq(Replies) /\ reply \in Replies
      BY <1>1, <1>2, ReplyType
<1>4. DOMAIN transcript' = DOMAIN transcript
      BY DEF ProcessStep, skip_cancelled, answer, stop_repetition, stop_errors,
             continue_conversation, RunTool
<1>10. /\ \A q \in DOMAIN call_history : call_history[q] \in Histories
       /\ \A q \in DOMAIN error_counts : error_counts[q] \in 0 .. MaxErrors - 1
       /\ \A r : HistoryOf(r) \in Histories
       /\ \A r : ErrorsOf(r) \in 0 .. MaxErrors - 1
      BY <1>1, HistoriesOf DEF TypeOK
<1>5. CASE skip_cancelled
      BY <1>3, <1>5 DEF skip_cancelled, Typed, TypeOK
<1>6. CASE answer
      BY <1>3, <1>6 DEF answer, Callback, Typed, TypeOK
<1>7. ASSUME NEW result \in Results, stop_repetition(result)
      PROVE  Typed'
    <2>1. \A q \in DOMAIN call_history' : call_history'[q] \in Histories
          BY <1>7, <1>10, EraseKind DEF stop_repetition
    <2>2. \A q \in DOMAIN call_history' : /\ call_history'[q] \in Seq(Calls)
                                          /\ Len(call_history'[q]) <= RepeatWindow
          BY <2>1 DEF Histories
    <2> QED BY <1>3, <1>4, <1>7, <2>2 DEF stop_repetition, Callback, Typed, TypeOK
<1>8. ASSUME NEW result \in Results, stop_errors(result)
      PROVE  Typed'
    <2>1. \A q \in DOMAIN call_history' : call_history'[q] \in Histories
          BY <1>8, <1>10, EraseKind DEF stop_errors
    <2>2. /\ \A q \in DOMAIN call_history' : /\ call_history'[q] \in Seq(Calls)
                                             /\ Len(call_history'[q]) <= RepeatWindow
          /\ \A q \in DOMAIN error_counts' : error_counts'[q] \in 0 .. MaxErrors - 1
          BY <1>8, <1>10, <2>1, EraseKind DEF stop_errors, Histories
    <2> QED BY <1>3, <1>4, <1>8, <2>2 DEF stop_errors, Callback, Typed, TypeOK
<1>9. ASSUME NEW result \in Results, continue_conversation(result)
      PROVE  Typed'
    <2> DEFINE calls == Remember(HistoryOf(reply.root), CallOf(result))
    <2>1. reply.tool \in Tools /\ reply.iteration + 1 \in 0 .. MaxIterations
          BY <1>1, <1>2, <1>9, ReplyType DEF continue_conversation, RunTool
    <2>2. CallOf(result) \in Calls
          BY <2>1 DEF CallOf, Calls
    <2>3. calls \in Histories
          BY <1>10, <2>2, RememberType
    <2>4. call_history' = With(call_history, reply.root, calls)
          BY <1>9 DEF continue_conversation
    <2> HIDE DEF calls
    <2>5. \A q \in DOMAIN call_history' : /\ call_history'[q] \in Seq(Calls)
                                          /\ Len(call_history'[q]) <= RepeatWindow
        <3>1. \A q \in DOMAIN call_history' : call_history'[q] \in Histories
              BY <1>10, <2>3, <2>4, WriteKind
        <3> QED BY <3>1 DEF Histories
    <2>6. NextErrors(result) \in 0 .. MaxErrors - 1
          BY <1>9, <1>10, BoundsAssumption DEF continue_conversation, NextErrors
    <2>7. \A q \in DOMAIN error_counts' : error_counts'[q] \in 0 .. MaxErrors - 1
          BY <1>9, <1>10, <2>6, WriteKind DEF continue_conversation
    <2>8. [id |-> next_request_id, root |-> reply.root, iteration |-> reply.iteration + 1]
             \in Requests
          BY <1>1, <1>3, <2>1 DEF TypeOK, Requests, Replies
    <2>9. request_queue' \in Seq(Requests)
          BY <1>1, <1>9, <2>8, AppendProperties DEF continue_conversation, TypeOK
    <2>10. next_request_id' \in Nat /\ next_request_id' > 0 /\ DOMAIN transcript' \subseteq 1 .. next_request_id' - 1
        <3>1. next_request_id \in Nat /\ next_request_id' = next_request_id + 1
              BY <1>1, <1>9 DEF continue_conversation, TypeOK
        <3> QED BY <1>4, <3>1 DEF Typed
    <2> QED BY <1>1, <1>3, <1>9, <2>5, <2>7, <2>9, <2>10
               DEF continue_conversation, Typed, TypeOK
<1> QED BY <1>5, <1>6, <1>7, <1>8, <1>9 DEF ProcessStep

LEMMA WorkerType == Typed /\ WorkerStep => Typed'
<1> SUFFICES ASSUME Typed, WorkerStep PROVE Typed'
    OBVIOUS
<1> USE DEF Typed, system, history
<1>1. CASE worker_loop
      BY <1>1 DEF worker_loop, TypeOK
<1>2. CASE worker_take
    <2>1. ASSUME request_queue # <<>>
          PROVE  /\ Head(request_queue) \in Requests /\ Head(request_queue) # None
                 /\ Tail(request_queue) \in Seq(Requests)
        <3>1. Head(request_queue) \in Requests /\ Tail(request_queue) \in Seq(Requests)
              BY <2>1, NonEmptyTail DEF TypeOK
        <3>2. Requests \subseteq [id : Nat, root : Nat, iteration : Nat]
              BY BoundsAssumption DEF Requests
        <3> QED BY <3>1, <3>2, NoneAssumption
    <2> QED BY <1>2, <2>1 DEF worker_take, TakeRequest, TypeOK
<1>3. CASE worker_sleep
      BY <1>3 DEF worker_sleep, TypeOK
<1>4. CASE worker_screen
      BY <1>4 DEF worker_screen, TypeOK
<1>5. ASSUME NEW tool \in Tools \cup {None}, worker_answer(tool)
      PROVE  Typed'
    <2>1. hand \in Requests
          BY <1>5 DEF worker_answer, TypeOK
    <2>2. [id |-> hand.id, root |-> hand.root, iteration |-> hand.iteration, tool |-> tool]
             \in Replies
          BY <2>1 DEF Requests, Replies
    <2>3. response_queue' \in Seq(Replies)
          BY <1>5, <2>2, AppendProperties DEF worker_answer, TypeOK
    <2> QED BY <1>5, <2>3 DEF worker_answer, TypeOK
<1> QED BY <1>1, <1>2, <1>3, <1>4, <1>5 DEF WorkerStep

LEMMA TypedInit == Init => Typed
<1> SUFFICES ASSUME Init PROVE Typed
    OBVIOUS
<1>1. DOMAIN <<>> = {} /\ \A S : <<>> \in Seq(S)
      BY EmptySeq
<1>2. DOMAIN call_history = {} /\ DOMAIN error_counts = {} /\ DOMAIN transcript = {}
      BY <1>1 DEF Init
<1>3. request_queue \in Seq(Requests) /\ response_queue \in Seq(Replies)
      BY <1>1 DEF Init
<1>4. shutdown_requested \in BOOLEAN
      BY Zenon DEF Init
<1>5. /\ cancelled_requests = {} /\ next_request_id = 1
      /\ main = "free" /\ inside = "no" /\ worker = "none" /\ hand = None
      BY DEF Init
<1> QED BY <1>2, <1>3, <1>4, <1>5 DEF Typed, TypeOK

LEMMA TypedStep == Typed /\ [Next]_vars => Typed'
<1> SUFFICES ASSUME Typed, [Next]_vars PROVE Typed'
    OBVIOUS
<1> USE DEF Typed, system, history
<1>1. CASE initialize
      BY <1>1 DEF initialize, TypeOK
<1>2. CASE shutdown
      BY <1>2 DEF shutdown, TypeOK
<1>3. CASE MainContinues
      BY <1>3 DEF MainContinues, notify_one, callback_returns, poll_ends, shutdown_notify,
                  shutdown_join, woken, TypeOK
<1>4. CASE spurious_wakeup
      BY <1>4 DEF spurious_wakeup, TypeOK
<1>5. CASE UNCHANGED vars
      BY <1>5 DEF vars, TypeOK
<1> QED BY <1>1, <1>2, <1>3, <1>4, <1>5, SubmitType, CancelType, ProcessType, WorkerType
           DEF Next

\* The state keeps its shape: a history never outgrows its window, nor a count
\* of failures its limit, and the worker holds a request exactly while it
\* screens or generates.
THEOREM LLMTypeCorrect == Spec => []TypeOK
<1>1. Typed => TypeOK
      BY DEF Typed
<1> QED BY <1>1, TypedInit, TypedStep, PTL DEF Spec

-----------------------------------------------------------------------------
\* What is under way

\* What a request and the reply to it have in common.
Mark(c) == [id |-> c.id, root |-> c.root, iteration |-> c.iteration]
Marks(s) == {Mark(s[i]) : i \in DOMAIN s}
Roots(s) == {s[i].root : i \in DOMAIN s}
Once(s) == \A i, j \in DOMAIN s : s[i].root = s[j].root => i = j

Held == Marks(Carriers)
Things == Requests \cup Replies

LEMMA RootsOfMarks == ASSUME NEW s PROVE Roots(s) = {m.root : m \in Marks(s)}
<1>1. \A i \in DOMAIN s : Mark(s[i]).root = s[i].root
      BY DEF Mark
<1> QED BY <1>1 DEF Roots, Marks

LEMMA FewMarks ==
    /\ Marks(<<>>) = {} /\ Roots(<<>>) = {} /\ Once(<<>>)
    /\ \A e : Marks(<<e>>) = {Mark(e)} /\ Roots(<<e>>) = {e.root} /\ Once(<<e>>)
<1>1. ASSUME NEW s, DOMAIN s = {}
      PROVE  Marks(s) = {} /\ Roots(s) = {} /\ Once(s)
      BY <1>1 DEF Marks, Roots, Once
<1>2. Marks(<<>>) = {} /\ Roots(<<>>) = {} /\ Once(<<>>)
    <2>1. DOMAIN <<>> = {}
          OBVIOUS
    <2> QED BY <1>1, <2>1
<1>3. ASSUME NEW e
      PROVE  Marks(<<e>>) = {Mark(e)} /\ Roots(<<e>>) = {e.root} /\ Once(<<e>>)
    <2>1. DOMAIN <<e>> = {1} /\ <<e>>[1] = e
          OBVIOUS
    <2>2. Marks(<<e>>) = {Mark(e)}
          BY <2>1 DEF Marks
    <2>3. Roots(<<e>>) = {e.root}
          BY <2>1 DEF Roots
    <2>4. Once(<<e>>)
          BY <2>1 DEF Once
    <2> QED BY <2>2, <2>3, <2>4
<1> QED BY <1>2, <1>3

\* One line after the other: every root is in it once when it is in one of them
\* and there once.
LEMMA ConcatMarks ==
    ASSUME NEW S, NEW s \in Seq(S), NEW t \in Seq(S)
    PROVE  /\ Marks(s \o t) = Marks(s) \cup Marks(t)
           /\ Roots(s \o t) = Roots(s) \cup Roots(t)
           /\ Once(s \o t) <=> Once(s) /\ Once(t) /\ Roots(s) \cap Roots(t) = {}
<1> DEFINE u == s \o t  m == Len(s)  n == Len(t)
<1>1. m \in Nat /\ n \in Nat
      OBVIOUS
<1>2. DOMAIN s = 1 .. m /\ DOMAIN t = 1 .. n /\ DOMAIN u = 1 .. m + n
      BY ConcatProperties
<1>3. \A i \in DOMAIN s : i \in DOMAIN u /\ u[i] = s[i]
      BY <1>1, <1>2, ConcatProperties
<1>4. \A j \in DOMAIN t : m + j \in DOMAIN u /\ u[m + j] = t[j]
      BY <1>1, <1>2, ConcatProperties
<1>5. \A k \in DOMAIN u : k \in DOMAIN s \/ (k - m \in DOMAIN t /\ k = m + (k - m))
      BY <1>1, <1>2
<1>6. \A i \in DOMAIN s, j \in DOMAIN t : i # m + j
      BY <1>1, <1>2
<1>7. \A i, j \in DOMAIN t : m + i = m + j => i = j
      BY <1>1, <1>2
<1> HIDE DEF u, m, n
<1>8. Marks(u) = Marks(s) \cup Marks(t)
      BY <1>3, <1>4, <1>5 DEF Marks
<1>9. Roots(u) = Roots(s) \cup Roots(t)
      BY <1>3, <1>4, <1>5 DEF Roots
<1>10. ASSUME Once(u)
       PROVE  Once(s) /\ Once(t) /\ Roots(s) \cap Roots(t) = {}
    <2>1. Once(s)
          BY <1>3, <1>10 DEF Once
    <2>2. Once(t)
          BY <1>4, <1>7, <1>10 DEF Once
    <2>3. \A i \in DOMAIN s, j \in DOMAIN t : s[i].root # t[j].root
          BY <1>3, <1>4, <1>6, <1>10 DEF Once
    <2> QED BY <2>1, <2>2, <2>3 DEF Roots
<1>11. ASSUME Once(s), Once(t), Roots(s) \cap Roots(t) = {}
       PROVE  Once(u)
    <2>1. \A i \in DOMAIN s, j \in DOMAIN t : s[i].root # t[j].root
          BY <1>11 DEF Roots
    <2>2. ASSUME NEW i \in DOMAIN u, NEW j \in DOMAIN u, u[i].root = u[j].root
          PROVE  i = j
        <3>1. CASE i \in DOMAIN s /\ j \in DOMAIN s
              BY <1>3, <1>11, <2>2, <3>1 DEF Once
        <3>2. CASE i \in DOMAIN s /\ j \notin DOMAIN s
              BY <1>3, <1>4, <1>5, <2>1, <2>2, <3>2
        <3>3. CASE i \notin DOMAIN s /\ j \in DOMAIN s
              BY <1>3, <1>4, <1>5, <2>1, <2>2, <3>3
        <3>4. CASE i \notin DOMAIN s /\ j \notin DOMAIN s
            <4>1. i - m \in DOMAIN t /\ j - m \in DOMAIN t /\ i = m + (i - m) /\ j = m + (j - m)
                  BY <1>5, <3>4
            <4>2. t[i - m].root = t[j - m].root
                  BY <1>4, <2>2, <4>1
            <4>3. i - m = j - m
                  BY <1>11, <4>1, <4>2 DEF Once
            <4> QED BY <4>1, <4>3
        <3> QED BY <3>1, <3>2, <3>3, <3>4
    <2> QED BY <2>2 DEF Once
<1> QED BY <1>8, <1>9, <1>10, <1>11 DEF u

LEMMA AppendMarks ==
    ASSUME NEW S, NEW s \in Seq(S), NEW e \in S
    PROVE  /\ Marks(Append(s, e)) = Marks(s) \cup {Mark(e)}
           /\ Roots(Append(s, e)) = Roots(s) \cup {e.root}
           /\ Once(Append(s, e)) <=> Once(s) /\ e.root \notin Roots(s)
<1> DEFINE t == <<e>>
<1>1. Append(s, e) = s \o t /\ t \in Seq(S)
      BY AppendIsConcat
<1>2. Marks(t) = {Mark(e)} /\ Roots(t) = {e.root} /\ Once(t)
      BY FewMarks
<1> HIDE DEF t
<1> QED BY <1>1, <1>2, ConcatMarks

LEMMA HeadMarks ==
    ASSUME NEW S, NEW s \in Seq(S), s # <<>>
    PROVE  /\ Marks(s) = {Mark(Head(s))} \cup Marks(Tail(s))
           /\ Roots(s) = {Head(s).root} \cup Roots(Tail(s))
           /\ Once(s) <=> Once(Tail(s)) /\ Head(s).root \notin Roots(Tail(s))
<1> DEFINE t == <<Head(s)>>
<1>1. Head(s) \in S /\ Tail(s) \in Seq(S) /\ Len(s) \in Nat \ {0}
      BY HeadTailProperties, EmptySeq
<1>2. t \in Seq(S)
      BY <1>1
<1>3. s = t \o Tail(s)
    <2>1. SubSeq(s, 1, Len(s)) = <<s[1]>> \o SubSeq(s, 2, Len(s))
          BY <1>1, SubSeqRecursiveFirst
    <2> QED BY <1>1, <2>1, SubSeqFull, TailIsSubSeq
<1>4. Marks(t) = {Mark(Head(s))} /\ Roots(t) = {Head(s).root} /\ Once(t)
      BY FewMarks
<1> HIDE DEF t
<1>5. /\ Marks(t \o Tail(s)) = Marks(t) \cup Marks(Tail(s))
      /\ Roots(t \o Tail(s)) = Roots(t) \cup Roots(Tail(s))
      /\ Once(t \o Tail(s)) <=> Once(t) /\ Once(Tail(s)) /\ Roots(t) \cap Roots(Tail(s)) = {}
      BY <1>1, <1>2, ConcatMarks
<1> QED BY <1>3, <1>4, <1>5

\* The three places where a carrier may be.
Parts ==
    /\ response_queue \in Seq(Things) /\ InHand \in Seq(Things) /\ request_queue \in Seq(Things)
    /\ Held = Marks(response_queue) \cup Marks(InHand) \cup Marks(request_queue)
    /\ Once(Carriers) <=> /\ Once(response_queue) /\ Once(InHand) /\ Once(request_queue)
                          /\ Roots(response_queue) \cap Roots(InHand) = {}
                          /\ Roots(response_queue) \cap Roots(request_queue) = {}
                          /\ Roots(InHand) \cap Roots(request_queue) = {}

LEMMA LineMarks ==
    ASSUME NEW a \in Seq(Things), NEW b \in Seq(Things), NEW c \in Seq(Things)
    PROVE  /\ Marks(a \o b \o c) = Marks(a) \cup Marks(b) \cup Marks(c)
           /\ Once(a \o b \o c) <=> /\ Once(a) /\ Once(b) /\ Once(c)
                                    /\ Roots(a) \cap Roots(b) = {}
                                    /\ Roots(a) \cap Roots(c) = {}
                                    /\ Roots(b) \cap Roots(c) = {}
<1> DEFINE ab == a \o b
<1>1. ab \in Seq(Things)
      BY ConcatProperties
<1>2. /\ Marks(ab) = Marks(a) \cup Marks(b)
      /\ Roots(ab) = Roots(a) \cup Roots(b)
      /\ Once(ab) <=> Once(a) /\ Once(b) /\ Roots(a) \cap Roots(b) = {}
      BY ConcatMarks
<1> HIDE DEF ab
<1>3. /\ Marks(ab \o c) = Marks(ab) \cup Marks(c)
      /\ Once(ab \o c) <=> Once(ab) /\ Once(c) /\ Roots(ab) \cap Roots(c) = {}
      BY <1>1, ConcatMarks
<1>4. Marks(ab \o c) = Marks(a) \cup Marks(b) \cup Marks(c)
      BY <1>2, <1>3
<1>5. (Roots(a) \cup Roots(b)) \cap Roots(c) = {} <=> /\ Roots(a) \cap Roots(c) = {}
                                                     /\ Roots(b) \cap Roots(c) = {}
      OBVIOUS
<1> QED BY <1>2, <1>3, <1>4, <1>5 DEF ab

LEMMA PartsNow == TypeOK => Parts
<1> SUFFICES ASSUME TypeOK PROVE Parts
    OBVIOUS
<1>1. response_queue \in Seq(Things) /\ request_queue \in Seq(Things)
      BY SeqMonotonic DEF TypeOK, Things
<1>2. InHand \in Seq(Things)
    <2>1. CASE hand = None
          BY <2>1, EmptySeq DEF InHand
    <2>2. CASE hand # None
        <3>1. hand \in Things
              BY <2>2 DEF TypeOK, Things
        <3> QED BY <2>2, <3>1 DEF InHand
    <2> QED BY <2>1, <2>2
<1> QED BY <1>1, <1>2, LineMarks DEF Parts, Held, Carriers

LEMMA PartsNext == TypeOK' => Parts'
<1>1. TypeOK => Parts
      BY PartsNow
<1> QED BY <1>1, PTL

\* A step takes the marks `out` away and brings the marks `come`; when no root
\* was carried twice, none is afterwards, unless it comes a second time.
Moves(out, come) ==
    \E rest : /\ Held = rest \cup out
              /\ Held' = rest \cup come
              /\ Once(Carriers) => \A m \in rest, o \in out : m.root # o.root
              /\ /\ Once(Carriers)
                 /\ \A m \in rest, n \in come : m.root # n.root
                 => Once(Carriers')

LEMMA MarkRoots ==
    ASSUME NEW s
    PROVE  /\ \A m \in Marks(s) : m.root \in Roots(s)
           /\ \A r \in Roots(s) : \E m \in Marks(s) : m.root = r
BY RootsOfMarks

LEMMA HeldRoots ==
    ASSUME Parts
    PROVE  \A r \in Roots(response_queue) \cup Roots(InHand) \cup Roots(request_queue) :
              \E h \in Held : h.root = r
<1>1. \A r \in Roots(response_queue) : \E m \in Marks(response_queue) : m.root = r
      BY MarkRoots
<1>2. \A r \in Roots(InHand) : \E m \in Marks(InHand) : m.root = r
      BY MarkRoots
<1>3. \A r \in Roots(request_queue) : \E m \in Marks(request_queue) : m.root = r
      BY MarkRoots
<1> QED BY <1>1, <1>2, <1>3 DEF Parts

LEMMA StillMoves ==
    ASSUME UNCHANGED <<response_queue, hand, request_queue>>
    PROVE  Moves({}, {})
<1>1. Carriers' = Carriers
      BY DEF Carriers, InHand
<1>2. Held' = Held
      BY <1>1 DEF Held
<1> QED BY <1>1, <1>2 DEF Moves

LEMMA SubmitMoves ==
    ASSUME TypeOK, TypeOK', submit_request
    PROVE  Moves({}, {[id |-> next_request_id, root |-> next_request_id, iteration |-> 0]})
<1> DEFINE m == [id |-> next_request_id, root |-> next_request_id, iteration |-> 0]
<1>1. Parts /\ Parts'
      BY PartsNow, PartsNext
<1>2. m \in Things /\ Mark(m) = m
      BY BoundsAssumption DEF TypeOK, Things, Requests, Mark
<1>3. /\ request_queue' = Append(request_queue, m)
      /\ response_queue' = response_queue /\ InHand' = InHand
      BY DEF submit_request, InHand
<1> HIDE DEF m
<1>4. /\ Marks(request_queue') = Marks(request_queue) \cup {m}
      /\ Roots(request_queue') = Roots(request_queue) \cup {m.root}
      /\ Once(request_queue') <=> Once(request_queue) /\ m.root \notin Roots(request_queue)
      BY <1>1, <1>2, <1>3, AppendMarks DEF Parts
<1>5. Held' = Held \cup {m}
      BY <1>1, <1>3, <1>4 DEF Parts
<1>6. ASSUME Once(Carriers), \A h \in Held : h.root # m.root
      PROVE  Once(Carriers')
    <2>1. /\ m.root \notin Roots(response_queue)
          /\ m.root \notin Roots(InHand)
          /\ m.root \notin Roots(request_queue)
          BY <1>1, <1>6, HeldRoots
    <2> QED BY <1>1, <1>3, <1>4, <1>6, <2>1 DEF Parts
<1> QED BY <1>5, <1>6 DEF Moves, m

\* The marks of what is left when a reply is popped or a request let go.
LEMMA PopMoves ==
    ASSUME TypeOK, TypeOK', PopReply, UNCHANGED <<hand, request_queue>>
    PROVE  Moves({Mark(reply)}, {})
<1>1. Parts /\ Parts'
      BY PartsNow, PartsNext
<1>2. InHand' = InHand /\ request_queue' = request_queue
      BY DEF InHand
<1>3. /\ Marks(response_queue) = {Mark(reply)} \cup Marks(response_queue')
      /\ Roots(response_queue) = {reply.root} \cup Roots(response_queue')
      /\ Once(response_queue) <=> /\ Once(response_queue')
                                  /\ reply.root \notin Roots(response_queue')
      BY <1>1, HeadMarks DEF Parts, PopReply, reply
<1>4. Held = Held' \cup {Mark(reply)}
      BY <1>1, <1>2, <1>3 DEF Parts
<1>5. ASSUME Once(Carriers)
      PROVE  Once(Carriers') /\ \A m \in Held' : m.root # reply.root
    <2>1. /\ reply.root \notin Roots(response_queue')
          /\ reply.root \notin Roots(InHand')
          /\ reply.root \notin Roots(request_queue')
          BY <1>1, <1>2, <1>3, <1>5 DEF Parts
    <2>2. Once(Carriers')
          BY <1>1, <1>2, <1>3, <1>5 DEF Parts
    <2>3. /\ \A m \in Marks(response_queue') : m.root \in Roots(response_queue')
          /\ \A m \in Marks(InHand') : m.root \in Roots(InHand')
          /\ \A m \in Marks(request_queue') : m.root \in Roots(request_queue')
          BY MarkRoots
    <2> QED BY <1>1, <2>1, <2>2, <2>3 DEF Parts
<1>6. Mark(reply).root = reply.root
      BY DEF Mark
<1> QED BY <1>4, <1>5, <1>6 DEF Moves

LEMMA ContinueMoves ==
    ASSUME TypeOK, TypeOK', NEW result \in Results, continue_conversation(result)
    PROVE  Moves({Mark(reply)}, {[id |-> next_request_id, root |-> reply.root,
                                  iteration |-> reply.iteration + 1]})
<1> DEFINE m == [id |-> next_request_id, root |-> reply.root, iteration |-> reply.iteration + 1]
           rest == Marks(response_queue') \cup Marks(InHand') \cup Marks(request_queue)
<1>1. Parts /\ Parts'
      BY PartsNow, PartsNext
<1>2. PopReply
      BY DEF continue_conversation, RunTool
<1>3. m \in Things /\ Mark(m) = m
    <2>1. reply \in Replies /\ reply.iteration + 1 \in 0 .. MaxIterations
          BY <1>2, ReplyType DEF continue_conversation, RunTool
    <2> QED BY <2>1 DEF TypeOK, Things, Requests, Replies, Mark
<1>4. InHand' = InHand /\ request_queue' = Append(request_queue, m)
      BY DEF continue_conversation, InHand
<1>5. /\ Marks(response_queue) = {Mark(reply)} \cup Marks(response_queue')
      /\ Roots(response_queue) = {reply.root} \cup Roots(response_queue')
      /\ Once(response_queue) <=> /\ Once(response_queue')
                                  /\ reply.root \notin Roots(response_queue')
      BY <1>1, <1>2, HeadMarks DEF Parts, PopReply, reply
<1>6. m.root = reply.root
      OBVIOUS
<1> HIDE DEF m
<1>7. /\ Marks(request_queue') = Marks(request_queue) \cup {m}
      /\ Roots(request_queue') = Roots(request_queue) \cup {m.root}
      /\ Once(request_queue') <=> Once(request_queue) /\ m.root \notin Roots(request_queue)
      BY <1>1, <1>3, <1>4, AppendMarks DEF Parts
<1>8. Held = rest \cup {Mark(reply)}
      BY <1>1, <1>4, <1>5 DEF Parts
<1>9. Held' = rest \cup {m}
      BY <1>1, <1>4, <1>7 DEF Parts
<1>10. ASSUME Once(Carriers)
       PROVE  Once(Carriers') /\ \A h \in rest : h.root # reply.root
    <2>1. /\ reply.root \notin Roots(response_queue')
          /\ reply.root \notin Roots(InHand')
          /\ reply.root \notin Roots(request_queue)
          BY <1>1, <1>4, <1>5, <1>10 DEF Parts
    <2>2. Once(Carriers')
        <3>1. Once(response_queue') /\ Once(InHand') /\ Once(request_queue')
              BY <1>1, <1>4, <1>5, <1>6, <1>7, <1>10, <2>1 DEF Parts
        <3>2. /\ Roots(response_queue') \cap Roots(InHand') = {}
              /\ Roots(response_queue') \cap Roots(request_queue') = {}
              /\ Roots(InHand') \cap Roots(request_queue') = {}
              BY <1>1, <1>4, <1>5, <1>6, <1>7, <1>10, <2>1 DEF Parts
        <3> QED BY <1>1, <3>1, <3>2 DEF Parts
    <2>3. /\ \A h \in Marks(response_queue') : h.root \in Roots(response_queue')
          /\ \A h \in Marks(InHand') : h.root \in Roots(InHand')
          /\ \A h \in Marks(request_queue) : h.root \in Roots(request_queue)
          BY MarkRoots
    <2> QED BY <2>1, <2>2, <2>3
<1>11. Mark(reply).root = reply.root
      BY DEF Mark
<1> HIDE DEF rest
<1>12. Moves({Mark(reply)}, {m})
      BY <1>8, <1>9, <1>10, <1>11 DEF Moves
<1> QED BY <1>12 DEF m

LEMMA HandMarks ==
    /\ hand = None => Marks(InHand) = {} /\ Roots(InHand) = {} /\ Once(InHand)
    /\ hand # None => Marks(InHand) = {Mark(hand)} /\ Roots(InHand) = {hand.root} /\ Once(InHand)
BY FewMarks DEF InHand

LEMMA HandMarksNext ==
    /\ hand' = None => Marks(InHand') = {} /\ Roots(InHand') = {} /\ Once(InHand')
    /\ hand' # None => /\ Marks(InHand') = {Mark(hand')}
                       /\ Roots(InHand') = {hand'.root} /\ Once(InHand')
BY FewMarks DEF InHand

\* The worker takes the front request into its empty hand.
LEMMA TakeMoves ==
    ASSUME TypeOK, TypeOK', worker_take
    PROVE  Moves({}, {})
<1>1. CASE UNCHANGED <<request_queue, hand>>
      BY <1>1, StillMoves DEF worker_take
<1>2. CASE TakeRequest /\ request_queue # <<>> /\ worker' = "screening"
    <2>1. Parts /\ Parts'
          BY PartsNow, PartsNext
    <2>2. hand = None /\ hand' # None /\ hand' = Head(request_queue)
          BY <1>2 DEF worker_take, TypeOK, TakeRequest
    <2>3. response_queue' = response_queue /\ request_queue' = Tail(request_queue)
          BY <1>2 DEF worker_take, TakeRequest
    <2>4. /\ Marks(InHand) = {} /\ Roots(InHand) = {} /\ Once(InHand)
          /\ Marks(InHand') = {Mark(hand')} /\ Roots(InHand') = {hand'.root} /\ Once(InHand')
          BY <2>2, HandMarks, HandMarksNext
    <2>5. /\ Marks(request_queue) = {Mark(hand')} \cup Marks(request_queue')
          /\ Roots(request_queue) = {hand'.root} \cup Roots(request_queue')
          /\ Once(request_queue) <=> /\ Once(request_queue')
                                     /\ hand'.root \notin Roots(request_queue')
          BY <1>2, <2>1, <2>2, <2>3, HeadMarks DEF Parts
    <2>6. Held' = Held
          BY <2>1, <2>3, <2>4, <2>5 DEF Parts
    <2>7. Once(Carriers) => Once(Carriers')
          BY <2>1, <2>3, <2>4, <2>5 DEF Parts
    <2> QED BY <2>6, <2>7 DEF Moves
<1> QED BY <1>1, <1>2 DEF worker_take

\* What it has in hand comes back as a reply, with the same mark;
LEMMA AnswerMoves ==
    ASSUME TypeOK, TypeOK', NEW tool \in Tools \cup {None}, worker_answer(tool)
    PROVE  Moves({}, {})
<1> DEFINE answer_ == [id |-> hand.id, root |-> hand.root,
                       iteration |-> hand.iteration, tool |-> tool]
<1>1. Parts /\ Parts'
      BY PartsNow, PartsNext
<1>2. hand \in Requests /\ hand # None /\ hand' = None
      BY DEF worker_answer, TypeOK
<1>3. answer_ \in Things /\ Mark(answer_) = Mark(hand) /\ answer_.root = hand.root
      BY <1>2 DEF Things, Requests, Replies, Mark
<1>4. response_queue' = Append(response_queue, answer_) /\ request_queue' = request_queue
      BY DEF worker_answer
<1> HIDE DEF answer_
<1>5. /\ Marks(response_queue') = Marks(response_queue) \cup {Mark(hand)}
      /\ Roots(response_queue') = Roots(response_queue) \cup {hand.root}
      /\ Once(response_queue') <=> Once(response_queue) /\ hand.root \notin Roots(response_queue)
      BY <1>1, <1>3, <1>4, AppendMarks DEF Parts
<1>6. /\ Marks(InHand) = {Mark(hand)} /\ Roots(InHand) = {hand.root} /\ Once(InHand)
      /\ Marks(InHand') = {} /\ Roots(InHand') = {} /\ Once(InHand')
      BY <1>2, HandMarks, HandMarksNext
<1>7. Held' = Held
      BY <1>1, <1>4, <1>5, <1>6 DEF Parts
<1>8. Once(Carriers) => Once(Carriers')
      BY <1>1, <1>4, <1>5, <1>6 DEF Parts
<1> QED BY <1>7, <1>8 DEF Moves

\* or is let go.
LEMMA ScreenMoves ==
    ASSUME TypeOK, TypeOK', worker_screen
    PROVE  \/ UNCHANGED <<open, dropped, cancelled_requests>> /\ Moves({}, {})
           \/ /\ hand.id \in cancelled_requests /\ cancelled_requests' = cancelled_requests \ {hand.id}
              /\ open' = open \ {hand.root} /\ dropped' = dropped \cup {hand.root}
              /\ Moves({Mark(hand)}, {})
<1>1. CASE hand.id \notin cancelled_requests
      BY <1>1, StillMoves DEF worker_screen
<1>2. CASE hand.id \in cancelled_requests
    <2>1. Parts /\ Parts'
          BY PartsNow, PartsNext
    <2>2. hand # None /\ hand' = None /\ UNCHANGED <<response_queue, request_queue>>
          BY <1>2 DEF worker_screen, TypeOK
    <2>3. /\ Marks(InHand) = {Mark(hand)} /\ Roots(InHand) = {hand.root} /\ Once(InHand)
          /\ Marks(InHand') = {} /\ Roots(InHand') = {} /\ Once(InHand')
          BY <2>2, HandMarks, HandMarksNext
    <2>4. Held = Held' \cup {Mark(hand)}
          BY <2>1, <2>2, <2>3 DEF Parts
    <2>5. ASSUME Once(Carriers)
          PROVE  Once(Carriers') /\ \A m \in Held' : m.root # hand.root
        <3>1. hand.root \notin Roots(response_queue') /\ hand.root \notin Roots(request_queue')
              BY <2>1, <2>2, <2>3, <2>5 DEF Parts
        <3>2. Once(Carriers')
              BY <2>1, <2>2, <2>3, <2>5 DEF Parts
        <3>3. /\ \A m \in Marks(response_queue') : m.root \in Roots(response_queue')
              /\ \A m \in Marks(request_queue') : m.root \in Roots(request_queue')
              BY MarkRoots
        <3> QED BY <2>1, <2>3, <3>1, <3>2, <3>3 DEF Parts
    <2>6. Mark(hand).root = hand.root
          BY DEF Mark
    <2>7. Moves({Mark(hand)}, {})
          BY <2>4, <2>5, <2>6 DEF Moves
    <2> QED BY <1>2, <2>7 DEF worker_screen
<1> QED BY <1>1, <1>2

-----------------------------------------------------------------------------
\* The kinds of step there are, by what they do to what is under way

Asked == [id |-> next_request_id, root |-> next_request_id, iteration |-> 0]
Continued == [id |-> next_request_id, root |-> reply.root, iteration |-> reply.iteration + 1]

Quiet ==
    /\ Moves({}, {})
    /\ UNCHANGED <<cancelled_requests, next_request_id, call_history, error_counts, history>>

Submits == submit_request /\ Moves({}, {Asked})

Cancels(r) == r \in DOMAIN transcript /\ cancel_request(r) /\ Moves({}, {})

Drops(m) ==
    /\ Moves({m}, {})
    /\ m.id \in cancelled_requests
    /\ cancelled_requests' = cancelled_requests \ {m.id}
    /\ open' = open \ {m.root}
    /\ dropped' = dropped \cup {m.root}
    /\ UNCHANGED <<next_request_id, call_history, error_counts, answered, silenced, stopped,
                   transcript>>

Answers(m) ==
    /\ Moves({m}, {})
    /\ m.id \notin cancelled_requests
    /\ open' = open \ {m.root}
    /\ answered' = Append(answered, m.root)
    /\ UNCHANGED <<cancelled_requests, next_request_id, silenced, dropped>>

Ends(m) ==
    /\ Answers(m)
    /\ UNCHANGED <<call_history, error_counts, stopped, transcript>>

Stops(m) ==
    /\ m = Mark(reply) /\ Answers(m)
    /\ \E result \in Results : stop_repetition(result) \/ stop_errors(result)

Renews(m) ==
    /\ m = Mark(reply) /\ Moves({m}, {Continued})
    /\ \E result \in Results : continue_conversation(result)

LEMMA StepKinds ==
    ASSUME TypeOK, TypeOK', [Next]_vars
    PROVE  \/ Quiet \/ Submits
           \/ \E r : Cancels(r)
           \/ \E m : Drops(m) \/ Ends(m) \/ Stops(m) \/ Renews(m)
<1> USE DEF system, history
<1>1. CASE submit_request
      BY <1>1, SubmitMoves DEF Submits, Asked
<1>2. ASSUME NEW r \in DOMAIN transcript, cancel_request(r)
      PROVE  Cancels(r)
      BY <1>2, StillMoves DEF cancel_request, Cancels
<1>3. CASE skip_cancelled
    <2>1. Moves({Mark(reply)}, {})
          BY <1>3, PopMoves DEF skip_cancelled
    <2>2. Drops(Mark(reply))
          BY <1>3, <2>1 DEF skip_cancelled, IsCancelled, Drops, Mark
    <2> QED BY <2>2
<1>4. CASE answer
    <2>1. Moves({Mark(reply)}, {})
          BY <1>4, PopMoves DEF answer
    <2>2. Ends(Mark(reply))
          BY <1>4, <2>1 DEF answer, IsCancelled, Callback, Ends, Answers, Mark
    <2> QED BY <2>2
<1>5. ASSUME NEW result \in Results, stop_repetition(result) \/ stop_errors(result)
      PROVE  Stops(Mark(reply))
    <2>1. Moves({Mark(reply)}, {})
          BY <1>5, PopMoves DEF stop_repetition, stop_errors, RunTool
    <2> QED BY <1>5, <2>1 DEF stop_repetition, stop_errors, RunTool, IsCancelled, Callback,
                              Stops, Answers, Mark
<1>6. ASSUME NEW result \in Results, continue_conversation(result)
      PROVE  Renews(Mark(reply))
      BY <1>6, ContinueMoves DEF Renews, Continued
<1>7. CASE initialize \/ shutdown \/ MainContinues \/ spurious_wakeup \/ UNCHANGED vars
    <2>1. /\ UNCHANGED <<response_queue, hand, request_queue>>
          /\ UNCHANGED <<cancelled_requests, next_request_id, call_history, error_counts, history>>
          BY <1>7 DEF initialize, shutdown, MainContinues, notify_one, callback_returns, poll_ends,
                      shutdown_notify, shutdown_join, spurious_wakeup, vars
    <2> QED BY <2>1, StillMoves DEF Quiet
<1>8. CASE WorkerStep
    <2>1. CASE worker_loop \/ worker_sleep
          BY <2>1, StillMoves DEF worker_loop, worker_sleep, Quiet
    <2>2. CASE worker_take
          BY <2>2, TakeMoves DEF worker_take, Quiet
    <2>3. CASE worker_screen
        <3>1. CASE UNCHANGED <<open, dropped, cancelled_requests>> /\ Moves({}, {})
              BY <2>3, <3>1 DEF worker_screen, Quiet
        <3>2. CASE /\ hand.id \in cancelled_requests
                   /\ cancelled_requests' = cancelled_requests \ {hand.id}
                   /\ open' = open \ {hand.root} /\ dropped' = dropped \cup {hand.root}
                   /\ Moves({Mark(hand)}, {})
            <4>1. Drops(Mark(hand))
                  BY <2>3, <3>2 DEF worker_screen, Drops, Mark
            <4> QED BY <4>1
        <3> QED BY <2>3, <3>1, <3>2, ScreenMoves
    <2>4. ASSUME NEW tool \in Tools \cup {None}, worker_answer(tool)
          PROVE  Quiet
          BY <2>4, AnswerMoves DEF worker_answer, Quiet
    <2> QED BY <1>8, <2>1, <2>2, <2>3, <2>4 DEF WorkerStep
<1> QED BY <1>1, <1>2, <1>3, <1>4, <1>5, <1>6, <1>7, <1>8 DEF Next, ProcessStep

-----------------------------------------------------------------------------
\* One carrier for each open request

\* A root that is not in the transcript is nobody's: a new request's is one.
CarrierInv == Typed /\ OneCarrier /\ open \subseteq DOMAIN transcript

LEMMA CarriersByMarks ==
    /\ OneCarrier <=> open = {m.root : m \in Held} /\ Once(Carriers)
    /\ OneCarrier' <=> open' = {m.root : m \in Held'} /\ Once(Carriers')
<1>1. Roots(Carriers) = {m.root : m \in Held}
      BY RootsOfMarks DEF Held
<1>2. Roots(Carriers') = {m.root : m \in Held'}
      BY RootsOfMarks DEF Held
<1> QED BY <1>1, <1>2 DEF OneCarrier, Once, Roots

\* What the kinds of step do to open requests and roots.
LEMMA KindsOfOpen ==
    ASSUME TypeOK, TypeOK', [Next]_vars
    PROVE  \/ Moves({}, {}) /\ open' = open /\ DOMAIN transcript' = DOMAIN transcript
           \/ /\ Moves({}, {Asked}) /\ open' = open \cup {Asked.root}
              /\ DOMAIN transcript' = DOMAIN transcript \cup {Asked.root}
           \/ \E m : /\ Moves({m}, {}) /\ open' = open \ {m.root}
                     /\ DOMAIN transcript' = DOMAIN transcript
           \/ \E m : /\ Moves({m}, {Continued}) /\ Continued.root = m.root /\ open' = open
                     /\ DOMAIN transcript' = DOMAIN transcript
<1>1. CASE Quiet
      BY <1>1 DEF Quiet, history
<1>2. CASE Submits
    <2>1. Asked.root = next_request_id
          BY DEF Asked
    <2>2. DOMAIN transcript' = DOMAIN transcript \cup {next_request_id}
          BY <1>2, WriteEntry DEF Submits, submit_request
    <2> QED BY <1>2, <2>1, <2>2 DEF Submits, submit_request
<1>3. ASSUME NEW r, Cancels(r)
      PROVE  Moves({}, {}) /\ open' = open /\ DOMAIN transcript' = DOMAIN transcript
      BY <1>3 DEF Cancels, cancel_request
<1>4. ASSUME NEW m, Drops(m) \/ Ends(m)
      PROVE  Moves({m}, {}) /\ open' = open \ {m.root} /\ DOMAIN transcript' = DOMAIN transcript
      BY <1>4 DEF Drops, Ends, Answers
<1>5. ASSUME NEW m, Stops(m)
      PROVE  Moves({m}, {}) /\ open' = open \ {m.root} /\ DOMAIN transcript' = DOMAIN transcript
    <2>1. DOMAIN transcript' = DOMAIN transcript
          BY <1>5 DEF Stops, stop_repetition, stop_errors, RunTool
    <2> QED BY <1>5, <2>1 DEF Stops, Answers
<1>6. ASSUME NEW m, Renews(m)
      PROVE  /\ Moves({m}, {Continued}) /\ Continued.root = m.root /\ open' = open
             /\ DOMAIN transcript' = DOMAIN transcript
    <2>1. open' = open /\ DOMAIN transcript' = DOMAIN transcript
          BY <1>6 DEF Renews, continue_conversation, RunTool
    <2>2. Continued.root = m.root
          BY <1>6 DEF Renews, Continued, Mark
    <2> QED BY <1>6, <2>1, <2>2 DEF Renews
<1>7. \/ Quiet \/ Submits
      \/ \E r : Cancels(r)
      \/ \E m : Drops(m) \/ Ends(m) \/ Stops(m) \/ Renews(m)
      BY StepKinds
<1>8. CASE \E m : Drops(m) \/ Ends(m) \/ Stops(m)
      BY <1>4, <1>5, <1>8
<1>9. CASE \E m : Renews(m)
      BY <1>6, <1>9
<1> QED BY <1>1, <1>2, <1>3, <1>7, <1>8, <1>9

\* When no root is carried twice, the marks that stay have other roots than
\* those that come and go.
LEMMA OneCarrierStep ==
    ASSUME CarrierInv, [Next]_vars
    PROVE  CarrierInv'
<1>1. Typed /\ TypeOK /\ Typed' /\ TypeOK'
      BY TypedStep DEF CarrierInv, Typed
<1>2. open = {m.root : m \in Held} /\ Once(Carriers)
      BY CarriersByMarks DEF CarrierInv
<1>3. open \subseteq DOMAIN transcript
      BY DEF CarrierInv
<1>4. SUFFICES /\ open' = {m.root : m \in Held'} /\ Once(Carriers')
               /\ open' \subseteq DOMAIN transcript'
      BY <1>1, CarriersByMarks DEF CarrierInv
<1>5. CASE Moves({}, {}) /\ open' = open /\ DOMAIN transcript' = DOMAIN transcript
      BY <1>2, <1>3, <1>5 DEF Moves
<1>6. CASE /\ Moves({}, {Asked}) /\ open' = open \cup {Asked.root}
           /\ DOMAIN transcript' = DOMAIN transcript \cup {Asked.root}
    <2>1. Asked.root \notin open
        <3>1. next_request_id \notin DOMAIN transcript
              BY <1>1 DEF Typed, TypeOK
        <3> QED BY <1>3, <3>1 DEF Asked
    <2> HIDE DEF Asked
    <2>2. Held' = Held \cup {Asked}
          BY <1>6 DEF Moves
    <2>3. Once(Carriers')
          BY <1>2, <1>6, <2>1 DEF Moves
    <2> QED BY <1>2, <1>3, <1>6, <2>2, <2>3
<1>7. ASSUME NEW m, Moves({m}, {}), open' = open \ {m.root}, DOMAIN transcript' = DOMAIN transcript
      PROVE  /\ open' = {h.root : h \in Held'} /\ Once(Carriers')
             /\ open' \subseteq DOMAIN transcript'
    <2>1. /\ Held = Held' \cup {m}
          /\ \A h \in Held' : h.root # m.root
          /\ Once(Carriers')
          BY <1>2, <1>7 DEF Moves
    <2> QED BY <1>2, <1>3, <1>7, <2>1
<1>8. ASSUME NEW m, Moves({m}, {Continued}), Continued.root = m.root, open' = open,
             DOMAIN transcript' = DOMAIN transcript
      PROVE  /\ open' = {h.root : h \in Held'} /\ Once(Carriers')
             /\ open' \subseteq DOMAIN transcript'
    <2>1. PICK rest : /\ Held = rest \cup {m} /\ Held' = rest \cup {Continued}
                      /\ \A h \in rest : h.root # m.root
                      /\ Once(Carriers')
          BY <1>2, <1>8 DEF Moves
    <2> QED BY <1>2, <1>3, <1>8, <2>1
<1> QED BY <1>1, <1>5, <1>6, <1>7, <1>8, KindsOfOpen

\* Every open request is carried by exactly one queued request, taken request or
\* queued reply, through any number of continuations, cancellations and restarts
\* of the worker: none is lost between the two threads, none answered twice, and
\* nothing is carried that nobody waits for.
THEOREM NoRequestLost == Spec => []OneCarrier
<1>1. Init => CarrierInv
    <2> SUFFICES ASSUME Init PROVE CarrierInv
        OBVIOUS
    <2>1. Carriers = <<>> /\ open = {}
          BY DEF Init, Carriers, InHand
    <2>2. Held = {} /\ Once(Carriers)
          BY <2>1, FewMarks DEF Held
    <2> QED BY <2>1, <2>2, TypedInit, CarriersByMarks DEF CarrierInv
<1>2. CarrierInv /\ [Next]_vars => CarrierInv'
      BY OneCarrierStep
<1>3. CarrierInv => OneCarrier
      BY DEF CarrierInv
<1> QED BY <1>1, <1>2, <1>3, PTL DEF Spec

-----------------------------------------------------------------------------
\* The invariant of the ledger

\* The application only knows roots.
RootsKnown ==
    /\ dropped \cup silenced \cup cancelled_requests \subseteq DOMAIN transcript
    /\ answered \in Seq(DOMAIN transcript)

\* The ids of continuations are never roots.
IdsApart ==
    \A m \in Held : /\ m.id < next_request_id
                    /\ m.id \in DOMAIN transcript => m.id = m.root

\* An open request has neither been answered nor dropped.
Settled ==
    /\ open \cap dropped = {}
    /\ \A i \in DOMAIN answered : answered[i] \notin open

\* What is under way under a cancelled id was cancelled in time, and what was
\* cancelled in time and is still open is under way under its own id.
CancelledInTime ==
    /\ \A m \in Held : m.id \in cancelled_requests => m.root \in silenced
    /\ \A r \in silenced \cap open : /\ r \in cancelled_requests
                                     /\ \E m \in Held : m.id = r /\ m.root = r

LedgerInv == CarrierInv /\ RootsKnown /\ IdsApart /\ Settled /\ CancelledInTime

LEMMA HeldType == TypeOK => Held \subseteq Requests
<1> SUFFICES ASSUME TypeOK, NEW m \in Held PROVE m \in Requests
    OBVIOUS
<1>1. Parts
      BY PartsNow
<1>2. Carriers \in Seq(Things)
      BY <1>1, ConcatProperties DEF Parts, Carriers
<1>3. PICK c \in Things : m = Mark(c)
    <2>1. PICK i \in DOMAIN Carriers : m = Mark(Carriers[i])
          BY DEF Held, Marks
    <2> QED BY <1>2, <2>1
<1> QED BY <1>3 DEF Things, Requests, Replies, Mark

\* What every state of the induction has.
LEMMA LedgerFacts ==
    ASSUME LedgerInv
    PROVE  /\ next_request_id \in Nat
           /\ next_request_id \notin DOMAIN transcript
           /\ open = {m.root : m \in Held} /\ Once(Carriers)
           /\ open \subseteq DOMAIN transcript
           /\ \A m \in Held : m.id \in Nat /\ m.root \in DOMAIN transcript
<1>1. Typed /\ TypeOK /\ open \subseteq DOMAIN transcript
      BY DEF LedgerInv, CarrierInv, Typed
<1>2. open = {m.root : m \in Held} /\ Once(Carriers)
      BY CarriersByMarks DEF LedgerInv, CarrierInv
<1>3. next_request_id \in Nat /\ next_request_id \notin DOMAIN transcript
      BY <1>1 DEF Typed, TypeOK
<1>4. \A m \in Held : m.id \in Nat
      BY <1>1, HeldType DEF Requests
<1> QED BY <1>1, <1>2, <1>3, <1>4

\* The roots other than the one that went or came.
LEMMA MovedMarks ==
    ASSUME LedgerInv, NEW m, NEW come, Moves({m}, come)
    PROVE  \E rest : /\ Held = rest \cup {m} /\ Held' = rest \cup come
                     /\ \A h \in rest : h.root # m.root
BY LedgerFacts DEF Moves

LEMMA SubmitsLedger ==
    ASSUME LedgerInv, Submits
    PROVE  RootsKnown' /\ IdsApart' /\ Settled' /\ CancelledInTime'
<1> DEFINE n == next_request_id
<1>1. /\ n \in Nat /\ n \notin DOMAIN transcript /\ open \subseteq DOMAIN transcript
      /\ \A m \in Held : m.id \in Nat /\ m.root \in DOMAIN transcript
      BY LedgerFacts
<1>2. Asked.id = n /\ Asked.root = n
      BY DEF Asked
<1> HIDE DEF Asked
<1>3. Held' = Held \cup {Asked}
      BY DEF Submits, Moves
<1>4. /\ next_request_id' = n + 1 /\ open' = open \cup {n}
      /\ UNCHANGED <<cancelled_requests, answered, silenced, dropped>>
      BY DEF Submits, submit_request
<1>5. DOMAIN transcript' = DOMAIN transcript \cup {n}
      BY WriteEntry DEF Submits, submit_request
<1>6. RootsKnown /\ IdsApart /\ Settled /\ CancelledInTime
      BY DEF LedgerInv
<1>7. RootsKnown'
    <2>1. answered \in Seq(DOMAIN transcript')
          BY <1>5, <1>6, SeqMonotonic DEF RootsKnown
    <2> QED BY <1>4, <1>5, <1>6, <2>1 DEF RootsKnown
<1>8. IdsApart'
    <2>1. ASSUME NEW m \in Held
          PROVE  m.id < n + 1 /\ (m.id \in DOMAIN transcript' => m.id = m.root)
        <3>1. m.id \in Nat /\ m.id < n /\ (m.id \in DOMAIN transcript => m.id = m.root)
              BY <1>1, <1>6 DEF IdsApart
        <3>2. m.id < n + 1 /\ m.id # n
              BY <1>1, <3>1
        <3> QED BY <1>5, <3>1, <3>2
    <2> QED BY <1>1, <1>2, <1>3, <1>4, <2>1 DEF IdsApart
<1>9. Settled'
    <2>1. \A i \in DOMAIN answered : answered[i] # n
          BY <1>1, <1>6 DEF RootsKnown
    <2> QED BY <1>1, <1>4, <1>6, <2>1 DEF Settled, RootsKnown
<1>10. CancelledInTime'
      BY <1>1, <1>2, <1>3, <1>4, <1>6 DEF CancelledInTime, RootsKnown
<1> QED BY <1>7, <1>8, <1>9, <1>10

LEMMA CancelsLedger ==
    ASSUME LedgerInv, NEW r, Cancels(r)
    PROVE  /\ RootsKnown' /\ IdsApart' /\ Settled' /\ CancelledInTime'
           /\ UNCHANGED <<open, answered, dropped>>
           /\ silenced' = silenced \/ (r \in open /\ silenced' = silenced \cup {r})
<1>1. RootsKnown /\ IdsApart /\ Settled /\ CancelledInTime
      BY DEF LedgerInv
<1>2. Held' = Held
      BY DEF Cancels, Moves
<1>3. /\ r \in DOMAIN transcript /\ cancelled_requests' = cancelled_requests \cup {r}
      /\ UNCHANGED <<next_request_id, open, answered, dropped, transcript>>
      BY DEF Cancels, cancel_request
<1>4. (\E i \in DOMAIN Carriers : Carriers[i].id = r) <=> \E m \in Held : m.id = r
    <2>1. \A i \in DOMAIN Carriers : Mark(Carriers[i]).id = Carriers[i].id
          BY DEF Mark
    <2> QED BY <2>1 DEF Held, Marks
<1>5. silenced' = IF \E m \in Held : m.id = r THEN silenced \cup {r} ELSE silenced
      BY <1>4 DEF Cancels, cancel_request
<1>6. \A m \in Held : m.id = r => m.root = r /\ r \in open
      BY <1>1, <1>3, LedgerFacts DEF IdsApart
<1>7. RootsKnown' /\ IdsApart' /\ Settled'
      BY <1>1, <1>2, <1>3, <1>5 DEF RootsKnown, IdsApart, Settled
<1>8. CancelledInTime'
      BY <1>1, <1>2, <1>3, <1>5, <1>6 DEF CancelledInTime
<1> QED BY <1>3, <1>5, <1>6, <1>7, <1>8

LEMMA DropsLedger ==
    ASSUME LedgerInv, NEW m, Drops(m)
    PROVE  /\ RootsKnown' /\ IdsApart' /\ Settled' /\ CancelledInTime'
           /\ m.root \in open \cap silenced
<1>1. RootsKnown /\ IdsApart /\ Settled /\ CancelledInTime
      BY DEF LedgerInv
<1>2. Held = Held' \cup {m} /\ \A h \in Held' : h.root # m.root
    <2>1. Moves({m}, {})
          BY DEF Drops
    <2>2. PICK rest : /\ Held = rest \cup {m} /\ Held' = rest \cup {}
                      /\ \A h \in rest : h.root # m.root
          BY <2>1, MovedMarks
    <2>3. Held' = rest
          BY <2>2
    <2> QED BY <2>2, <2>3
<1>3. /\ m.id \in cancelled_requests /\ cancelled_requests' = cancelled_requests \ {m.id}
      /\ open' = open \ {m.root} /\ dropped' = dropped \cup {m.root}
      /\ UNCHANGED <<next_request_id, answered, silenced, transcript>>
      BY DEF Drops
<1>4. /\ m.root \in open /\ m.root \in DOMAIN transcript
      /\ m.root \in silenced /\ m.id = m.root
      BY <1>1, <1>2, <1>3, LedgerFacts DEF RootsKnown, IdsApart, CancelledInTime
<1>5. RootsKnown' /\ IdsApart' /\ Settled'
      BY <1>1, <1>2, <1>3, <1>4 DEF RootsKnown, IdsApart, Settled
<1>6. CancelledInTime'
      BY <1>1, <1>2, <1>3, <1>4 DEF CancelledInTime
<1> QED BY <1>4, <1>5, <1>6

LEMMA AnswersLedger ==
    ASSUME LedgerInv, NEW m, Answers(m), DOMAIN transcript' = DOMAIN transcript
    PROVE  /\ RootsKnown' /\ IdsApart' /\ Settled' /\ CancelledInTime'
           /\ m.root \in open \ silenced
<1>1. RootsKnown /\ IdsApart /\ Settled /\ CancelledInTime
      BY DEF LedgerInv
<1>2. Held = Held' \cup {m} /\ \A h \in Held' : h.root # m.root
    <2>1. Moves({m}, {})
          BY DEF Answers
    <2>2. PICK rest : /\ Held = rest \cup {m} /\ Held' = rest \cup {}
                      /\ \A h \in rest : h.root # m.root
          BY <2>1, MovedMarks
    <2>3. Held' = rest
          BY <2>2
    <2> QED BY <2>2, <2>3
<1>3. /\ m.id \notin cancelled_requests /\ open' = open \ {m.root}
      /\ answered' = Append(answered, m.root)
      /\ UNCHANGED <<cancelled_requests, next_request_id, silenced, dropped>>
      BY DEF Answers
<1>4. m.root \in open /\ m.root \in DOMAIN transcript
      BY <1>2, LedgerFacts
<1>5. m.root \notin silenced
      BY <1>1, <1>2, <1>3, <1>4 DEF CancelledInTime
<1>6. RootsKnown' /\ IdsApart'
    <2>1. answered' \in Seq(DOMAIN transcript)
          BY <1>1, <1>3, <1>4, AppendProperties DEF RootsKnown
    <2> QED BY <1>1, <1>2, <1>3, <2>1 DEF RootsKnown, IdsApart
<1>7. Settled'
    <2>1. \A i \in DOMAIN answered' : answered'[i] = m.root \/ \E j \in DOMAIN answered :
                                                                  answered'[i] = answered[j]
          BY <1>1, <1>3, <1>4, AppendProperties DEF RootsKnown
    <2> QED BY <1>1, <1>3, <2>1 DEF Settled
<1>8. CancelledInTime'
      BY <1>1, <1>2, <1>3 DEF CancelledInTime
<1> QED BY <1>4, <1>5, <1>6, <1>7, <1>8

LEMMA RenewsLedger ==
    ASSUME LedgerInv, NEW m, Renews(m)
    PROVE  /\ RootsKnown' /\ IdsApart' /\ Settled' /\ CancelledInTime'
           /\ UNCHANGED <<open, answered, silenced, dropped>>
<1> DEFINE n == next_request_id
<1>1. RootsKnown /\ IdsApart /\ Settled /\ CancelledInTime
      BY DEF LedgerInv
<1>2. PICK rest : /\ Held = rest \cup {m} /\ Held' = rest \cup {Continued}
                  /\ \A h \in rest : h.root # m.root
      BY MovedMarks DEF Renews
<1>3. Continued.id = n /\ Continued.root = m.root
      BY DEF Renews, Continued, Mark
<1> HIDE DEF Continued
<1>4. /\ next_request_id' = n + 1 /\ DOMAIN transcript' = DOMAIN transcript
      /\ UNCHANGED <<cancelled_requests, open, answered, silenced, dropped>>
      BY DEF Renews, continue_conversation, RunTool
<1>5. m.id \notin cancelled_requests
      BY DEF Renews, continue_conversation, RunTool, IsCancelled, Mark
<1>6. /\ n \in Nat /\ n \notin DOMAIN transcript
      /\ \A h \in Held : h.id \in Nat /\ h.root \in DOMAIN transcript
      BY LedgerFacts
<1>7. RootsKnown' /\ Settled'
      BY <1>1, <1>4 DEF RootsKnown, Settled
<1>8. IdsApart'
    <2>1. \A h \in rest : h.id < n + 1
        <3>1. \A h \in rest : h.id \in Nat /\ h.id < n
              BY <1>1, <1>2, <1>6 DEF IdsApart
        <3> QED BY <1>6, <3>1
    <2> QED BY <1>1, <1>2, <1>3, <1>4, <1>6, <2>1 DEF IdsApart
<1>9. CancelledInTime'
      BY <1>1, <1>2, <1>3, <1>4, <1>5, <1>6 DEF CancelledInTime, RootsKnown
<1> QED BY <1>4, <1>7, <1>8, <1>9

LEMMA QuietLedger ==
    ASSUME LedgerInv, Quiet
    PROVE  /\ RootsKnown' /\ IdsApart' /\ Settled' /\ CancelledInTime'
           /\ UNCHANGED <<open, answered, silenced, dropped>>
<1>1. Held' = Held
      BY DEF Quiet, Moves
<1> QED BY <1>1 DEF Quiet, history, LedgerInv, RootsKnown, IdsApart, Settled, CancelledInTime

\* Both ways a conversation ends keep what was asked.
LEMMA EndsAnswer ==
    ASSUME NEW m, Ends(m) \/ Stops(m)
    PROVE  Answers(m) /\ DOMAIN transcript' = DOMAIN transcript
BY DEF Ends, Stops, stop_repetition, stop_errors, RunTool

LEMMA LedgerStep ==
    ASSUME LedgerInv, [Next]_vars
    PROVE  LedgerInv' /\ [Ledger!Next]_Ledger!vars
<1>1. CarrierInv' /\ TypeOK /\ TypeOK'
      BY OneCarrierStep, TypedStep DEF LedgerInv, CarrierInv, Typed
<1> SUFFICES /\ RootsKnown' /\ IdsApart' /\ Settled' /\ CancelledInTime'
             /\ [Ledger!Next]_Ledger!vars
    BY <1>1 DEF LedgerInv
<1> USE DEF Ledger!vars
<1>2. CASE Quiet
      BY <1>2, QuietLedger
<1>3. CASE Submits
    <2>1. /\ next_request_id \notin DOMAIN transcript /\ open \subseteq DOMAIN transcript
          BY LedgerFacts
    <2>2. /\ next_request_id \notin open \cup dropped
          /\ \A i \in DOMAIN answered : answered[i] # next_request_id
          BY <2>1 DEF LedgerInv, RootsKnown
    <2>3. Ledger!Submit
          BY <1>3, <2>2 DEF Submits, submit_request, Ledger!Submit, Ledger!WasAnswered
    <2> QED BY <1>3, <2>3, SubmitsLedger DEF Ledger!Next
<1>4. ASSUME NEW r, Cancels(r)
      PROVE  /\ RootsKnown' /\ IdsApart' /\ Settled' /\ CancelledInTime'
             /\ [Ledger!Next]_Ledger!vars
      BY <1>4, CancelsLedger DEF Ledger!Next, Ledger!Cancel
<1>5. ASSUME NEW m, Drops(m)
      PROVE  /\ RootsKnown' /\ IdsApart' /\ Settled' /\ CancelledInTime'
             /\ [Ledger!Next]_Ledger!vars
    <2>1. Ledger!Drop
          BY <1>5, DropsLedger DEF Drops, Ledger!Drop
    <2> QED BY <1>5, <2>1, DropsLedger DEF Ledger!Next
<1>6. ASSUME NEW m, Ends(m) \/ Stops(m)
      PROVE  /\ RootsKnown' /\ IdsApart' /\ Settled' /\ CancelledInTime'
             /\ [Ledger!Next]_Ledger!vars
    <2>1. Answers(m) /\ DOMAIN transcript' = DOMAIN transcript
          BY <1>6, EndsAnswer
    <2>2. Ledger!Answer
          BY <2>1, AnswersLedger DEF Answers, Ledger!Answer
    <2> QED BY <2>1, <2>2, AnswersLedger DEF Ledger!Next
<1>7. ASSUME NEW m, Renews(m)
      PROVE  /\ RootsKnown' /\ IdsApart' /\ Settled' /\ CancelledInTime'
             /\ [Ledger!Next]_Ledger!vars
      BY <1>7, RenewsLedger
<1> QED BY <1>1, <1>2, <1>3, <1>4, <1>5, <1>6, <1>7, StepKinds

LEMMA LedgerInit == Init => LedgerInv
<1> SUFFICES ASSUME Init PROVE LedgerInv
    OBVIOUS
<1>1. Carriers = <<>> /\ open = {}
      BY DEF Init, Carriers, InHand
<1>2. Held = {} /\ Once(Carriers)
      BY <1>1, FewMarks DEF Held
<1>3. CarrierInv
      BY <1>1, <1>2, TypedInit, CarriersByMarks DEF CarrierInv
<1>4. RootsKnown
      BY EmptySeq DEF Init, RootsKnown
<1> QED BY <1>1, <1>2, <1>3, <1>4 DEF Init, LedgerInv, IdsApart, Settled, CancelledInTime

\* To whoever submits requests the system keeps a ledger: a callback runs at
\* most once, never for a request cancelled before its first reply was taken,
\* and only such a request is dropped without one, though its conversation
\* takes several requests with ids of their own, and two threads check for its
\* cancellation at two places.
THEOREM ConversationsKeepTheLedger == Spec => ImplementsLedger
<1>1. Init => Ledger!Init
      BY DEF Init, Ledger!Init
<1> QED BY <1>1, LedgerInit, LedgerStep, PTL DEF Spec, ImplementsLedger, Ledger!Spec

-----------------------------------------------------------------------------
\* One turn of a conversation

\* A history is the end of its conversation, cut to the window.
Window(calls, seen) ==
    /\ Len(seen) <= Len(calls) /\ Len(seen) <= RepeatWindow
    /\ Len(seen) = Len(calls) \/ Len(seen) = RepeatWindow
    /\ \A i \in 1 .. Len(seen) : seen[i] = calls[Len(calls) - Len(seen) + i]

\* An error count is the number of failures its conversation ends with.
Failing(calls, count) ==
    /\ count <= Len(calls)
    /\ \A i \in Len(calls) - count + 1 .. Len(calls) : calls[i].result \in FailedResults
    /\ count < Len(calls) => calls[Len(calls) - count].result \notin FailedResults

Failures(count, call) == IF call.result \in FailedResults THEN count + 1 ELSE 0

\* Where the window of a conversation of n + 1 turns holds the last call.
Again(calls, n) ==
    {i \in 1 .. n : i >= n + 1 - RepeatWindow /\ calls[i] = calls[n + 1]}

\* The repetitions counted in the history are those in the conversation.
LEMMA RepeatsInWindow ==
    ASSUME NEW calls \in Seq(Calls), NEW seen \in Seq(Calls), Window(calls, seen),
           NEW call \in Calls
    PROVE  /\ Repeats(seen, call) = Cardinality(Again(Append(calls, call), Len(calls)))
           /\ Repeats(seen, call) \in Nat
<1> DEFINE n == Len(calls)  k == Len(seen)  longer == Append(calls, call)
           there == {i \in DOMAIN seen : seen[i] = call}
           here == Again(longer, n)
           shift == [i \in there |-> n - k + i]
<1>1. n \in Nat /\ k \in Nat /\ DOMAIN seen = 1 .. k /\ RepeatWindow \in Nat \ {0}
      BY BoundsAssumption
<1>2. /\ k <= n /\ k <= RepeatWindow /\ (k = n \/ k = RepeatWindow)
      /\ \A i \in 1 .. k : seen[i] = calls[n - k + i]
      BY DEF Window
<1>3. longer[n + 1] = call /\ \A i \in 1 .. n : longer[i] = calls[i]
      BY AppendProperties
<1> HIDE DEF n, k, longer
<1>4. here = {i \in 1 .. n : i >= n + 1 - RepeatWindow /\ longer[i] = call}
      BY <1>3 DEF Again
<1>5. ASSUME NEW i \in there
      PROVE  n - k + i \in here
    <2>1. i \in 1 .. k /\ seen[i] = call
          BY <1>1
    <2>2. n - k + i \in 1 .. n /\ n - k + i >= n + 1 - RepeatWindow
          BY <1>1, <1>2, <2>1
    <2>3. longer[n - k + i] = call
          BY <1>2, <1>3, <2>1, <2>2
    <2> QED BY <1>4, <2>2, <2>3
<1>6. ASSUME NEW j \in here
      PROVE  \E i \in there : n - k + i = j
    <2>1. j \in 1 .. n /\ j >= n + 1 - RepeatWindow /\ longer[j] = call
          BY <1>4
    <2>2. j - (n - k) \in 1 .. k /\ n - k + (j - (n - k)) = j
          BY <1>1, <1>2, <2>1
    <2>3. seen[j - (n - k)] = call
          BY <1>2, <1>3, <2>1, <2>2
    <2> QED BY <1>1, <2>2, <2>3
<1>7. \A a, b \in there : n - k + a = n - k + b => a = b
      BY <1>1
<1>8. IsFiniteSet(there)
    <2>1. IsFiniteSet(1 .. k)
          BY <1>1, FS_Interval
    <2> QED BY <1>1, <2>1, FS_Subset
<1> HIDE DEF there, here
<1>9. shift \in [there -> here]
      BY <1>5
<1>10. (\A a, b \in there : shift[a] = shift[b] => a = b) /\ \A j \in here : \E i \in there : shift[i] = j
      BY <1>6, <1>7
<1> HIDE DEF shift
<1>11. shift \in Bijection(there, here)
      BY <1>9, <1>10, Fun_IsBij
<1>12. ExistsBijection(there, here)
      BY <1>11 DEF ExistsBijection
<1>13. Cardinality(here) = Cardinality(there)
      BY <1>8, <1>12, FS_Bijection
<1>14. Cardinality(there) \in Nat
      BY <1>8, FS_CardinalityType
<1> QED BY <1>13, <1>14 DEF Repeats, there, here, longer, n

\* A call is the one too many exactly when the history or the count says so.
LEMMA StuckByNow ==
    ASSUME NEW calls \in Seq(Calls), NEW seen \in Seq(Calls), NEW count \in 0 .. MaxErrors - 1,
           Window(calls, seen), Failing(calls, count), NEW call \in Calls
    PROVE  GoingNowhere(Append(calls, call)) <=> \/ Repeats(seen, call) >= RepeatThreshold
                                                 \/ Failures(count, call) >= MaxErrors
<1> DEFINE n == Len(calls)  longer == Append(calls, call)
           Repeating == Cardinality(Again(longer, n)) >= RepeatThreshold
           Breaking == /\ n + 1 >= MaxErrors
                       /\ \A i \in n + 1 - MaxErrors + 1 .. n + 1 :
                             longer[i].result \in FailedResults
<1>1. n \in Nat /\ count \in Nat /\ MaxErrors \in Nat \ {0} /\ count < MaxErrors
      BY BoundsAssumption
<1>2. Len(longer) = n + 1 /\ longer[n + 1] = call /\ \A i \in 1 .. n : longer[i] = calls[i]
      BY AppendProperties
<1>3. /\ count <= n
      /\ \A i \in n - count + 1 .. n : calls[i].result \in FailedResults
      /\ count < n => calls[n - count].result \notin FailedResults
      BY DEF Failing
<1> HIDE DEF n, longer
<1>4. GoingNowhere(longer) <=> Repeating \/ Breaking
    <2>1. 1 .. (n + 1) - 1 = 1 .. n
          BY <1>1
    <2> DEFINE past == {i \in 1 .. Len(longer) - 1 :
                           i >= Len(longer) - RepeatWindow /\ longer[i] = longer[Len(longer)]}
           failing == /\ Len(longer) >= MaxErrors
                      /\ \A i \in Len(longer) - MaxErrors + 1 .. Len(longer) :
                            longer[i].result \in FailedResults
    <2>2. GoingNowhere(longer) <=>
             Len(longer) > 0 /\ (Cardinality(past) >= RepeatThreshold \/ failing)
          BY DEF GoingNowhere
    <2>3. Len(longer) = n + 1
          BY <1>2
    <2>4. 1 .. Len(longer) - 1 = 1 .. n /\ Len(longer) > 0
          BY <1>1, <2>1, <2>3
    <2>5. past = Again(longer, n)
          BY <1>1, <2>3, <2>4, BoundsAssumption DEF Again
    <2>6. failing <=> Breaking
          BY <1>1, <2>3
    <2> HIDE DEF past, failing, Breaking
    <2> QED BY <2>2, <2>4, <2>5, <2>6
<1>5. Repeating <=> Repeats(seen, call) >= RepeatThreshold
      BY RepeatsInWindow DEF longer, n
<1>6. ASSUME Breaking
      PROVE  Failures(count, call) >= MaxErrors
    <2>1. n + 1 \in n + 1 - MaxErrors + 1 .. n + 1
          BY <1>1
    <2>2. call.result \in FailedResults
          BY <1>2, <1>6, <2>1
    <2>3. ASSUME count + 1 < MaxErrors
          PROVE  FALSE
        <3>1. count < n
              BY <1>1, <1>6, <2>3
        <3>2. n - count \in n + 1 - MaxErrors + 1 .. n + 1 /\ n - count \in 1 .. n
              BY <1>1, <2>3, <3>1
        <3> QED BY <1>2, <1>3, <1>6, <3>1, <3>2
    <2> QED BY <1>1, <2>2, <2>3 DEF Failures
<1>7. ASSUME Failures(count, call) >= MaxErrors
      PROVE  Breaking
    <2>1. call.result \in FailedResults /\ count + 1 = MaxErrors
          BY <1>1, <1>7 DEF Failures
    <2>2. ASSUME NEW i \in n + 1 - MaxErrors + 1 .. n + 1
          PROVE  longer[i].result \in FailedResults
        <3>1. CASE i = n + 1
              BY <1>2, <2>1, <3>1
        <3>2. CASE i # n + 1
            <4>1. i \in n - count + 1 .. n /\ i \in 1 .. n
                  BY <1>1, <1>3, <2>1, <3>2
            <4> QED BY <1>2, <1>3, <4>1
        <3> QED BY <3>1, <3>2
    <2> QED BY <1>1, <1>3, <2>1, <2>2
<1> QED BY <1>4, <1>5, <1>6, <1>7 DEF longer

\* What is remembered of a conversation that goes on is still its end.
LEMMA WindowMoves ==
    ASSUME NEW calls \in Seq(Calls), NEW seen \in Seq(Calls), Window(calls, seen),
           NEW call \in Calls
    PROVE  Window(Append(calls, call), Remember(seen, call))
<1> DEFINE n == Len(calls)  k == Len(seen)  longer == Append(calls, call)
           kept == Remember(seen, call)
<1>1. n \in Nat /\ k \in Nat /\ RepeatWindow \in Nat \ {0}
      BY BoundsAssumption
<1>2. /\ k <= n /\ k <= RepeatWindow /\ (k = n \/ k = RepeatWindow)
      /\ \A i \in 1 .. k : seen[i] = calls[n - k + i]
      BY DEF Window
<1>3. Len(longer) = n + 1 /\ longer[n + 1] = call /\ \A i \in 1 .. n : longer[i] = calls[i]
      BY AppendProperties
<1>4. CASE k = RepeatWindow
    <2>1. /\ Tail(seen) \in Seq(Calls) /\ Len(Tail(seen)) = k - 1
          /\ \A i \in 1 .. k - 1 : Tail(seen)[i] = seen[i + 1]
        <3>1. seen # <<>>
              BY <1>1, <1>4
        <3> QED BY <3>1, HeadTailProperties
    <2>2. /\ Len(kept) = k /\ kept[k] = call
          /\ \A i \in 1 .. k - 1 : kept[i] = seen[i + 1]
        <3>1. kept = Append(Tail(seen), call)
              BY <1>4 DEF Remember
        <3>2. k - 1 + 1 = k
              BY <1>1
        <3> QED BY <2>1, <3>1, <3>2, AppendProperties
    <2> HIDE DEF n, k, longer, kept
    <2>3. ASSUME NEW i \in 1 .. k
          PROVE  kept[i] = longer[n + 1 - k + i]
        <3>1. CASE i = k
            <4>1. n + 1 - k + i = n + 1
                  BY <1>1, <3>1
            <4> QED BY <1>3, <2>2, <3>1, <4>1
        <3>2. CASE i # k
            <4>1. i \in 1 .. k - 1 /\ i + 1 \in 1 .. k
                  BY <1>1, <3>2
            <4>2. n - k + (i + 1) = n + 1 - k + i /\ n + 1 - k + i \in 1 .. n
                  BY <1>1, <1>2, <4>1
            <4>3. kept[i] = calls[n - k + (i + 1)]
                  BY <1>2, <2>2, <4>1
            <4> QED BY <1>3, <4>2, <4>3
        <3> QED BY <3>1, <3>2
    <2>4. Len(kept) <= Len(longer) /\ Len(kept) <= RepeatWindow /\ Len(kept) = RepeatWindow
          BY <1>1, <1>2, <1>3, <1>4, <2>2
    <2>5. Window(longer, kept)
          BY <1>1, <1>3, <2>2, <2>3, <2>4 DEF Window
    <2> QED BY <2>5 DEF longer, kept
<1>5. CASE k # RepeatWindow
    <2>1. /\ Len(kept) = k + 1 /\ kept[k + 1] = call
          /\ \A i \in 1 .. k : kept[i] = seen[i]
          BY <1>5, AppendProperties DEF Remember
    <2> HIDE DEF n, k, longer, kept
    <2>2. k = n /\ k + 1 <= RepeatWindow
          BY <1>1, <1>2, <1>5
    <2>3. ASSUME NEW i \in 1 .. k + 1
          PROVE  kept[i] = longer[n + 1 - (k + 1) + i]
        <3>1. n + 1 - (k + 1) + i = i
              BY <1>1, <2>2
        <3>2. CASE i = k + 1
              BY <1>3, <2>1, <2>2, <3>1, <3>2
        <3>3. CASE i # k + 1
            <4>1. i \in 1 .. k /\ i \in 1 .. n /\ n - k + i = i
                  BY <1>1, <2>2, <3>3
            <4> QED BY <1>2, <1>3, <2>1, <3>1, <4>1
        <3> QED BY <3>2, <3>3
    <2>4. Len(kept) <= Len(longer) /\ Len(kept) <= RepeatWindow /\ Len(kept) = Len(longer)
          BY <1>1, <1>3, <2>1, <2>2
    <2>5. Window(longer, kept)
          BY <1>1, <1>3, <2>1, <2>3, <2>4 DEF Window
    <2> QED BY <2>5 DEF longer, kept
<1> QED BY <1>4, <1>5

LEMMA FailingMoves ==
    ASSUME NEW calls \in Seq(Calls), NEW count \in Nat, Failing(calls, count), NEW call \in Calls
    PROVE  Failing(Append(calls, call), Failures(count, call))
<1> DEFINE n == Len(calls)  longer == Append(calls, call)
<1>1. n \in Nat
      OBVIOUS
<1>2. Len(longer) = n + 1 /\ longer[n + 1] = call /\ \A i \in 1 .. n : longer[i] = calls[i]
      BY AppendProperties
<1>3. /\ count <= n
      /\ \A i \in n - count + 1 .. n : calls[i].result \in FailedResults
      /\ count < n => calls[n - count].result \notin FailedResults
      BY DEF Failing
<1> HIDE DEF n, longer
<1>4. CASE call.result \in FailedResults
    <2>1. Failures(count, call) = count + 1
          BY <1>4 DEF Failures
    <2>2. ASSUME NEW i \in n + 1 - (count + 1) + 1 .. n + 1
          PROVE  longer[i].result \in FailedResults
        <3>1. CASE i = n + 1
              BY <1>2, <1>4, <3>1
        <3>2. CASE i # n + 1
            <4>1. i \in n - count + 1 .. n /\ i \in 1 .. n
                  BY <1>1, <1>3, <3>2
            <4> QED BY <1>2, <1>3, <4>1
        <3> QED BY <3>1, <3>2
    <2>3. ASSUME count + 1 < n + 1
          PROVE  longer[n + 1 - (count + 1)].result \notin FailedResults
        <3>1. count < n /\ n + 1 - (count + 1) = n - count /\ n - count \in 1 .. n
              BY <1>1, <2>3
        <3> QED BY <1>2, <1>3, <3>1
    <2>4. count + 1 <= n + 1
          BY <1>1, <1>3
    <2>5. Failing(longer, count + 1)
          BY <1>1, <1>2, <2>2, <2>3, <2>4 DEF Failing
    <2> QED BY <2>1, <2>5 DEF longer
<1>5. CASE call.result \notin FailedResults
    <2>1. Failures(count, call) = 0
          BY <1>5 DEF Failures
    <2>2. n + 1 - 0 = n + 1 /\ 0 <= n + 1 /\ \A i \in n + 1 - 0 + 1 .. n + 1 : FALSE
          BY <1>1
    <2>3. longer[n + 1 - 0].result \notin FailedResults
          BY <1>2, <1>5, <2>2
    <2>4. Failing(longer, 0)
          BY <1>1, <1>2, <2>2, <2>3 DEF Failing
    <2> QED BY <2>1, <2>4 DEF longer
<1> QED BY <1>4, <1>5

-----------------------------------------------------------------------------
\* The invariant of the conversations

TablesKnown ==
    /\ stopped \cup DOMAIN call_history \cup DOMAIN error_counts \subseteq DOMAIN transcript
    /\ stopped \cap open = {}

Transcribed ==
    \A r \in DOMAIN transcript : /\ transcript[r] \in Seq(Calls)
                                 /\ Len(transcript[r]) <= MaxIterations

\* What is under way knows how many turns its conversation has had.
TurnsCounted == \A m \in Held : m.iteration = Len(transcript[m.root])

\* A conversation that was not stopped goes on: both tables tell its end.
GoesOn(r) ==
    /\ Window(transcript[r], HistoryOf(r))
    /\ Failing(transcript[r], ErrorsOf(r))
    /\ ~GoingNowhere(transcript[r])

Remembered ==
    /\ \A r \in DOMAIN transcript \ stopped : GoesOn(r)
    /\ \A r \in stopped : GoingNowhere(transcript[r])

ConversationInv == TablesKnown /\ Transcribed /\ TurnsCounted /\ Remembered
StuckInv == LedgerInv /\ ConversationInv

\* A conversation whose transcript and tables stay goes on as before.
LEMMA GoesOnAsBefore ==
    ASSUME NEW r, transcript'[r] = transcript[r], HistoryOf(r)' = HistoryOf(r),
           ErrorsOf(r)' = ErrorsOf(r)
    PROVE  GoesOn(r) => GoesOn(r)'
BY DEF GoesOn

LEMMA HistoryWritten ==
    ASSUME NEW r, NEW x, call_history' = With(call_history, r, x)
    PROVE  HistoryOf(r)' = x /\ \A q : q # r => HistoryOf(q)' = HistoryOf(q)
<1>1. /\ DOMAIN call_history' = DOMAIN call_history \cup {r}
      /\ call_history'[r] = x
      /\ \A q \in DOMAIN call_history \ {r} : call_history'[q] = call_history[q]
      BY DEF With
<1>2. HistoryOf(r)' = x
      BY <1>1 DEF HistoryOf
<1>3. ASSUME NEW q, q # r
      PROVE  HistoryOf(q)' = HistoryOf(q)
      BY <1>1, <1>3 DEF HistoryOf
<1> QED BY <1>2, <1>3

LEMMA ErrorsWritten ==
    ASSUME NEW r, NEW x, error_counts' = With(error_counts, r, x)
    PROVE  ErrorsOf(r)' = x /\ \A q : q # r => ErrorsOf(q)' = ErrorsOf(q)
<1>1. /\ DOMAIN error_counts' = DOMAIN error_counts \cup {r}
      /\ error_counts'[r] = x
      /\ \A q \in DOMAIN error_counts \ {r} : error_counts'[q] = error_counts[q]
      BY DEF With
<1>2. ErrorsOf(r)' = x
      BY <1>1 DEF ErrorsOf
<1>3. ASSUME NEW q, q # r
      PROVE  ErrorsOf(q)' = ErrorsOf(q)
      BY <1>1, <1>3 DEF ErrorsOf
<1> QED BY <1>2, <1>3

LEMMA HistoryErased ==
    ASSUME NEW r, call_history' = Without(call_history, r)
    PROVE  \A q : q # r => HistoryOf(q)' = HistoryOf(q)
<1>1. /\ DOMAIN call_history' = DOMAIN call_history \ {r}
      /\ \A q \in DOMAIN call_history \ {r} : call_history'[q] = call_history[q]
      BY EraseEntry
<1>2. ASSUME NEW q, q # r
      PROVE  HistoryOf(q)' = HistoryOf(q)
      BY <1>1, <1>2 DEF HistoryOf
<1> QED BY <1>2

LEMMA ErrorsErased ==
    ASSUME NEW r, error_counts' = Without(error_counts, r)
    PROVE  \A q : q # r => ErrorsOf(q)' = ErrorsOf(q)
<1>1. /\ DOMAIN error_counts' = DOMAIN error_counts \ {r}
      /\ \A q \in DOMAIN error_counts \ {r} : error_counts'[q] = error_counts[q]
      BY EraseEntry
<1>2. ASSUME NEW q, q # r
      PROVE  ErrorsOf(q)' = ErrorsOf(q)
      BY <1>1, <1>2 DEF ErrorsOf
<1> QED BY <1>2

\* Steps that leave the conversations alone.
LEMMA NoTurn ==
    ASSUME ConversationInv, UNCHANGED <<call_history, error_counts, stopped, transcript>>,
           Held' \subseteq Held, open' \subseteq open
    PROVE  ConversationInv'
<1>1. \A r : HistoryOf(r)' = HistoryOf(r) /\ ErrorsOf(r)' = ErrorsOf(r)
      BY DEF HistoryOf, ErrorsOf
<1>2. \A r : GoesOn(r) => GoesOn(r)'
      BY <1>1 DEF GoesOn
<1> QED BY <1>2 DEF ConversationInv, TablesKnown, Transcribed, TurnsCounted, Remembered

LEMMA NewConversation ==
    ASSUME StuckInv, Submits
    PROVE  ConversationInv'
<1> PICK n : n = next_request_id
    OBVIOUS
<1>1. /\ n \notin DOMAIN transcript /\ open \subseteq DOMAIN transcript
      /\ \A m \in Held : m.root \in DOMAIN transcript
      BY LedgerFacts DEF StuckInv
<1>2. TablesKnown /\ Transcribed /\ TurnsCounted /\ Remembered
      BY DEF StuckInv, ConversationInv
<1>3. /\ open' = open \cup {n} /\ transcript' = With(transcript, n, <<>>)
      /\ UNCHANGED <<call_history, error_counts, stopped>>
      BY DEF Submits, submit_request
<1>4. /\ DOMAIN transcript' = DOMAIN transcript \cup {n}
      /\ transcript'[n] = <<>>
      /\ \A r \in DOMAIN transcript : transcript'[r] = transcript[r]
      BY <1>1, <1>3 DEF With
<1>5. Held' = Held \cup {Asked} /\ Asked.root = n /\ Asked.iteration = 0
      BY DEF Submits, Moves, Asked
<1>6. <<>> \in Seq(Calls) /\ Len(<<>>) = 0
      BY EmptySeq
<1> HIDE DEF Asked
<1>7. TablesKnown'
      BY <1>1, <1>2, <1>3, <1>4 DEF TablesKnown
<1>8. Transcribed'
    <2>1. transcript'[n] \in Seq(Calls) /\ Len(transcript'[n]) <= MaxIterations
          BY <1>4, <1>6, BoundsAssumption
    <2>2. \A r \in DOMAIN transcript : /\ transcript'[r] \in Seq(Calls)
                                       /\ Len(transcript'[r]) <= MaxIterations
          BY <1>2, <1>4 DEF Transcribed
    <2> QED BY <1>4, <2>1, <2>2 DEF Transcribed
<1>9. TurnsCounted'
    <2>1. Asked.iteration = Len(transcript'[Asked.root])
          BY <1>4, <1>5, <1>6
    <2>2. \A m \in Held : m.iteration = Len(transcript'[m.root])
          BY <1>1, <1>2, <1>4 DEF TurnsCounted
    <2> QED BY <1>5, <2>1, <2>2 DEF TurnsCounted
<1>10. GoesOn(n)'
    <2>1. HistoryOf(n)' = <<>> /\ ErrorsOf(n)' = 0
          BY <1>1, <1>2, <1>3 DEF HistoryOf, ErrorsOf, TablesKnown
    <2>2. Window(<<>>, <<>>) /\ Failing(<<>>, 0)
          BY <1>6, BoundsAssumption DEF Window, Failing
    <2>3. ~GoingNowhere(<<>>)
          BY <1>6 DEF GoingNowhere
    <2> QED BY <1>4, <2>1, <2>2, <2>3 DEF GoesOn
<1>11. \A r \in DOMAIN transcript : GoesOn(r) => GoesOn(r)'
    <2>1. \A r : HistoryOf(r)' = HistoryOf(r) /\ ErrorsOf(r)' = ErrorsOf(r)
          BY <1>3 DEF HistoryOf, ErrorsOf
    <2> QED BY <1>4, <2>1, GoesOnAsBefore
<1>12. Remembered'
      BY <1>1, <1>2, <1>3, <1>4, <1>10, <1>11 DEF Remembered, TablesKnown
<1> QED BY <1>7, <1>8, <1>9, <1>12 DEF ConversationInv

\* What a turn finds and what it adds to the transcript.
LEMMA TurnTaken ==
    ASSUME StuckInv, NEW result \in Results, RunTool(result), Mark(reply) \in Held,
           NEW r, r = reply.root, NEW call, call = CallOf(result)
    PROVE  /\ r \in open /\ r \in DOMAIN transcript \ stopped /\ call \in Calls
           /\ DOMAIN transcript' = DOMAIN transcript
           /\ transcript'[r] = Append(transcript[r], call)
           /\ \A q \in DOMAIN transcript \ {r} : transcript'[q] = transcript[q]
           /\ Len(transcript[r]) = reply.iteration /\ reply.iteration < MaxIterations
           /\ transcript'[r] \in Seq(Calls)
           /\ Len(transcript'[r]) = reply.iteration + 1
           /\ GoingNowhere(transcript'[r]) <=> IsRepeated(result) \/ NextErrors(result) >= MaxErrors
           /\ Window(transcript'[r], Remember(HistoryOf(r), call))
           /\ Failing(transcript'[r], NextErrors(result))
<1>1. TypeOK /\ TablesKnown /\ Transcribed /\ TurnsCounted /\ Remembered
      BY DEF StuckInv, LedgerInv, CarrierInv, Typed, ConversationInv
<1>2. Mark(reply).root = r /\ Mark(reply).iteration = reply.iteration
      BY DEF Mark
<1>3. r \in open /\ r \in DOMAIN transcript
      BY <1>2, LedgerFacts DEF StuckInv
<1>4. r \notin stopped
      BY <1>1, <1>3 DEF TablesKnown
<1>5. PopReply /\ CallsTool
      BY DEF RunTool
<1>6. call \in Calls /\ call.result = result
      BY <1>1, <1>5, ReplyType DEF CallOf, Calls
<1>7. reply.iteration < MaxIterations
      BY <1>5 DEF CallsTool
<1>8. transcript' = [transcript EXCEPT ![r] = Append(transcript[r], call)]
      BY DEF RunTool, CallOf
<1>9. /\ DOMAIN transcript' = DOMAIN transcript
      /\ transcript'[r] = Append(transcript[r], call)
      /\ \A q \in DOMAIN transcript \ {r} : transcript'[q] = transcript[q]
      BY <1>3, <1>8
<1>10. Len(transcript[r]) = reply.iteration
      BY <1>1, <1>2 DEF TurnsCounted
<1>11. transcript[r] \in Seq(Calls)
      BY <1>1, <1>3 DEF Transcribed
<1>12. transcript'[r] \in Seq(Calls) /\ Len(transcript'[r]) = reply.iteration + 1
      BY <1>6, <1>9, <1>10, <1>11, AppendProperties
<1>13. Window(transcript[r], HistoryOf(r)) /\ Failing(transcript[r], ErrorsOf(r))
      BY <1>1, <1>3, <1>4 DEF Remembered, GoesOn
<1>14. HistoryOf(r) \in Seq(Calls) /\ ErrorsOf(r) \in 0 .. MaxErrors - 1
      BY <1>1, HistoriesOf DEF Histories
<1>15. IsRepeated(result) <=> Repeats(HistoryOf(r), call) >= RepeatThreshold
      BY DEF IsRepeated
<1>16. NextErrors(result) = Failures(ErrorsOf(r), call)
      BY <1>6 DEF NextErrors, Failures
<1>17. GoingNowhere(transcript'[r]) <=> IsRepeated(result) \/ NextErrors(result) >= MaxErrors
      BY <1>6, <1>9, <1>11, <1>13, <1>14, <1>15, <1>16, StuckByNow
<1>18. Window(transcript'[r], Remember(HistoryOf(r), call))
      BY <1>6, <1>9, <1>11, <1>13, <1>14, WindowMoves
<1>19. Failing(transcript'[r], NextErrors(result))
    <2>1. ErrorsOf(r) \in Nat
          BY <1>14, BoundsAssumption
    <2> QED BY <1>6, <1>9, <1>11, <1>13, <1>16, <2>1, FailingMoves
<1> QED BY <1>3, <1>4, <1>6, <1>7, <1>9, <1>10, <1>12, <1>17, <1>18, <1>19

LEMMA StoppedConversation ==
    ASSUME StuckInv, NEW m, Stops(m)
    PROVE  ConversationInv'
<1> PICK r : r = reply.root
    OBVIOUS
<1>1. PICK result \in Results : stop_repetition(result) \/ stop_errors(result)
      BY DEF Stops
<1> PICK call : call = CallOf(result)
    OBVIOUS
<1>2. Moves({m}, {}) /\ m = Mark(reply) /\ m.root = r
      BY DEF Stops, Answers, Mark
<1>3. PICK rest : Held = rest \cup {m} /\ Held' = rest \cup {} /\ \A h \in rest : h.root # m.root
    <2>1. LedgerInv
          BY DEF StuckInv
    <2>2. Moves({m}, {})
          BY <1>2
    <2> QED BY <2>1, <2>2, MovedMarks
<1>4. Held' \subseteq Held /\ Mark(reply) \in Held /\ \A h \in Held' : h.root # r
      BY <1>2, <1>3
<1>5. RunTool(result) /\ open' = open \ {r} /\ stopped' = stopped \cup {r}
      BY <1>1 DEF stop_repetition, stop_errors, Callback
<1>6. /\ r \in DOMAIN transcript \ stopped /\ call \in Calls
      /\ DOMAIN transcript' = DOMAIN transcript
      /\ \A q \in DOMAIN transcript \ {r} : transcript'[q] = transcript[q]
      /\ reply.iteration < MaxIterations
      /\ transcript'[r] \in Seq(Calls) /\ Len(transcript'[r]) = reply.iteration + 1
      /\ GoingNowhere(transcript'[r]) <=> IsRepeated(result) \/ NextErrors(result) >= MaxErrors
      BY <1>4, <1>5, TurnTaken
<1>7. GoingNowhere(transcript'[r])
      BY <1>1, <1>6 DEF stop_repetition, stop_errors
<1>8. \A q : q # r => HistoryOf(q)' = HistoryOf(q) /\ ErrorsOf(q)' = ErrorsOf(q)
    <2>1. call_history' = Without(call_history, r)
          BY <1>1 DEF stop_repetition, stop_errors
    <2>2. error_counts' = error_counts \/ error_counts' = Without(error_counts, r)
          BY <1>1 DEF stop_repetition, stop_errors
    <2>3. CASE error_counts' = error_counts
        <3>1. \A q : ErrorsOf(q)' = ErrorsOf(q)
              BY <2>3 DEF ErrorsOf
        <3> QED BY <2>1, <3>1, HistoryErased
    <2>4. CASE error_counts' = Without(error_counts, r)
          BY <2>1, <2>4, HistoryErased, ErrorsErased
    <2> QED BY <2>2, <2>3, <2>4
<1>9. TablesKnown /\ Transcribed /\ TurnsCounted /\ Remembered
      BY DEF StuckInv, ConversationInv
<1>10. TablesKnown'
    <2>1. /\ DOMAIN call_history' \subseteq DOMAIN call_history
          /\ DOMAIN error_counts' \subseteq DOMAIN error_counts
        <3>1. DOMAIN call_history' = DOMAIN call_history \ {r}
              BY <1>1, EraseEntry DEF stop_repetition, stop_errors
        <3>2. \/ error_counts' = error_counts
              \/ DOMAIN error_counts' = DOMAIN error_counts \ {r}
              BY <1>1, EraseEntry DEF stop_repetition, stop_errors
        <3> QED BY <3>1, <3>2
    <2> QED BY <1>5, <1>6, <1>9, <2>1 DEF TablesKnown
<1>11. Transcribed'
    <2>1. Len(transcript'[r]) <= MaxIterations
        <3>1. reply.iteration + 1 <= MaxIterations
            <4>1. reply \in Replies
                  BY <1>5, ReplyType DEF RunTool, StuckInv, LedgerInv, CarrierInv, Typed
            <4>2. reply.iteration \in 0 .. MaxIterations
                  BY <4>1 DEF Replies
            <4> QED BY <1>6, <4>2, BoundsAssumption
        <3> QED BY <1>6, <3>1
    <2> QED BY <1>6, <1>9, <2>1 DEF Transcribed
<1>12. TurnsCounted'
    <2>1. \A h \in Held : h.root \in DOMAIN transcript
          BY LedgerFacts DEF StuckInv
    <2> QED BY <1>4, <1>6, <1>9, <2>1 DEF TurnsCounted
<1>13. Remembered'
    <2>1. ASSUME NEW q \in DOMAIN transcript' \ stopped'
          PROVE  GoesOn(q)'
        <3>1. q \in DOMAIN transcript \ stopped /\ q # r
              BY <1>5, <1>6, <2>1
        <3>2. transcript'[q] = transcript[q]
              BY <1>6, <3>1
        <3>3. GoesOn(q)
              BY <1>9, <3>1 DEF Remembered
        <3> QED BY <1>8, <3>1, <3>2, <3>3, GoesOnAsBefore
    <2>2. ASSUME NEW q \in stopped'
          PROVE  GoingNowhere(transcript'[q])
        <3>1. CASE q = r
              BY <1>7, <3>1
        <3>2. CASE q # r
            <4>1. q \in stopped /\ q \in DOMAIN transcript
                  BY <1>5, <1>9, <2>2, <3>2 DEF TablesKnown
            <4> QED BY <1>6, <1>9, <3>2, <4>1 DEF Remembered
        <3> QED BY <3>1, <3>2
    <2> QED BY <2>1, <2>2 DEF Remembered
<1> QED BY <1>10, <1>11, <1>12, <1>13 DEF ConversationInv

LEMMA ContinuedConversation ==
    ASSUME StuckInv, NEW m, Renews(m)
    PROVE  ConversationInv'
<1> PICK r : r = reply.root
    OBVIOUS
<1>1. PICK result \in Results : continue_conversation(result)
      BY DEF Renews
<1> PICK call : call = CallOf(result)
    OBVIOUS
<1>2. Moves({m}, {Continued}) /\ m = Mark(reply) /\ m.root = r
      BY DEF Renews, Mark
<1>3. PICK rest : /\ Held = rest \cup {m} /\ Held' = rest \cup {Continued}
                  /\ \A h \in rest : h.root # m.root
    <2>1. LedgerInv
          BY DEF StuckInv
    <2>2. Moves({m}, {Continued})
          BY <1>2
    <2> QED BY <2>1, <2>2, MovedMarks
<1>4. Mark(reply) \in Held /\ \A h \in rest : h.root # r
      BY <1>2, <1>3
<1>5. /\ RunTool(result) /\ open' = open /\ stopped' = stopped
      /\ ~IsRepeated(result) /\ NextErrors(result) < MaxErrors
      BY <1>1 DEF continue_conversation
<1>6. /\ r \in open /\ r \in DOMAIN transcript \ stopped /\ call \in Calls
      /\ DOMAIN transcript' = DOMAIN transcript
      /\ \A q \in DOMAIN transcript \ {r} : transcript'[q] = transcript[q]
      /\ reply.iteration < MaxIterations
      /\ transcript'[r] \in Seq(Calls) /\ Len(transcript'[r]) = reply.iteration + 1
      /\ GoingNowhere(transcript'[r]) <=> IsRepeated(result) \/ NextErrors(result) >= MaxErrors
      /\ Window(transcript'[r], Remember(HistoryOf(r), call))
      /\ Failing(transcript'[r], NextErrors(result))
      BY <1>4, <1>5, TurnTaken
<1>7. TablesKnown /\ Transcribed /\ TurnsCounted /\ Remembered
      BY DEF StuckInv, ConversationInv
<1>8. /\ call_history' = With(call_history, r, Remember(HistoryOf(r), call))
      /\ error_counts' = With(error_counts, r, NextErrors(result))
      BY <1>1 DEF continue_conversation
<1>9. /\ HistoryOf(r)' = Remember(HistoryOf(r), call)
      /\ ErrorsOf(r)' = NextErrors(result)
      /\ \A q : q # r => HistoryOf(q)' = HistoryOf(q) /\ ErrorsOf(q)' = ErrorsOf(q)
      BY <1>8, HistoryWritten, ErrorsWritten
<1>10. TablesKnown'
    <2>1. /\ DOMAIN call_history' = DOMAIN call_history \cup {r}
          /\ DOMAIN error_counts' = DOMAIN error_counts \cup {r}
          BY <1>8, WriteEntry
    <2> QED BY <1>5, <1>6, <1>7, <2>1 DEF TablesKnown
<1>11. reply.iteration \in 0 .. MaxIterations
    <2>1. reply \in Replies
          BY <1>5, ReplyType DEF RunTool, StuckInv, LedgerInv, CarrierInv, Typed
    <2> QED BY <2>1 DEF Replies
<1>12. Transcribed'
    <2>1. Len(transcript'[r]) <= MaxIterations
          BY <1>6, <1>11, BoundsAssumption
    <2> QED BY <1>6, <1>7, <2>1 DEF Transcribed
<1>13. TurnsCounted'
    <2>1. \A h \in Held : h.root \in DOMAIN transcript
          BY LedgerFacts DEF StuckInv
    <2>2. Continued.root = r /\ Continued.iteration = reply.iteration + 1
          BY DEF Continued
    <2>3. \A h \in rest : h.iteration = Len(transcript'[h.root])
          BY <1>3, <1>4, <1>6, <1>7, <2>1 DEF TurnsCounted
    <2>4. Continued.iteration = Len(transcript'[Continued.root])
          BY <1>6, <2>2
    <2> QED BY <1>3, <2>3, <2>4 DEF TurnsCounted
<1>14. Remembered'
    <2>1. ASSUME NEW q \in DOMAIN transcript' \ stopped'
          PROVE  GoesOn(q)'
        <3>1. CASE q = r
            <4>1. ~GoingNowhere(transcript'[r])
                  BY <1>5, <1>6, HistoriesOf, BoundsAssumption
                     DEF NextErrors, StuckInv, LedgerInv, CarrierInv, Typed
            <4> QED BY <1>6, <1>9, <3>1, <4>1 DEF GoesOn
        <3>2. CASE q # r
            <4>1. q \in DOMAIN transcript \ stopped
                  BY <1>5, <1>6, <2>1
            <4>2. transcript'[q] = transcript[q]
                  BY <1>6, <3>2, <4>1
            <4>3. GoesOn(q)
                  BY <1>7, <4>1 DEF Remembered
            <4> QED BY <1>9, <3>2, <4>2, <4>3, GoesOnAsBefore
        <3> QED BY <3>1, <3>2
    <2>2. ASSUME NEW q \in stopped'
          PROVE  GoingNowhere(transcript'[q])
        <3>1. q \in stopped /\ q \in DOMAIN transcript /\ q # r
              BY <1>5, <1>6, <1>7, <2>2 DEF TablesKnown
        <3> QED BY <1>6, <1>7, <3>1 DEF Remembered
    <2> QED BY <2>1, <2>2 DEF Remembered
<1> QED BY <1>10, <1>12, <1>13, <1>14 DEF ConversationInv

LEMMA StuckStep ==
    ASSUME StuckInv, [Next]_vars
    PROVE  StuckInv'
<1>1. LedgerInv' /\ TypeOK /\ TypeOK'
      BY LedgerStep, TypedStep DEF StuckInv, LedgerInv, CarrierInv, Typed
<1>2. SUFFICES ConversationInv'
      BY <1>1 DEF StuckInv
<1>3. ConversationInv
      BY DEF StuckInv
<1>4. CASE Quiet
    <2>1. Held' = Held
          BY <1>4 DEF Quiet, Moves
    <2> QED BY <1>3, <1>4, <2>1, NoTurn DEF Quiet, history
<1>5. ASSUME NEW r, Cancels(r)
      PROVE  ConversationInv'
    <2>1. Held' = Held
          BY <1>5 DEF Cancels, Moves
    <2> QED BY <1>3, <1>5, <2>1, NoTurn DEF Cancels, cancel_request
<1>6. ASSUME NEW m, Drops(m) \/ Ends(m)
      PROVE  ConversationInv'
    <2>1. Held' \subseteq Held
          BY <1>6 DEF Drops, Ends, Answers, Moves
    <2> QED BY <1>3, <1>6, <2>1, NoTurn DEF Drops, Ends, Answers
<1> QED BY <1>1, <1>4, <1>5, <1>6, NewConversation, StoppedConversation,
           ContinuedConversation, StepKinds

\* A conversation is stopped when it is going nowhere - its last call has been
\* seen with that result too often of late, or it has only failed of late - and
\* only then, though each of its turns has another request id and all
\* conversations share the tables; and none takes more turns than it may.
THEOREM StoppedWhenStuck == Spec => []StopsExactlyWhenStuck
<1>1. Init => StuckInv
    <2> SUFFICES ASSUME Init PROVE StuckInv
        OBVIOUS
    <2>1. DOMAIN call_history = {} /\ DOMAIN error_counts = {} /\ DOMAIN transcript = {}
        <3>1. DOMAIN <<>> = {}
              OBVIOUS
        <3> QED BY <3>1 DEF Init
    <2>2. Held = {} /\ stopped = {}
        <3>1. Carriers = <<>>
              BY DEF Init, Carriers, InHand
        <3> QED BY <3>1, FewMarks DEF Held, Init
    <2>3. ConversationInv
          BY <2>1, <2>2 DEF ConversationInv, TablesKnown, Transcribed, TurnsCounted, Remembered
    <2> QED BY <2>3, LedgerInit DEF StuckInv
<1>2. StuckInv /\ [Next]_vars => StuckInv'
      BY StuckStep
<1>3. StuckInv => StopsExactlyWhenStuck
      BY DEF StuckInv, ConversationInv, TablesKnown, Transcribed, Remembered, GoesOn,
             StopsExactlyWhenStuck
<1> QED BY <1>1, <1>2, <1>3, PTL DEF Spec
=============================================================================
