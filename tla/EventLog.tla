----------------------------- MODULE EventLog -----------------------------
(***************************************************************************)
(* EventLog, the ring that journals one channel's events, and EventReader, *)
(* a cursor into it, as operators.  A log is a record:                     *)
(*   ring      [0 .. capacity - 1 -> event]                                *)
(*   capacity  capacity_                                                   *)
(*   write     the slot the next event goes to                             *)
(*   size      how many events are retained                                *)
(*   next_seq  the sequence number of the next event                       *)
(* A reader is a record [next_seq, dropped].                               *)
(***************************************************************************)
EXTENDS Naturals, Sequences

CONSTANT NoEvent     \* a slot not written yet

EmptyLog(capacity) ==
    [ring |-> [i \in 0 .. capacity - 1 |-> NoEvent], capacity |-> capacity,
     write |-> 0, size |-> 0, next_seq |-> 0]

emit_entry(log, event) ==
    [log EXCEPT !.ring[log.write] = event,
                !.write = (log.write + 1) % log.capacity,
                !.size = IF @ < log.capacity THEN @ + 1 ELSE @,
                !.next_seq = @ + 1]

oldest_seq(log) == log.next_seq - log.size

\* The i-th retained event, the oldest being 0.
at(log, i) ==
    LET oldest == (log.write + log.capacity - log.size) % log.capacity
    IN  log.ring[(oldest + i) % log.capacity]

at_seq(log, seq) == at(log, seq - oldest_seq(log))

\* Mutant: the oldest events are kept, not the newest.
set_capacity_keeps_oldest(log, n) ==
    LET keep == IF log.size < n THEN log.size ELSE n
    IN  [ring |-> [i \in 0 .. n - 1 |-> IF i < keep THEN at(log, i) ELSE NoEvent],
         capacity |-> n, write |-> keep % n, size |-> keep, next_seq |-> log.next_seq]

\* A new ring with the newest events that fit, from slot 0.
set_capacity(log, n) ==
    LET keep == IF log.size < n THEN log.size ELSE n
    IN  [ring |-> [i \in 0 .. n - 1 |->
                      IF i < keep THEN at(log, log.size - keep + i) ELSE NoEvent],
         capacity |-> n, write |-> keep % n, size |-> keep, next_seq |-> log.next_seq]

create_reader(log) == [next_seq |-> log.next_seq, dropped |-> 0]

\* What the ring has overwritten unread is counted and skipped.
sync(reader, log) ==
    IF reader.next_seq < oldest_seq(log)
    THEN [next_seq |-> oldest_seq(log),
          dropped |-> reader.dropped + oldest_seq(log) - reader.next_seq]
    ELSE reader

\* What a synchronised reader has not read, oldest first.
unread(reader, log) ==
    [i \in 1 .. log.next_seq - reader.next_seq |-> at_seq(log, reader.next_seq + i - 1)]
=============================================================================
