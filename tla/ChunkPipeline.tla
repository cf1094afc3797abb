-------------------------- MODULE ChunkPipeline --------------------------
(***************************************************************************)
(* What AsyncChunkLoader promises the main thread: one pipeline of chunks, *)
(* each in it at most once, that come out in the order they went in.  The  *)
(* first `ready` of them are generated.                                    *)
(***************************************************************************)
EXTENDS Naturals, Sequences

CONSTANT Coords

VARIABLES pipeline, ready

vars == <<pipeline, ready>>

Init == pipeline = <<>> /\ ready = 0

InPipeline(c) == \E i \in DOMAIN pipeline : pipeline[i] = c

Accept(c) ==
    /\ ~InPipeline(c)
    /\ pipeline' = Append(pipeline, c)
    /\ UNCHANGED ready

Finish ==
    /\ ready < Len(pipeline)
    /\ ready' = ready + 1
    /\ UNCHANGED pipeline

Deliver ==
    /\ ready > 0
    /\ pipeline' = Tail(pipeline)
    /\ ready' = ready - 1

Next == (\E c \in Coords : Accept(c)) \/ Finish \/ Deliver

Spec == Init /\ [][Next]_vars
=============================================================================
