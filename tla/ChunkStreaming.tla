-------------------------- MODULE ChunkStreaming --------------------------
(***************************************************************************)
(* ChunkSystem over the particle store: chunks are loaded (through the     *)
(* loader thread or at once), unloaded and reloaded while their deleted    *)
(* bodies still wait for the GPU.  Unloading invalidates the forward half  *)
(* of the KG render map and leaves the reverse half; the queued removal    *)
(* and the swaps before it find the id through that half.                  *)
(*                                                                         *)
(* A chunk has one content entity with one body, so chunks are Entities    *)
(* and KGOf names the stable KG particle its generator made for it.  The   *)
(* loader is seen from the main thread: AsyncChunkLoader has its threads.  *)
(***************************************************************************)
EXTENDS ParticleStore

CONSTANT KGOf  \* the stable KG particle id of each chunk's entity

\* Each generator makes its KG particle itself, so no two chunks share one.
ASSUME KGOfAssumption ==
    /\ KGOf \in [Entities -> KGIds]
    /\ \A c, d \in Entities : KGOf[c] = KGOf[d] => c = d

VARIABLES
    active_chunks,  \* active_chunks_: the loaded chunks
    jobs            \* per chunk: "idle", "requested", or the prepared result:
                    \* "body" (a body to add) or "empty" (already active)

streaming_vars == <<active_chunks, jobs>>
all_vars == <<vars, streaming_vars>>

\* Generators make their KG particles, unbound, before any chunk is loaded; the
\* reverse entry of the invalid index is the last one's.
StreamingInit ==
    /\ NothingBorn
    /\ \E last \in KGIds :
          kg = [kg_to_render |-> [k \in KGIds |-> INVALID_RENDER_INDEX],
                render_to_kg |-> Put(EmptyMap, INVALID_RENDER_INDEX, last)]
    /\ active_chunks = {}
    /\ jobs = [c \in Entities |-> "idle"]

-----------------------------------------------------------------------------
\* Loading

\* What the create callback prepares: nothing if the entity has an active
\* particle as the KG tells it, otherwise its body.
prepared(c) ==
    IF getRenderIndex(kg, KGOf[c]) # INVALID_RENDER_INDEX THEN "empty" ELSE "body"

\* Adding a prepared body on the main thread: add_particle, then
\* updateRenderIndex with what it returned.
add_prepared(c) ==
    \/ \E p \in Particles :
          /\ EntityOf[p] = c
          /\ Unborn(p)
          /\ Len(particles) < MaxParticles
          /\ Born(p)
          /\ kg' = updateRenderIndex(kg, KGOf[c], Len(particles) + 1)
    \/ /\ Refused
       /\ kg' = updateRenderIndex(kg, KGOf[c], INVALID_RENDER_INDEX)

materialise(c, result) ==
    /\ IF result = "body" THEN add_prepared(c)
                          ELSE UNCHANGED <<particles, entity_particle_indices, kg>>
    /\ active_chunks' = active_chunks \cup {c}
    /\ UNCHANGED <<pending_particles, pending_deletions, physics, cached,
                   has_rendered, loop>>

\* ChunkSystem::update asks for a chunk in range that neither exists nor is
\* pending.
request_load(c) ==
    /\ loop = "run"
    /\ c \notin active_chunks
    /\ jobs[c] = "idle"
    /\ jobs' = [jobs EXCEPT ![c] = "requested"]
    /\ UNCHANGED <<vars, active_chunks>>

\* The loader thread runs the create callback, at any point of the frame.
generate(c) ==
    /\ jobs[c] = "requested"
    /\ jobs' = [jobs EXCEPT ![c] = prepared(c)]
    /\ UNCHANGED <<vars, active_chunks>>

\* apply_ready_chunks: whatever the chunk has become meanwhile.
apply_ready_chunk(c) ==
    /\ loop = "run"
    /\ jobs[c] \in {"body", "empty"}
    /\ materialise(c, jobs[c])
    /\ jobs' = [jobs EXCEPT ![c] = "idle"]

\* create_chunk, from preload_chunks_around or an activation on demand: the
\* loader is not asked.
create_chunk(c) ==
    /\ loop = "run"
    /\ c \notin active_chunks
    /\ materialise(c, prepared(c))
    /\ UNCHANGED jobs

-----------------------------------------------------------------------------
\* Unloading

\* unloadEntity for each chunk of gone, its slots into the deletion queue one
\* after the other, in the order active_chunks_ is walked, if within the count.
unload(gone) ==
    LET slots == unloadedSlots(kg, {KGOf[c] : c \in gone}) \cap DOMAIN particles
        n == Cardinality(slots)
    IN  /\ \E order \in [1 .. n -> slots], first \in 1 .. MaxDeletions + 1 :
              /\ slots = {order[i] : i \in 1 .. n}
              /\ IsNextTicket(first)
              /\ first + n - 1 <= MaxDeletions
              /\ pending_deletions' = pending_deletions \cup
                    {[ticket |-> first + i - 1, particle_index |-> order[i],
                      frames_left |-> FRAMES_IN_FLIGHT] : i \in 1 .. n}
        /\ kg' = unloadEntity(kg, {KGOf[c] : c \in gone})
        /\ active_chunks' = active_chunks \ gone
        /\ UNCHANGED <<particles, pending_particles, entity_particle_indices,
                       physics, cached, has_rendered, loop, jobs>>

\* The unload half of ChunkSystem::update for one far chunk.
unload_chunk(c) ==
    /\ loop = "run"
    /\ c \in active_chunks
    /\ unload({c})

\* All chunks at once.  What the loader has been asked for, or has ready, stays.
clear_all_chunks ==
    /\ loop = "run"
    /\ active_chunks # {}
    /\ unload(active_chunks)

-----------------------------------------------------------------------------
\* The frames of the store go on underneath.
FrameStep ==
    /\ engine_update \/ engine_render \/ flush_one_deletion \/ deletions_flushed
    /\ UNCHANGED streaming_vars

StreamingNext ==
    \/ \E c \in Entities :
          request_load(c) \/ generate(c) \/ apply_ready_chunk(c)
          \/ create_chunk(c) \/ unload_chunk(c)
    \/ clear_all_chunks
    \/ FrameStep

StreamingSpec == StreamingInit /\ [][StreamingNext]_all_vars

-----------------------------------------------------------------------------
\* Properties

\* A KG id never resolves to a body of another entity, and what it resolves to
\* resolves back to it, through every order of loads, unloads, double loads and
\* swaps: physics state read through the KG is the entity's own.
BindingNeverCrosses ==
    /\ \A c \in Entities :
          LET slot == getRenderIndex(kg, KGOf[c])
          IN  slot # INVALID_RENDER_INDEX =>
                 /\ slot \in DOMAIN particles
                 /\ EntityOf[particles[slot]] = c
                 /\ slot \in DOMAIN kg.render_to_kg
                 /\ kg.render_to_kg[slot] = KGOf[c]
    /\ \A slot \in DOMAIN kg.render_to_kg \ {INVALID_RENDER_INDEX} :
          /\ slot \in DOMAIN particles
          /\ KGOf[EntityOf[particles[slot]]] = kg.render_to_kg[slot]

\* "Invalidate render indices immediately. This prevents reload from thinking
\* particles are still active" (kg_core.cpp): between flushes, the create callback
\* of a chunk that is not loaded finds no active particle.
UnloadedIsInactive ==
    loop = "run" => \A c \in Entities \ active_chunks : prepared(c) = "body"
=============================================================================
