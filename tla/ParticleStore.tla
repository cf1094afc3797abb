-------------------------- MODULE ParticleStore --------------------------
(***************************************************************************)
(* ParticleSystem: the particle vector of the engine and everything that   *)
(* names a particle by its raw index in that vector.                       *)
(*                                                                         *)
(* A particle is removed by moving the last one into its place, so each    *)
(* removal renames the tail.  Seven tables hold indices at that moment:    *)
(* the deferred-deletion queue, the entity lists, the gluons, the gluon    *)
(* pair index, the collision events, the KG render map (both directions)   *)
(* and the ids other systems cache.  The removal repairs all of them.      *)
(*                                                                         *)
(* One thread runs everything here: loop says where it is.  While it       *)
(* flushes a queue no other call can come in between.  Slots count from 1  *)
(* (index + 1); 0 is the code's invalid index.                             *)
(***************************************************************************)
EXTENDS Integers, Sequences, FiniteSets, KGRenderMap

CONSTANTS
    Particles,         \* particle identities (particle_id)
    Entities,          \* KG entities that own particles
    EntityOf,          \* the owner of each particle (Particle::entity_id)
    KGIds,             \* stable KG particle ids
    GluonIds,          \* gluon ids
    FRAMES_IN_FLIGHT,  \* frames the GPU may still read a particle for
    MaxParticles,      \* bound: length of the particle vector
    MaxPending,        \* bound: length of the addition queue
    MaxDeletions,      \* bound: pushes onto a deletion queue never empty since
    MaxEvents          \* bound: collision events of one physics update

ASSUME EntityAssumption == EntityOf \in [Particles -> Entities]
ASSUME FramesAssumption == FRAMES_IN_FLIGHT \in Nat \ {0}
ASSUME BoundsAssumption ==
    /\ MaxParticles \in Nat
    /\ MaxPending \in Nat
    /\ MaxDeletions \in Nat
    /\ MaxEvents \in Nat

VARIABLES
    particles,                \* particles: the vector
    pending_particles,        \* pending_particles: births waiting for the flush
    pending_deletions,        \* pending_deletions_: deaths waiting for their frame
    entity_particle_indices,  \* entity_particle_indices_: the slots of each entity
    physics,                  \* PhysicsSystem's tables, see PhysicsTables
    kg,                       \* KGCore's render map, see KGRenderMap
    cached,                   \* a particle id cached by the dynamics, 0 for none
    has_rendered,             \* has_rendered_: Engine::render has run
    loop                      \* where the main thread is

vars == <<particles, pending_particles, pending_deletions, entity_particle_indices,
          physics, kg, cached, has_rendered, loop>>

P == INSTANCE PhysicsTables

Slots == 1 .. MaxParticles
Live == {particles[i] : i \in DOMAIN particles}
Waiting == {pending_particles[i] : i \in DOMAIN pending_particles}

\* The deque of deferred deletions is the set of its entries, in the order of
\* their tickets.  frames_left is safe_deletion_frame minus the current frame,
\* the only way the code ever looks at either; it stays at 0 once reached.
IsNextTicket(t) ==
    /\ \A d \in pending_deletions : d.ticket < t
    /\ t = 1 \/ \E d \in pending_deletions : d.ticket = t - 1

\* Mutant: the flush pops the newest entry.
IsBack(d, queue) == d \in queue /\ \A e \in queue : e.ticket <= d.ticket

IsFront(d, queue) == d \in queue /\ \A e \in queue : d.ticket <= e.ticket

has_ready_deletions(queue) == \E d \in queue : IsFront(d, queue) /\ d.frames_left = 0

NothingBorn ==
    /\ particles = <<>>
    /\ pending_particles = <<>>
    /\ pending_deletions = {}
    /\ entity_particle_indices = [e \in Entities |-> {}]
    /\ physics = P!EmptyPhysics
    /\ cached = 0
    /\ has_rendered = FALSE
    /\ loop = "run"

Init == NothingBorn /\ kg = EmptyKG

-----------------------------------------------------------------------------
\* Births

\* A new body is one nobody mentions.
Unborn(p) == p \notin Live /\ p \notin Waiting

\* add_particle, past the creation door.
Born(p) ==
    LET slot == Len(particles) + 1
    IN  /\ particles' = Append(particles, p)
        /\ entity_particle_indices' =
               [entity_particle_indices EXCEPT ![EntityOf[p]] = @ \cup {slot}]

\* add_particle, refused at the door: the world stays as it was.
Refused == UNCHANGED <<particles, entity_particle_indices>>

add_particle(p) ==
    /\ loop = "run"
    /\ Unborn(p)
    /\ Len(particles) < MaxParticles
    /\ Born(p)
    /\ UNCHANGED <<pending_particles, pending_deletions, physics, kg, cached,
                   has_rendered, loop>>

\* A chunk load: add_particle, then createKGParticle with the index it
\* returned, which is the invalid one when the door refused the body.
load_particle(p, k) ==
    /\ loop = "run"
    /\ Unborn(p)
    /\ Len(particles) < MaxParticles
    /\ k \notin DOMAIN kg.kg_to_render
    /\ \A slot \in DOMAIN kg.render_to_kg : kg.render_to_kg[slot] # k
    /\ \/ Born(p) /\ kg' = createKGParticle(kg, k, Len(particles) + 1)
       \/ Refused /\ kg' = createKGParticle(kg, k, INVALID_RENDER_INDEX)
    /\ UNCHANGED <<pending_particles, pending_deletions, physics, cached,
                   has_rendered, loop>>

queue_particle_addition(p) ==
    /\ loop = "run"
    /\ Unborn(p)
    /\ Len(pending_particles) < MaxPending
    /\ Len(particles) + Len(pending_particles) < MaxParticles
    /\ pending_particles' = Append(pending_particles, p)
    /\ UNCHANGED <<particles, pending_deletions, entity_particle_indices, physics, kg,
                   cached, has_rendered, loop>>

flush_pending_particles ==
    /\ loop = "run"
    /\ pending_particles # <<>>
    /\ loop' = "additions"
    /\ UNCHANGED <<particles, pending_particles, pending_deletions,
                   entity_particle_indices, physics, kg, cached, has_rendered>>

\* One turn of the flush loop: the body meets the door a second time.
flush_one_addition ==
    /\ loop = "additions"
    /\ pending_particles # <<>>
    /\ \/ Len(particles) < MaxParticles /\ Born(Head(pending_particles))
       \/ Refused
    /\ pending_particles' = Tail(pending_particles)
    /\ UNCHANGED <<pending_deletions, physics, kg, cached, has_rendered, loop>>

\* Where render goes once the deletions are done.
AfterDeletions == IF pending_particles = <<>> THEN "run" ELSE "additions"

additions_flushed ==
    /\ loop = "additions"
    /\ pending_particles = <<>>
    /\ loop' = "run"
    /\ UNCHANGED <<particles, pending_particles, pending_deletions,
                   entity_particle_indices, physics, kg, cached, has_rendered>>

-----------------------------------------------------------------------------
\* Deaths

\* Mutant: the entries that track the moved tail are not retargeted.
coherent_queue_not_retargeted(queue, slot, tail) ==
    {d \in queue : d.particle_index # slot}

\* Mutant: the entries of the tail are dropped instead of the dead slot's.
coherent_queue_drops_tail(queue, slot, tail) ==
    {d \in queue : d.particle_index # tail}

\* What the queue becomes when slot dies and the tail moves into it.
coherent_queue(queue, slot, tail) ==
    {[d EXCEPT !.particle_index = IF @ = tail THEN slot ELSE @] :
        d \in {e \in queue : e.particle_index # slot}}

\* Mutant: the moved tail keeps its old slot in its owner's list.
coherent_entities_not_renamed(slot, tail) ==
    [entity_particle_indices EXCEPT ![EntityOf[particles[slot]]] = @ \ {slot}]

\* The entity lists without the dying slot, then with the tail renamed.
coherent_entities(slot, tail) ==
    LET dead == EntityOf[particles[slot]]
        moved == EntityOf[particles[tail]]
        without == [entity_particle_indices EXCEPT ![dead] = @ \ {slot}]
    IN  IF slot = tail THEN without
        ELSE [without EXCEPT ![moved] =
                 IF tail \in @ THEN (@ \ {tail}) \cup {slot} ELSE @]

coherent_physics(slot, tail) ==
    LET cut == P!remove_gluons_for_particle(physics, slot)
    IN  IF slot = tail THEN cut ELSE P!notify_particle_swap(cut, tail, slot)

coherent_kg(slot, tail) ==
    LET cut == eraseRenderIndexMappings(kg, slot)
    IN  IF slot = tail THEN cut ELSE notifyParticleSwap(cut, tail, slot)

\* Mutant: the dynamics are not told of the swap.
coherent_cached_not_told(slot, tail) == cached

coherent_cached(slot, tail) == IF slot # tail /\ cached = tail THEN slot ELSE cached

\* The particle vector after swap-and-pop.
swap_and_pop(slot) ==
    [i \in 1 .. Len(particles) - 1 |->
        IF i = slot THEN particles[Len(particles)] ELSE particles[i]]

\* remove_particle_unlocked; queue is what the caller left of
\* pending_deletions.  An index past the end changes nothing else.
remove_particle_unlocked(slot, queue) ==
    LET tail == Len(particles)
    IN  IF slot \in DOMAIN particles
        THEN /\ particles' = swap_and_pop(slot)
             /\ pending_deletions' = coherent_queue(queue, slot, tail)
             /\ entity_particle_indices' = coherent_entities(slot, tail)
             /\ physics' = coherent_physics(slot, tail)
             /\ kg' = coherent_kg(slot, tail)
             /\ cached' = coherent_cached(slot, tail)
        ELSE /\ pending_deletions' = queue
             /\ UNCHANGED <<particles, entity_particle_indices, physics, kg, cached>>

remove_particle(slot) ==
    /\ loop = "run"
    /\ remove_particle_unlocked(slot, pending_deletions)
    /\ UNCHANGED <<pending_particles, has_rendered, loop>>

\* What queue_particle_deletion does to the queue, called with a frame number
\* that is lag frames behind the renderer's.
Doom(slot, lag) ==
    /\ slot \in DOMAIN particles
    /\ \E t \in 1 .. MaxDeletions :
          /\ IsNextTicket(t)
          /\ pending_deletions' = pending_deletions \cup
                {[ticket |-> t, particle_index |-> slot,
                  frames_left |-> FRAMES_IN_FLIGHT - lag]}

\* Callers look the index up in the same frame and check it against the count.
queue_particle_deletion(slot) ==
    /\ loop = "run"
    /\ Doom(slot, 0)
    /\ UNCHANGED <<particles, pending_particles, entity_particle_indices, physics, kg,
                   cached, has_rendered, loop>>

\* A humanoid with one foot planted gives up the foot's anchor: its bonds go at
\* once, the body is queued.  The locomotion counts frames by itself, after the
\* physics; between the start of an update and then it is one frame behind.
unregister_humanoid(anchor) ==
    /\ loop = "run"
    /\ \E lag \in {0, 1} : Doom(anchor, lag)
    /\ physics' = P!remove_gluons_for_particle(physics, anchor)
    /\ UNCHANGED <<particles, pending_particles, entity_particle_indices, kg, cached,
                   has_rendered, loop>>

\* One turn of flush_safe_deletions: pop the front, remove it.
flush_one_deletion ==
    /\ loop \in {"update_deletions", "render_deletions"}
    /\ \E front \in pending_deletions :
          /\ IsFront(front, pending_deletions)
          /\ front.frames_left = 0
          /\ remove_particle_unlocked(front.particle_index, pending_deletions \ {front})
    /\ UNCHANGED <<pending_particles, has_rendered, loop>>

\* The front is not ready: render goes on to the additions, update to its work.
deletions_flushed ==
    /\ loop \in {"update_deletions", "render_deletions"}
    /\ ~has_ready_deletions(pending_deletions)
    /\ loop' = IF loop = "render_deletions" THEN AfterDeletions ELSE "run"
    /\ UNCHANGED <<particles, pending_particles, pending_deletions,
                   entity_particle_indices, physics, kg, cached, has_rendered>>

-----------------------------------------------------------------------------
\* The frame

\* Mutant: a headless update leaves its deletions to a render that never comes.
AfterUpdate_no_headless_flush(queue) == "run"

\* Where update goes: only a session that has never rendered flushes here.
AfterUpdate(queue) ==
    IF ~has_rendered /\ has_ready_deletions(queue) THEN "update_deletions" ELSE "run"

\* Engine::update starts a frame, which brings every queued deletion one nearer.
engine_update ==
    /\ loop = "run"
    /\ pending_deletions' =
           {[d EXCEPT !.frames_left = IF @ > 0 THEN @ - 1 ELSE 0] : d \in pending_deletions}
    /\ loop' = AfterUpdate(pending_deletions')
    /\ UNCHANGED <<particles, pending_particles, entity_particle_indices, physics, kg,
                   cached, has_rendered>>

\* Engine::render flushes the ready deletions, then the additions.
engine_render ==
    /\ loop = "run"
    /\ has_rendered' = TRUE
    /\ loop' = IF has_ready_deletions(pending_deletions)
               THEN "render_deletions" ELSE AfterDeletions
    /\ UNCHANGED <<particles, pending_particles, pending_deletions,
                   entity_particle_indices, physics, kg, cached>>

\* A caller bonds two live particles that have no bond yet.
add_gluon_between(id, a, b) ==
    /\ loop = "run"
    /\ a # b
    /\ {a, b} \subseteq DOMAIN particles
    /\ {a, b} \notin DOMAIN physics.gluon_pair_index
    /\ \A g \in physics.gluon_constraints : g.id # id
    /\ physics' = P!add_gluon_between(physics, id, a, b)
    /\ UNCHANGED <<particles, pending_particles, pending_deletions,
                   entity_particle_indices, kg, cached, has_rendered, loop>>

Contacts == {{i, j} : i \in DOMAIN particles, j \in DOMAIN particles}
\* The collision events one update may record: pairs of distinct bodies.
EventSets == {es \in SUBSET {c \in Contacts : Cardinality(c) = 2} :
                 Cardinality(es) <= MaxEvents}

\* The bookkeeping of one PhysicsSystem update: prune, forget the last
\* frame's events, record this frame's, drop the bonds that broke.
physics_update ==
    /\ loop = "run"
    /\ LET pruned == P!prune_invalid_gluons(physics, Len(particles))
       IN  \E events \in EventSets, torn \in SUBSET pruned.gluon_constraints :
              physics' = P!with_events(P!drop_gluons(pruned, torn), events)
    /\ UNCHANGED <<particles, pending_particles, pending_deletions,
                   entity_particle_indices, kg, cached, has_rendered, loop>>

\* The dynamics remember a particle by its index (a stance foot, an anchor).
cache_particle_id(slot) ==
    /\ loop = "run"
    /\ slot \in DOMAIN particles
    /\ cached' = slot
    /\ UNCHANGED <<particles, pending_particles, pending_deletions,
                   entity_particle_indices, physics, kg, has_rendered, loop>>

destroy_kg_particle(k) ==
    /\ loop = "run"
    /\ k \in DOMAIN kg.kg_to_render
    /\ kg' = destroyKGParticle(kg, k)
    /\ UNCHANGED <<particles, pending_particles, pending_deletions,
                   entity_particle_indices, physics, cached, has_rendered, loop>>

-----------------------------------------------------------------------------
Next ==
    \/ \E p \in Particles : add_particle(p)
    \/ \E p \in Particles, k \in KGIds : load_particle(p, k)
    \/ \E p \in Particles : queue_particle_addition(p)
    \/ flush_pending_particles
    \/ flush_one_addition
    \/ additions_flushed
    \/ \E slot \in Slots : remove_particle(slot)
    \/ \E slot \in Slots : queue_particle_deletion(slot)
    \/ \E anchor \in Slots : unregister_humanoid(anchor)
    \/ flush_one_deletion
    \/ deletions_flushed
    \/ engine_update
    \/ engine_render
    \/ \E id \in GluonIds, a, b \in Slots : add_gluon_between(id, a, b)
    \/ physics_update
    \/ \E slot \in Slots : cache_particle_id(slot)
    \/ \E k \in KGIds : destroy_kg_particle(k)

Spec == Init /\ [][Next]_vars

\* The main loop keeps calling Engine::update, and Engine::render too unless the
\* session is headless; a flush that has begun runs to its end.
Fairness ==
    /\ WF_vars(flush_one_deletion \/ deletions_flushed)
    /\ WF_vars(flush_one_addition \/ additions_flushed)
    /\ SF_vars(engine_update)
    /\ (<>[]~has_rendered) \/ SF_vars(engine_render)

-----------------------------------------------------------------------------
\* Properties

\* The shapes of the two tables that other systems keep.
IsPhysics(ph) ==
    /\ ph = [gluon_constraints |-> ph.gluon_constraints,
             gluon_pair_index  |-> ph.gluon_pair_index,
             collision_events  |-> ph.collision_events]
    /\ ph.gluon_constraints \subseteq
           [id : GluonIds, particle_a : Nat, particle_b : Nat]
    /\ ph.gluon_pair_index \in [DOMAIN ph.gluon_pair_index -> GluonIds]
    /\ \A e \in ph.collision_events : e \subseteq Nat

IsMap(map, Keys, Values) ==
    DOMAIN map \subseteq Keys /\ map \in [DOMAIN map -> Values]

IsKG(map) ==
    /\ map = [kg_to_render |-> map.kg_to_render, render_to_kg |-> map.render_to_kg]
    /\ IsMap(map.kg_to_render, KGIds, Nat)
    /\ IsMap(map.render_to_kg, Nat, KGIds)

\* The state's shape: a slot is a natural number wherever one is kept, an owner
\* an entity, and the main thread is in one of its four places.
TypeOK ==
    /\ particles \in Seq(Particles)
    /\ pending_particles \in Seq(Particles)
    /\ pending_deletions \subseteq
           [ticket : Nat, particle_index : Nat, frames_left : Nat]
    /\ entity_particle_indices \in [Entities -> SUBSET Nat]
    /\ IsPhysics(physics)
    /\ IsKG(kg)
    /\ cached \in Nat
    /\ has_rendered \in BOOLEAN
    /\ loop \in {"run", "update_deletions", "render_deletions", "additions"}

\* No index held anywhere points past the end of the vector: the deletion
\* queue, the bonds and the collision events name live slots after every
\* removal (a stale event was a read past the end, see the comments of
\* remove_gluons_for_particle and pending_deletions_).
IndicesLive ==
    /\ \A d \in pending_deletions : d.particle_index \in DOMAIN particles
    /\ \A g \in physics.gluon_constraints : P!Ends(g) \subseteq DOMAIN particles
    /\ \A e \in physics.collision_events : e \subseteq DOMAIN particles

\* The per-entity lists are exactly the slots whose particle the entity owns,
\* whatever sequence of births and swap-and-pops led here.
EntityListsExact ==
    \A e \in Entities :
        entity_particle_indices[e] =
            {i \in DOMAIN particles : EntityOf[particles[i]] = e}

\* The pair index and the gluon list say the same: one live bond per pair, and
\* looking a pair up yields that bond.  Were it ever false, index_gluon would
\* abort the engine or get_gluon serve a dead bond.
PairIndexExact ==
    /\ DOMAIN physics.gluon_pair_index = {P!Ends(g) : g \in physics.gluon_constraints}
    /\ \A g \in physics.gluon_constraints : physics.gluon_pair_index[P!Ends(g)] = g.id
    /\ \A g, h \in physics.gluon_constraints : g.id = h.id => g = h

\* The two directions of the KG map agree on every live slot, and no id is
\* bound to a slot past the end.
RenderMapsInverse ==
    /\ \A k \in DOMAIN kg.kg_to_render :
          kg.kg_to_render[k] # INVALID_RENDER_INDEX =>
              /\ kg.kg_to_render[k] \in DOMAIN particles
              /\ kg.kg_to_render[k] \in DOMAIN kg.render_to_kg
              /\ kg.render_to_kg[kg.kg_to_render[k]] = k
    /\ \A slot \in DOMAIN kg.render_to_kg \ {INVALID_RENDER_INDEX} :
          /\ kg.render_to_kg[slot] \in DOMAIN kg.kg_to_render
          /\ kg.kg_to_render[kg.render_to_kg[slot]] = slot

\* An id the dynamics cached keeps naming the same particle for as long as that
\* particle lives, unless the dynamics cache another.
CachedIdFollows ==
    [][\A p \in Particles :
          (/\ cached \in DOMAIN particles
           /\ particles[cached] = p
           /\ \E i \in DOMAIN particles' : particles'[i] = p
           /\ \A slot \in Slots : ~cache_particle_id(slot))
          => (cached' \in DOMAIN particles' /\ particles'[cached'] = p)]_vars

\* "Queues a particle and returns the index it will take once flushed"
\* (particle_system.h): while render flushes the frame's deletions and then its births,
\* the index predicted for a queued body stays the one promised when they began.
PredictionStands ==
    [][(loop \in {"render_deletions", "additions"}) =>
        \A i \in DOMAIN pending_particles :
            LET promised == Len(particles) + i
                p == pending_particles[i]
            IN  /\ \A j \in DOMAIN pending_particles' :
                       pending_particles'[j] = p => Len(particles') + j = promised
                /\ \A slot \in DOMAIN particles' : particles'[slot] = p => slot = promised]_vars

\* A particle some queued deletion aims at.
Doomed(p) == \E d \in pending_deletions : particles[d.particle_index] = p

\* Every queued deletion is carried out: headless sessions drain the queue from
\* update, rendering ones from render, and no removal in between loses an entry
\* ("drain ready deletions here or they leak forever", engine.cpp).
DeletionsHappen == \A p \in Particles : Doomed(p) ~> ~Doomed(p)

\* The same store seen through particle identities.
Deaths == {[ticket |-> d.ticket, particle |-> particles[d.particle_index],
            frames_left |-> d.frames_left] : d \in pending_deletions}
Bonds == {[id |-> g.id, ends |-> {particles[g.particle_a], particles[g.particle_b]}] :
             g \in physics.gluon_constraints}
Collisions == {{particles[i] : i \in e} : e \in physics.collision_events}
Bound == {k \in DOMAIN kg.kg_to_render : kg.kg_to_render[k] # INVALID_RENDER_INDEX}
Binding == [k \in Bound |-> particles[kg.kg_to_render[k]]]
Flushing == loop \in {"update_deletions", "render_deletions"}

World == INSTANCE ParticleWorld WITH
    live <- Live, pending <- pending_particles, doomed <- Deaths, bonds <- Bonds,
    contacts <- Collisions, bound <- Binding, flushing <- Flushing

\* ParticleStore implements ParticleWorld: every table that holds raw indices
\* goes on meaning the particles it meant, through any interleaving of births,
\* removals and flushes; a queued deletion strikes its own particle, in queue
\* order, never before its frames have passed.
ImplementsWorld == World!Spec
=============================================================================
