----------------------- MODULE ParticleStoreProofs -----------------------
(* Proofs about ParticleStore, for every value of its constants: no index   *)
(* goes stale, and the tables agree with the particle vector and with each *)
(* other.                                                                  *)
EXTENDS ParticleStore, SequenceTheorems, TLAPS

-----------------------------------------------------------------------------
\* Maps

\* A map stays a map when an entry is dropped.
LEMMA WithoutIsMap ==
    ASSUME NEW K, NEW V, NEW map, IsMap(map, K, V), NEW key
    PROVE  IsMap(Without(map, key), K, V)
BY DEF IsMap, Without, Restrict

LEMMA WithoutLookup ==
    ASSUME NEW map, NEW key
    PROVE  /\ DOMAIN Without(map, key) = DOMAIN map \ {key}
           /\ \A x \in DOMAIN map \ {key} : Without(map, key)[x] = map[x]
BY DEF Without, Restrict

\* A map stays a map when an entry is written.
LEMMA PutIsMap ==
    ASSUME NEW K, NEW V, NEW map, IsMap(map, K, V), NEW key \in K, NEW value \in V
    PROVE  IsMap(Put(map, key, value), K, V)
BY DEF IsMap, Put

-----------------------------------------------------------------------------
\* The tables of the physics system

\* The bonds and events of ph name slots 1 .. n only.
Names(ph, n) ==
    /\ \A g \in ph.gluon_constraints : P!Ends(g) \subseteq 1 .. n
    /\ \A e \in ph.collision_events : e \subseteq 1 .. n

Gluons == [id : GluonIds, particle_a : Nat, particle_b : Nat]

LEMMA UnindexType ==
    ASSUME NEW index, index \in [DOMAIN index -> GluonIds], NEW gs
    PROVE  P!unindex(index, gs) \in [DOMAIN P!unindex(index, gs) -> GluonIds]
BY DEF P!unindex, P!Restrict

LEMMA IndexGluonsType ==
    ASSUME NEW index, index \in [DOMAIN index -> GluonIds], NEW gs \in SUBSET Gluons
    PROVE  P!index_gluons(index, gs) \in [DOMAIN P!index_gluons(index, gs) -> GluonIds]
<1>1. SUFFICES ASSUME NEW pair \in DOMAIN index \cup {P!Ends(g) : g \in gs}
               PROVE  P!index_gluons(index, gs)[pair] \in GluonIds
      BY DEF P!index_gluons
<1>2. CASE \E g \in gs : P!Ends(g) = pair
    <2>1. (CHOOSE g \in gs : P!Ends(g) = pair) \in gs
          BY <1>2
    <2>2. (CHOOSE g \in gs : P!Ends(g) = pair).id \in GluonIds
          BY <2>1 DEF Gluons
    <2> QED BY <1>2, <2>2 DEF P!index_gluons
<1>3. CASE ~ \E g \in gs : P!Ends(g) = pair
      BY <1>3 DEF P!index_gluons
<1> QED BY <1>2, <1>3

\* Dropping bonds keeps the tables well formed and names no new slot.
LEMMA DropGluonsSafe ==
    ASSUME NEW ph, IsPhysics(ph), NEW gs, NEW n, Names(ph, n)
    PROVE  IsPhysics(P!drop_gluons(ph, gs)) /\ Names(P!drop_gluons(ph, gs), n)
BY UnindexType DEF IsPhysics, Names, P!drop_gluons

LEMMA RemoveGluonsSafe ==
    ASSUME NEW ph, IsPhysics(ph), NEW slot, NEW n, Names(ph, n)
    PROVE  LET after == P!remove_gluons_for_particle(ph, slot)
           IN  /\ IsPhysics(after) /\ Names(after, n)
               /\ \A g \in after.gluon_constraints : slot \notin P!Ends(g)
               /\ \A e \in after.collision_events : slot \notin e
<1> DEFINE gs == {g \in ph.gluon_constraints : slot \in P!Ends(g)}
           cut == P!drop_gluons(ph, gs)
<1>1. IsPhysics(cut) /\ Names(cut, n)
      BY DropGluonsSafe
<1>2. /\ cut.gluon_constraints = ph.gluon_constraints \ gs
      /\ cut.collision_events = ph.collision_events
      BY DEF P!drop_gluons
<1>3. P!remove_gluons_for_particle(ph, slot) =
          P!with_events(cut, {e \in ph.collision_events : slot \notin e})
      BY DEF P!remove_gluons_for_particle
<1> QED BY <1>1, <1>2, <1>3 DEF P!with_events, IsPhysics, Names

\* When the tail n moves into a slot nothing names, every name below n stays
\* below n, and no one names n any more.
LEMMA NotifySwapSafe ==
    ASSUME NEW ph, IsPhysics(ph), NEW n \in Nat, NEW slot \in 1 .. n - 1, Names(ph, n)
    PROVE  LET after == P!notify_particle_swap(ph, n, slot)
           IN  IsPhysics(after) /\ Names(after, n - 1)
<1> DEFINE Moved(x) == IF x = n THEN slot ELSE x
           reindexed == {g \in ph.gluon_constraints : n \in P!Ends(g)}
           Renamed(g) == [id |-> g.id, particle_a |-> Moved(g.particle_a),
                          particle_b |-> Moved(g.particle_b)]
           renamed == {Renamed(g) : g \in reindexed}
           events == {{Moved(x) : x \in e} : e \in ph.collision_events}
           index == P!unindex(ph.gluon_pair_index, reindexed)
           after == P!notify_particle_swap(ph, n, slot)
<1>1. /\ after.gluon_constraints = (ph.gluon_constraints \ reindexed) \cup renamed
      /\ after.gluon_pair_index = P!index_gluons(index, renamed)
      /\ after.collision_events = events
      /\ after = [gluon_constraints |-> after.gluon_constraints,
                  gluon_pair_index |-> after.gluon_pair_index,
                  collision_events |-> after.collision_events]
      BY DEF P!notify_particle_swap
<1>2. ph.gluon_constraints \subseteq Gluons
      BY DEF IsPhysics, Gluons
<1>3. \A x \in 1 .. n : Moved(x) \in 1 .. n - 1
      OBVIOUS
<1>4. renamed \subseteq Gluons
      <2>1. SUFFICES ASSUME NEW g \in reindexed PROVE Renamed(g) \in Gluons
            OBVIOUS
      <2> QED BY <1>2 DEF Gluons
<1>5. after.gluon_constraints \subseteq Gluons
      BY <1>1, <1>2, <1>4
<1>6. index \in [DOMAIN index -> GluonIds]
      BY UnindexType DEF IsPhysics
<1>7. after.gluon_pair_index \in [DOMAIN after.gluon_pair_index -> GluonIds]
      <2> HIDE DEF index, renamed
      <2>1. P!index_gluons(index, renamed) \in
                [DOMAIN P!index_gluons(index, renamed) -> GluonIds]
            BY <1>4, <1>6, IndexGluonsType
      <2> HIDE DEF after
      <2> QED BY <2>1, <1>1
<1>8. \A e \in after.collision_events : e \subseteq 1 .. n - 1
      BY <1>1, <1>3 DEF Names
<1>9. ASSUME NEW g \in after.gluon_constraints PROVE P!Ends(g) \subseteq 1 .. n - 1
      <2>1. CASE g \in ph.gluon_constraints \ reindexed
            BY <2>1 DEF Names
      <2>2. CASE g \in renamed
            <3>1. PICK h \in reindexed : g = Renamed(h)
                  BY <2>2
            <3>2. P!Ends(h) \subseteq 1 .. n
                  BY DEF Names
            <3> QED BY <1>3, <3>1, <3>2 DEF P!Ends
      <2> QED BY <1>1, <2>1, <2>2
<1> HIDE DEF after
<1>10. IsPhysics(after)
      <2>1. \A e \in after.collision_events : e \subseteq Nat
            BY <1>8
      <2> QED BY <1>1, <1>5, <1>7, <2>1 DEF IsPhysics, Gluons
<1>11. Names(after, n - 1)
      BY <1>8, <1>9 DEF Names
<1> QED BY <1>10, <1>11 DEF after

-----------------------------------------------------------------------------
\* The KG render map

\* Every method of the KG render map keeps it well formed.
LEMMA KGFromMaps ==
    ASSUME NEW forward, IsMap(forward, KGIds, Nat),
           NEW reverse, IsMap(reverse, Nat, KGIds)
    PROVE  IsKG([kg_to_render |-> forward, render_to_kg |-> reverse])
BY DEF IsKG

LEMMA EraseKGType ==
    ASSUME NEW map, IsKG(map), NEW slot
    PROVE  IsKG(eraseRenderIndexMappings(map, slot))
<1>1. CASE slot \notin DOMAIN map.render_to_kg
      BY <1>1 DEF eraseRenderIndexMappings
<1>2. CASE slot \in DOMAIN map.render_to_kg
      BY <1>2, WithoutIsMap, KGFromMaps DEF eraseRenderIndexMappings, IsKG
<1> QED BY <1>1, <1>2

LEMMA SwapKGType ==
    ASSUME NEW map, IsKG(map), NEW old, NEW new \in Nat
    PROVE  IsKG(notifyParticleSwap(map, old, new))
<1>1. CASE old \notin DOMAIN map.render_to_kg
      BY <1>1 DEF notifyParticleSwap
<1>2. CASE old \in DOMAIN map.render_to_kg
    <2>1. map.render_to_kg[old] \in KGIds
          BY <1>2 DEF IsKG, IsMap
    <2>2. IsMap(Put(map.kg_to_render, map.render_to_kg[old], new), KGIds, Nat)
          BY <2>1, PutIsMap DEF IsKG
    <2>3. IsMap(Without(map.render_to_kg, old), Nat, KGIds)
          BY WithoutIsMap DEF IsKG
    <2>4. IsMap(Put(Without(map.render_to_kg, old), new, map.render_to_kg[old]),
                Nat, KGIds)
          BY <2>1, <2>3, PutIsMap
    <2> QED BY <1>2, <2>2, <2>4, KGFromMaps DEF notifyParticleSwap
<1> QED BY <1>1, <1>2

LEMMA CreateKGType ==
    ASSUME NEW map, IsKG(map), NEW k \in KGIds, NEW slot \in Nat
    PROVE  IsKG(createKGParticle(map, k, slot))
BY PutIsMap, KGFromMaps DEF createKGParticle, IsKG

LEMMA DestroyKGType ==
    ASSUME NEW map, IsKG(map), NEW k
    PROVE  IsKG(destroyKGParticle(map, k))
<1>1. CASE k \notin DOMAIN map.kg_to_render
      BY <1>1 DEF destroyKGParticle
<1>2. CASE k \in DOMAIN map.kg_to_render
      BY <1>2, WithoutIsMap, KGFromMaps DEF destroyKGParticle, IsKG
<1> QED BY <1>1, <1>2

-----------------------------------------------------------------------------
\* Removal

LEMMA NonEmptyTail ==
    ASSUME NEW S, NEW s \in Seq(S), s # <<>>
    PROVE  Tail(s) \in Seq(S) /\ Head(s) \in S
BY HeadTailProperties

LEMMA SwapAndPop ==
    ASSUME particles \in Seq(Particles), NEW slot \in DOMAIN particles
    PROVE  /\ swap_and_pop(slot) \in Seq(Particles)
           /\ Len(swap_and_pop(slot)) = Len(particles) - 1
           /\ DOMAIN swap_and_pop(slot) = 1 .. Len(particles) - 1
           /\ Len(particles) \in Nat \ {0}
           /\ \A i \in 1 .. Len(particles) - 1 :
                 swap_and_pop(slot)[i] =
                     IF i = slot THEN particles[Len(particles)] ELSE particles[i]
BY DEF swap_and_pop

\* The inductive core: every table is well formed and names live slots only.
Safe == TypeOK /\ IndicesLive

Deletions == [ticket : Nat, particle_index : Nat, frames_left : Nat]

LEMMA CoherentQueue ==
    ASSUME NEW n \in Nat \ {0}, NEW slot \in 1 .. n,
           NEW queue \in SUBSET Deletions,
           \A d \in queue : d.particle_index \in 1 .. n
    PROVE  /\ coherent_queue(queue, slot, n) \subseteq Deletions
           /\ \A d \in coherent_queue(queue, slot, n) : d.particle_index \in 1 .. n - 1
<1>1. SUFFICES ASSUME NEW d \in coherent_queue(queue, slot, n)
               PROVE  d \in Deletions /\ d.particle_index \in 1 .. n - 1
      OBVIOUS
<1>2. PICK e \in queue :
          /\ e.particle_index # slot
          /\ d = [e EXCEPT !.particle_index = IF @ = n THEN slot ELSE @]
      BY DEF coherent_queue
<1> QED BY <1>2 DEF Deletions

LEMMA CoherentPhysics ==
    ASSUME IsPhysics(physics), NEW n \in Nat \ {0}, NEW slot \in 1 .. n,
           Names(physics, n)
    PROVE  IsPhysics(coherent_physics(slot, n)) /\ Names(coherent_physics(slot, n), n - 1)
<1> DEFINE cut == P!remove_gluons_for_particle(physics, slot)
<1>1. /\ IsPhysics(cut) /\ Names(cut, n)
      /\ \A g \in cut.gluon_constraints : slot \notin P!Ends(g)
      /\ \A e \in cut.collision_events : slot \notin e
      BY RemoveGluonsSafe
<1> HIDE DEF cut
<1>2. CASE slot = n
      <2>1. Names(cut, n - 1)
            BY <1>1, <1>2 DEF Names
      <2> QED BY <1>1, <1>2, <2>1 DEF coherent_physics, cut
<1>3. CASE slot # n
      BY <1>1, <1>3, NotifySwapSafe DEF coherent_physics, cut
<1> QED BY <1>2, <1>3

LEMMA CoherentKGType ==
    ASSUME IsKG(kg), NEW slot \in Nat, NEW tail
    PROVE  IsKG(coherent_kg(slot, tail))
BY EraseKGType, SwapKGType DEF coherent_kg

LEMMA CoherentEntitiesType ==
    ASSUME entity_particle_indices \in [Entities -> SUBSET Nat],
           NEW slot \in Nat, NEW tail
    PROVE  coherent_entities(slot, tail) \in [Entities -> SUBSET Nat]
BY DEF coherent_entities

LEMMA RemoveSafe ==
    ASSUME Safe, NEW slot \in Nat, NEW queue \in SUBSET pending_deletions,
           remove_particle_unlocked(slot, queue),
           UNCHANGED <<pending_particles, has_rendered, loop>>
    PROVE  Safe'
<1> DEFINE n == Len(particles)
<1>1. /\ particles \in Seq(Particles) /\ n \in Nat /\ DOMAIN particles = 1 .. n
      /\ queue \subseteq Deletions
      /\ \A d \in queue : d.particle_index \in 1 .. n
      /\ IsPhysics(physics) /\ Names(physics, n)
      BY DEF Safe, TypeOK, IndicesLive, Deletions, Names
<1>2. CASE slot \in DOMAIN particles
    <2>1. n \in Nat \ {0} /\ slot \in 1 .. n
          BY <1>1, <1>2
    <2>2. /\ particles' \in Seq(Particles)
          /\ DOMAIN particles' = 1 .. n - 1
          <3>1. particles' = swap_and_pop(slot)
                BY <1>2 DEF remove_particle_unlocked
          <3> QED BY <1>1, <1>2, <3>1, SwapAndPop
    <2>3. /\ pending_deletions' \subseteq Deletions
          /\ \A d \in pending_deletions' : d.particle_index \in 1 .. n - 1
          BY <1>1, <1>2, <2>1, CoherentQueue DEF remove_particle_unlocked
    <2>4. IsPhysics(physics') /\ Names(physics', n - 1)
          BY <1>1, <1>2, <2>1, CoherentPhysics DEF remove_particle_unlocked
    <2>5. IsKG(kg')
          BY <1>2, CoherentKGType DEF remove_particle_unlocked, Safe, TypeOK
    <2>6. entity_particle_indices' \in [Entities -> SUBSET Nat]
          BY <1>2, CoherentEntitiesType DEF remove_particle_unlocked, Safe, TypeOK
    <2>7. cached' \in Nat
          BY <1>2 DEF remove_particle_unlocked, coherent_cached, Safe, TypeOK
    <2>8. TypeOK'
          BY <2>2, <2>3, <2>4, <2>5, <2>6, <2>7 DEF Safe, TypeOK, Deletions
    <2>9. IndicesLive'
          BY <2>2, <2>3, <2>4 DEF IndicesLive, Names
    <2> QED BY <2>8, <2>9 DEF Safe
<1>3. CASE slot \notin DOMAIN particles
      BY <1>3 DEF remove_particle_unlocked, Safe, TypeOK, IndicesLive
<1> QED BY <1>2, <1>3

-----------------------------------------------------------------------------
\* Safe is inductive

LEMMA InitSafe == Init => Safe
<1> SUFFICES ASSUME Init PROVE Safe
    OBVIOUS
<1> USE DEF Init, NothingBorn
<1>1. IsPhysics(physics)
      BY DEF IsPhysics, P!EmptyPhysics
<1>2. IsKG(kg)
      BY DEF IsKG, IsMap, EmptyKG, EmptyMap
<1>3. TypeOK
    <2>1. particles \in Seq(Particles) /\ pending_particles \in Seq(Particles)
          BY EmptySeq
    <2>2. entity_particle_indices \in [Entities -> SUBSET Nat]
          OBVIOUS
    <2> QED BY <1>1, <1>2, <2>1, <2>2 DEF TypeOK
<1>4. IndicesLive
      BY DEF IndicesLive, P!EmptyPhysics
<1> QED BY <1>3, <1>4 DEF Safe

LEMMA BornSafe ==
    ASSUME Safe, NEW p \in Particles, Born(p)
    PROVE  /\ particles' \in Seq(Particles)
           /\ Len(particles) + 1 \in Nat
           /\ DOMAIN particles \subseteq DOMAIN particles'
           /\ entity_particle_indices' \in [Entities -> SUBSET Nat]
<1>1. /\ particles \in Seq(Particles)
      /\ entity_particle_indices \in [Entities -> SUBSET Nat]
      BY DEF Safe, TypeOK
<1>2. /\ Append(particles, p) \in Seq(Particles)
      /\ Len(Append(particles, p)) = Len(particles) + 1
      BY <1>1, AppendProperties
<1>3. /\ Len(particles) + 1 \in Nat
      /\ DOMAIN particles = 1 .. Len(particles)
      /\ DOMAIN Append(particles, p) = 1 .. Len(particles) + 1
      BY <1>1, <1>2
<1> QED BY <1>1, <1>2, <1>3, EntityAssumption DEF Born

\* When the vector does not shrink, whatever named a live slot still does.
LEMMA GrowSafe ==
    ASSUME IndicesLive, DOMAIN particles \subseteq DOMAIN particles',
           UNCHANGED <<pending_deletions, physics>>
    PROVE  IndicesLive'
BY DEF IndicesLive

LEMMA AddParticleSafe ==
    ASSUME Safe, NEW p \in Particles, add_particle(p)
    PROVE  Safe'
<1> USE DEF add_particle
<1>1. TypeOK'
      BY BornSafe DEF Safe, TypeOK
<1>2. IndicesLive'
      BY BornSafe, GrowSafe DEF Safe
<1> QED BY <1>1, <1>2 DEF Safe

LEMMA LoadParticleSafe ==
    ASSUME Safe, NEW p \in Particles, NEW k \in KGIds, load_particle(p, k)
    PROVE  Safe'
<1>1. CASE Born(p) /\ kg' = createKGParticle(kg, k, Len(particles) + 1)
    <2>1. IsKG(kg')
          BY <1>1, BornSafe, CreateKGType DEF Safe, TypeOK
    <2>2. TypeOK'
          BY <1>1, <2>1, BornSafe DEF load_particle, Safe, TypeOK
    <2>3. IndicesLive'
          BY <1>1, BornSafe, GrowSafe DEF load_particle, Safe
    <2> QED BY <2>2, <2>3 DEF Safe
<1>2. CASE Refused /\ kg' = createKGParticle(kg, k, INVALID_RENDER_INDEX)
    <2>1. IsKG(kg')
          BY <1>2, CreateKGType DEF Safe, TypeOK, INVALID_RENDER_INDEX
    <2> QED BY <1>2, <2>1 DEF load_particle, Refused, Safe, TypeOK, IndicesLive
<1> QED BY <1>1, <1>2 DEF load_particle

LEMMA QueueAdditionSafe ==
    ASSUME Safe, NEW p \in Particles, queue_particle_addition(p)
    PROVE  Safe'
BY DEF Safe, TypeOK, IndicesLive, queue_particle_addition

LEMMA FlushOneAdditionSafe ==
    ASSUME Safe, flush_one_addition
    PROVE  Safe'
<1>1. /\ Head(pending_particles) \in Particles
      /\ pending_particles' \in Seq(Particles)
      BY NonEmptyTail DEF Safe, TypeOK, flush_one_addition
<1>2. CASE Born(Head(pending_particles))
    <2>1. TypeOK'
          BY <1>1, <1>2, BornSafe DEF flush_one_addition, Safe, TypeOK
    <2>2. IndicesLive'
          BY <1>1, <1>2, BornSafe, GrowSafe DEF flush_one_addition, Safe
    <2> QED BY <2>1, <2>2 DEF Safe
<1>3. CASE Refused
      BY <1>1, <1>3 DEF flush_one_addition, Refused, Safe, TypeOK, IndicesLive
<1> QED BY <1>2, <1>3 DEF flush_one_addition

LEMMA QueueDeletionSafe ==
    ASSUME Safe, NEW slot \in Slots, queue_particle_deletion(slot)
    PROVE  Safe'
<1>1. PICK t \in 1 .. MaxDeletions :
          pending_deletions' = pending_deletions \cup
              {[ticket |-> t, particle_index |-> slot, frames_left |-> FRAMES_IN_FLIGHT - 0]}
      BY DEF queue_particle_deletion, Doom
<1>2. slot \in DOMAIN particles /\ slot \in Nat
      BY DEF queue_particle_deletion, Doom, Slots
<1> QED BY <1>1, <1>2, FramesAssumption
        DEF queue_particle_deletion, Safe, TypeOK, IndicesLive

LEMMA UnregisterSafe ==
    ASSUME Safe, NEW anchor \in Slots, unregister_humanoid(anchor)
    PROVE  Safe'
<1>1. PICK t \in 1 .. MaxDeletions, lag \in {0, 1} :
          pending_deletions' = pending_deletions \cup
              {[ticket |-> t, particle_index |-> anchor,
                frames_left |-> FRAMES_IN_FLIGHT - lag]}
      BY DEF unregister_humanoid, Doom
<1>2. /\ anchor \in DOMAIN particles /\ anchor \in Nat
      /\ FRAMES_IN_FLIGHT - lag \in Nat
      BY FramesAssumption DEF unregister_humanoid, Doom, Slots
<1>3. IsPhysics(physics') /\ Names(physics', Len(particles))
    <2>1. particles \in Seq(Particles) /\ IsPhysics(physics) /\ Names(physics, Len(particles))
          BY DEF Safe, TypeOK, IndicesLive, Names
    <2> QED BY <2>1, RemoveGluonsSafe DEF unregister_humanoid
<1>4. TypeOK'
      BY <1>1, <1>2, <1>3 DEF unregister_humanoid, Safe, TypeOK
<1>5. IndicesLive'
      BY <1>1, <1>2, <1>3 DEF unregister_humanoid, Safe, TypeOK, IndicesLive, Names
<1> QED BY <1>4, <1>5 DEF Safe

LEMMA FlushOneDeletionSafe ==
    ASSUME Safe, flush_one_deletion
    PROVE  Safe'
<1>1. PICK front \in pending_deletions :
          remove_particle_unlocked(front.particle_index, pending_deletions \ {front})
      BY DEF flush_one_deletion
<1>2. front.particle_index \in Nat
      BY DEF Safe, TypeOK
<1> QED BY <1>1, <1>2, RemoveSafe DEF flush_one_deletion

LEMMA EngineUpdateSafe ==
    ASSUME Safe, engine_update
    PROVE  Safe'
<1>1. ASSUME NEW d \in pending_deletions'
      PROVE  d \in Deletions /\ d.particle_index \in DOMAIN particles
    <2>1. PICK e \in pending_deletions :
              d = [e EXCEPT !.frames_left = IF @ > 0 THEN @ - 1 ELSE 0]
          BY DEF engine_update
    <2> QED BY <2>1 DEF Safe, TypeOK, IndicesLive, Deletions
<1>2. TypeOK'
      BY <1>1 DEF engine_update, AfterUpdate, Safe, TypeOK, Deletions
<1>3. IndicesLive'
      BY <1>1 DEF engine_update, Safe, IndicesLive
<1> QED BY <1>2, <1>3 DEF Safe

LEMMA AddGluonSafe ==
    ASSUME Safe, NEW id \in GluonIds, NEW a \in Slots, NEW b \in Slots,
           add_gluon_between(id, a, b)
    PROVE  Safe'
<1> DEFINE g == [id |-> id, particle_a |-> a, particle_b |-> b]
<1>1. a \in Nat /\ b \in Nat /\ {a, b} \subseteq DOMAIN particles
      BY DEF add_gluon_between, Slots
<1>2. {g} \in SUBSET Gluons
      BY <1>1 DEF Gluons
<1>3. P!Ends(g) \subseteq DOMAIN particles
      BY <1>1 DEF P!Ends
<1>4. physics' = [gluon_constraints |-> physics.gluon_constraints \cup {g},
                  gluon_pair_index  |-> P!index_gluons(physics.gluon_pair_index, {g}),
                  collision_events  |-> physics.collision_events]
      BY DEF add_gluon_between, P!add_gluon_between
<1> HIDE DEF g
<1>5. P!index_gluons(physics.gluon_pair_index, {g}) \in
          [DOMAIN P!index_gluons(physics.gluon_pair_index, {g}) -> GluonIds]
      BY <1>2, IndexGluonsType DEF Safe, TypeOK, IsPhysics
<1>6. IsPhysics(physics')
      BY <1>2, <1>4, <1>5 DEF Safe, TypeOK, IsPhysics, Gluons
<1>7. TypeOK'
      BY <1>6 DEF add_gluon_between, Safe, TypeOK
<1>8. IndicesLive'
      BY <1>3, <1>4 DEF add_gluon_between, Safe, IndicesLive
<1> QED BY <1>7, <1>8 DEF Safe

LEMMA PhysicsUpdateSafe ==
    ASSUME Safe, physics_update
    PROVE  Safe'
<1> DEFINE n == Len(particles)
           pruned == P!prune_invalid_gluons(physics, n)
<1>1. PICK events \in EventSets, torn \in SUBSET pruned.gluon_constraints :
          physics' = P!with_events(P!drop_gluons(pruned, torn), events)
      BY DEF physics_update
<1>2. /\ DOMAIN particles = 1 .. n /\ n \in Nat
      /\ IsPhysics(physics) /\ Names(physics, n)
      BY DEF Safe, TypeOK, IndicesLive, Names
<1>3. IsPhysics(pruned) /\ Names(pruned, n)
      BY <1>2, DropGluonsSafe DEF P!prune_invalid_gluons
<1> HIDE DEF pruned
<1>4. /\ IsPhysics(P!drop_gluons(pruned, torn))
      /\ Names(P!drop_gluons(pruned, torn), n)
      BY <1>3, DropGluonsSafe
<1>5. \A e \in events : e \subseteq 1 .. n
      BY <1>2 DEF EventSets, Contacts
<1>6. IsPhysics(physics') /\ Names(physics', n)
      BY <1>1, <1>4, <1>5 DEF P!with_events, IsPhysics, Names
<1>7. TypeOK'
      BY <1>6 DEF physics_update, Safe, TypeOK
<1>8. IndicesLive'
      BY <1>2, <1>6 DEF physics_update, Safe, IndicesLive, Names
<1> QED BY <1>7, <1>8 DEF Safe

LEMMA DestroySafe ==
    ASSUME Safe, NEW k \in KGIds, destroy_kg_particle(k)
    PROVE  Safe'
BY DestroyKGType DEF destroy_kg_particle, Safe, TypeOK, IndicesLive

LEMMA NextSafe == Safe /\ [Next]_vars => Safe'
<1> SUFFICES ASSUME Safe, [Next]_vars PROVE Safe'
    OBVIOUS
<1>1. ASSUME NEW p \in Particles, add_particle(p) PROVE Safe'
      BY <1>1, AddParticleSafe
<1>2. ASSUME NEW p \in Particles, NEW k \in KGIds, load_particle(p, k) PROVE Safe'
      BY <1>2, LoadParticleSafe
<1>3. ASSUME NEW p \in Particles, queue_particle_addition(p) PROVE Safe'
      BY <1>3, QueueAdditionSafe
<1>4. CASE flush_pending_particles
      BY <1>4 DEF flush_pending_particles, Safe, TypeOK, IndicesLive
<1>5. CASE flush_one_addition
      BY <1>5, FlushOneAdditionSafe
<1>6. CASE additions_flushed
      BY <1>6 DEF additions_flushed, Safe, TypeOK, IndicesLive
<1>7. ASSUME NEW slot \in Slots, remove_particle(slot) PROVE Safe'
      BY <1>7, RemoveSafe DEF remove_particle, Slots
<1>8. ASSUME NEW slot \in Slots, queue_particle_deletion(slot) PROVE Safe'
      BY <1>8, QueueDeletionSafe
<1>9. CASE flush_one_deletion
      BY <1>9, FlushOneDeletionSafe
<1>10. CASE deletions_flushed
      BY <1>10 DEF deletions_flushed, AfterDeletions, Safe, TypeOK, IndicesLive
<1>11. CASE engine_update
      BY <1>11, EngineUpdateSafe
<1>12. CASE engine_render
      BY <1>12 DEF engine_render, AfterDeletions, Safe, TypeOK, IndicesLive
<1>13. ASSUME NEW id \in GluonIds, NEW a \in Slots, NEW b \in Slots,
              add_gluon_between(id, a, b)
       PROVE  Safe'
      BY <1>13, AddGluonSafe
<1>14. CASE physics_update
      BY <1>14, PhysicsUpdateSafe
<1>15. ASSUME NEW slot \in Slots, cache_particle_id(slot) PROVE Safe'
      BY <1>15 DEF cache_particle_id, Slots, Safe, TypeOK, IndicesLive
<1>16. ASSUME NEW k \in KGIds, destroy_kg_particle(k) PROVE Safe'
      BY <1>16, DestroySafe
<1>17. CASE UNCHANGED vars
      BY <1>17 DEF vars, Safe, TypeOK, IndicesLive
<1>18. ASSUME NEW anchor \in Slots, unregister_humanoid(anchor) PROVE Safe'
      BY <1>18, UnregisterSafe
<1> QED BY <1>1, <1>2, <1>3, <1>4, <1>5, <1>6, <1>7, <1>8, <1>9, <1>10, <1>11, <1>12,
           <1>13, <1>14, <1>15, <1>16, <1>17, <1>18 DEF Next

\* Safe holds in every reachable state.
THEOREM SafeAlways == Spec => []Safe
<1> QED BY InitSafe, NextSafe, PTL DEF Spec

\* Every table keeps its shape: slots are natural numbers wherever one is kept,
\* owners are entities, in particular no map of the KG table ever acquires a key
\* or a value of the wrong kind.
THEOREM TypeCorrect == Spec => []TypeOK
<1>1. Safe => TypeOK
      BY DEF Safe
<1> QED BY <1>1, SafeAlways, PTL

\* No removal, deferred or direct, leaves an index past the end of the particle
\* vector in the deletion queue, a bond or a collision event, however many
\* particles, bonds and queued deletions there are.
THEOREM IndicesAreLive == Spec => []IndicesLive
<1>1. Safe => IndicesLive
      BY DEF Safe
<1> QED BY <1>1, SafeAlways, PTL

-----------------------------------------------------------------------------
\* The entity lists

LEMMA BornEntities ==
    ASSUME Safe, EntityListsExact, NEW p \in Particles, Born(p)
    PROVE  EntityListsExact'
<1> DEFINE n == Len(particles)
<1>1. /\ particles \in Seq(Particles) /\ n \in Nat /\ DOMAIN particles = 1 .. n
      /\ entity_particle_indices \in [Entities -> SUBSET Nat]
      BY DEF Safe, TypeOK
<1>2. /\ DOMAIN particles' = 1 .. n + 1
      /\ \A i \in 1 .. n : particles'[i] = particles[i]
      /\ particles'[n + 1] = p
      BY <1>1, AppendProperties DEF Born
<1> SUFFICES ASSUME NEW e \in Entities
             PROVE  entity_particle_indices'[e] =
                        {i \in DOMAIN particles' : EntityOf[particles'[i]] = e}
    BY DEF EntityListsExact
<1>3. entity_particle_indices'[e] =
          IF e = EntityOf[p] THEN entity_particle_indices[e] \cup {n + 1}
                             ELSE entity_particle_indices[e]
      BY <1>1 DEF Born
<1>4. entity_particle_indices[e] = {i \in 1 .. n : EntityOf[particles[i]] = e}
      BY <1>1 DEF EntityListsExact
<1> QED BY <1>1, <1>2, <1>3, <1>4

LEMMA RemoveEntities ==
    ASSUME Safe, EntityListsExact, NEW slot \in Nat, NEW queue,
           remove_particle_unlocked(slot, queue)
    PROVE  EntityListsExact'
<1> DEFINE n == Len(particles)
           list == entity_particle_indices
<1>1. /\ particles \in Seq(Particles) /\ n \in Nat /\ DOMAIN particles = 1 .. n
      /\ list \in [Entities -> SUBSET Nat]
      BY DEF Safe, TypeOK
<1>2. n \in Nat
      BY <1>1
<1>3. CASE slot \notin DOMAIN particles
      BY <1>3 DEF remove_particle_unlocked, EntityListsExact
<1>4. CASE slot \in DOMAIN particles
    <2>1. /\ particles' = swap_and_pop(slot)
          /\ list' = coherent_entities(slot, n)
          BY <1>4 DEF remove_particle_unlocked
    <2>2. /\ DOMAIN particles' = 1 .. n - 1
          /\ \A i \in 1 .. n - 1 :
                particles'[i] = IF i = slot THEN particles[n] ELSE particles[i]
          BY <1>1, <1>4, <2>1, SwapAndPop
    <2> SUFFICES ASSUME NEW e \in Entities
                 PROVE  list'[e] = {i \in DOMAIN particles' : EntityOf[particles'[i]] = e}
        BY DEF EntityListsExact
    <2>3. /\ list[e] \subseteq 1 .. n
          /\ \A i \in 1 .. n : i \in list[e] <=> EntityOf[particles[i]] = e
          BY <1>1 DEF EntityListsExact
    <2>4. /\ particles[slot] \in Particles /\ EntityOf[particles[slot]] \in Entities
          /\ particles[n] \in Particles /\ EntityOf[particles[n]] \in Entities
          BY <1>1, <1>4, EntityAssumption
    <2> DEFINE dead == EntityOf[particles[slot]]
               moved == EntityOf[particles[n]]
               without == [list EXCEPT ![dead] = @ \ {slot}]
    <2>5. /\ without \in [Entities -> SUBSET Nat]
          /\ \A x \in Entities : without[x] = list[x] \ {slot}
        <3>1. \A x \in Entities \ {dead} : slot \notin list[x]
              BY DEF EntityListsExact
        <3>2. without \in [Entities -> SUBSET Nat]
              BY <1>1
        <3> QED BY <1>1, <2>4, <3>1, <3>2
    <2>6. IF slot = n THEN list' = without
          ELSE list' = [without EXCEPT ![moved] =
                           IF n \in @ THEN (@ \ {n}) \cup {slot} ELSE @]
          BY <2>1 DEF coherent_entities
    <2>7. n \in list[moved]
          BY <1>1, <1>4, <2>4 DEF EntityListsExact
    <2> HIDE DEF without
    <2>8. CASE slot = n
        <3>1. list'[e] = list[e] \ {slot}
              BY <2>5, <2>6, <2>8
        <3>2. list'[e] \subseteq 1 .. n - 1
              BY <1>1, <2>3, <2>8, <3>1
        <3>3. ASSUME NEW i \in 1 .. n - 1
              PROVE  i \in list'[e] <=> EntityOf[particles'[i]] = e
            <4>1. i \in 1 .. n /\ i # slot
                  BY <1>2, <2>8
            <4>2. particles'[i] = particles[i]
                  BY <2>2, <4>1
            <4> QED BY <2>3, <3>1, <4>1, <4>2
        <3> QED BY <2>2, <3>2, <3>3
    <2>9. CASE slot # n
        <3>1. n \in without[moved]
              BY <2>4, <2>5, <2>7, <2>9
        <3>2. list'[e] = IF e = moved THEN (without[e] \ {n}) \cup {slot}
                                      ELSE without[e]
              BY <2>4, <2>5, <2>6, <2>9, <3>1
        <3>3. without[e] = list[e] \ {slot}
              BY <2>5
        <3>4. e # moved => n \notin list[e]
              BY <1>1, <1>4, <2>3
        <3>5. list'[e] \subseteq 1 .. n - 1
            <4>1. slot \in 1 .. n - 1
                <5>1. slot \in 1 .. n
                      BY <1>1, <1>4
                <5> QED BY <1>2, <2>9, <5>1
            <4>2. n \notin list'[e]
                  BY <2>9, <3>2, <3>3, <3>4
            <4> QED BY <1>2, <2>3, <3>2, <3>3, <4>1, <4>2
        <3>6. ASSUME NEW i \in 1 .. n - 1
              PROVE  i \in list'[e] <=> EntityOf[particles'[i]] = e
            <4>1. i \in 1 .. n /\ i # n
                  BY <1>2
            <4>2. CASE i = slot
                  BY <2>2, <3>2, <3>3, <4>1, <4>2
            <4>3. CASE i # slot
                <5>1. particles'[i] = particles[i]
                      BY <2>2, <4>3
                <5>2. i \in list'[e] <=> i \in list[e]
                      BY <3>2, <3>3, <4>1, <4>3
                <5> QED BY <2>3, <4>1, <5>1, <5>2
            <4> QED BY <4>2, <4>3
        <3> QED BY <2>2, <3>5, <3>6
    <2> QED BY <2>8, <2>9
<1> QED BY <1>3, <1>4

LEMMA NextEntities == Safe /\ EntityListsExact /\ [Next]_vars => EntityListsExact'
<1> SUFFICES ASSUME Safe, EntityListsExact, [Next]_vars PROVE EntityListsExact'
    OBVIOUS
<1>1. CASE UNCHANGED <<particles, entity_particle_indices>>
      BY <1>1 DEF EntityListsExact
<1>2. ASSUME NEW p \in Particles, add_particle(p) PROVE EntityListsExact'
      BY <1>2, BornEntities DEF add_particle
<1>3. ASSUME NEW p \in Particles, NEW k \in KGIds, load_particle(p, k)
      PROVE  EntityListsExact'
      BY <1>1, <1>3, BornEntities DEF load_particle, Refused
<1>4. CASE flush_one_addition
    <2>1. Head(pending_particles) \in Particles
          BY <1>4, NonEmptyTail DEF Safe, TypeOK, flush_one_addition
    <2> QED BY <1>1, <1>4, <2>1, BornEntities DEF flush_one_addition, Refused
<1>5. ASSUME NEW slot \in Slots, remove_particle(slot) PROVE EntityListsExact'
      BY <1>5, RemoveEntities DEF remove_particle, Slots
<1>6. CASE flush_one_deletion
    <2>1. PICK front \in pending_deletions :
              remove_particle_unlocked(front.particle_index, pending_deletions \ {front})
          BY <1>6 DEF flush_one_deletion
    <2>2. front.particle_index \in Nat
          BY DEF Safe, TypeOK
    <2> QED BY <2>1, <2>2, RemoveEntities
<1>7. \/ UNCHANGED <<particles, entity_particle_indices>>
      \/ \E p \in Particles : add_particle(p)
      \/ \E p \in Particles, k \in KGIds : load_particle(p, k)
      \/ flush_one_addition
      \/ \E slot \in Slots : remove_particle(slot)
      \/ flush_one_deletion
      BY DEF Next, vars, queue_particle_addition, flush_pending_particles,
             additions_flushed, queue_particle_deletion, unregister_humanoid, deletions_flushed,
             engine_update, engine_render, add_gluon_between, physics_update,
             cache_particle_id, destroy_kg_particle
<1> QED BY <1>1, <1>2, <1>3, <1>4, <1>5, <1>6, <1>7

\* Whatever births, refusals, swap-and-pops and flushes led here, the list kept
\* for an entity is exactly the set of slots whose particle it owns.
THEOREM EntityListsAreExact == Spec => []EntityListsExact
<1>1. Init => EntityListsExact
      BY DEF Init, NothingBorn, EntityListsExact
<1> QED BY <1>1, NextEntities, SafeAlways, PTL DEF Spec

-----------------------------------------------------------------------------
\* The pair index

\* PairIndexExact for any tables.
PairExact(ph) ==
    /\ DOMAIN ph.gluon_pair_index = {P!Ends(g) : g \in ph.gluon_constraints}
    /\ \A g \in ph.gluon_constraints : ph.gluon_pair_index[P!Ends(g)] = g.id
    /\ \A g, h \in ph.gluon_constraints : g.id = h.id => g = h

\* In exact tables a pair has one bond.
LEMMA OneBondPerPair ==
    ASSUME NEW ph, PairExact(ph),
           NEW g \in ph.gluon_constraints, NEW h \in ph.gluon_constraints,
           P!Ends(g) = P!Ends(h)
    PROVE  g = h
BY DEF PairExact

\* Dropping bonds drops exactly their pairs.
LEMMA DropGluonsExact ==
    ASSUME NEW ph, PairExact(ph), NEW gs \in SUBSET ph.gluon_constraints
    PROVE  PairExact(P!drop_gluons(ph, gs))
<1> DEFINE index == ph.gluon_pair_index
           left == ph.gluon_constraints \ gs
           after == P!unindex(index, gs)
<1>1. /\ DOMAIN after = {pair \in DOMAIN index :
                            \A g \in gs : ~(pair = P!Ends(g) /\ index[pair] = g.id)}
      /\ \A pair \in DOMAIN after : after[pair] = index[pair]
      BY DEF P!unindex, P!Restrict
<1>2. ASSUME NEW g \in left PROVE P!Ends(g) \in DOMAIN after
      BY <1>1 DEF PairExact
<1>3. ASSUME NEW pair \in DOMAIN after PROVE \E g \in left : pair = P!Ends(g)
      BY <1>1 DEF PairExact
<1>4. DOMAIN after = {P!Ends(g) : g \in left}
      BY <1>2, <1>3
<1>5. \A g \in left : after[P!Ends(g)] = g.id
      BY <1>1, <1>2 DEF PairExact
<1> HIDE DEF after
<1>6. PairExact([gluon_constraints |-> left, gluon_pair_index |-> after,
                 collision_events |-> ph.collision_events])
      BY <1>4, <1>5 DEF PairExact
<1> QED BY <1>6 DEF P!drop_gluons, after

\* Adding bonds on pairs that have none, no two of them on the same pair and
\* none with an id in use, keeps the tables exact.
LEMMA IndexGluonsExact ==
    ASSUME NEW ph, PairExact(ph), NEW gs,
           \A g, h \in gs : P!Ends(g) = P!Ends(h) => g = h,
           \A g \in gs, h \in ph.gluon_constraints : P!Ends(g) # P!Ends(h),
           \A g, h \in gs : g.id = h.id => g = h,
           \A g \in gs, h \in ph.gluon_constraints : g.id # h.id,
           NEW events
    PROVE  PairExact([gluon_constraints |-> ph.gluon_constraints \cup gs,
                      gluon_pair_index  |-> P!index_gluons(ph.gluon_pair_index, gs),
                      collision_events  |-> events])
<1> DEFINE index == ph.gluon_pair_index
           all == ph.gluon_constraints \cup gs
           after == P!index_gluons(index, gs)
<1>1. DOMAIN after = DOMAIN index \cup {P!Ends(g) : g \in gs}
      BY DEF P!index_gluons
<1>2. DOMAIN after = {P!Ends(g) : g \in all}
      BY <1>1 DEF PairExact
<1>3. ASSUME NEW g \in gs PROVE after[P!Ends(g)] = g.id
    <2>1. (CHOOSE h \in gs : P!Ends(h) = P!Ends(g)) = g
          OBVIOUS
    <2> QED BY <2>1 DEF P!index_gluons
<1>4. ASSUME NEW g \in ph.gluon_constraints PROVE after[P!Ends(g)] = g.id
    <2>1. ~ \E h \in gs : P!Ends(h) = P!Ends(g)
          OBVIOUS
    <2>2. P!Ends(g) \in DOMAIN index /\ index[P!Ends(g)] = g.id
          BY DEF PairExact
    <2> QED BY <2>1, <2>2 DEF P!index_gluons
<1>5. \A g, h \in all : g.id = h.id => g = h
      BY DEF PairExact
<1>6. \A g \in all : after[P!Ends(g)] = g.id
      BY <1>3, <1>4
<1> HIDE DEF after, all
<1>7. PairExact([gluon_constraints |-> all, gluon_pair_index |-> after,
                 collision_events |-> events])
      BY <1>2, <1>5, <1>6 DEF PairExact
<1> QED BY <1>7 DEF after, all

\* The tail moves into a slot no bond names: no two bonds fall together.
LEMMA NotifySwapExact ==
    ASSUME NEW ph, IsPhysics(ph), PairExact(ph), NEW n \in Nat, NEW slot \in Nat,
           slot # n, \A g \in ph.gluon_constraints : slot \notin P!Ends(g)
    PROVE  PairExact(P!notify_particle_swap(ph, n, slot))
<1> DEFINE Moved(x) == IF x = n THEN slot ELSE x
           reindexed == {g \in ph.gluon_constraints : n \in P!Ends(g)}
           Renamed(g) == [id |-> g.id, particle_a |-> Moved(g.particle_a),
                          particle_b |-> Moved(g.particle_b)]
           renamed == {Renamed(g) : g \in reindexed}
           events == {{Moved(x) : x \in e} : e \in ph.collision_events}
           cut == P!drop_gluons(ph, reindexed)
<1>1. /\ PairExact(cut)
      /\ cut.gluon_constraints = ph.gluon_constraints \ reindexed
      /\ cut.gluon_pair_index = P!unindex(ph.gluon_pair_index, reindexed)
      BY DropGluonsExact DEF P!drop_gluons
<1>2. \A g \in reindexed : /\ slot \in P!Ends(Renamed(g))
                           /\ n \notin P!Ends(Renamed(g))
                           /\ Renamed(g).id = g.id
      BY DEF P!Ends
<1>3. \A g \in cut.gluon_constraints : slot \notin P!Ends(g)
      BY <1>1
<1>4. ASSUME NEW g \in reindexed, NEW h \in reindexed,
             P!Ends(Renamed(g)) = P!Ends(Renamed(h))
      PROVE  g = h
    <2>1. slot \notin P!Ends(g) /\ slot \notin P!Ends(h)
          OBVIOUS
    <2>2. P!Ends(g) = P!Ends(h)
          BY <1>4, <2>1 DEF P!Ends
    <2> QED BY <2>2, OneBondPerPair
<1>5. ASSUME NEW g \in reindexed, NEW h \in ph.gluon_constraints, g.id = h.id
      PROVE  g = h
      BY <1>5 DEF PairExact
<1>6. /\ \A g, h \in renamed : P!Ends(g) = P!Ends(h) => g = h
      /\ \A g, h \in renamed : g.id = h.id => g = h
      BY <1>2, <1>4, <1>5
<1>7. /\ \A g \in renamed, h \in cut.gluon_constraints : P!Ends(g) # P!Ends(h)
      /\ \A g \in renamed, h \in cut.gluon_constraints : g.id # h.id
      BY <1>1, <1>2, <1>3, <1>5
<1>8. P!notify_particle_swap(ph, n, slot) =
          [gluon_constraints |-> cut.gluon_constraints \cup renamed,
           gluon_pair_index  |-> P!index_gluons(cut.gluon_pair_index, renamed),
           collision_events  |-> events]
      BY <1>1 DEF P!notify_particle_swap
<1> HIDE DEF cut, renamed, events
<1> QED BY <1>1, <1>6, <1>7, <1>8, IndexGluonsExact

LEMMA CoherentPhysicsExact ==
    ASSUME Safe, PairExact(physics), NEW slot \in DOMAIN particles
    PROVE  PairExact(coherent_physics(slot, Len(particles)))
<1> DEFINE n == Len(particles)
           gs == {g \in physics.gluon_constraints : slot \in P!Ends(g)}
           cut == P!remove_gluons_for_particle(physics, slot)
<1>1. n \in Nat /\ slot \in Nat /\ IsPhysics(physics) /\ Names(physics, n)
      BY DEF Safe, TypeOK, IndicesLive, Names
<1>2. PairExact(P!drop_gluons(physics, gs))
      BY DropGluonsExact
<1>3. PairExact(cut)
      BY <1>2 DEF P!remove_gluons_for_particle, P!with_events, PairExact
<1>4. IsPhysics(cut) /\ \A g \in cut.gluon_constraints : slot \notin P!Ends(g)
      BY <1>1, RemoveGluonsSafe
<1> HIDE DEF cut
<1> QED BY <1>1, <1>3, <1>4, NotifySwapExact DEF coherent_physics, cut

LEMMA AddGluonExact ==
    ASSUME PairExact(physics), NEW id \in GluonIds, NEW a \in Slots, NEW b \in Slots,
           add_gluon_between(id, a, b)
    PROVE  PairExact(physics')
<1> DEFINE g == [id |-> id, particle_a |-> a, particle_b |-> b]
<1>1. P!Ends(g) = {a, b} /\ g.id = id
      BY DEF P!Ends
<1>2. \A h \in physics.gluon_constraints : P!Ends(g) # P!Ends(h) /\ g.id # h.id
      BY <1>1 DEF add_gluon_between, PairExact
<1>3. physics' = [gluon_constraints |-> physics.gluon_constraints \cup {g},
                  gluon_pair_index  |-> P!index_gluons(physics.gluon_pair_index, {g}),
                  collision_events  |-> physics.collision_events]
      BY DEF add_gluon_between, P!add_gluon_between
<1> HIDE DEF g
<1> QED BY <1>2, <1>3, IndexGluonsExact

LEMMA PhysicsUpdateExact ==
    ASSUME PairExact(physics), physics_update
    PROVE  PairExact(physics')
<1> DEFINE pruned == P!prune_invalid_gluons(physics, Len(particles))
<1>1. PairExact(pruned)
      BY DropGluonsExact DEF P!prune_invalid_gluons
<1>2. PICK events \in EventSets, torn \in SUBSET pruned.gluon_constraints :
          physics' = P!with_events(P!drop_gluons(pruned, torn), events)
      BY DEF physics_update
<1> HIDE DEF pruned
<1>3. PairExact(P!drop_gluons(pruned, torn))
      BY <1>1, DropGluonsExact
<1> QED BY <1>2, <1>3 DEF P!with_events, PairExact

LEMMA NextPairs == Safe /\ PairExact(physics) /\ [Next]_vars => PairExact(physics')
<1> SUFFICES ASSUME Safe, PairExact(physics), [Next]_vars PROVE PairExact(physics')
    OBVIOUS
<1>1. CASE UNCHANGED physics
      BY <1>1
<1>2. ASSUME NEW slot, NEW queue, remove_particle_unlocked(slot, queue)
      PROVE  PairExact(physics')
      BY <1>2, CoherentPhysicsExact DEF remove_particle_unlocked
<1>3. ASSUME NEW id \in GluonIds, NEW a \in Slots, NEW b \in Slots,
             add_gluon_between(id, a, b)
      PROVE  PairExact(physics')
      BY <1>3, AddGluonExact
<1>4. CASE physics_update
      BY <1>4, PhysicsUpdateExact
<1>6. ASSUME NEW anchor \in Slots, unregister_humanoid(anchor)
      PROVE  PairExact(physics')
    <2>1. physics' = P!remove_gluons_for_particle(physics, anchor)
          BY <1>6 DEF unregister_humanoid
    <2> QED BY <2>1, DropGluonsExact DEF P!remove_gluons_for_particle, P!with_events, PairExact
<1>5. \/ UNCHANGED physics
      \/ \E slot \in Slots : remove_particle(slot)
      \/ \E anchor \in Slots : unregister_humanoid(anchor)
      \/ flush_one_deletion
      \/ \E id \in GluonIds, a, b \in Slots : add_gluon_between(id, a, b)
      \/ physics_update
      BY DEF Next, vars, add_particle, load_particle, queue_particle_addition,
             flush_pending_particles, flush_one_addition, additions_flushed,
             queue_particle_deletion, deletions_flushed, engine_update, engine_render,
             cache_particle_id, destroy_kg_particle
<1> QED BY <1>1, <1>2, <1>3, <1>4, <1>5, <1>6 DEF remove_particle, flush_one_deletion

\* The pair index and the bond list describe the same bonds after any sequence of
\* bondings, tears, prunings and swap-and-pops, for any number of bonds: a lookup
\* never serves a dead or a different bond, and no pair is indexed twice.
THEOREM PairIndexIsExact == Spec => []PairIndexExact
<1>1. PairExact(physics) <=> PairIndexExact
      BY DEF PairExact, PairIndexExact
<1>2. Init => PairIndexExact
      BY DEF Init, NothingBorn, PairIndexExact, P!EmptyPhysics
<1>3. Safe /\ PairIndexExact /\ [Next]_vars => PairIndexExact'
      BY <1>1, NextPairs DEF PairExact, PairIndexExact
<1> QED BY <1>2, <1>3, SafeAlways, PTL DEF Spec

-----------------------------------------------------------------------------
\* The KG render map

\* RenderMapsInverse for any map over n slots.
TwoWay(map, n) ==
    /\ \A k \in DOMAIN map.kg_to_render :
          map.kg_to_render[k] # INVALID_RENDER_INDEX =>
              /\ map.kg_to_render[k] \in 1 .. n
              /\ map.kg_to_render[k] \in DOMAIN map.render_to_kg
              /\ map.render_to_kg[map.kg_to_render[k]] = k
    /\ \A slot \in DOMAIN map.render_to_kg \ {INVALID_RENDER_INDEX} :
          /\ map.render_to_kg[slot] \in DOMAIN map.kg_to_render
          /\ map.kg_to_render[map.render_to_kg[slot]] = slot

\* A method builds its result from two maps: enough to look at them.
TwoWayMaps(f, r, n) ==
    /\ \A k \in DOMAIN f :
          f[k] # INVALID_RENDER_INDEX =>
              f[k] \in 1 .. n /\ f[k] \in DOMAIN r /\ r[f[k]] = k
    /\ \A slot \in DOMAIN r \ {INVALID_RENDER_INDEX} :
          r[slot] \in DOMAIN f /\ f[r[slot]] = slot

LEMMA InverseOfMaps ==
    ASSUME NEW f, NEW r, NEW n
    PROVE  TwoWay([kg_to_render |-> f, render_to_kg |-> r], n) <=> TwoWayMaps(f, r, n)
BY DEF TwoWay, TwoWayMaps

LEMMA InverseAsMaps ==
    ASSUME NEW map, NEW n
    PROVE  TwoWay(map, n) <=> TwoWayMaps(map.kg_to_render, map.render_to_kg, n)
BY DEF TwoWay, TwoWayMaps

LEMMA EraseInverse ==
    ASSUME NEW map, NEW n \in Nat, TwoWay(map, n), NEW slot \in 1 .. n
    PROVE  /\ TwoWay(eraseRenderIndexMappings(map, slot), n)
           /\ slot \notin DOMAIN eraseRenderIndexMappings(map, slot).render_to_kg
<1> DEFINE f == map.kg_to_render
           r == map.render_to_kg
<1>1. CASE slot \notin DOMAIN r
      BY <1>1 DEF eraseRenderIndexMappings
<1>2. CASE slot \in DOMAIN r
    <2> DEFINE f2 == Without(f, r[slot])
               r2 == Without(r, slot)
    <2>1. r[slot] \in DOMAIN f /\ f[r[slot]] = slot
          BY <1>2 DEF TwoWay, INVALID_RENDER_INDEX
    <2>2. /\ DOMAIN f2 = DOMAIN f \ {r[slot]}
          /\ \A k \in DOMAIN f2 : f2[k] = f[k]
          /\ DOMAIN r2 = DOMAIN r \ {slot}
          /\ \A x \in DOMAIN r2 : r2[x] = r[x]
          BY WithoutLookup
    <2> HIDE DEF f2, r2
    <2>3. TwoWayMaps(f2, r2, n)
          BY <2>1, <2>2 DEF TwoWay, TwoWayMaps
    <2>4. eraseRenderIndexMappings(map, slot) = [kg_to_render |-> f2, render_to_kg |-> r2]
          BY <1>2 DEF eraseRenderIndexMappings, f2, r2
    <2> QED BY <2>2, <2>3, <2>4, InverseOfMaps
<1> QED BY <1>1, <1>2

\* Without an entry for the last slot, the map is one over the slots before it.
LEMMA ShrinkInverse ==
    ASSUME NEW map, NEW n \in Nat \ {0}, TwoWay(map, n), n \notin DOMAIN map.render_to_kg
    PROVE  TwoWay(map, n - 1)
BY DEF TwoWay

LEMMA SwapInverse ==
    ASSUME NEW map, NEW n \in Nat \ {0}, TwoWay(map, n), NEW slot \in 1 .. n - 1,
           slot \notin DOMAIN map.render_to_kg
    PROVE  TwoWay(notifyParticleSwap(map, n, slot), n - 1)
<1> DEFINE f == map.kg_to_render
           r == map.render_to_kg
<1>1. CASE n \notin DOMAIN r
      BY <1>1, ShrinkInverse DEF notifyParticleSwap
<1>2. CASE n \in DOMAIN r
    <2> DEFINE k == r[n]
               f2 == Put(f, k, slot)
               cut == Without(r, n)
               r2 == Put(cut, slot, k)
    <2>1. k \in DOMAIN f /\ f[k] = n
          BY <1>2 DEF TwoWay, INVALID_RENDER_INDEX
    <2>2. /\ DOMAIN f2 = DOMAIN f
          /\ f2[k] = slot
          /\ \A x \in DOMAIN f \ {k} : f2[x] = f[x]
          BY <2>1 DEF Put
    <2>3. /\ DOMAIN cut = DOMAIN r \ {n}
          /\ \A x \in DOMAIN cut : cut[x] = r[x]
          BY WithoutLookup
    <2> HIDE DEF cut
    <2>4. /\ DOMAIN r2 = (DOMAIN r \ {n}) \cup {slot}
          /\ r2[slot] = k
          /\ \A x \in DOMAIN r \ {n, slot} : r2[x] = r[x]
          BY <2>3 DEF Put
    <2> HIDE DEF f2, r2, k
    <2>5. ASSUME NEW x \in DOMAIN f2, f2[x] # INVALID_RENDER_INDEX
          PROVE  f2[x] \in 1 .. n - 1 /\ f2[x] \in DOMAIN r2 /\ r2[f2[x]] = x
        <3>1. CASE x = k
              BY <2>2, <2>4, <3>1
        <3>2. CASE x # k
            <4>1. /\ f2[x] = f[x] /\ f[x] \in 1 .. n
                  /\ f[x] \in DOMAIN r /\ r[f[x]] = x
                  BY <2>2, <2>5, <3>2 DEF TwoWay
            <4>2. f[x] # n /\ f[x] # slot
                  BY <3>2, <4>1 DEF k
            <4> QED BY <2>4, <4>1, <4>2
        <3> QED BY <3>1, <3>2
    <2>6. ASSUME NEW x \in DOMAIN r2 \ {INVALID_RENDER_INDEX}
          PROVE  r2[x] \in DOMAIN f2 /\ f2[r2[x]] = x
        <3>1. CASE x = slot
              BY <2>1, <2>2, <2>4, <3>1
        <3>2. CASE x # slot
            <4>1. x \in DOMAIN r /\ x # n /\ r2[x] = r[x]
                  BY <2>4, <3>2
            <4>2. r[x] \in DOMAIN f /\ f[r[x]] = x
                  BY <4>1 DEF TwoWay
            <4> QED BY <2>1, <2>2, <4>1, <4>2
        <3> QED BY <3>1, <3>2
    <2>7. TwoWayMaps(f2, r2, n - 1)
          BY <2>5, <2>6 DEF TwoWayMaps
    <2>8. notifyParticleSwap(map, n, slot) = [kg_to_render |-> f2, render_to_kg |-> r2]
          BY <1>2 DEF notifyParticleSwap, f2, r2, cut, k
    <2> QED BY <2>7, <2>8, InverseOfMaps
<1> QED BY <1>1, <1>2

LEMMA CoherentKGInverse ==
    ASSUME NEW n \in Nat \ {0}, TwoWay(kg, n), NEW slot \in 1 .. n
    PROVE  TwoWay(coherent_kg(slot, n), n - 1)
<1> DEFINE cut == eraseRenderIndexMappings(kg, slot)
<1>1. TwoWay(cut, n) /\ slot \notin DOMAIN cut.render_to_kg
      BY EraseInverse
<1> HIDE DEF cut
<1>2. CASE slot = n
      BY <1>1, <1>2, ShrinkInverse DEF coherent_kg, cut
<1>3. CASE slot # n
      BY <1>1, <1>3, SwapInverse DEF coherent_kg, cut
<1> QED BY <1>2, <1>3

\* A fresh id bound to the next slot, or to none.
LEMMA CreateInverse ==
    ASSUME NEW map, NEW n \in Nat, TwoWay(map, n), NEW k,
           k \notin DOMAIN map.kg_to_render,
           \A x \in DOMAIN map.render_to_kg : map.render_to_kg[x] # k
    PROVE  /\ TwoWay(createKGParticle(map, k, n + 1), n + 1)
           /\ TwoWay(createKGParticle(map, k, INVALID_RENDER_INDEX), n)
<1> DEFINE f == map.kg_to_render
           r == map.render_to_kg
<1>1. ASSUME NEW m \in {n, n + 1}, NEW slot, slot = INVALID_RENDER_INDEX \/ slot = m,
             m = n + 1 \/ slot = INVALID_RENDER_INDEX
      PROVE  TwoWay(createKGParticle(map, k, slot), m)
    <2> DEFINE f2 == Put(f, k, slot)
               r2 == Put(r, slot, k)
    <2>1. /\ DOMAIN f2 = DOMAIN f \cup {k} /\ f2[k] = slot
          /\ \A x \in DOMAIN f : f2[x] = f[x]
          BY DEF Put
    <2>2. /\ DOMAIN r2 = DOMAIN r \cup {slot} /\ r2[slot] = k
          /\ \A x \in DOMAIN r \ {slot} : r2[x] = r[x]
          BY DEF Put
    <2> HIDE DEF f2, r2
    <2>3. \A x \in DOMAIN f : f[x] # INVALID_RENDER_INDEX =>
              f[x] \in 1 .. m /\ f[x] \in DOMAIN r /\ f[x] # slot
          BY <1>1 DEF TwoWay, INVALID_RENDER_INDEX
    <2>4. \A x \in DOMAIN r \ {INVALID_RENDER_INDEX} : r[x] \in DOMAIN f /\ x # slot
          BY <1>1, <2>3 DEF TwoWay
    <2>5. TwoWayMaps(f2, r2, m)
          BY <1>1, <2>1, <2>2, <2>3, <2>4 DEF TwoWay, TwoWayMaps, INVALID_RENDER_INDEX
    <2> QED BY <2>5, InverseOfMaps DEF createKGParticle, f2, r2
<1> QED BY <1>1

LEMMA DestroyInverse ==
    ASSUME NEW map, NEW n \in Nat, TwoWay(map, n), NEW k \in DOMAIN map.kg_to_render
    PROVE  TwoWay(destroyKGParticle(map, k), n)
<1> DEFINE f == map.kg_to_render
           r == map.render_to_kg
           f2 == Without(f, k)
           r2 == Without(r, f[k])
<1>1. /\ DOMAIN f2 = DOMAIN f \ {k} /\ \A x \in DOMAIN f2 : f2[x] = f[x]
      /\ DOMAIN r2 = DOMAIN r \ {f[k]} /\ \A x \in DOMAIN r2 : r2[x] = r[x]
      BY WithoutLookup
<1> HIDE DEF f2, r2
<1>2. TwoWayMaps(f2, r2, n)
      BY <1>1 DEF TwoWay, TwoWayMaps
<1> QED BY <1>2, InverseOfMaps DEF destroyKGParticle, f2, r2

LEMMA NextInverse ==
    Safe /\ TwoWay(kg, Len(particles)) /\ [Next]_vars => TwoWay(kg', Len(particles'))
<1> DEFINE n == Len(particles)
           Goal == TwoWay(kg', Len(particles'))
<1> SUFFICES ASSUME Safe, TwoWay(kg, n), [Next]_vars PROVE Goal
    OBVIOUS
<1>1. particles \in Seq(Particles) /\ n \in Nat /\ DOMAIN particles = 1 .. n
      BY DEF Safe, TypeOK
<1>2. CASE UNCHANGED <<particles, kg>>
      BY <1>2
<1>3. ASSUME NEW p \in Particles, Born(p) PROVE Len(particles') = n + 1
      BY <1>1, <1>3, AppendProperties DEF Born
<1>4. ASSUME NEW p \in Particles, Born(p), kg' = kg PROVE Goal
      BY <1>1, <1>3, <1>4 DEF TwoWay
<1>5. ASSUME NEW p \in Particles, NEW k \in KGIds, load_particle(p, k) PROVE Goal
    <2>1. /\ TwoWay(createKGParticle(kg, k, n + 1), n + 1)
          /\ TwoWay(createKGParticle(kg, k, INVALID_RENDER_INDEX), n)
          BY <1>1, <1>5, CreateInverse DEF load_particle
    <2> QED BY <1>3, <1>5, <2>1 DEF load_particle, Refused
<1>6. CASE flush_one_addition
    <2>1. Head(pending_particles) \in Particles
          BY <1>6, NonEmptyTail DEF Safe, TypeOK, flush_one_addition
    <2> QED BY <1>2, <1>4, <1>6, <2>1 DEF flush_one_addition, Refused
<1>7. ASSUME NEW slot, NEW queue, remove_particle_unlocked(slot, queue) PROVE Goal
    <2>1. CASE slot \notin DOMAIN particles
          BY <1>7, <2>1 DEF remove_particle_unlocked
    <2>2. CASE slot \in DOMAIN particles
        <3>1. Len(particles') = n - 1 /\ n \in Nat \ {0}
              BY <1>1, <1>7, <2>2, SwapAndPop DEF remove_particle_unlocked
        <3>2. kg' = coherent_kg(slot, n)
              BY <1>7, <2>2 DEF remove_particle_unlocked
        <3> QED BY <1>1, <2>2, <3>1, <3>2, CoherentKGInverse
    <2> QED BY <2>1, <2>2
<1>8. ASSUME NEW k \in KGIds, destroy_kg_particle(k) PROVE Goal
      BY <1>1, <1>8, DestroyInverse DEF destroy_kg_particle
<1>9. \/ UNCHANGED <<particles, kg>>
      \/ \E p \in Particles : add_particle(p)
      \/ \E p \in Particles, k \in KGIds : load_particle(p, k)
      \/ flush_one_addition
      \/ \E slot \in Slots : remove_particle(slot)
      \/ flush_one_deletion
      \/ \E k \in KGIds : destroy_kg_particle(k)
      BY DEF Next, vars, queue_particle_addition, flush_pending_particles,
             additions_flushed, queue_particle_deletion, unregister_humanoid, deletions_flushed,
             engine_update, engine_render, add_gluon_between, physics_update,
             cache_particle_id
<1> QED BY <1>2, <1>4, <1>5, <1>6, <1>7, <1>8, <1>9
        DEF add_particle, remove_particle, flush_one_deletion

\* A KG id and the slot it is drawn from find each other in both directions, and
\* no id is bound past the end of the vector, after any sequence of loads,
\* destructions and swap-and-pops.
THEOREM RenderMapsAreInverse == Spec => []RenderMapsInverse
<1> DEFINE Linked == TwoWay(kg, Len(particles))
<1>1. Init => Linked
      BY DEF Init, NothingBorn, TwoWay, EmptyKG, EmptyMap
<1>2. Safe /\ Linked /\ [Next]_vars => Linked'
      BY NextInverse
<1>3. Safe /\ Linked => RenderMapsInverse
      BY DEF Safe, TypeOK, TwoWay, RenderMapsInverse
<1> HIDE DEF Linked
<1> QED BY <1>1, <1>2, <1>3, SafeAlways, PTL DEF Spec

-----------------------------------------------------------------------------
\* Cached ids

\* No body is twice in the vector, twice in the addition queue, or in both.
Distinct ==
    /\ \A i, j \in DOMAIN particles : particles[i] = particles[j] => i = j
    /\ \A i, j \in DOMAIN pending_particles :
          pending_particles[i] = pending_particles[j] => i = j
    /\ \A i \in DOMAIN particles, j \in DOMAIN pending_particles :
          particles[i] # pending_particles[j]

LEMMA BornDistinct ==
    ASSUME Safe, Distinct, NEW p \in Particles, Born(p), p \notin Live
    PROVE  /\ \A i, j \in DOMAIN particles' : particles'[i] = particles'[j] => i = j
           /\ \A i \in DOMAIN particles' : particles'[i] = p \/ particles'[i] \in Live
           /\ \A i \in DOMAIN particles :
                 i \in DOMAIN particles' /\ particles'[i] = particles[i]
<1> DEFINE n == Len(particles)
<1>1. particles \in Seq(Particles) /\ n \in Nat /\ DOMAIN particles = 1 .. n
      BY DEF Safe, TypeOK
<1>2. /\ DOMAIN particles' = 1 .. n + 1
      /\ \A i \in 1 .. n : particles'[i] = particles[i]
      /\ particles'[n + 1] = p
      BY <1>1, AppendProperties DEF Born
<1>3. \A i \in 1 .. n : particles[i] # p
      BY <1>1 DEF Live
<1>4. \A i \in 1 .. n + 1 : i \in 1 .. n \/ i = n + 1
      BY <1>1
<1>5. \A i \in 1 .. n : i \in 1 .. n + 1
      BY <1>1
<1> QED BY <1>1, <1>2, <1>3, <1>4, <1>5 DEF Distinct, Live

LEMMA RemoveDistinct ==
    ASSUME Safe, Distinct, NEW slot, NEW queue, remove_particle_unlocked(slot, queue),
           UNCHANGED pending_particles
    PROVE  Distinct'
<1> DEFINE n == Len(particles)
<1>1. particles \in Seq(Particles) /\ n \in Nat /\ DOMAIN particles = 1 .. n
      BY DEF Safe, TypeOK
<1>2. CASE slot \notin DOMAIN particles
      BY <1>2 DEF remove_particle_unlocked, Distinct
<1>3. CASE slot \in DOMAIN particles
    <2>1. /\ DOMAIN particles' = 1 .. n - 1
          /\ \A i \in 1 .. n - 1 :
                particles'[i] = IF i = slot THEN particles[n] ELSE particles[i]
          BY <1>1, <1>3, SwapAndPop DEF remove_particle_unlocked
    <2>2. n \in Nat
          BY <1>1
    <2>3. \A i \in 1 .. n - 1 : i \in 1 .. n /\ i # n
          BY <2>2
    <2>4. n \in 1 .. n
          BY <1>1, <1>3
    <2> DEFINE From(i) == IF i = slot THEN n ELSE i
    <2>5. \A i \in 1 .. n - 1 : From(i) \in 1 .. n /\ particles'[i] = particles[From(i)]
          BY <2>1, <2>3, <2>4
    <2>6. \A i, j \in 1 .. n - 1 : From(i) = From(j) => i = j
          BY <2>3
    <2> HIDE DEF From
    <2> QED BY <1>1, <2>1, <2>5, <2>6 DEF Distinct
<1> QED BY <1>2, <1>3

LEMMA TailAt ==
    ASSUME NEW s \in Seq(Particles), s # <<>>
    PROVE  /\ \A i \in DOMAIN Tail(s) : i + 1 \in DOMAIN s /\ Tail(s)[i] = s[i + 1]
           /\ 1 \in DOMAIN s /\ Head(s) = s[1]
           /\ \A i \in DOMAIN Tail(s) : i \in Nat /\ i + 1 # 1
BY HeadTailProperties

LEMMA NextDistinct == Safe /\ Distinct /\ [Next]_vars => Distinct'
<1> SUFFICES ASSUME Safe, Distinct, [Next]_vars PROVE Distinct'
    OBVIOUS
<1>1. CASE UNCHANGED <<particles, pending_particles>>
      BY <1>1 DEF Distinct
<1>2. ASSUME NEW p \in Particles, Unborn(p), Born(p), UNCHANGED pending_particles
      PROVE  Distinct'
      BY <1>2, BornDistinct DEF Distinct, Unborn, Live, Waiting
<1>3. ASSUME NEW p \in Particles, queue_particle_addition(p) PROVE Distinct'
    <2> DEFINE n == Len(pending_particles)
    <2>1. /\ pending_particles \in Seq(Particles) /\ n \in Nat
          /\ DOMAIN pending_particles = 1 .. n
          BY DEF Safe, TypeOK
    <2>2. /\ DOMAIN pending_particles' = 1 .. n + 1
          /\ \A i \in 1 .. n : pending_particles'[i] = pending_particles[i]
          /\ pending_particles'[n + 1] = p
          BY <1>3, <2>1, AppendProperties DEF queue_particle_addition
    <2>3. \A i \in 1 .. n + 1 : i \in 1 .. n \/ i = n + 1
          BY <2>1
    <2>4. /\ \A i \in DOMAIN particles : particles[i] # p
          /\ \A i \in 1 .. n : pending_particles[i] # p
          /\ particles' = particles
          BY <1>3, <2>1 DEF queue_particle_addition, Unborn, Live, Waiting
    <2> QED BY <2>1, <2>2, <2>3, <2>4 DEF Distinct
<1>4. CASE flush_one_addition
    <2> DEFINE p == Head(pending_particles)
    <2>1. /\ pending_particles \in Seq(Particles) /\ pending_particles # <<>>
          /\ pending_particles' = Tail(pending_particles)
          BY <1>4 DEF flush_one_addition, Safe, TypeOK
    <2>2. /\ p \in Particles /\ p \notin Live
          /\ \A i \in DOMAIN pending_particles' :
                /\ pending_particles'[i] # p
                /\ \A j \in DOMAIN particles : pending_particles'[i] # particles[j]
          BY <2>1, NonEmptyTail, TailAt DEF Distinct, Live
    <2>3. \A i, j \in DOMAIN pending_particles' :
              pending_particles'[i] = pending_particles'[j] => i = j
        <3>1. SUFFICES ASSUME NEW i \in DOMAIN pending_particles',
                              NEW j \in DOMAIN pending_particles',
                              pending_particles'[i] = pending_particles'[j]
                       PROVE  i = j
              OBVIOUS
        <3>2. i + 1 = j + 1 /\ i \in Nat /\ j \in Nat
              BY <2>1, <3>1, TailAt DEF Distinct
        <3> QED BY <3>2
    <2>4. CASE Born(p)
          BY <2>2, <2>3, <2>4, BornDistinct DEF Distinct, Live
    <2>5. CASE Refused
          BY <2>2, <2>3, <2>5 DEF Refused, Distinct
    <2> QED BY <1>4, <2>4, <2>5 DEF flush_one_addition
<1>5. ASSUME NEW slot \in Slots, remove_particle(slot) PROVE Distinct'
      BY <1>5, RemoveDistinct DEF remove_particle
<1>6. CASE flush_one_deletion
      BY <1>6, RemoveDistinct DEF flush_one_deletion
<1>7. \/ UNCHANGED <<particles, pending_particles>>
      \/ \E p \in Particles : Unborn(p) /\ Born(p) /\ UNCHANGED pending_particles
      \/ \E p \in Particles : queue_particle_addition(p)
      \/ flush_one_addition
      \/ \E slot \in Slots : remove_particle(slot)
      \/ flush_one_deletion
      BY DEF Next, vars, add_particle, load_particle, Refused, flush_pending_particles,
             additions_flushed, queue_particle_deletion, unregister_humanoid, deletions_flushed,
             engine_update, engine_render, add_gluon_between, physics_update,
             cache_particle_id, destroy_kg_particle
<1> QED BY <1>1, <1>2, <1>3, <1>4, <1>5, <1>6, <1>7

\* The cached id goes on naming the particle it names.
Follows ==
    \A p \in Particles :
        (/\ cached \in DOMAIN particles
         /\ particles[cached] = p
         /\ \E i \in DOMAIN particles' : particles'[i] = p
         /\ \A slot \in Slots : ~cache_particle_id(slot))
        => (cached' \in DOMAIN particles' /\ particles'[cached'] = p)

LEMMA RemoveFollows ==
    ASSUME Safe, Distinct, NEW slot, NEW queue, remove_particle_unlocked(slot, queue)
    PROVE  Follows
<1> DEFINE n == Len(particles)
<1>1. particles \in Seq(Particles) /\ n \in Nat /\ DOMAIN particles = 1 .. n
      BY DEF Safe, TypeOK
<1>2. CASE slot \notin DOMAIN particles
      BY <1>2 DEF remove_particle_unlocked, Follows
<1>3. CASE slot \in DOMAIN particles
    <2> SUFFICES ASSUME NEW p \in Particles, cached \in DOMAIN particles,
                        particles[cached] = p,
                        NEW i \in DOMAIN particles', particles'[i] = p
                 PROVE  cached' \in DOMAIN particles' /\ particles'[cached'] = p
        BY DEF Follows
    <2>1. /\ DOMAIN particles' = 1 .. n - 1
          /\ \A j \in 1 .. n - 1 :
                particles'[j] = IF j = slot THEN particles[n] ELSE particles[j]
          /\ cached' = coherent_cached(slot, n)
          BY <1>1, <1>3, SwapAndPop DEF remove_particle_unlocked
    <2>2. \A j \in 1 .. n - 1 : j \in 1 .. n /\ j # n
        <3>1. n \in Nat
              BY <1>1
        <3> QED BY <3>1
    <2>3. n \in 1 .. n
          BY <1>1, <1>3
    <2>4. cached # slot
          BY <1>1, <1>3, <2>1, <2>2, <2>3 DEF Distinct
    <2>5. CASE cached = n
        <3>1. cached' = slot /\ slot \in 1 .. n - 1
              BY <1>1, <1>3, <2>1, <2>4, <2>5 DEF coherent_cached
        <3> QED BY <2>1, <2>5, <3>1
    <2>6. CASE cached # n
        <3>1. cached' = cached /\ cached \in 1 .. n - 1
              BY <1>1, <2>1, <2>6 DEF coherent_cached
        <3> QED BY <2>1, <2>4, <3>1
    <2> QED BY <2>5, <2>6
<1> QED BY <1>2, <1>3

LEMMA NextFollows == Safe /\ Distinct /\ [Next]_vars => Follows
<1> SUFFICES ASSUME Safe, Distinct, [Next]_vars PROVE Follows
    OBVIOUS
<1>1. CASE UNCHANGED <<particles, cached>>
      BY <1>1 DEF Follows
<1>2. ASSUME NEW p \in Particles, Born(p), p \notin Live, UNCHANGED cached
      PROVE  Follows
      BY <1>2, BornDistinct DEF Follows
<1>3. CASE flush_one_addition
    <2>1. /\ Head(pending_particles) \in Particles
          /\ Head(pending_particles) \notin Live
          BY <1>3, NonEmptyTail, TailAt DEF flush_one_addition, Safe, TypeOK, Distinct, Live
    <2> QED BY <1>1, <1>2, <1>3, <2>1 DEF flush_one_addition, Refused
<1>4. ASSUME NEW slot \in Slots, remove_particle(slot) PROVE Follows
      BY <1>4, RemoveFollows DEF remove_particle
<1>5. CASE flush_one_deletion
      BY <1>5, RemoveFollows DEF flush_one_deletion
<1>6. ASSUME NEW slot \in Slots, cache_particle_id(slot) PROVE Follows
      BY <1>6 DEF Follows
<1>7. \/ UNCHANGED <<particles, cached>>
      \/ \E p \in Particles : p \notin Live /\ Born(p) /\ UNCHANGED cached
      \/ flush_one_addition
      \/ \E slot \in Slots : remove_particle(slot)
      \/ flush_one_deletion
      \/ \E slot \in Slots : cache_particle_id(slot)
      BY DEF Next, vars, add_particle, load_particle, Unborn, Refused,
             queue_particle_addition, flush_pending_particles, additions_flushed,
             queue_particle_deletion, unregister_humanoid, deletions_flushed, engine_update, engine_render,
             add_gluon_between, physics_update, destroy_kg_particle
<1> QED BY <1>1, <1>2, <1>3, <1>4, <1>5, <1>6, <1>7

\* An id the dynamics cached follows its particle through every swap-and-pop for as
\* long as the particle lives.
THEOREM CachedIdsFollow == Spec => CachedIdFollows
<1>1. Init => Distinct
      BY DEF Init, NothingBorn, Distinct
<1>2. Safe /\ Distinct /\ [Next]_vars => [Follows]_vars
      BY NextFollows
<1>3. Spec => [][Follows]_vars
      BY <1>1, <1>2, NextDistinct, SafeAlways, PTL DEF Spec
<1> QED BY <1>3 DEF CachedIdFollows, Follows
=============================================================================
