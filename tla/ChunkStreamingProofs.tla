----------------------- MODULE ChunkStreamingProofs -----------------------
(* Through every order of loads, unloads, reloads and swaps, for any set of *)
(* chunks and bodies: no index goes stale, and no KG id is bound to a body  *)
(* of another entity.                                                       *)
EXTENDS ChunkStreaming, ParticleStoreProofs

-----------------------------------------------------------------------------
\* Shapes

LEMMA UpdateKGType ==
    ASSUME NEW map, IsKG(map), NEW k \in KGIds, NEW slot \in Nat
    PROVE  IsKG(updateRenderIndex(map, k, slot))
<1>1. CASE k \notin DOMAIN map.kg_to_render
      BY <1>1 DEF updateRenderIndex
<1>2. CASE k \in DOMAIN map.kg_to_render
    <2>1. IsMap(Put(map.kg_to_render, k, slot), KGIds, Nat)
          BY PutIsMap DEF IsKG
    <2>2. IsMap(Without(map.render_to_kg, map.kg_to_render[k]), Nat, KGIds)
          BY WithoutIsMap DEF IsKG
    <2>3. IsMap(Put(Without(map.render_to_kg, map.kg_to_render[k]), slot, k), Nat, KGIds)
          BY <2>2, PutIsMap
    <2> QED BY <1>2, <2>1, <2>3, KGFromMaps DEF updateRenderIndex
<1> QED BY <1>1, <1>2

LEMMA UnloadKGType ==
    ASSUME NEW map, IsKG(map), NEW ks \in SUBSET KGIds
    PROVE  IsKG(unloadEntity(map, ks))
<1> DEFINE f == [k \in DOMAIN map.kg_to_render \cup ks |->
                    IF k \in ks THEN INVALID_RENDER_INDEX ELSE map.kg_to_render[k]]
<1>1. IsMap(f, KGIds, Nat)
      BY DEF IsKG, IsMap, INVALID_RENDER_INDEX
<1>2. IsMap(map.render_to_kg, Nat, KGIds)
      BY DEF IsKG
<1> QED BY <1>1, <1>2, KGFromMaps DEF unloadEntity

LEMMA StreamingInitSafe == StreamingInit => Safe
<1> SUFFICES ASSUME StreamingInit PROVE Safe
    OBVIOUS
<1>1. PICK last \in KGIds :
          kg = [kg_to_render |-> [k \in KGIds |-> INVALID_RENDER_INDEX],
                render_to_kg |-> Put(EmptyMap, INVALID_RENDER_INDEX, last)]
      BY DEF StreamingInit
<1>2. IsKG(kg)
    <2>1. IsMap([k \in KGIds |-> INVALID_RENDER_INDEX], KGIds, Nat)
          BY DEF IsMap, INVALID_RENDER_INDEX
    <2>2. IsMap(EmptyMap, Nat, KGIds)
          BY DEF IsMap, EmptyMap
    <2>3. IsMap(Put(EmptyMap, INVALID_RENDER_INDEX, last), Nat, KGIds)
          BY <2>2, PutIsMap DEF INVALID_RENDER_INDEX
    <2> QED BY <1>1, <2>1, <2>3, KGFromMaps
<1> USE DEF StreamingInit, NothingBorn
<1>3. IsPhysics(physics)
      BY DEF IsPhysics, P!EmptyPhysics
<1>4. particles \in Seq(Particles) /\ pending_particles \in Seq(Particles)
      BY EmptySeq
<1>5. has_rendered \in BOOLEAN
      BY Zenon
<1>6. TypeOK
      BY <1>2, <1>3, <1>4, <1>5 DEF TypeOK
<1>7. IndicesLive
      BY DEF IndicesLive, P!EmptyPhysics
<1> QED BY <1>6, <1>7 DEF Safe

LEMMA MaterialiseSafe ==
    ASSUME Safe, NEW c \in Entities, NEW result, materialise(c, result)
    PROVE  Safe'
<1>1. KGOf[c] \in KGIds
      BY KGOfAssumption
<1>2. CASE result = "body" /\ add_prepared(c)
    <2>1. ASSUME NEW p \in Particles, Born(p),
                 kg' = updateRenderIndex(kg, KGOf[c], Len(particles) + 1)
          PROVE  Safe'
        <3>1. IsKG(kg')
              BY <1>1, <2>1, BornSafe, UpdateKGType DEF Safe, TypeOK
        <3>2. TypeOK'
              BY <2>1, <3>1, BornSafe DEF materialise, Safe, TypeOK
        <3>3. IndicesLive'
              BY <2>1, BornSafe, GrowSafe DEF materialise, Safe
        <3> QED BY <3>2, <3>3 DEF Safe
    <2>2. ASSUME Refused, kg' = updateRenderIndex(kg, KGOf[c], INVALID_RENDER_INDEX)
          PROVE  Safe'
        <3>1. IsKG(kg')
              BY <1>1, <2>2, UpdateKGType DEF Safe, TypeOK, INVALID_RENDER_INDEX
        <3> QED BY <2>2, <3>1 DEF materialise, Refused, Safe, TypeOK, IndicesLive
    <2> QED BY <1>2, <2>1, <2>2 DEF add_prepared
<1>3. CASE result # "body" /\ UNCHANGED <<particles, entity_particle_indices, kg>>
      BY <1>3 DEF materialise, Safe, TypeOK, IndicesLive
<1> QED BY <1>2, <1>3 DEF materialise

LEMMA UnloadSafe ==
    ASSUME Safe, NEW gone \in SUBSET Entities, unload(gone)
    PROVE  Safe'
<1> DEFINE ks == {KGOf[c] : c \in gone}
           slots == unloadedSlots(kg, ks) \cap DOMAIN particles
           n == Cardinality(slots)
<1>1. PICK order \in [1 .. n -> slots], first \in 1 .. MaxDeletions + 1 :
          pending_deletions' = pending_deletions \cup
              {[ticket |-> first + i - 1, particle_index |-> order[i],
                frames_left |-> FRAMES_IN_FLIGHT] : i \in 1 .. n}
      BY DEF unload
<1>2. ks \in SUBSET KGIds
      BY KGOfAssumption
<1>3. particles \in Seq(Particles) /\ DOMAIN particles \subseteq Nat
      BY DEF Safe, TypeOK
<1>4. ASSUME NEW d \in pending_deletions' \ pending_deletions
      PROVE  d \in Deletions /\ d.particle_index \in DOMAIN particles
    <2>1. PICK i \in 1 .. n :
              d = [ticket |-> first + i - 1, particle_index |-> order[i],
                   frames_left |-> FRAMES_IN_FLIGHT]
          BY <1>1, <1>4
    <2>2. order[i] \in DOMAIN particles
          OBVIOUS
    <2>3. first \in Nat \ {0} /\ i \in Nat
          BY BoundsAssumption
    <2>4. first + i - 1 \in Nat
          BY <2>3
    <2> QED BY <1>3, <2>1, <2>2, <2>4, FramesAssumption DEF Deletions
<1>5. IsKG(kg')
      BY <1>2, UnloadKGType DEF unload, Safe, TypeOK
<1>6. TypeOK'
      BY <1>4, <1>5 DEF unload, Safe, TypeOK, Deletions
<1>7. IndicesLive'
      BY <1>4 DEF unload, Safe, IndicesLive
<1> QED BY <1>6, <1>7 DEF Safe

\* What a step of the streaming does: it leaves the store alone, brings a chunk
\* into being, unloads chunks, or is a step of the frame.
LEMMA StreamingSteps ==
    ASSUME active_chunks \subseteq Entities, [StreamingNext]_all_vars
    PROVE  \/ UNCHANGED vars
           \/ \E c \in Entities, result \in {"body", "empty"} : materialise(c, result)
           \/ \E gone \in SUBSET Entities : unload(gone)
           \/ engine_update \/ engine_render \/ flush_one_deletion \/ deletions_flushed
<1>1. CASE UNCHANGED all_vars
      BY <1>1 DEF all_vars
<1>2. ASSUME NEW c \in Entities, request_load(c) \/ generate(c)
      PROVE  UNCHANGED vars
      BY <1>2 DEF request_load, generate
<1>3. ASSUME NEW c \in Entities, apply_ready_chunk(c) \/ create_chunk(c)
      PROVE  \E result \in {"body", "empty"} : materialise(c, result)
      BY <1>3 DEF apply_ready_chunk, create_chunk, prepared
<1>4. ASSUME NEW c \in Entities, unload_chunk(c)
      PROVE  \E gone \in SUBSET Entities : unload(gone)
      BY <1>4 DEF unload_chunk
<1>5. CASE clear_all_chunks
      BY <1>5 DEF clear_all_chunks
<1>6. CASE FrameStep
      BY <1>6 DEF FrameStep
<1> QED BY <1>1, <1>2, <1>3, <1>4, <1>5, <1>6 DEF StreamingNext

-----------------------------------------------------------------------------
\* What the bindings mean

\* The KG id of the entity whose body is in each slot.
Ids == [slot \in DOMAIN particles |-> KGOf[EntityOf[particles[slot]]]]

\* An id that finds a slot is the one the slot finds, and a slot finds no id but
\* that of its body's entity.  The converse is not true: a slot may find an id
\* that was unbound by an unload, which is what keeps BindingNeverCrosses from
\* being inductive as an equality of the two directions.
Faithful(f, r, ids) ==
    /\ \A k \in DOMAIN f :
          f[k] # INVALID_RENDER_INDEX => f[k] \in DOMAIN r /\ r[f[k]] = k
    /\ \A slot \in DOMAIN r \ {INVALID_RENDER_INDEX} :
          slot \in DOMAIN ids /\ ids[slot] = r[slot]

BindingsFaithful == Faithful(kg.kg_to_render, kg.render_to_kg, Ids)

BindingInv == Safe /\ active_chunks \subseteq Entities /\ BindingsFaithful

\* Births: the vector grows, and the new slot is bound to its own id.
LEMMA GrowFaithful ==
    ASSUME NEW f, NEW r, NEW ids, Faithful(f, r, ids),
           NEW ids2, DOMAIN ids \subseteq DOMAIN ids2,
           \A slot \in DOMAIN ids : ids2[slot] = ids[slot]
    PROVE  Faithful(f, r, ids2)
BY DEF Faithful

LEMMA BindFaithful ==
    ASSUME NEW f, NEW r, NEW ids, Faithful(f, r, ids), NEW k \in DOMAIN f, NEW slot,
           slot = INVALID_RENDER_INDEX
               \/ (slot \notin DOMAIN r /\ slot \in DOMAIN ids /\ ids[slot] = k)
    PROVE  Faithful(Put(f, k, slot), Put(Without(r, f[k]), slot, k), ids)
<1> DEFINE f2 == Put(f, k, slot)
           cut == Without(r, f[k])
           r2 == Put(cut, slot, k)
<1>1. /\ DOMAIN f2 = DOMAIN f
      /\ f2[k] = slot
      /\ \A x \in DOMAIN f \ {k} : f2[x] = f[x]
      BY DEF Put
<1>2. /\ DOMAIN cut = DOMAIN r \ {f[k]}
      /\ \A x \in DOMAIN cut : cut[x] = r[x]
      BY WithoutLookup
<1> HIDE DEF cut
<1>3. /\ DOMAIN r2 = (DOMAIN r \ {f[k]}) \cup {slot}
      /\ r2[slot] = k
      /\ \A x \in DOMAIN r \ {f[k], slot} : r2[x] = r[x]
      BY <1>2 DEF Put
<1> HIDE DEF f2, r2
<1>4. ASSUME NEW x \in DOMAIN f2, f2[x] # INVALID_RENDER_INDEX
      PROVE  f2[x] \in DOMAIN r2 /\ r2[f2[x]] = x
    <2>1. CASE x = k
          BY <1>1, <1>3, <2>1
    <2>2. CASE x # k
        <3>1. f2[x] = f[x] /\ f[x] \in DOMAIN r /\ r[f[x]] = x
              BY <1>1, <1>4, <2>2 DEF Faithful
        <3>2. f[x] # f[k] /\ f[x] # slot
              BY <1>1, <1>4, <2>2, <3>1 DEF Faithful
        <3> QED BY <1>3, <3>1, <3>2
    <2> QED BY <2>1, <2>2
<1>5. ASSUME NEW x \in DOMAIN r2 \ {INVALID_RENDER_INDEX}
      PROVE  x \in DOMAIN ids /\ ids[x] = r2[x]
      BY <1>3, <1>5 DEF Faithful
<1>6. Faithful(f2, r2, ids)
      BY <1>4, <1>5 DEF Faithful
<1> QED BY <1>6 DEF f2, r2, cut

\* Deaths: the dying slot loses its entries, the tail's entry moves.
LEMMA EraseFaithful ==
    ASSUME NEW map, NEW ids, Faithful(map.kg_to_render, map.render_to_kg, ids), NEW slot
    PROVE  LET cut == eraseRenderIndexMappings(map, slot)
           IN  /\ Faithful(cut.kg_to_render, cut.render_to_kg, ids)
               /\ slot \notin DOMAIN cut.render_to_kg
<1> DEFINE f == map.kg_to_render
           r == map.render_to_kg
<1>1. CASE slot \notin DOMAIN r
      BY <1>1 DEF eraseRenderIndexMappings
<1>2. CASE slot \in DOMAIN r
    <2> DEFINE f2 == Without(f, r[slot])
               r2 == Without(r, slot)
    <2>1. /\ DOMAIN f2 = DOMAIN f \ {r[slot]}
          /\ \A k \in DOMAIN f2 : f2[k] = f[k]
          /\ DOMAIN r2 = DOMAIN r \ {slot}
          /\ \A x \in DOMAIN r2 : r2[x] = r[x]
          BY WithoutLookup
    <2> HIDE DEF f2, r2
    <2>2. Faithful(f2, r2, ids)
          BY <2>1 DEF Faithful
    <2>3. eraseRenderIndexMappings(map, slot) = [kg_to_render |-> f2, render_to_kg |-> r2]
          BY <1>2 DEF eraseRenderIndexMappings, f2, r2
    <2> QED BY <2>1, <2>2, <2>3
<1> QED BY <1>1, <1>2

LEMMA SwapFaithful ==
    ASSUME NEW map, NEW ids, Faithful(map.kg_to_render, map.render_to_kg, ids),
           NEW n \in Nat \ {0}, DOMAIN ids = 1 .. n, NEW slot \in 1 .. n - 1,
           slot \notin DOMAIN map.render_to_kg,
           NEW ids2, DOMAIN ids2 = 1 .. n - 1, ids2[slot] = ids[n],
           \A i \in (1 .. n - 1) \ {slot} : ids2[i] = ids[i]
    PROVE  LET after == notifyParticleSwap(map, n, slot)
           IN  Faithful(after.kg_to_render, after.render_to_kg, ids2)
<1> DEFINE f == map.kg_to_render
           r == map.render_to_kg
<1>0. \A x \in DOMAIN r \ {INVALID_RENDER_INDEX, n} :
          x \in 1 .. n - 1 /\ x # slot /\ ids2[x] = r[x]
      BY DEF Faithful
<1>1. CASE n \notin DOMAIN r
      BY <1>0, <1>1 DEF notifyParticleSwap, Faithful
<1>2. CASE n \in DOMAIN r
    <2> DEFINE k == r[n]
               f2 == Put(f, k, slot)
               cut == Without(r, n)
               r2 == Put(cut, slot, k)
    <2>1. ids[n] = k
          BY <1>2 DEF Faithful, INVALID_RENDER_INDEX
    <2>2. /\ DOMAIN f2 = DOMAIN f \cup {k}
          /\ f2[k] = slot
          /\ \A x \in DOMAIN f \ {k} : f2[x] = f[x]
          BY DEF Put
    <2>3. /\ DOMAIN cut = DOMAIN r \ {n}
          /\ \A x \in DOMAIN cut : cut[x] = r[x]
          BY WithoutLookup
    <2> HIDE DEF cut
    <2>4. /\ DOMAIN r2 = (DOMAIN r \ {n}) \cup {slot}
          /\ r2[slot] = k
          /\ \A x \in DOMAIN r \ {n, slot} : r2[x] = r[x]
          BY <2>3 DEF Put
    <2> HIDE DEF f2, r2, k
    <2>5. ASSUME NEW x \in DOMAIN f2, f2[x] # INVALID_RENDER_INDEX
          PROVE  f2[x] \in DOMAIN r2 /\ r2[f2[x]] = x
        <3>1. CASE x = k
              BY <2>2, <2>4, <3>1
        <3>2. CASE x # k
            <4>1. f2[x] = f[x] /\ f[x] \in DOMAIN r /\ r[f[x]] = x
                  BY <2>2, <2>5, <3>2 DEF Faithful
            <4>2. f[x] # n /\ f[x] # slot
                  BY <3>2, <4>1 DEF k
            <4> QED BY <2>4, <4>1, <4>2
        <3> QED BY <3>1, <3>2
    <2>6. ASSUME NEW x \in DOMAIN r2 \ {INVALID_RENDER_INDEX}
          PROVE  x \in DOMAIN ids2 /\ ids2[x] = r2[x]
        <3>1. CASE x = slot
              BY <2>1, <2>4, <3>1
        <3>2. CASE x # slot
              BY <1>0, <2>4, <3>2
        <3> QED BY <3>1, <3>2
    <2>7. Faithful(f2, r2, ids2)
          BY <2>5, <2>6 DEF Faithful
    <2>8. notifyParticleSwap(map, n, slot) = [kg_to_render |-> f2, render_to_kg |-> r2]
          BY <1>2 DEF notifyParticleSwap, f2, r2, cut, k
    <2> QED BY <2>7, <2>8
<1> QED BY <1>1, <1>2

-----------------------------------------------------------------------------
\* BindingInv is inductive

LEMMA BornIds ==
    ASSUME Safe, NEW p \in Particles, Born(p)
    PROVE  /\ DOMAIN Ids = 1 .. Len(particles) /\ Len(particles) \in Nat
           /\ DOMAIN Ids' = 1 .. Len(particles) + 1
           /\ \A slot \in DOMAIN Ids : Ids'[slot] = Ids[slot]
           /\ Ids'[Len(particles) + 1] = KGOf[EntityOf[p]]
<1>1. particles \in Seq(Particles) /\ Len(particles) \in Nat
      BY DEF Safe, TypeOK
<1>2. /\ DOMAIN particles' = 1 .. Len(particles) + 1
      /\ \A i \in 1 .. Len(particles) : particles'[i] = particles[i]
      /\ particles'[Len(particles) + 1] = p
      BY <1>1, AppendProperties DEF Born
<1> QED BY <1>1, <1>2 DEF Ids

LEMMA MaterialiseFaithful ==
    ASSUME Safe, BindingsFaithful, NEW c \in Entities, NEW result, materialise(c, result)
    PROVE  BindingsFaithful'
<1> DEFINE f == kg.kg_to_render
           r == kg.render_to_kg
           k == KGOf[c]
           n == Len(particles)
<1>1. ASSUME NEW p \in Particles, EntityOf[p] = c, Born(p),
             kg' = updateRenderIndex(kg, k, n + 1)
      PROVE  BindingsFaithful'
    <2>1. /\ DOMAIN Ids = 1 .. n /\ n \in Nat
          /\ DOMAIN Ids' = 1 .. n + 1
          /\ \A slot \in DOMAIN Ids : Ids'[slot] = Ids[slot]
          /\ Ids'[n + 1] = k
          BY <1>1, BornIds
    <2>2. Faithful(f, r, Ids')
          BY <2>1, GrowFaithful DEF BindingsFaithful
    <2>3. n + 1 \notin DOMAIN r
          BY <2>1 DEF BindingsFaithful, Faithful, INVALID_RENDER_INDEX
    <2>4. CASE k \notin DOMAIN f
          BY <1>1, <2>2, <2>4 DEF updateRenderIndex, BindingsFaithful
    <2>5. CASE k \in DOMAIN f
        <3>1. Faithful(Put(f, k, n + 1), Put(Without(r, f[k]), n + 1, k), Ids')
              BY <2>1, <2>2, <2>3, <2>5, BindFaithful
        <3> QED BY <1>1, <2>5, <3>1 DEF updateRenderIndex, BindingsFaithful
    <2> QED BY <2>4, <2>5
<1>2. ASSUME Refused, kg' = updateRenderIndex(kg, k, INVALID_RENDER_INDEX)
      PROVE  BindingsFaithful'
    <2>1. Ids' = Ids
          BY <1>2 DEF Refused, Ids
    <2>2. CASE k \notin DOMAIN f
          BY <1>2, <2>1, <2>2 DEF updateRenderIndex, BindingsFaithful
    <2>3. CASE k \in DOMAIN f
        <3>1. Faithful(Put(f, k, INVALID_RENDER_INDEX),
                       Put(Without(r, f[k]), INVALID_RENDER_INDEX, k), Ids)
              BY <2>3, BindFaithful DEF BindingsFaithful
        <3> QED BY <1>2, <2>1, <2>3, <3>1 DEF updateRenderIndex, BindingsFaithful
    <2> QED BY <2>2, <2>3
<1>3. CASE UNCHANGED <<particles, kg>>
      BY <1>3 DEF BindingsFaithful, Ids
<1> QED BY <1>1, <1>2, <1>3 DEF materialise, add_prepared

\* Unloading unbinds in one direction only, which the invariant allows.
LEMMA UnloadFaithful ==
    ASSUME BindingsFaithful, NEW gone, unload(gone)
    PROVE  BindingsFaithful'
<1> DEFINE f == kg.kg_to_render
           ks == {KGOf[c] : c \in gone}
           f2 == [k \in DOMAIN f \cup ks |->
                    IF k \in ks THEN INVALID_RENDER_INDEX ELSE f[k]]
<1>1. kg' = [kg_to_render |-> f2, render_to_kg |-> kg.render_to_kg]
      BY DEF unload, unloadEntity
<1>2. Ids' = Ids
      BY DEF unload, Ids
<1>3. \A k \in DOMAIN f2 : f2[k] # INVALID_RENDER_INDEX => k \in DOMAIN f /\ f2[k] = f[k]
      OBVIOUS
<1> HIDE DEF f2
<1>4. Faithful(f2, kg.render_to_kg, Ids)
      BY <1>3 DEF BindingsFaithful, Faithful
<1> QED BY <1>1, <1>2, <1>4 DEF BindingsFaithful

LEMMA RemoveFaithful ==
    ASSUME Safe, BindingsFaithful, NEW slot \in Nat, NEW queue,
           remove_particle_unlocked(slot, queue)
    PROVE  BindingsFaithful'
<1> DEFINE n == Len(particles)
           cut == eraseRenderIndexMappings(kg, slot)
           after == notifyParticleSwap(cut, n, slot)
<1>1. CASE slot \notin DOMAIN particles
      BY <1>1 DEF remove_particle_unlocked, BindingsFaithful, Ids
<1>2. CASE slot \in DOMAIN particles
    <2>1. /\ particles \in Seq(Particles) /\ n \in Nat \ {0} /\ slot \in 1 .. n
          /\ DOMAIN particles' = 1 .. n - 1
          /\ \A i \in 1 .. n - 1 :
                particles'[i] = IF i = slot THEN particles[n] ELSE particles[i]
          BY <1>2, SwapAndPop DEF remove_particle_unlocked, Safe, TypeOK
    <2>2. /\ DOMAIN Ids = 1 .. n
          /\ DOMAIN Ids' = 1 .. n - 1
          /\ \A i \in 1 .. n - 1 : Ids'[i] = IF i = slot THEN Ids[n] ELSE Ids[i]
          BY <2>1 DEF Ids
    <2>3. /\ Faithful(cut.kg_to_render, cut.render_to_kg, Ids)
          /\ slot \notin DOMAIN cut.render_to_kg
          BY EraseFaithful DEF BindingsFaithful
    <2>4. kg' = IF slot = n THEN cut ELSE after
          BY <1>2 DEF remove_particle_unlocked, coherent_kg
    <2> HIDE DEF cut
    <2>5. CASE slot = n
        <3>1. Faithful(cut.kg_to_render, cut.render_to_kg, Ids')
              BY <2>1, <2>2, <2>3, <2>5 DEF Faithful
        <3> QED BY <2>4, <2>5, <3>1 DEF BindingsFaithful
    <2>6. CASE slot # n
        <3>1. slot \in 1 .. n - 1
              BY <2>1, <2>6
        <3>2. Faithful(after.kg_to_render, after.render_to_kg, Ids')
              BY <2>1, <2>2, <2>3, <3>1, SwapFaithful
        <3> QED BY <2>4, <2>6, <3>2 DEF BindingsFaithful
    <2> QED BY <2>5, <2>6
<1> QED BY <1>1, <1>2

LEMMA StreamingNextInv == BindingInv /\ [StreamingNext]_all_vars => BindingInv'
<1> SUFFICES ASSUME BindingInv, [StreamingNext]_all_vars PROVE BindingInv'
    OBVIOUS
<1>1. Safe /\ BindingsFaithful /\ active_chunks \subseteq Entities
      BY DEF BindingInv
<1>2. active_chunks' \subseteq Entities
    <2>1. \/ UNCHANGED active_chunks
          \/ \E c \in Entities : \E result : materialise(c, result)
          \/ \E gone : unload(gone)
          BY DEF StreamingNext, all_vars, streaming_vars, request_load, generate,
                 apply_ready_chunk, create_chunk, unload_chunk, clear_all_chunks, FrameStep
    <2> QED BY <1>1, <2>1 DEF materialise, unload
<1>3. CASE UNCHANGED vars
      BY <1>1, <1>2, <1>3 DEF vars, BindingInv, Safe, TypeOK, IndicesLive,
                              BindingsFaithful, Ids
<1>4. ASSUME NEW c \in Entities, NEW result, materialise(c, result) PROVE BindingInv'
      BY <1>1, <1>2, <1>4, MaterialiseSafe, MaterialiseFaithful DEF BindingInv
<1>5. ASSUME NEW gone \in SUBSET Entities, unload(gone) PROVE BindingInv'
      BY <1>1, <1>2, <1>5, UnloadSafe, UnloadFaithful DEF BindingInv
<1>6. CASE engine_update \/ engine_render \/ deletions_flushed
    <2>1. Safe'
          BY <1>1, <1>6, NextSafe DEF Next
    <2>2. BindingsFaithful'
          BY <1>1, <1>6 DEF engine_update, engine_render, deletions_flushed,
                            BindingsFaithful, Ids
    <2> QED BY <1>2, <2>1, <2>2 DEF BindingInv
<1>7. CASE flush_one_deletion
    <2>1. Safe'
          BY <1>1, <1>7, NextSafe DEF Next
    <2>2. PICK front \in pending_deletions :
              remove_particle_unlocked(front.particle_index, pending_deletions \ {front})
          BY <1>7 DEF flush_one_deletion
    <2>3. front.particle_index \in Nat
          BY <1>1 DEF Safe, TypeOK
    <2>4. BindingsFaithful'
          BY <1>1, <2>2, <2>3, RemoveFaithful
    <2> QED BY <1>2, <2>1, <2>4 DEF BindingInv
<1> QED BY <1>1, <1>3, <1>4, <1>5, <1>6, <1>7, StreamingSteps

LEMMA StreamingInitInv == StreamingInit => BindingInv
<1> SUFFICES ASSUME StreamingInit PROVE BindingInv
    OBVIOUS
<1>1. PICK last \in KGIds :
          kg = [kg_to_render |-> [k \in KGIds |-> INVALID_RENDER_INDEX],
                render_to_kg |-> Put(EmptyMap, INVALID_RENDER_INDEX, last)]
      BY DEF StreamingInit
<1>2. BindingsFaithful
      BY <1>1 DEF BindingsFaithful, Faithful, Put, EmptyMap
<1>3. active_chunks \subseteq Entities
      BY DEF StreamingInit
<1> QED BY <1>2, <1>3, StreamingInitSafe DEF BindingInv

(* The inductive invariant holds always: every index names a live body, and a KG
   identifier is bound to nobody's body but its own entity's.                  *)
THEOREM BindingInvAlways == StreamingSpec => []BindingInv
BY StreamingInitInv, StreamingNextInv, PTL DEF StreamingSpec

\* However chunks are loaded, unloaded, loaded twice and reloaded while their old
\* bodies wait for the GPU, the deletion queue, bonds and events name live slots:
\* unloading queues only slots that are still there.
THEOREM StreamedIndicesAreLive == StreamingSpec => []IndicesLive
<1>1. BindingInv => IndicesLive
      BY DEF BindingInv, Safe
<1> QED BY <1>1, BindingInvAlways, PTL

\* A KG id never resolves to a body of another chunk's entity, for any number of
\* chunks and bodies, although unloading leaves the reverse half of the render map
\* behind and later swaps write from it.
THEOREM BindingsNeverCross == StreamingSpec => []BindingNeverCrosses
<1>1. BindingInv => BindingNeverCrosses
    <2> SUFFICES ASSUME BindingInv PROVE BindingNeverCrosses
        OBVIOUS
    <2> DEFINE f == kg.kg_to_render
               r == kg.render_to_kg
    <2>1. Faithful(f, r, Ids) /\ DOMAIN Ids = DOMAIN particles
          BY DEF BindingInv, BindingsFaithful, Ids
    <2>2. \A slot \in DOMAIN particles : EntityOf[particles[slot]] \in Entities
          BY EntityAssumption DEF BindingInv, Safe, TypeOK
    <2>3. ASSUME NEW slot \in DOMAIN r \ {INVALID_RENDER_INDEX}
          PROVE  slot \in DOMAIN particles /\ KGOf[EntityOf[particles[slot]]] = r[slot]
          BY <2>1, <2>3 DEF Faithful, Ids
    <2>4. ASSUME NEW c \in Entities, getRenderIndex(kg, KGOf[c]) # INVALID_RENDER_INDEX
          PROVE  LET slot == getRenderIndex(kg, KGOf[c])
                 IN  /\ slot \in DOMAIN particles
                     /\ EntityOf[particles[slot]] = c
                     /\ slot \in DOMAIN r
                     /\ r[slot] = KGOf[c]
        <3> DEFINE slot == getRenderIndex(kg, KGOf[c])
        <3>1. KGOf[c] \in DOMAIN f /\ slot = f[KGOf[c]]
              BY <2>4 DEF getRenderIndex
        <3>2. slot \in DOMAIN r /\ r[slot] = KGOf[c]
              BY <2>1, <2>4, <3>1 DEF Faithful
        <3>3. slot \in DOMAIN particles /\ KGOf[EntityOf[particles[slot]]] = KGOf[c]
              BY <2>3, <2>4, <3>2
        <3> QED BY <2>2, <3>2, <3>3, KGOfAssumption
    <2> QED BY <2>3, <2>4 DEF BindingNeverCrosses
<1> QED BY <1>1, BindingInvAlways, PTL
=============================================================================
