------------------------ MODULE EntityRemovalProofs ------------------------
(* Removing an entity takes its bodies and no others, for any number of      *)
(* entities, ids and bodies; the store underneath goes on implementing the   *)
(* world of particles.                                                       *)
EXTENDS EntityRemoval, ParticleRefinementProofs

-----------------------------------------------------------------------------
\* The invariant

Calls == [entity : Entities, slots : SUBSET Nat, destroys : BOOLEAN,
          spares : SUBSET Particles]

\* While a call is under way: what is still to be removed and what is to be spared
\* make up the vector and have nothing in common, and the slot of every bound id
\* of the entity is still on the list.
CallGoesOn ==
    /\ call \in Calls
    /\ call.slots \subseteq DOMAIN particles
    /\ Live = call.spares \cup Bodies(call.slots)
    /\ \A slot \in call.slots : particles[slot] \notin call.spares
    /\ \A k \in DOMAIN kg.kg_to_render :
          (KGOwner[k] = call.entity /\ kg.kg_to_render[k] # INVALID_RENDER_INDEX)
             => kg.kg_to_render[k] \in call.slots

RemovalInv ==
    /\ StoreInv
    /\ DestroyedStaysUnmapped
    /\ entities \subseteq Entities
    /\ call # NoCall => CallGoesOn

\* What the invariant says about the table of ids.
LEMMA StoreIds ==
    ASSUME StoreInv
    PROVE  /\ DOMAIN kg.kg_to_render \subseteq KGIds
           /\ \A k \in DOMAIN kg.kg_to_render :
                 kg.kg_to_render[k] # INVALID_RENDER_INDEX
                    => kg.kg_to_render[k] \in DOMAIN particles
           /\ TwoWay(kg, Len(particles)) /\ IsKG(kg)
<1>1. DOMAIN particles = 1 .. Len(particles)
      BY SlotsOfVector DEF StoreInv
<1> QED BY <1>1 DEF StoreInv, Safe, TypeOK, IsKG, IsMap, TwoWay

-----------------------------------------------------------------------------
\* A call begins

LEMMA SlotsCollected ==
    ASSUME StoreInv, NEW e
    PROVE  /\ render_indices(e) \subseteq DOMAIN particles
           /\ \A k \in DOMAIN kg.kg_to_render :
                 (KGOwner[k] = e /\ kg.kg_to_render[k] # INVALID_RENDER_INDEX)
                    => kg.kg_to_render[k] \in render_indices(e)
BY StoreIds DEF render_indices, listed, getRenderIndex

\* Nothing of the store that a call is about changes when it begins.
LEMMA BeginInv ==
    ASSUME RemovalInv, NEW e \in entities, NEW destroys \in BOOLEAN, begin(e, destroys),
           StoreInv', UNCHANGED <<particles, kg>>
    PROVE  RemovalInv'
<1>0. PICK slots : slots = render_indices(e)
      OBVIOUS
<1>1. StoreInv /\ e \in Entities
      BY DEF RemovalInv
<1>2. /\ slots \subseteq DOMAIN particles
      /\ \A k \in DOMAIN kg.kg_to_render :
            (KGOwner[k] = e /\ kg.kg_to_render[k] # INVALID_RENDER_INDEX)
               => kg.kg_to_render[k] \in slots
      BY <1>0, <1>1, SlotsCollected
<1>3. /\ particles \in Seq(Particles) /\ DOMAIN particles \subseteq Nat
      /\ Live \subseteq Particles
      BY <1>1, SlotsOfVector DEF StoreInv
<1>4. call' = [entity |-> e, slots |-> slots, destroys |-> destroys,
               spares |-> Live \ Bodies(slots)]
      BY <1>0 DEF begin
<1>5. Bodies(slots) \subseteq Live
      BY <1>2 DEF Bodies, Live
<1>6. call' \in Calls
      BY <1>1, <1>2, <1>3, <1>4 DEF Calls
<1>7. call'.spares = Live \ Bodies(slots) /\ call'.slots = slots /\ call'.entity = e
      BY <1>4
<1>8. Live' = call'.spares \cup {particles'[x] : x \in call'.slots}
      BY <1>5, <1>7 DEF Live, Bodies
<1>9. \A slot \in call'.slots : particles'[slot] \notin call'.spares
      BY <1>7 DEF Bodies
<1>10. /\ call'.slots \subseteq DOMAIN particles'
       /\ \A k \in DOMAIN kg'.kg_to_render :
             (KGOwner[k] = call'.entity /\ kg'.kg_to_render[k] # INVALID_RENDER_INDEX)
                => kg'.kg_to_render[k] \in call'.slots
       BY <1>2, <1>7
<1>11. CallGoesOn'
       BY <1>6, <1>8, <1>9, <1>10 DEF CallGoesOn, Bodies
<1> QED BY <1>11 DEF RemovalInv, DestroyedStaysUnmapped, begin

-----------------------------------------------------------------------------
\* A call goes on

\* A removal gives no id an entry it had not.
LEMMA CoherentKGDomain ==
    ASSUME NEW n \in Nat \ {0}, TwoWay(kg, n), NEW slot \in 1 .. n
    PROVE  DOMAIN coherent_kg(slot, n).kg_to_render \subseteq DOMAIN kg.kg_to_render
<1> DEFINE cut == eraseRenderIndexMappings(kg, slot)
<1>1. DOMAIN cut.kg_to_render \subseteq DOMAIN kg.kg_to_render
    <2>1. CASE slot \notin DOMAIN kg.render_to_kg
          BY <2>1 DEF eraseRenderIndexMappings
    <2>2. CASE slot \in DOMAIN kg.render_to_kg
        <3>1. cut.kg_to_render = Without(kg.kg_to_render, kg.render_to_kg[slot])
              BY <2>2 DEF eraseRenderIndexMappings
        <3>2. DOMAIN Without(kg.kg_to_render, kg.render_to_kg[slot])
                 = DOMAIN kg.kg_to_render \ {kg.render_to_kg[slot]}
              BY WithoutLookup
        <3> HIDE DEF cut
        <3> QED BY <3>1, <3>2
    <2> QED BY <2>1, <2>2
<1>2. TwoWay(cut, n)
      BY EraseInverse
<1> HIDE DEF cut
<1>3. DOMAIN notifyParticleSwap(cut, n, slot).kg_to_render \subseteq DOMAIN cut.kg_to_render
      BY <1>2 DEF notifyParticleSwap, TwoWay, Put, INVALID_RENDER_INDEX
<1> QED BY <1>1, <1>3 DEF coherent_kg, cut

\* Removing the highest of the slots leaves the others where they are.
LEMMA RemoveNextInv ==
    ASSUME RemovalInv, remove_next
    PROVE  RemovalInv'
<1> DEFINE n == Len(particles)
           f == kg.kg_to_render
           after == kg'.kg_to_render
<1>1. PICK s \in call.slots :
          /\ IsNext(s, call.slots)
          /\ remove_particle(s)
          /\ call' = [call EXCEPT !.slots = @ \ {s}]
      BY DEF remove_next
<1>2. call # NoCall
      BY <1>1 DEF NoCall
<1>3. StoreInv /\ CallGoesOn
      BY <1>2 DEF RemovalInv
<1>4. /\ Safe /\ Distinct /\ TwoWay(kg, n)
      /\ n \in Nat \ {0} /\ DOMAIN particles = 1 .. n /\ s \in 1 .. n
      /\ s \in DOMAIN particles /\ s \in Nat
      BY <1>1, <1>3, SlotsOfVector DEF StoreInv, CallGoesOn
<1>5. /\ particles' = swap_and_pop(s)
      /\ kg' = coherent_kg(s, n)
      /\ physics' = coherent_physics(s, n)
      /\ remove_particle_unlocked(s, pending_deletions)
      /\ UNCHANGED <<pending_particles, has_rendered, loop>>
      BY <1>1, <1>4 DEF remove_particle, remove_particle_unlocked
<1>6. StoreInv'
    <2>1. Safe'
          BY <1>4, <1>5, RemoveSafe
    <2>2. Distinct'
          BY <1>4, <1>5, RemoveDistinct
    <2>3. PairExact(physics')
          BY <1>3, <1>4, <1>5, CoherentPhysicsExact DEF StoreInv
    <2>4. Len(particles') = n - 1
          BY <1>4, <1>5, SwapAndPop DEF Safe, TypeOK
    <2>5. TwoWay(kg', Len(particles'))
          BY <1>4, <1>5, <2>4, CoherentKGInverse
    <2> QED BY <2>1, <2>2, <2>3, <2>5 DEF StoreInv
<1>7. DestroyedStaysUnmapped'
    <2>1. DOMAIN after \subseteq DOMAIN f
          BY <1>4, <1>5, CoherentKGDomain
    <2> QED BY <2>1 DEF RemovalInv, DestroyedStaysUnmapped, remove_next
<1>8. /\ call.slots \subseteq 1 .. n
      /\ \A x \in call.slots : x <= s
      BY <1>1, <1>3, <1>4 DEF CallGoesOn, IsNext
<1>9. ASSUME NEW x \in call.slots, x # s
      PROVE  x \in DOMAIN particles' /\ particles'[x] = particles[x]
    <2>1. x \in 1 .. n /\ x # n
          BY <1>4, <1>8, <1>9
    <2>2. MovedTo(x, n, s) = x
          BY <2>1 DEF MovedTo
    <2> QED BY <1>4, <1>5, <1>9, <2>1, <2>2, MovedBody
<1>10. /\ call' \in Calls
       /\ call'.slots = call.slots \ {s}
       /\ call'.spares = call.spares /\ call'.entity = call.entity
       BY <1>1, <1>3 DEF CallGoesOn, Calls
<1>11. Live' = Live \ {particles[s]}
       BY <1>4, <1>5, VanishLive
<1>12. {particles'[x] : x \in call'.slots} = Bodies(call.slots) \ {particles[s]}
    <2>1. \A x \in call.slots \ {s} : particles'[x] = particles[x] /\ particles[x] # particles[s]
          BY <1>3, <1>4, <1>9, SlotIsBody DEF CallGoesOn
    <2> QED BY <1>10, <2>1 DEF Bodies
<1>13. Live' = call'.spares \cup {particles'[x] : x \in call'.slots}
    <2>1. particles[s] \notin call.spares
          BY <1>3 DEF CallGoesOn
    <2> QED BY <1>3, <1>10, <1>11, <1>12, <2>1 DEF CallGoesOn
<1>14. \A x \in call'.slots : x \in DOMAIN particles' /\ particles'[x] \notin call'.spares
      BY <1>3, <1>9, <1>10 DEF CallGoesOn
<1>15. ASSUME NEW k \in DOMAIN after, KGOwner[k] = call'.entity, after[k] # INVALID_RENDER_INDEX
       PROVE  after[k] \in call'.slots
    <2>1. /\ k \in DOMAIN f /\ f[k] # INVALID_RENDER_INDEX /\ f[k] # s
          /\ after[k] = MovedTo(f[k], n, s)
          BY <1>4, <1>5, <1>15, CoherentKGLookup
    <2>2. f[k] \in call.slots
          BY <1>3, <1>10, <1>15, <2>1 DEF CallGoesOn
    <2>3. f[k] \in 1 .. n /\ f[k] # n
          BY <1>4, <1>8, <2>1, <2>2
    <2> QED BY <1>10, <2>1, <2>2, <2>3 DEF MovedTo
<1>16. CallGoesOn'
       BY <1>10, <1>13, <1>14, <1>15 DEF CallGoesOn, Bodies
<1> QED BY <1>6, <1>7, <1>16 DEF RemovalInv, remove_next

-----------------------------------------------------------------------------
\* A call returns

\* Destroying the entity takes ids away that are bound to nothing any more.
LEMMA ReturnInv ==
    ASSUME RemovalInv, return
    PROVE  RemovalInv' /\ UNCHANGED World!vars
<1> DEFINE n == Len(particles)
           f == kg.kg_to_render
           r == kg.render_to_kg
<1>1. StoreInv /\ CallGoesOn /\ call.slots = {}
      BY DEF RemovalInv, return
<1>2. call' = NoCall
      BY DEF return
<1>3. CASE ~call.destroys
    <2>1. UNCHANGED vars /\ UNCHANGED entities
          BY <1>3 DEF return, vars
    <2>2. StoreInv'
          BY <1>1, <2>1, NextStoreInv
    <2>3. UNCHANGED World!vars
          BY <2>1, QuietStep DEF vars, Flushing
    <2> QED BY <1>2, <2>1, <2>2, <2>3 DEF RemovalInv, DestroyedStaysUnmapped, vars
<1>4. CASE call.destroys
    <2> DEFINE kept == {k \in DOMAIN f : KGOwner[k] # call.entity}
               f2 == Restrict(f, kept)
    <2>1. /\ kg' = [kg_to_render |-> f2, render_to_kg |-> r]
          /\ entities' = entities \ {call.entity}
          /\ UNCHANGED <<particles, pending_particles, pending_deletions,
                         entity_particle_indices, physics, cached, has_rendered, loop>>
          BY <1>4 DEF return, destroyEntity
    <2>2. DOMAIN f2 = kept /\ \A k \in kept : f2[k] = f[k]
          BY DEF Restrict
    <2>3. kept \subseteq DOMAIN f /\ \A k \in DOMAIN f \ kept : KGOwner[k] = call.entity
          OBVIOUS
    <2>4. \A k \in kept : KGOwner[k] # call.entity
          OBVIOUS
    <2>5. IsMap(f2, KGIds, Nat) /\ IsMap(r, Nat, KGIds)
        <3>1. IsMap(f, KGIds, Nat) /\ IsMap(r, Nat, KGIds)
              BY <1>1, StoreIds DEF IsKG
        <3> QED BY <2>2, <3>1 DEF IsMap, Restrict
    <2> HIDE DEF f2, kept
    <2>6. \A k \in DOMAIN f \ kept : f[k] = INVALID_RENDER_INDEX
          BY <1>1, <2>3 DEF CallGoesOn
    <2>7. TwoWay(kg, n) /\ IsKG(kg)
          BY <1>1, StoreIds
    <2>8. TwoWayMaps(f2, r, n)
          BY <2>2, <2>3, <2>6, <2>7 DEF TwoWay, TwoWayMaps
    <2>9. TwoWay(kg', n)
          BY <2>1, <2>8, InverseOfMaps
    <2>10. IsKG(kg')
          BY <2>1, <2>5, KGFromMaps
    <2>11. StoreInv'
          BY <1>1, <2>1, <2>9, <2>10 DEF StoreInv, Safe, TypeOK, IndicesLive, Distinct, PairExact
    <2>12. DestroyedStaysUnmapped'
          BY <2>1, <2>2, <2>3, <2>4 DEF RemovalInv, DestroyedStaysUnmapped
    <2>13. UNCHANGED World!vars
        <3>1. Bound' = Bound
              BY <2>1, <2>2, <2>3, <2>6 DEF Bound
        <3>2. \A k \in Bound : f2[k] = f[k]
              BY <2>2, <2>6 DEF Bound
        <3>3. Binding' = Binding
              BY <2>1, <3>1, <3>2 DEF Binding
        <3> QED BY <2>1, <3>3 DEF World!vars, Live, Deaths, Bonds, Collisions, Flushing
    <2> QED BY <1>2, <2>1, <2>11, <2>12, <2>13 DEF RemovalInv
<1> QED BY <1>3, <1>4

-----------------------------------------------------------------------------
\* Between the calls

LEMMA StoreStepNext ==
    ASSUME StoreStep
    PROVE  Next
BY DEF StoreStep, Next

\* The ids a store step knows are those it knew, and the one it makes.
LEMMA StoreStepMapped ==
    ASSUME RemovalInv, StoreStep
    PROVE  DestroyedStaysUnmapped'
<1> DEFINE f == kg.kg_to_render
           after == kg'.kg_to_render
<1>1. UNCHANGED entities
      BY DEF StoreStep, removal_vars
<1>2. CASE DOMAIN after \subseteq DOMAIN f
      BY <1>1, <1>2 DEF RemovalInv, DestroyedStaysUnmapped
<1>3. ASSUME NEW p \in Particles, NEW k \in KGIds, KGOwner[k] \in entities, load_particle(p, k)
      PROVE  DestroyedStaysUnmapped'
    <2>1. DOMAIN after = DOMAIN f \cup {k}
          BY <1>3 DEF load_particle, createKGParticle, Put
    <2> QED BY <1>1, <1>3, <2>1 DEF RemovalInv, DestroyedStaysUnmapped
<1>4. ASSUME NEW slot, NEW queue, remove_particle_unlocked(slot, queue)
      PROVE  DOMAIN after \subseteq DOMAIN f
    <2>1. CASE slot \notin DOMAIN particles
          BY <1>4, <2>1 DEF remove_particle_unlocked
    <2>2. CASE slot \in DOMAIN particles
        <3>1. /\ Len(particles) \in Nat \ {0} /\ slot \in 1 .. Len(particles)
              /\ TwoWay(kg, Len(particles))
              BY <2>2, SlotsOfVector, StoreIds DEF RemovalInv, StoreInv
        <3>2. kg' = coherent_kg(slot, Len(particles))
              BY <1>4, <2>2 DEF remove_particle_unlocked
        <3> QED BY <3>1, <3>2, CoherentKGDomain
    <2> QED BY <2>1, <2>2
<1>5. CASE \E slot \in Slots : remove_particle(slot)
      BY <1>2, <1>4, <1>5 DEF remove_particle
<1>6. CASE flush_one_deletion
      BY <1>2, <1>4, <1>6 DEF flush_one_deletion
<1>7. CASE UNCHANGED kg
      BY <1>2, <1>7
<1>8. \/ \E p \in Particles : add_particle(p)
      \/ \E p \in Particles, k \in KGIds : KGOwner[k] \in entities /\ load_particle(p, k)
      \/ \E slot \in Slots : remove_particle(slot)
      \/ \E slot \in Slots : queue_particle_deletion(slot) \/ unregister_humanoid(slot)
      \/ flush_one_deletion \/ deletions_flushed \/ engine_update \/ engine_render
      BY DEF StoreStep
<1> QED BY <1>3, <1>5, <1>6, <1>7, <1>8 DEF add_particle, queue_particle_deletion,
            unregister_humanoid, deletions_flushed, engine_update, engine_render

-----------------------------------------------------------------------------
\* The theorems

LEMMA RemovalStepInv ==
    RemovalInv /\ [RemovalNext]_system_vars => RemovalInv' /\ [World!Next]_World!vars
<1> SUFFICES ASSUME RemovalInv, [RemovalNext]_system_vars
             PROVE  RemovalInv' /\ [World!Next]_World!vars
    OBVIOUS
<1>1. StoreInv
      BY DEF RemovalInv
<1>2. CASE StoreStep
    <2>1. Next
          BY <1>2, StoreStepNext
    <2>2. StoreInv' /\ [World!Next]_World!vars
          BY <1>1, <2>1, NextStoreInv, WorldStep
    <2>3. call = NoCall /\ UNCHANGED removal_vars
          BY <1>2 DEF StoreStep
    <2> QED BY <1>2, <2>2, <2>3, StoreStepMapped DEF RemovalInv, removal_vars
<1>3. ASSUME NEW e \in entities, NEW destroys \in BOOLEAN, removeEntity(e, destroys)
      PROVE  RemovalInv' /\ [World!Next]_World!vars
    <2>1. UNCHANGED vars /\ begin(e, destroys)
          BY <1>3 DEF removeEntity
    <2>2. StoreInv' /\ [World!Next]_World!vars
          BY <1>1, <2>1, NextStoreInv, WorldStep
    <2> QED BY <2>1, <2>2, BeginInv DEF vars
<1>4. ASSUME NEW e \in entities, NEW destroys \in BOOLEAN, NEW anchor \in Slots,
             removeHumanoid(e, destroys, anchor)
      PROVE  RemovalInv' /\ [World!Next]_World!vars
    <2>1. unregister_humanoid(anchor) /\ begin(e, destroys)
          BY <1>4 DEF removeHumanoid
    <2>2. Next
          BY <2>1 DEF Next
    <2>3. StoreInv' /\ [World!Next]_World!vars
          BY <1>1, <2>2, NextStoreInv, WorldStep
    <2> QED BY <2>1, <2>3, BeginInv DEF unregister_humanoid
<1>5. CASE remove_next
    <2>1. PICK slot \in call.slots : remove_particle(slot)
          BY <1>5 DEF remove_next
    <2>2. World!Next \/ UNCHANGED World!vars
          BY <1>1, <2>1, RemoveStep DEF World!Next
    <2> QED BY <1>5, <2>2, RemoveNextInv
<1>6. CASE return
      BY <1>6, ReturnInv
<1>7. CASE UNCHANGED system_vars
    <2>1. UNCHANGED vars /\ UNCHANGED removal_vars
          BY <1>7 DEF system_vars
    <2>2. StoreInv' /\ [World!Next]_World!vars
          BY <1>1, <2>1, NextStoreInv, WorldStep
    <2> QED BY <2>1, <2>2 DEF RemovalInv, DestroyedStaysUnmapped, CallGoesOn, Bodies, Live,
                             vars, removal_vars
<1> QED BY <1>2, <1>3, <1>4, <1>5, <1>6, <1>7 DEF RemovalNext

LEMMA RemovalInitInv == RemovalInit => RemovalInv
<1> SUFFICES ASSUME RemovalInit PROVE RemovalInv
    OBVIOUS
<1>1. Init /\ entities = Entities /\ call = NoCall
      BY DEF RemovalInit
<1>2. StoreInv
      BY <1>1, InitStoreInv
<1>3. DOMAIN kg.kg_to_render = {}
      BY <1>1 DEF Init, EmptyKG, EmptyMap
<1> QED BY <1>1, <1>2, <1>3 DEF RemovalInv, DestroyedStaysUnmapped

(* The inductive invariant holds always: the tables of the store are coherent and a
   removal under way still has exactly its own bodies before it.               *)
THEOREM RemovalInvAlways == RemovalSpec => []RemovalInv
BY RemovalInitInv, RemovalStepInv, PTL DEF RemovalSpec

\* When a removal has gone through its slots, exactly the bodies bound to the entity
\* are gone and none of its ids finds a slot, for any number of bodies and whatever
\* swap-and-pop did to the others in between.
THEOREM RemovalsAreExact == RemovalSpec => []RemovalIsExact
<1>1. RemovalInv => RemovalIsExact
    <2> SUFFICES ASSUME RemovalInv, call # NoCall, call.slots = {}
                 PROVE  /\ Live = call.spares
                        /\ \A k \in KGIds : KGOwner[k] = call.entity
                              => getRenderIndex(kg, k) = INVALID_RENDER_INDEX
        BY DEF RemovalIsExact
    <2>1. CallGoesOn
          BY DEF RemovalInv
    <2>2. Live = call.spares
          BY <2>1 DEF CallGoesOn, Bodies
    <2>3. \A k \in KGIds : KGOwner[k] = call.entity
             => getRenderIndex(kg, k) = INVALID_RENDER_INDEX
          BY <2>1 DEF CallGoesOn, getRenderIndex
    <2> QED BY <2>2, <2>3
<1> QED BY <1>1, RemovalInvAlways, PTL

\* No id of a destroyed entity is ever mapped again, although its reverse entries
\* are only erased slot by slot.
THEOREM DestroyedEntitiesStayUnmapped == RemovalSpec => []DestroyedStaysUnmapped
<1>1. RemovalInv => DestroyedStaysUnmapped
      BY DEF RemovalInv
<1> QED BY <1>1, RemovalInvAlways, PTL

\* Removing whole entities, with the queue and the frames going on in between,
\* still implements the world of particles.
THEOREM RemovalImplementsWorld == RemovalSpec => ImplementsWorld
<1>1. RemovalInit => World!Init
      BY InitWorld DEF RemovalInit
<1> QED BY <1>1, RemovalStepInv, RemovalInvAlways, PTL
        DEF RemovalSpec, ImplementsWorld, World!Spec
=============================================================================
