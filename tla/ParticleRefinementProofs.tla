--------------------- MODULE ParticleRefinementProofs ---------------------
(* ParticleStore implements ParticleWorld, for every value of the constants: *)
(* step by step, what the store does to its index tables is what the world   *)
(* does to its particles.                                                    *)
EXTENDS ParticleStoreProofs, FiniteSetTheorems

-----------------------------------------------------------------------------
\* The invariant

\* What a step of the store needs to be a step of the world: indices in range,
\* no body twice, and the lookup tables exact.
StoreInv ==
    /\ Safe
    /\ Distinct
    /\ PairExact(physics)
    /\ TwoWay(kg, Len(particles))

LEMMA InitStoreInv == Init => StoreInv
<1> SUFFICES ASSUME Init PROVE StoreInv
    OBVIOUS
<1>1. Safe
      BY InitSafe
<1>2. PairExact(physics) /\ Distinct
      BY DEF Init, NothingBorn, PairExact, P!EmptyPhysics, Distinct
<1>3. TwoWay(kg, Len(particles))
      BY DEF Init, NothingBorn, TwoWay, EmptyKG, EmptyMap
<1> QED BY <1>1, <1>2, <1>3 DEF StoreInv

LEMMA NextStoreInv == StoreInv /\ [Next]_vars => StoreInv'
BY NextSafe, NextDistinct, NextPairs, NextInverse DEF StoreInv

LEMMA StoreInvAlways == Spec => []StoreInv
BY InitStoreInv, NextStoreInv, PTL DEF Spec

-----------------------------------------------------------------------------
\* Slots and bodies

\* In a vector that holds no body twice, a slot and its body are one.
LEMMA SlotIsBody ==
    ASSUME Distinct, NEW i \in DOMAIN particles, NEW j \in DOMAIN particles
    PROVE  (particles[i] = particles[j]) <=> (i = j)
BY DEF Distinct

\* The vector's shape, for the arithmetic of slots.
LEMMA SlotsOfVector ==
    ASSUME Safe
    PROVE  /\ particles \in Seq(Particles)
           /\ Len(particles) \in Nat
           /\ DOMAIN particles = 1 .. Len(particles)
           /\ DOMAIN particles \subseteq Nat
           /\ Live \subseteq Particles
           /\ \A i \in DOMAIN particles : particles[i] \in Live
BY DEF Safe, TypeOK, Live

\* When the vector keeps what it holds, so does everything seen through it.
LEMMA SameView ==
    ASSUME Safe, TwoWay(kg, Len(particles)),
           DOMAIN particles \subseteq DOMAIN particles',
           \A i \in DOMAIN particles : particles'[i] = particles[i]
    PROVE  /\ pending_deletions' = pending_deletions => Deaths' = Deaths
           /\ physics' = physics => Bonds' = Bonds /\ Collisions' = Collisions
           /\ kg' = kg => Binding' = Binding
<1>1. ASSUME pending_deletions' = pending_deletions PROVE Deaths' = Deaths
    <2>1. \A d \in pending_deletions :
              particles'[d.particle_index] = particles[d.particle_index]
          BY DEF Safe, IndicesLive
    <2> QED BY <1>1, <2>1 DEF Deaths
<1>2. ASSUME physics' = physics PROVE Bonds' = Bonds
    <2>1. \A g \in physics.gluon_constraints :
              /\ particles'[g.particle_a] = particles[g.particle_a]
              /\ particles'[g.particle_b] = particles[g.particle_b]
          BY DEF Safe, IndicesLive, P!Ends
    <2> QED BY <1>2, <2>1 DEF Bonds
<1>3. ASSUME physics' = physics PROVE Collisions' = Collisions
    <2>1. \A e \in physics.collision_events :
              {particles'[i] : i \in e} = {particles[i] : i \in e}
          BY DEF Safe, IndicesLive
    <2> QED BY <1>3, <2>1 DEF Collisions
<1>4. ASSUME kg' = kg PROVE Binding' = Binding
    <2>1. \A k \in Bound : particles'[kg.kg_to_render[k]] = particles[kg.kg_to_render[k]]
          BY SlotsOfVector DEF TwoWay, Bound
    <2>2. Bound' = Bound
          BY <1>4 DEF Bound
    <2> QED BY <1>4, <2>1, <2>2 DEF Binding
<1> QED BY <1>1, <1>2, <1>3, <1>4

-----------------------------------------------------------------------------
\* A removal is a vanishing

\* Where the body at slot x is once the tail n has moved into slot.
MovedTo(x, n, slot) == IF x = n THEN slot ELSE x

LEMMA MovedBody ==
    ASSUME Safe, NEW slot \in DOMAIN particles, particles' = swap_and_pop(slot),
           NEW x \in DOMAIN particles, x # slot
    PROVE  /\ MovedTo(x, Len(particles), slot) \in DOMAIN particles'
           /\ particles'[MovedTo(x, Len(particles), slot)] = particles[x]
<1> DEFINE n == Len(particles)
<1>1. /\ n \in Nat /\ slot \in 1 .. n /\ x \in 1 .. n
      /\ DOMAIN particles' = 1 .. n - 1
      /\ \A i \in 1 .. n - 1 :
            particles'[i] = IF i = slot THEN particles[n] ELSE particles[i]
      BY SlotsOfVector, SwapAndPop
<1>2. CASE x = n
      BY <1>1, <1>2 DEF MovedTo
<1>3. CASE x # n
      BY <1>1, <1>3 DEF MovedTo
<1> QED BY <1>2, <1>3

LEMMA VanishLive ==
    ASSUME Safe, Distinct, NEW slot \in DOMAIN particles, particles' = swap_and_pop(slot)
    PROVE  Live' = Live \ {particles[slot]}
<1> DEFINE n == Len(particles)
<1>1. /\ n \in Nat /\ slot \in 1 .. n /\ DOMAIN particles = 1 .. n
      /\ DOMAIN particles' = 1 .. n - 1
      /\ \A i \in 1 .. n - 1 :
            particles'[i] = IF i = slot THEN particles[n] ELSE particles[i]
      BY SlotsOfVector, SwapAndPop
<1>2. ASSUME NEW p \in Live' PROVE p \in Live /\ p # particles[slot]
    <2>1. PICK i \in 1 .. n - 1 : p = particles'[i]
          BY <1>1, <1>2 DEF Live
    <2>2. i \in 1 .. n /\ n \in 1 .. n /\ i # n
        <3>1. n \in Nat /\ slot \in 1 .. n
              BY <1>1
        <3> QED BY <3>1
    <2>3. CASE i = slot
          BY <1>1, <2>1, <2>2, <2>3, SlotIsBody, SlotsOfVector
    <2>4. CASE i # slot
          BY <1>1, <2>1, <2>2, <2>4, SlotIsBody, SlotsOfVector
    <2> QED BY <2>3, <2>4
<1>3. ASSUME NEW p \in Live, p # particles[slot] PROVE p \in Live'
    <2>1. PICK x \in DOMAIN particles : p = particles[x]
          BY DEF Live
    <2>2. x # slot
          BY <1>3, <2>1
    <2> QED BY <2>1, <2>2, MovedBody DEF Live
<1> QED BY <1>2, <1>3

\* The queue loses the entries of the dead body and follows the moved one.
LEMMA VanishDeaths ==
    ASSUME Safe, Distinct, NEW slot \in DOMAIN particles, particles' = swap_and_pop(slot),
           NEW queue \in SUBSET pending_deletions,
           \A d \in pending_deletions \ queue : d.particle_index = slot,
           pending_deletions' = coherent_queue(queue, slot, Len(particles))
    PROVE  Deaths' = {d \in Deaths : d.particle # particles[slot]}
<1> DEFINE n == Len(particles)
           Retargeted(d) == [d EXCEPT !.particle_index = IF @ = n THEN slot ELSE @]
           Seen(d) == [ticket |-> d.ticket, particle |-> particles[d.particle_index],
                       frames_left |-> d.frames_left]
           SeenNext(d) == [ticket |-> d.ticket, particle |-> particles'[d.particle_index],
                           frames_left |-> d.frames_left]
           kept == {d \in pending_deletions : d.particle_index # slot}
<1>1. kept = {d \in queue : d.particle_index # slot}
      OBVIOUS
<1>2. pending_deletions' = {Retargeted(d) : d \in kept}
      BY <1>1 DEF coherent_queue
<1>3. ASSUME NEW d \in pending_deletions
      PROVE  /\ d \in Deletions /\ d.particle_index \in DOMAIN particles
             /\ Seen(d).particle # particles[slot] <=> d.particle_index # slot
      BY SlotIsBody DEF Safe, TypeOK, IndicesLive, Deletions
<1>4. ASSUME NEW d \in kept PROVE SeenNext(Retargeted(d)) = Seen(d)
    <2>1. /\ Retargeted(d).ticket = d.ticket
          /\ Retargeted(d).frames_left = d.frames_left
          /\ Retargeted(d).particle_index = MovedTo(d.particle_index, n, slot)
          BY <1>3 DEF Deletions, MovedTo
    <2>2. particles'[MovedTo(d.particle_index, n, slot)] = particles[d.particle_index]
          BY <1>3, MovedBody
    <2> QED BY <2>1, <2>2
<1>5. Deaths' = {SeenNext(d) : d \in pending_deletions'}
      BY DEF Deaths
<1>6. Deaths = {Seen(d) : d \in pending_deletions}
      BY DEF Deaths
<1> HIDE DEF Retargeted, Seen, SeenNext
<1>7. Deaths' = {Seen(d) : d \in kept}
      BY <1>2, <1>4, <1>5
<1>8. {Seen(d) : d \in kept} = {x \in {Seen(d) : d \in pending_deletions} :
                                  x.particle # particles[slot]}
      BY <1>3
<1> QED BY <1>6, <1>7, <1>8

\* What remove_gluons_for_particle leaves is what does not involve the body.
LEMMA CutView ==
    ASSUME Safe, Distinct, NEW slot \in DOMAIN particles
    PROVE  LET cut == P!remove_gluons_for_particle(physics, slot)
               p == particles[slot]
           IN  /\ {[id |-> g.id, ends |-> {particles[g.particle_a], particles[g.particle_b]}] :
                      g \in cut.gluon_constraints} = {b \in Bonds : p \notin b.ends}
               /\ {{particles[i] : i \in e} : e \in cut.collision_events}
                      = {c \in Collisions : p \notin c}
               /\ cut.gluon_constraints = {g \in physics.gluon_constraints : slot \notin P!Ends(g)}
               /\ cut.collision_events = {e \in physics.collision_events : slot \notin e}
<1> DEFINE cut == P!remove_gluons_for_particle(physics, slot)
           p == particles[slot]
           Seen(g) == [id |-> g.id, ends |-> {particles[g.particle_a], particles[g.particle_b]}]
           Pair(e) == {particles[i] : i \in e}
<1>1. /\ cut.gluon_constraints = {g \in physics.gluon_constraints : slot \notin P!Ends(g)}
      /\ cut.collision_events = {e \in physics.collision_events : slot \notin e}
      BY DEF P!remove_gluons_for_particle, P!with_events, P!drop_gluons
<1>2. ASSUME NEW g \in physics.gluon_constraints
      PROVE  p \notin Seen(g).ends <=> slot \notin P!Ends(g)
      BY SlotIsBody DEF Safe, IndicesLive, P!Ends
<1>3. ASSUME NEW e \in physics.collision_events
      PROVE  p \notin Pair(e) <=> slot \notin e
      BY SlotIsBody DEF Safe, IndicesLive
<1>4. Bonds = {Seen(g) : g \in physics.gluon_constraints}
      BY DEF Bonds
<1>5. Collisions = {Pair(e) : e \in physics.collision_events}
      BY DEF Collisions
<1> HIDE DEF Seen, Pair, cut
<1>6. {Seen(g) : g \in cut.gluon_constraints} = {b \in Bonds : p \notin b.ends}
      BY <1>1, <1>2, <1>4
<1>7. {Pair(e) : e \in cut.collision_events} = {c \in Collisions : p \notin c}
      BY <1>1, <1>3, <1>5
<1> QED BY <1>1, <1>6, <1>7 DEF Seen, Pair, cut

\* Bonds and collisions after the tail's slots are renamed.
LEMMA VanishTouch ==
    ASSUME Safe, Distinct, NEW slot \in DOMAIN particles, particles' = swap_and_pop(slot),
           physics' = coherent_physics(slot, Len(particles))
    PROVE  /\ Bonds' = {b \in Bonds : particles[slot] \notin b.ends}
           /\ Collisions' = {c \in Collisions : particles[slot] \notin c}
<1> DEFINE n == Len(particles)
           cut == P!remove_gluons_for_particle(physics, slot)
           Moved(x) == IF x = n THEN slot ELSE x
           Renamed(g) == [id |-> g.id, particle_a |-> Moved(g.particle_a),
                          particle_b |-> Moved(g.particle_b)]
           moving == {g \in cut.gluon_constraints : n \in P!Ends(g)}
           Seen(g) == [id |-> g.id, ends |-> {particles[g.particle_a], particles[g.particle_b]}]
           SeenNext(g) ==
               [id |-> g.id, ends |-> {particles'[g.particle_a], particles'[g.particle_b]}]
           Pair(e) == {particles[i] : i \in e}
           PairNext(e) == {particles'[i] : i \in e}
<1>1. /\ {Seen(g) : g \in cut.gluon_constraints}
             = {b \in Bonds : particles[slot] \notin b.ends}
      /\ {Pair(e) : e \in cut.collision_events}
             = {c \in Collisions : particles[slot] \notin c}
      /\ cut.gluon_constraints = {g \in physics.gluon_constraints : slot \notin P!Ends(g)}
      /\ cut.collision_events = {e \in physics.collision_events : slot \notin e}
      BY CutView
<1> HIDE DEF cut
<1>2. ASSUME NEW x \in DOMAIN particles, x # slot
      PROVE  particles'[Moved(x)] = particles[x]
      BY <1>2, MovedBody DEF MovedTo
<1>3. ASSUME NEW g \in cut.gluon_constraints
      PROVE  /\ g.particle_a \in DOMAIN particles /\ g.particle_a # slot
             /\ g.particle_b \in DOMAIN particles /\ g.particle_b # slot
      BY <1>1 DEF Safe, IndicesLive, P!Ends
<1>4. ASSUME NEW g \in cut.gluon_constraints
      PROVE  /\ SeenNext(Renamed(g)) = Seen(g)
             /\ g \notin moving => SeenNext(g) = Seen(g)
    <2>1. /\ particles'[Moved(g.particle_a)] = particles[g.particle_a]
          /\ particles'[Moved(g.particle_b)] = particles[g.particle_b]
          BY <1>2, <1>3
    <2>2. g \notin moving => Moved(g.particle_a) = g.particle_a
                             /\ Moved(g.particle_b) = g.particle_b
          BY DEF P!Ends
    <2> HIDE DEF Moved
    <2> QED BY <2>1, <2>2
<1>5. ASSUME NEW e \in cut.collision_events
      PROVE  /\ PairNext({Moved(x) : x \in e}) = Pair(e)
             /\ n \notin e => PairNext(e) = Pair(e)
    <2>1. \A x \in e : x \in DOMAIN particles /\ x # slot
          BY <1>1 DEF Safe, IndicesLive
    <2>2. \A x \in e : particles'[Moved(x)] = particles[x]
          BY <1>2, <2>1
    <2>3. n \notin e => \A x \in e : Moved(x) = x
          OBVIOUS
    <2> HIDE DEF Moved
    <2>4. PairNext({Moved(x) : x \in e}) = Pair(e)
          BY <2>2
    <2> QED BY <2>2, <2>3, <2>4
<1>6. /\ Bonds' = {SeenNext(g) : g \in physics'.gluon_constraints}
      /\ Collisions' = {PairNext(e) : e \in physics'.collision_events}
      BY DEF Bonds, Collisions
<1> HIDE DEF Seen, SeenNext, Pair, PairNext
<1>7. CASE slot = n
    <2>1. physics' = cut
          BY <1>7 DEF coherent_physics, cut
    <2>2. moving = {} /\ \A e \in cut.collision_events : n \notin e
          BY <1>1, <1>7
    <2>3. /\ \A g \in cut.gluon_constraints : SeenNext(g) = Seen(g)
          /\ \A e \in cut.collision_events : PairNext(e) = Pair(e)
          BY <1>4, <1>5, <2>2
    <2>4. /\ Bonds' = {Seen(g) : g \in cut.gluon_constraints}
          /\ Collisions' = {Pair(e) : e \in cut.collision_events}
          BY <1>6, <2>1, <2>3
    <2> QED BY <1>1, <2>4
<1>8. CASE slot # n
    <2> DEFINE Shifted(e) == {Moved(x) : x \in e}
    <2>1. /\ physics'.gluon_constraints =
                 (cut.gluon_constraints \ moving) \cup {Renamed(g) : g \in moving}
          /\ physics'.collision_events = {Shifted(e) : e \in cut.collision_events}
          BY <1>8 DEF coherent_physics, cut, P!notify_particle_swap
    <2>2. \A e \in cut.collision_events : PairNext(Shifted(e)) = Pair(e)
          BY <1>5
    <2> HIDE DEF Renamed, Moved, Shifted
    <2>3. Bonds' = {Seen(g) : g \in cut.gluon_constraints}
          BY <1>4, <1>6, <2>1
    <2>4. Collisions' = {Pair(e) : e \in cut.collision_events}
          BY <1>6, <2>1, <2>2
    <2> QED BY <1>1, <2>3, <2>4
<1> QED BY <1>7, <1>8

\* The KG map after a removal: the ids of the dead body are gone, those of the
\* moved one follow it, the rest stay.
LEMMA CoherentKGLookup ==
    ASSUME NEW n \in Nat \ {0}, TwoWay(kg, n), NEW slot \in 1 .. n, NEW k
    PROVE  LET f == kg.kg_to_render
               after == coherent_kg(slot, n).kg_to_render
           IN  /\ k \in DOMAIN after /\ after[k] # INVALID_RENDER_INDEX
                      <=> k \in DOMAIN f /\ f[k] # INVALID_RENDER_INDEX /\ f[k] # slot
               /\ k \in DOMAIN after /\ after[k] # INVALID_RENDER_INDEX
                      => after[k] = MovedTo(f[k], n, slot)
<1> DEFINE f == kg.kg_to_render
           cut == eraseRenderIndexMappings(kg, slot)
           f2 == cut.kg_to_render
           Drawn(map, x) == x \in DOMAIN map /\ map[x] # INVALID_RENDER_INDEX
<1>1. TwoWay(cut, n) /\ slot \notin DOMAIN cut.render_to_kg
      BY EraseInverse
<1>2. \A x : /\ Drawn(f2, x) <=> Drawn(f, x) /\ f[x] # slot
             /\ Drawn(f2, x) => f2[x] = f[x]
    <2>1. CASE slot \notin DOMAIN kg.render_to_kg
          BY <2>1 DEF eraseRenderIndexMappings, TwoWay
    <2>2. CASE slot \in DOMAIN kg.render_to_kg
        <3>1. f2 = Without(f, kg.render_to_kg[slot])
              BY <2>2 DEF eraseRenderIndexMappings
        <3> HIDE DEF f2
        <3>2. /\ DOMAIN f2 = DOMAIN f \ {kg.render_to_kg[slot]}
              /\ \A x \in DOMAIN f2 : f2[x] = f[x]
              BY <3>1, WithoutLookup
        <3>3. f[kg.render_to_kg[slot]] = slot
              BY <2>2 DEF TwoWay, INVALID_RENDER_INDEX
        <3>4. \A x \in DOMAIN f : Drawn(f, x) /\ f[x] = slot => x = kg.render_to_kg[slot]
              BY DEF TwoWay
        <3> QED BY <3>2, <3>3, <3>4
    <2> QED BY <2>1, <2>2
<1> HIDE DEF cut
<1>3. CASE slot = n
    <2>1. coherent_kg(slot, n) = cut
          BY <1>3 DEF coherent_kg, cut
    <2> QED BY <1>2, <1>3, <2>1 DEF MovedTo
<1>4. CASE slot # n /\ n \notin DOMAIN cut.render_to_kg
    <2>1. coherent_kg(slot, n) = cut
          BY <1>4 DEF coherent_kg, cut, notifyParticleSwap
    <2>2. Drawn(f2, k) => f2[k] # n
          BY <1>1, <1>4 DEF TwoWay
    <2> QED BY <1>2, <2>1, <2>2 DEF MovedTo
<1>5. CASE slot # n /\ n \in DOMAIN cut.render_to_kg
    <2> DEFINE mover == cut.render_to_kg[n]
               f3 == Put(f2, mover, slot)
    <2>1. coherent_kg(slot, n).kg_to_render = f3
          BY <1>5 DEF coherent_kg, cut, notifyParticleSwap
    <2>2. mover \in DOMAIN f2 /\ f2[mover] = n
          BY <1>1, <1>5 DEF TwoWay, INVALID_RENDER_INDEX
    <2>3. \A x : Drawn(f2, x) /\ f2[x] = n => x = mover
          BY <1>1 DEF TwoWay
    <2>4. /\ DOMAIN f3 = DOMAIN f2 /\ f3[mover] = slot
          /\ \A x \in DOMAIN f2 \ {mover} : f3[x] = f2[x]
          BY <2>2 DEF Put
    <2> HIDE DEF f3, mover, f2
    <2>5. slot # INVALID_RENDER_INDEX /\ n # INVALID_RENDER_INDEX
          BY DEF INVALID_RENDER_INDEX
    <2>6. CASE k = mover
        <3>1. Drawn(f2, k)
              BY <2>2, <2>5, <2>6
        <3>2. Drawn(f, k) /\ f[k] = n /\ f[k] # slot
              BY <1>2, <1>5, <2>2, <2>6, <3>1
        <3>3. Drawn(f3, k) /\ f3[k] = MovedTo(f[k], n, slot)
              BY <2>2, <2>4, <2>5, <2>6, <3>2 DEF MovedTo
        <3> QED BY <2>1, <3>2, <3>3
    <2>7. CASE k # mover
        <3>1. Drawn(f3, k) <=> Drawn(f2, k)
              BY <2>4, <2>7
        <3>2. Drawn(f2, k) => f3[k] = f[k] /\ f[k] # n
              BY <1>2, <2>3, <2>4, <2>7
        <3> QED BY <1>2, <2>1, <3>1, <3>2 DEF MovedTo
    <2> QED BY <2>6, <2>7
<1> QED BY <1>3, <1>4, <1>5

LEMMA VanishBinding ==
    ASSUME Safe, Distinct, TwoWay(kg, Len(particles)),
           NEW slot \in DOMAIN particles, particles' = swap_and_pop(slot),
           kg' = coherent_kg(slot, Len(particles))
    PROVE  Binding' = [k \in {x \in DOMAIN Binding : Binding[x] # particles[slot]} |-> Binding[k]]
<1> DEFINE n == Len(particles)
           f == kg.kg_to_render
           after == kg'.kg_to_render
           p == particles[slot]
<1>1. n \in Nat \ {0} /\ slot \in 1 .. n /\ DOMAIN particles = 1 .. n
      BY SlotsOfVector, SwapAndPop
<1>2. ASSUME NEW k
      PROVE  /\ k \in Bound' <=> k \in Bound /\ f[k] # slot
             /\ k \in Bound' => after[k] = MovedTo(f[k], n, slot)
      BY <1>1, CoherentKGLookup DEF Bound
<1>3. \A k \in Bound : f[k] \in DOMAIN particles
      BY <1>1 DEF Bound, TwoWay
<1>4. Bound' = {x \in Bound : particles[f[x]] # p}
      BY <1>2, <1>3, SlotIsBody
<1>5. ASSUME NEW k \in Bound' PROVE particles'[after[k]] = particles[f[k]]
      BY <1>2, <1>3, <1>5, MovedBody
<1>6. DOMAIN Binding = Bound /\ \A k \in Bound : Binding[k] = particles[f[k]]
      BY DEF Binding
<1>7. Binding' = [k \in Bound' |-> particles'[after[k]]]
      BY DEF Binding
<1> HIDE DEF f, after, p
<1>8. Binding' = [k \in Bound' |-> Binding[k]]
      BY <1>4, <1>5, <1>6, <1>7
<1>9. Bound' = {x \in DOMAIN Binding : Binding[x] # p}
      BY <1>4, <1>6
<1> QED BY <1>8, <1>9 DEF p

\* Swap-and-pop with all its repairs is the death of one particle.
LEMMA RemoveIsVanish ==
    ASSUME StoreInv, NEW slot \in DOMAIN particles,
           NEW queue \in SUBSET pending_deletions,
           \A d \in pending_deletions \ queue : d.particle_index = slot,
           remove_particle_unlocked(slot, queue),
           UNCHANGED <<pending_particles, loop>>
    PROVE  World!Vanish(particles[slot])
<1>1. /\ particles' = swap_and_pop(slot)
      /\ pending_deletions' = coherent_queue(queue, slot, Len(particles))
      /\ physics' = coherent_physics(slot, Len(particles))
      /\ kg' = coherent_kg(slot, Len(particles))
      BY DEF remove_particle_unlocked
<1>2. Safe /\ Distinct /\ TwoWay(kg, Len(particles))
      BY DEF StoreInv
<1>3. Live' = Live \ {particles[slot]}
      BY <1>1, <1>2, VanishLive
<1>4. Deaths' = {d \in Deaths : d.particle # particles[slot]}
      BY <1>1, <1>2, VanishDeaths
<1>5. /\ Bonds' = {b \in Bonds : particles[slot] \notin b.ends}
      /\ Collisions' = {c \in Collisions : particles[slot] \notin c}
      BY <1>1, <1>2, VanishTouch
<1>6. Binding' = [k \in {x \in DOMAIN Binding : Binding[x] # particles[slot]} |-> Binding[k]]
      BY <1>1, <1>2, VanishBinding
<1>7. Flushing' = Flushing
      BY DEF Flushing
<1> QED BY <1>3, <1>4, <1>5, <1>6, <1>7 DEF World!Vanish

-----------------------------------------------------------------------------
\* The steps

LEMMA NewBody ==
    ASSUME NEW p, Unborn(p)
    PROVE  World!New(p)
BY DEF Unborn, Waiting, World!New

\* A birth adds a body and disturbs nothing.
LEMMA BornView ==
    ASSUME StoreInv, NEW p \in Particles, Born(p)
    PROVE  /\ Live' = Live \cup {p}
           /\ pending_deletions' = pending_deletions => Deaths' = Deaths
           /\ physics' = physics => Bonds' = Bonds /\ Collisions' = Collisions
           /\ kg' = kg => Binding' = Binding
           /\ Len(particles') = Len(particles) + 1
           /\ particles'[Len(particles) + 1] = p
           /\ \A i \in DOMAIN particles : i \in DOMAIN particles' /\ particles'[i] = particles[i]
<1> DEFINE n == Len(particles)
<1>1. Safe /\ TwoWay(kg, n) /\ particles \in Seq(Particles) /\ DOMAIN particles = 1 .. n
      BY SlotsOfVector DEF StoreInv
<1>2. /\ DOMAIN particles' = 1 .. n + 1
      /\ Len(particles') = n + 1
      /\ \A i \in 1 .. n : particles'[i] = particles[i]
      /\ particles'[n + 1] = p
      BY <1>1, AppendProperties DEF Born
<1>3. n \in Nat
      BY <1>1
<1>4. /\ \A i \in 1 .. n : i \in 1 .. n + 1
      /\ \A i \in 1 .. n + 1 : i \in 1 .. n \/ i = n + 1
      /\ n + 1 \in 1 .. n + 1
      BY <1>3
<1>5. Live' = Live \cup {p}
      BY <1>1, <1>2, <1>4 DEF Live
<1> QED BY <1>1, <1>2, <1>4, <1>5, SameView

LEMMA AppearStep ==
    ASSUME StoreInv, NEW p \in Particles, add_particle(p)
    PROVE  World!Appear(p)
<1>1. /\ Live' = Live \cup {p} /\ Deaths' = Deaths /\ Bonds' = Bonds
      /\ Collisions' = Collisions /\ Binding' = Binding
      BY BornView DEF add_particle
<1>2. Flushing' = Flushing /\ ~Flushing /\ pending_particles' = pending_particles
      BY DEF add_particle, Flushing
<1> QED BY <1>1, <1>2, NewBody DEF add_particle, World!Appear

LEMMA LoadStep ==
    ASSUME StoreInv, NEW p \in Particles, NEW k \in KGIds, load_particle(p, k)
    PROVE  World!AppearBound(p, k) \/ UNCHANGED World!vars
<1> DEFINE n == Len(particles)
           f == kg.kg_to_render
           after == kg'.kg_to_render
<1>1. n \in Nat /\ DOMAIN particles = 1 .. n /\ Safe /\ TwoWay(kg, n)
      BY SlotsOfVector DEF StoreInv
<1>2. Flushing' = Flushing /\ ~Flushing /\ pending_particles' = pending_particles
      BY DEF load_particle, Flushing
<1>3. DOMAIN Binding = Bound /\ \A x \in Bound : Binding[x] = particles[f[x]]
      BY DEF Binding
<1>4. Binding' = [x \in Bound' |-> particles'[after[x]]]
      BY DEF Binding
<1>5. \A x \in Bound : f[x] \in 1 .. n /\ x # k
      BY <1>1 DEF load_particle, Bound, TwoWay
<1>6. CASE Born(p) /\ kg' = createKGParticle(kg, k, n + 1)
    <2>1. /\ Live' = Live \cup {p} /\ Deaths' = Deaths /\ Bonds' = Bonds
          /\ Collisions' = Collisions
          /\ particles'[n + 1] = p
          /\ \A i \in DOMAIN particles : particles'[i] = particles[i]
          BY <1>6, BornView DEF load_particle
    <2>2. after = Put(f, k, n + 1)
          BY <1>6 DEF createKGParticle
    <2>3. /\ DOMAIN after = DOMAIN f \cup {k} /\ after[k] = n + 1
          /\ \A x \in DOMAIN f \ {k} : after[x] = f[x]
          BY <2>2 DEF Put
    <2>4. n + 1 # INVALID_RENDER_INDEX
          BY <1>1 DEF INVALID_RENDER_INDEX
    <2> HIDE DEF after
    <2>5. Bound' = Bound \cup {k}
          BY <1>5, <2>3, <2>4 DEF Bound, after
    <2>6. \A x \in Bound' : particles'[after[x]] = IF x = k THEN p ELSE Binding[x]
          BY <1>1, <1>3, <1>5, <2>1, <2>3, <2>5 DEF Bound
    <2>7. Binding' = [x \in DOMAIN Binding \cup {k} |-> IF x = k THEN p ELSE Binding[x]]
          BY <1>3, <1>4, <2>5, <2>6
    <2>8. k \notin DOMAIN Binding
          BY <1>3, <1>5
    <2> QED BY <1>2, <2>1, <2>7, <2>8, NewBody DEF load_particle, World!AppearBound
<1>7. CASE Refused /\ kg' = createKGParticle(kg, k, INVALID_RENDER_INDEX)
    <2>1. particles' = particles /\ pending_deletions' = pending_deletions /\ physics' = physics
          BY <1>7 DEF Refused, load_particle
    <2>2. after = Put(f, k, INVALID_RENDER_INDEX)
          BY <1>7 DEF createKGParticle
    <2>3. /\ DOMAIN after = DOMAIN f \cup {k} /\ after[k] = INVALID_RENDER_INDEX
          /\ \A x \in DOMAIN f \ {k} : after[x] = f[x]
          BY <2>2 DEF Put
    <2> HIDE DEF after
    <2>4. Bound' = Bound
          BY <1>5, <2>3 DEF Bound, after
    <2>5. \A x \in Bound : after[x] = f[x]
          BY <1>5, <2>3 DEF Bound
    <2>6. Binding' = Binding
          BY <1>4, <2>1, <2>4, <2>5 DEF Binding
    <2>7. Live' = Live /\ Deaths' = Deaths /\ Bonds' = Bonds /\ Collisions' = Collisions
          BY <2>1 DEF Live, Deaths, Bonds, Collisions
    <2> QED BY <1>2, <2>6, <2>7 DEF World!vars
<1> QED BY <1>6, <1>7 DEF load_particle

LEMMA EnqueueStep ==
    ASSUME NEW p \in Particles, queue_particle_addition(p)
    PROVE  World!Enqueue(p)
<1>1. /\ Live' = Live /\ Deaths' = Deaths /\ Bonds' = Bonds /\ Collisions' = Collisions
      /\ Binding' = Binding
      BY DEF queue_particle_addition, Live, Deaths, Bonds, Collisions, Binding, Bound
<1>2. Flushing' = Flushing /\ ~Flushing
      BY DEF queue_particle_addition, Flushing
<1> QED BY <1>1, <1>2, NewBody DEF queue_particle_addition, World!Enqueue

LEMMA DequeueStep ==
    ASSUME StoreInv, flush_one_addition
    PROVE  World!Dequeue
<1> DEFINE p == Head(pending_particles)
<1>1. p \in Particles
      BY NonEmptyTail DEF StoreInv, Safe, TypeOK, flush_one_addition
<1>2. Flushing' = Flushing /\ ~Flushing
      BY DEF flush_one_addition, Flushing
<1>3. /\ Deaths' = Deaths /\ Bonds' = Bonds /\ Collisions' = Collisions
      /\ Binding' = Binding /\ Live' \in {Live, Live \cup {p}}
    <2>1. CASE Born(p)
          BY <1>1, <2>1, BornView DEF flush_one_addition
    <2>2. CASE Refused
          BY <2>2 DEF flush_one_addition, Refused, Live, Deaths, Bonds, Collisions, Binding, Bound
    <2> QED BY <2>1, <2>2 DEF flush_one_addition
<1> QED BY <1>2, <1>3 DEF flush_one_addition, World!Dequeue

LEMMA RemoveStep ==
    ASSUME StoreInv, NEW slot, remove_particle(slot)
    PROVE  (\E p \in Particles : World!Remove(p)) \/ UNCHANGED World!vars
<1>1. CASE slot \in DOMAIN particles
    <2>1. World!Vanish(particles[slot])
          BY <1>1, RemoveIsVanish DEF remove_particle
    <2>2. particles[slot] \in Particles /\ particles[slot] \in Live
          BY <1>1, SlotsOfVector DEF StoreInv
    <2>3. ~Flushing
          BY DEF remove_particle, Flushing
    <2> QED BY <2>1, <2>2, <2>3 DEF World!Remove
<1>2. CASE slot \notin DOMAIN particles
    <2>1. UNCHANGED vars
          BY <1>2 DEF remove_particle, remove_particle_unlocked, vars
    <2> QED BY <2>1 DEF vars, World!vars, Live, Deaths, Bonds, Collisions, Binding, Bound, Flushing
<1> QED BY <1>1, <1>2

\* A push onto the deletion queue dooms the body at the slot.
LEMMA DoomView ==
    ASSUME StoreInv, NEW slot, NEW lag, Doom(slot, lag), UNCHANGED particles
    PROVE  World!DoomIn(particles[slot], FRAMES_IN_FLIGHT - lag)
<1> DEFINE Seen(d) == [ticket |-> d.ticket, particle |-> particles[d.particle_index],
                       frames_left |-> d.frames_left]
<1>1. PICK t \in 1 .. MaxDeletions :
          /\ IsNextTicket(t)
          /\ pending_deletions' = pending_deletions \cup
                {[ticket |-> t, particle_index |-> slot,
                  frames_left |-> FRAMES_IN_FLIGHT - lag]}
      BY DEF Doom
<1>2. /\ Deaths = {Seen(d) : d \in pending_deletions}
      /\ Deaths' = {Seen(d) : d \in pending_deletions'}
      BY DEF Deaths
<1>3. Deaths' = Deaths \cup {[ticket |-> t, particle |-> particles[slot],
                              frames_left |-> FRAMES_IN_FLIGHT - lag]}
    <2> DEFINE new == [ticket |-> t, particle_index |-> slot,
                       frames_left |-> FRAMES_IN_FLIGHT - lag]
    <2>1. Seen(new) = [ticket |-> t, particle |-> particles[slot],
                       frames_left |-> FRAMES_IN_FLIGHT - lag]
          OBVIOUS
    <2>2. pending_deletions' = pending_deletions \cup {new}
          BY <1>1
    <2> HIDE DEF Seen, new
    <2>3. Deaths' = Deaths \cup {Seen(new)}
          BY <1>2, <2>2
    <2> QED BY <2>1, <2>3
<1>4. \A d \in pending_deletions : d.ticket < t
      BY <1>1 DEF IsNextTicket
<1>5. \A d \in Deaths : d.ticket < t
      BY <1>2, <1>4
<1>6. t = 1 \/ \E d \in Deaths : t = 1 + d.ticket
    <2>1. SUFFICES ASSUME t # 1 PROVE \E d \in Deaths : t = 1 + d.ticket
          OBVIOUS
    <2>2. PICK d \in pending_deletions : d.ticket = t - 1
          BY <1>1, <2>1 DEF IsNextTicket
    <2>3. Seen(d) \in Deaths /\ 1 + Seen(d).ticket = t
          BY <1>2, <2>2
    <2> QED BY <2>3
<1> QED BY <1>3, <1>5, <1>6 DEF World!DoomIn

LEMMA DoomStep ==
    ASSUME StoreInv, NEW slot, queue_particle_deletion(slot)
    PROVE  \E p \in Particles : World!Doom(p)
<1>1. Doom(slot, 0) /\ slot \in DOMAIN particles /\ UNCHANGED particles
      BY DEF queue_particle_deletion, Doom
<1>2. World!DoomIn(particles[slot], FRAMES_IN_FLIGHT - 0) /\ FRAMES_IN_FLIGHT - 0 = FRAMES_IN_FLIGHT
      BY <1>1, DoomView, FramesAssumption
<1>3. particles[slot] \in Particles /\ particles[slot] \in Live
      BY <1>1, SlotsOfVector DEF StoreInv
<1>4. Live' = Live /\ Bonds' = Bonds /\ Collisions' = Collisions /\ Binding' = Binding
      BY DEF queue_particle_deletion, Live, Bonds, Collisions, Binding, Bound
<1>5. Flushing' = Flushing /\ ~Flushing /\ pending_particles' = pending_particles
      BY DEF queue_particle_deletion, Flushing
<1>6. World!DoomIn(particles[slot], FRAMES_IN_FLIGHT)
      BY <1>2
<1> QED BY <1>3, <1>4, <1>5, <1>6 DEF World!Doom

LEMMA LetGoStep ==
    ASSUME StoreInv, NEW anchor, unregister_humanoid(anchor)
    PROVE  \E p \in Particles : World!LetGo(p)
<1> DEFINE cut == P!remove_gluons_for_particle(physics, anchor)
           p == particles[anchor]
<1>1. PICK lag \in {0, 1} : Doom(anchor, lag)
      BY DEF unregister_humanoid
<1>2. /\ anchor \in DOMAIN particles /\ physics' = cut
      /\ UNCHANGED <<particles, pending_particles, kg, loop>>
      BY <1>1 DEF unregister_humanoid, Doom
<1>3. World!DoomIn(p, FRAMES_IN_FLIGHT - lag)
      BY <1>1, <1>2, DoomView
<1>4. p \in Particles /\ p \in Live
      BY <1>2, SlotsOfVector DEF StoreInv
<1>5. Live' = Live /\ Binding' = Binding /\ Flushing' = Flushing /\ ~Flushing
      BY <1>2 DEF unregister_humanoid, Live, Binding, Bound, Flushing
<1>6. /\ Bonds' = {b \in Bonds : p \notin b.ends}
      /\ Collisions' = {c \in Collisions : p \notin c}
    <2>1. /\ Bonds' = {[id |-> g.id, ends |-> {particles[g.particle_a], particles[g.particle_b]}] :
                          g \in cut.gluon_constraints}
          /\ Collisions' = {{particles[i] : i \in e} : e \in cut.collision_events}
          BY <1>2 DEF Bonds, Collisions
    <2> HIDE DEF cut
    <2> QED BY <1>2, <2>1, CutView DEF StoreInv, cut
<1> QED BY <1>2, <1>3, <1>4, <1>5, <1>6 DEF World!LetGo

LEMMA ExpireStep ==
    ASSUME StoreInv, flush_one_deletion
    PROVE  World!Expire
<1> DEFINE Seen(d) == [ticket |-> d.ticket, particle |-> particles[d.particle_index],
                       frames_left |-> d.frames_left]
<1>1. PICK front \in pending_deletions :
          /\ IsFront(front, pending_deletions)
          /\ front.frames_left = 0
          /\ remove_particle_unlocked(front.particle_index, pending_deletions \ {front})
      BY DEF flush_one_deletion
<1>2. front.particle_index \in DOMAIN particles
      BY DEF StoreInv, Safe, IndicesLive
<1>3. World!Vanish(particles[front.particle_index])
      BY <1>1, <1>2, RemoveIsVanish DEF flush_one_deletion
<1>4. Deaths = {Seen(d) : d \in pending_deletions}
      BY DEF Deaths
<1>5. Seen(front) \in Deaths /\ \A e \in Deaths : Seen(front).ticket <= e.ticket
      BY <1>1, <1>4 DEF IsFront
<1>6. Seen(front).frames_left = 0 /\ Seen(front).particle = particles[front.particle_index]
      BY <1>1
<1>7. Flushing
      BY DEF flush_one_deletion, Flushing
<1> HIDE DEF Seen
<1>8. World!Oldest(Seen(front))
      BY <1>5 DEF World!Oldest
<1>9. World!Vanish(Seen(front).particle)
      BY <1>3, <1>6
<1> QED BY <1>5, <1>6, <1>7, <1>8, <1>9 DEF World!Expire

LEMMA RestStep ==
    ASSUME StoreInv, deletions_flushed
    PROVE  World!Rest
<1> DEFINE Seen(d) == [ticket |-> d.ticket, particle |-> particles[d.particle_index],
                       frames_left |-> d.frames_left]
<1>1. /\ Live' = Live /\ Deaths' = Deaths /\ Bonds' = Bonds /\ Collisions' = Collisions
      /\ Binding' = Binding /\ pending_particles' = pending_particles
      BY DEF deletions_flushed, Live, Deaths, Bonds, Collisions, Binding, Bound
<1>2. Flushing /\ Flushing' = FALSE
      BY DEF deletions_flushed, AfterDeletions, Flushing
<1>3. Deaths = {Seen(d) : d \in pending_deletions}
      BY DEF Deaths
<1>4. ASSUME NEW x \in Deaths, World!Oldest(x) PROVE x.frames_left > 0
    <2>1. PICK d \in pending_deletions : x = Seen(d)
          BY <1>3
    <2>2. \A e \in pending_deletions : Seen(e) \in Deaths /\ Seen(e).ticket = e.ticket
          BY <1>3
    <2>3. x.ticket = d.ticket /\ x.frames_left = d.frames_left
          BY <2>1
    <2> HIDE DEF Seen
    <2>4. \A e \in pending_deletions : d.ticket <= e.ticket
          BY <1>4, <2>2, <2>3 DEF World!Oldest
    <2>5. d.frames_left # 0
          BY <2>4 DEF deletions_flushed, has_ready_deletions, IsFront
    <2>6. d.frames_left \in Nat
          BY DEF StoreInv, Safe, TypeOK
    <2> QED BY <2>3, <2>5, <2>6
<1> QED BY <1>1, <1>2, <1>4 DEF World!Rest

LEMMA TickStep ==
    ASSUME StoreInv, engine_update
    PROVE  World!Tick
<1> DEFINE Nearer(d) == [d EXCEPT !.frames_left = IF @ > 0 THEN @ - 1 ELSE 0]
           Seen(d) == [ticket |-> d.ticket, particle |-> particles[d.particle_index],
                       frames_left |-> d.frames_left]
<1>1. /\ Live' = Live /\ Bonds' = Bonds /\ Collisions' = Collisions
      /\ Binding' = Binding /\ pending_particles' = pending_particles
      BY DEF engine_update, Live, Bonds, Collisions, Binding, Bound
<1>2. ~Flushing /\ Flushing' \in BOOLEAN
      BY DEF engine_update, Flushing
<1>3. /\ Deaths = {Seen(d) : d \in pending_deletions}
      /\ Deaths' = {Seen(d) : d \in pending_deletions'}
      BY DEF engine_update, Deaths
<1>4. pending_deletions' = {Nearer(d) : d \in pending_deletions}
      BY DEF engine_update
<1>5. ASSUME NEW d \in pending_deletions PROVE Seen(Nearer(d)) = Nearer(Seen(d))
    <2>1. d \in Deletions
          BY DEF StoreInv, Safe, TypeOK, Deletions
    <2> QED BY <2>1 DEF Deletions
<1> HIDE DEF Seen, Nearer
<1>6. Deaths' = {Nearer(x) : x \in Deaths}
      BY <1>3, <1>4, <1>5
<1> QED BY <1>1, <1>2, <1>6 DEF World!Tick, Nearer

LEMMA RenderStep ==
    ASSUME engine_render
    PROVE  World!Flush \/ UNCHANGED World!vars
<1>1. /\ Live' = Live /\ Deaths' = Deaths /\ Bonds' = Bonds /\ Collisions' = Collisions
      /\ Binding' = Binding /\ pending_particles' = pending_particles
      BY DEF engine_render, Live, Deaths, Bonds, Collisions, Binding, Bound
<1>2. Flushing = FALSE /\ Flushing' \in BOOLEAN
      BY DEF engine_render, Flushing
<1>3. CASE Flushing' = TRUE
      BY <1>1, <1>2, <1>3 DEF World!Flush
<1>4. CASE Flushing' = FALSE
      BY <1>1, <1>2, <1>4 DEF World!vars
<1> QED BY <1>2, <1>3, <1>4

LEMMA BondStep ==
    ASSUME StoreInv, NEW id \in GluonIds, NEW a \in Slots, NEW b \in Slots,
           add_gluon_between(id, a, b)
    PROVE  \E p, q \in Particles : World!Bond(id, p, q)
<1> DEFINE Seen(g) == [id |-> g.id, ends |-> {particles[g.particle_a], particles[g.particle_b]}]
           new == [id |-> id, particle_a |-> a, particle_b |-> b]
           p == particles[a]
           q == particles[b]
<1>1. /\ a \in DOMAIN particles /\ b \in DOMAIN particles /\ a # b
      /\ physics'.gluon_constraints = physics.gluon_constraints \cup {new}
      /\ physics'.collision_events = physics.collision_events
      BY DEF add_gluon_between, P!add_gluon_between
<1>2. /\ Live' = Live /\ Deaths' = Deaths /\ Binding' = Binding
      /\ Collisions' = Collisions /\ pending_particles' = pending_particles
      BY <1>1 DEF add_gluon_between, Live, Deaths, Collisions, Binding, Bound
<1>3. ~Flushing /\ Flushing' = Flushing
      BY DEF add_gluon_between, Flushing
<1>4. /\ p \in Particles /\ q \in Particles /\ p # q /\ p \in Live /\ q \in Live
      BY <1>1, SlotsOfVector, SlotIsBody DEF StoreInv
<1>5. /\ Bonds = {Seen(g) : g \in physics.gluon_constraints}
      /\ Bonds' = {Seen(g) : g \in physics'.gluon_constraints}
      BY DEF add_gluon_between, Bonds
<1>6. ASSUME NEW g \in physics.gluon_constraints
      PROVE  Seen(g).id # id /\ Seen(g).ends # {p, q}
    <2>1. /\ g.particle_a \in DOMAIN particles /\ g.particle_b \in DOMAIN particles
          /\ g.id # id /\ P!Ends(g) # {a, b}
          BY DEF StoreInv, Safe, IndicesLive, P!Ends, PairExact, add_gluon_between
    <2>2. {g.particle_a, g.particle_b} # {a, b}
          BY <2>1 DEF P!Ends
    <2>3. {particles[g.particle_a], particles[g.particle_b]} # {p, q}
          BY <1>1, <2>1, <2>2, SlotIsBody DEF StoreInv
    <2> QED BY <2>1, <2>3
<1>7. Seen(new) = [id |-> id, ends |-> {p, q}]
      OBVIOUS
<1> HIDE DEF Seen, new, p, q
<1>8. Bonds' = Bonds \cup {[id |-> id, ends |-> {p, q}]}
      BY <1>1, <1>5, <1>7
<1>9. \A x \in Bonds : x.id # id /\ x.ends # {p, q}
      BY <1>5, <1>6
<1>10. World!Bond(id, p, q)
      BY <1>2, <1>3, <1>4, <1>8, <1>9 DEF World!Bond
<1> QED BY <1>4, <1>10

LEMMA PhysicsStep ==
    ASSUME StoreInv, physics_update
    PROVE  World!Physics
<1> DEFINE pruned == P!prune_invalid_gluons(physics, Len(particles))
           Seen(g) == [id |-> g.id, ends |-> {particles[g.particle_a], particles[g.particle_b]}]
           Pair(e) == {particles[i] : i \in e}
           LivePairs == {{p, q} : p \in Live, q \in Live} \ {{p} : p \in Live}
<1>1. PICK events \in EventSets, torn \in SUBSET pruned.gluon_constraints :
          physics' = P!with_events(P!drop_gluons(pruned, torn), events)
      BY DEF physics_update
<1>2. /\ physics'.gluon_constraints \subseteq physics.gluon_constraints
      /\ physics'.collision_events = events
      BY <1>1 DEF P!with_events, P!drop_gluons, P!prune_invalid_gluons
<1>3. /\ Live' = Live /\ Deaths' = Deaths /\ Binding' = Binding
      /\ pending_particles' = pending_particles
      BY DEF physics_update, Live, Deaths, Binding, Bound
<1>4. ~Flushing /\ Flushing' = Flushing
      BY DEF physics_update, Flushing
<1>5. /\ Bonds = {Seen(g) : g \in physics.gluon_constraints}
      /\ Bonds' = {Seen(g) : g \in physics'.gluon_constraints}
      BY DEF physics_update, Bonds
<1>6. Bonds' \in SUBSET Bonds
      BY <1>2, <1>5
<1>7. Collisions' = {Pair(e) : e \in events}
      BY <1>2 DEF physics_update, Collisions
<1>8. ASSUME NEW e \in events
      PROVE  Pair(e) \in LivePairs
    <2>1. PICK i \in DOMAIN particles, j \in DOMAIN particles : e = {i, j} /\ Cardinality(e) = 2
          BY DEF EventSets, Contacts
    <2>2. i # j
        <3>1. SUFFICES ASSUME i = j PROVE FALSE
              OBVIOUS
        <3>2. e = {i}
              BY <2>1, <3>1
        <3>3. Cardinality(e) = 1
              BY <3>2, FS_Singleton, Zenon
        <3> QED BY <2>1, <3>3
    <2>3. particles[i] \in Live /\ particles[j] \in Live /\ particles[i] # particles[j]
          BY <2>2, SlotsOfVector, SlotIsBody DEF StoreInv
    <2> DEFINE pair == {particles[i], particles[j]}
    <2>4. pair = Pair(e)
          BY <2>1
    <2>5. \A p \in Live : pair # {p}
          BY <2>3
    <2>6. pair \in {{p, q} : p \in Live, q \in Live}
          BY <2>3
    <2> HIDE DEF Pair, pair
    <2> QED BY <2>4, <2>5, <2>6
<1> HIDE DEF Pair, LivePairs
<1>9. Collisions' \in SUBSET LivePairs
      BY <1>7, <1>8
<1> QED BY <1>3, <1>4, <1>6, <1>9 DEF World!Physics, LivePairs

LEMMA UnbindStep ==
    ASSUME NEW k \in KGIds, destroy_kg_particle(k)
    PROVE  World!Unbind({k})
<1> DEFINE f == kg.kg_to_render
           after == kg'.kg_to_render
<1>1. after = Without(f, k)
      BY DEF destroy_kg_particle, destroyKGParticle
<1> HIDE DEF f, after
<1>2. DOMAIN after = DOMAIN f \ {k} /\ \A x \in DOMAIN after : after[x] = f[x]
      BY <1>1, WithoutLookup
<1>3. Bound' = Bound \ {k} /\ \A x \in Bound' : after[x] = f[x]
      BY <1>2 DEF Bound, f, after
<1>4. DOMAIN Binding = Bound /\ \A x \in Bound : Binding[x] = particles[f[x]]
      BY DEF Binding, f
<1>5. Binding' = [x \in Bound' |-> particles[after[x]]]
      BY DEF destroy_kg_particle, Binding, after
<1>6. Binding' = [x \in DOMAIN Binding \ {k} |-> Binding[x]]
      BY <1>3, <1>4, <1>5
<1>7. /\ Live' = Live /\ Deaths' = Deaths /\ Bonds' = Bonds /\ Collisions' = Collisions
      /\ pending_particles' = pending_particles
      BY DEF destroy_kg_particle, Live, Deaths, Bonds, Collisions
<1>8. ~Flushing /\ Flushing' = Flushing
      BY DEF destroy_kg_particle, Flushing
<1> QED BY <1>6, <1>7, <1>8 DEF World!Unbind

\* A step the world does not see.
LEMMA QuietStep ==
    ASSUME UNCHANGED <<particles, pending_particles, pending_deletions, physics, kg, Flushing>>
    PROVE  UNCHANGED World!vars
BY DEF World!vars, Live, Deaths, Bonds, Collisions, Binding, Bound

LEMMA WorldStep == StoreInv /\ [Next]_vars => [World!Next]_World!vars
<1> SUFFICES ASSUME StoreInv, [Next]_vars PROVE World!Next \/ UNCHANGED World!vars
    OBVIOUS
<1> USE DEF World!Next
<1>1. ASSUME NEW p \in Particles, add_particle(p) PROVE World!Next
      BY <1>1, AppearStep
<1>2. ASSUME NEW p \in Particles, NEW k \in KGIds, load_particle(p, k)
      PROVE  World!Next \/ UNCHANGED World!vars
      BY <1>2, LoadStep
<1>3. ASSUME NEW p \in Particles, queue_particle_addition(p) PROVE World!Next
      BY <1>3, EnqueueStep
<1>4. CASE flush_pending_particles
      BY <1>4, QuietStep DEF flush_pending_particles, Flushing
<1>5. CASE flush_one_addition
      BY <1>5, DequeueStep
<1>6. CASE additions_flushed
      BY <1>6, QuietStep DEF additions_flushed, Flushing
<1>7. ASSUME NEW slot \in Slots, remove_particle(slot)
      PROVE  World!Next \/ UNCHANGED World!vars
      BY <1>7, RemoveStep
<1>8. ASSUME NEW slot \in Slots, queue_particle_deletion(slot) PROVE World!Next
      BY <1>8, DoomStep
<1>9. ASSUME NEW anchor \in Slots, unregister_humanoid(anchor) PROVE World!Next
      BY <1>9, LetGoStep
<1>10. CASE flush_one_deletion
      BY <1>10, ExpireStep
<1>11. CASE deletions_flushed
      BY <1>11, RestStep
<1>12. CASE engine_update
      BY <1>12, TickStep
<1>13. CASE engine_render
      BY <1>13, RenderStep
<1>14. ASSUME NEW id \in GluonIds, NEW a \in Slots, NEW b \in Slots, add_gluon_between(id, a, b)
       PROVE  World!Next
      BY <1>14, BondStep
<1>15. CASE physics_update
      BY <1>15, PhysicsStep
<1>16. ASSUME NEW slot \in Slots, cache_particle_id(slot) PROVE UNCHANGED World!vars
      BY <1>16, QuietStep DEF cache_particle_id, Flushing
<1>17. ASSUME NEW k \in KGIds, destroy_kg_particle(k) PROVE World!Next
      BY <1>17, UnbindStep
<1>18. CASE UNCHANGED vars
      BY <1>18, QuietStep DEF vars, Flushing
<1> HIDE DEF World!Next
<1> QED BY <1>1, <1>2, <1>3, <1>4, <1>5, <1>6, <1>7, <1>8, <1>9, <1>10, <1>11, <1>12,
           <1>13, <1>14, <1>15, <1>16, <1>17, <1>18 DEF Next

LEMMA InitWorld == Init => World!Init
<1> SUFFICES ASSUME Init PROVE World!Init
    OBVIOUS
<1>1. Live = {} /\ pending_particles = <<>> /\ Deaths = {} /\ Bonds = {}
      /\ Collisions = {} /\ Flushing = FALSE
      BY DEF Init, NothingBorn, P!EmptyPhysics, Live, Deaths, Bonds, Collisions, Flushing
<1>2. Bound = {}
      BY DEF Init, EmptyKG, EmptyMap, Bound
<1>3. Binding = [k \in {} |-> 0]
      BY <1>2 DEF Binding
<1> QED BY <1>1, <1>3 DEF World!Init

\* The store of indices implements the world of particles, for any number of
\* particles, ids and frames: whatever swap-and-pop does to the slots, each bond,
\* contact, KG binding and queued death goes on being about the particle it was
\* about, goes when that particle goes and not before, and queued deaths strike
\* their own particle in queue order after their frames.
THEOREM StoreImplementsWorld == Spec => ImplementsWorld
BY InitWorld, WorldStep, StoreInvAlways, PTL DEF Spec, ImplementsWorld, World!Spec
=============================================================================
