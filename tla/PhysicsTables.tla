-------------------------- MODULE PhysicsTables --------------------------
(***************************************************************************)
(* What PhysicsSystem remembers between frames by raw particle index: the  *)
(* gluon bonds, the pair index that finds a bond by its two ends, and the  *)
(* collision events of the last update.  A gluon is a record              *)
(* [id, particle_a, particle_b]; a pair key is the set of the two ends; an *)
(* event is the set of its two bodies.  Each operator is one method, from  *)
(* tables to tables.                                                       *)
(***************************************************************************)
EXTENDS Naturals, Functions

Ends(g) == {g.particle_a, g.particle_b}

EmptyPhysics == [gluon_constraints |-> {},
                 gluon_pair_index  |-> [pair \in {} |-> 0],
                 collision_events  |-> {}]

\* unindex_gluon over a set of gluons: an entry goes only if it still points
\* at one of them.
unindex(index, gs) ==
    Restrict(index, {pair \in DOMAIN index :
                        \A g \in gs : ~(pair = Ends(g) /\ index[pair] = g.id)})

\* index_gluon over a set of gluons with distinct pairs: the newer entry wins
\* (GLUON_LENIENT; without it a taken pair aborts the engine).
index_gluons(index, gs) ==
    [pair \in DOMAIN index \cup {Ends(g) : g \in gs} |->
        IF \E g \in gs : Ends(g) = pair
        THEN (CHOOSE g \in gs : Ends(g) = pair).id
        ELSE index[pair]]

\* Mutant: a dead bond stays in the pair index.
drop_gluons_still_indexed(ph, gs) ==
    [gluon_constraints |-> ph.gluon_constraints \ gs,
     gluon_pair_index  |-> ph.gluon_pair_index,
     collision_events  |-> ph.collision_events]

drop_gluons(ph, gs) ==
    [gluon_constraints |-> ph.gluon_constraints \ gs,
     gluon_pair_index  |-> unindex(ph.gluon_pair_index, gs),
     collision_events  |-> ph.collision_events]

with_events(ph, events) ==
    [gluon_constraints |-> ph.gluon_constraints,
     gluon_pair_index  |-> ph.gluon_pair_index,
     collision_events  |-> events]

add_gluon_between(ph, id, a, b) ==
    LET g == [id |-> id, particle_a |-> a, particle_b |-> b]
    IN  [gluon_constraints |-> ph.gluon_constraints \cup {g},
         gluon_pair_index  |-> index_gluons(ph.gluon_pair_index, {g}),
         collision_events  |-> ph.collision_events]

prune_invalid_gluons(ph, particle_count) ==
    drop_gluons(ph, {g \in ph.gluon_constraints :
                        \E x \in Ends(g) : x > particle_count})

\* What a particle takes with it: its bonds and its collision events.
remove_gluons_for_particle(ph, slot) ==
    with_events(drop_gluons(ph, {g \in ph.gluon_constraints : slot \in Ends(g)}),
                {e \in ph.collision_events : slot \notin e})

\* The tail particle, at slot old, now lives at slot new.
notify_particle_swap(ph, old, new) ==
    LET Moved(x) == IF x = old THEN new ELSE x
        reindexed == {g \in ph.gluon_constraints : old \in Ends(g)}
        Renamed(g) == [id |-> g.id, particle_a |-> Moved(g.particle_a),
                       particle_b |-> Moved(g.particle_b)]
        renamed == {Renamed(g) : g \in reindexed}
    IN  [gluon_constraints |-> (ph.gluon_constraints \ reindexed) \cup renamed,
         gluon_pair_index  |-> index_gluons(unindex(ph.gluon_pair_index, reindexed),
                                            renamed),
         collision_events  |-> {{Moved(x) : x \in e} : e \in ph.collision_events}]
=============================================================================
