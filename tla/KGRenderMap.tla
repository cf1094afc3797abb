--------------------------- MODULE KGRenderMap ---------------------------
(***************************************************************************)
(* The stable-id table of KGCore: a knowledge-graph particle id never      *)
(* changes, the slot it is drawn from does.  The table is kept in both     *)
(* directions; a map is a partial function, "no entry" is "not in its      *)
(* domain".  Each operator is one method, from table to table.             *)
(***************************************************************************)
EXTENDS Naturals, Functions

\* Slots of the particle vector are counted from 1 here (index + 1 of the
\* code), which leaves 0 for the code's INVALID_RENDER_INDEX.
INVALID_RENDER_INDEX == 0

EmptyMap == [x \in {} |-> 0]

EmptyKG == [kg_to_render |-> EmptyMap, render_to_kg |-> EmptyMap]

Without(map, key) == Restrict(map, DOMAIN map \ {key})

Put(map, key, value) ==
    [x \in DOMAIN map \cup {key} |-> IF x = key THEN value ELSE map[x]]

getRenderIndex(kg, k) ==
    IF k \in DOMAIN kg.kg_to_render THEN kg.kg_to_render[k]
                                    ELSE INVALID_RENDER_INDEX

\* Mutant: the reverse map is written with the forward map's key.
createKGParticle_one_way(kg, k, slot) ==
    [kg_to_render |-> Put(kg.kg_to_render, k, slot),
     render_to_kg |-> Put(kg.render_to_kg, k, slot)]

createKGParticle(kg, k, slot) ==
    [kg_to_render |-> Put(kg.kg_to_render, k, slot),
     render_to_kg |-> Put(kg.render_to_kg, slot, k)]

destroyKGParticle(kg, k) ==
    IF k \notin DOMAIN kg.kg_to_render THEN kg ELSE
    [kg_to_render |-> Without(kg.kg_to_render, k),
     render_to_kg |-> Without(kg.render_to_kg, kg.kg_to_render[k])]

\* An id whose forward entry is gone is left alone.
updateRenderIndex(kg, k, slot) ==
    IF k \notin DOMAIN kg.kg_to_render THEN kg ELSE
    [kg_to_render |-> Put(kg.kg_to_render, k, slot),
     render_to_kg |-> Put(Without(kg.render_to_kg, kg.kg_to_render[k]), slot, k)]

\* Mutant: the swap renames the forward entry only.
notifyParticleSwap_forward_only(kg, old, new) ==
    IF old \notin DOMAIN kg.render_to_kg THEN kg ELSE
    [kg_to_render |-> Put(kg.kg_to_render, kg.render_to_kg[old], new),
     render_to_kg |-> kg.render_to_kg]

\* The mover is found through the reverse map alone; its forward entry is
\* written whatever it held.
notifyParticleSwap(kg, old, new) ==
    IF old \notin DOMAIN kg.render_to_kg THEN kg ELSE
    [kg_to_render |-> Put(kg.kg_to_render, kg.render_to_kg[old], new),
     render_to_kg |-> Put(Without(kg.render_to_kg, old), new, kg.render_to_kg[old])]

\* Mutant: the dead slot keeps its reverse entry.
eraseRenderIndexMappings_forward_only(kg, slot) ==
    IF slot \notin DOMAIN kg.render_to_kg THEN kg ELSE
    [kg_to_render |-> Without(kg.kg_to_render, kg.render_to_kg[slot]),
     render_to_kg |-> kg.render_to_kg]

eraseRenderIndexMappings(kg, slot) ==
    IF slot \notin DOMAIN kg.render_to_kg THEN kg ELSE
    [kg_to_render |-> Without(kg.kg_to_render, kg.render_to_kg[slot]),
     render_to_kg |-> Without(kg.render_to_kg, slot)]

\* The two results of unloadEntity over the KG particles ks of an entity:
\* the slots to delete, and the table with every forward entry invalidated.
\* The reverse entries stay.
unloadedSlots(kg, ks) ==
    {getRenderIndex(kg, k) : k \in ks} \ {INVALID_RENDER_INDEX}

unloadEntity(kg, ks) ==
    [kg_to_render |-> [k \in DOMAIN kg.kg_to_render \cup ks |->
                          IF k \in ks THEN INVALID_RENDER_INDEX ELSE kg.kg_to_render[k]],
     render_to_kg |-> kg.render_to_kg]
=============================================================================
