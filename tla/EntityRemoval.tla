-------------------------- MODULE EntityRemoval --------------------------
(***************************************************************************)
(* Removing a whole entity from the particle store.                        *)
(* EntitySystem::removeEntity collects the slots of the entity's bodies    *)
(* first and removes them one by one afterwards, while every removal       *)
(* renames the tail; it sorts the slots so that it does not matter.        *)
(***************************************************************************)
EXTENDS ParticleStore

CONSTANTS
    NoEntity,  \* not an entity
    KGOwner    \* kg_particle_to_entity_: the entity of each KG particle

ASSUME NoEntityAssumption == NoEntity \notin Entities
ASSUME KGOwnerAssumption ==
    KGIds \subseteq Nat /\ KGOwner \in [KGIds -> Entities]

VARIABLES
    entities,  \* KGCore::entities, the entities that exist
    call       \* the removal under way: its entity, the slots still to remove,
               \* whether it destroys the entity, and the particles it must spare

removal_vars == <<entities, call>>
system_vars == <<vars, removal_vars>>

NoCall == [entity |-> NoEntity, slots |-> {}, destroys |-> FALSE, spares |-> {}]

RemovalInit == Init /\ entities = Entities /\ call = NoCall

-----------------------------------------------------------------------------
\* Collecting the slots

\* getEntityKGParticlesRecursive: the ids of the entity.
listed(e) == {k \in DOMAIN kg.kg_to_render : KGOwner[k] = e}

\* No two ids of a table in order share a slot (RenderMapsInverse), so the vector of
\* slots, in whatever order the KG lists the ids, is the set of them.
render_indices(e) == {getRenderIndex(kg, k) : k \in listed(e)} \ {INVALID_RENDER_INDEX}

Bodies(slots) == {particles[slot] : slot \in slots}

begin(e, destroys) ==
    /\ loop = "run"
    /\ call = NoCall
    /\ render_indices(e) # {}
    /\ call' = [entity |-> e, slots |-> render_indices(e), destroys |-> destroys,
                spares |-> Live \ Bodies(render_indices(e))]
    /\ UNCHANGED entities

removeEntity(e, destroy_kg_entity) ==
    /\ begin(e, destroy_kg_entity)
    /\ UNCHANGED vars

\* A humanoid is unregistered first: the anchor its planted foot holds, a body of
\* no entity's, is queued, and the removals that follow rename it in the queue.
removeHumanoid(e, destroy_kg_entity, anchor) ==
    /\ begin(e, destroy_kg_entity)
    /\ anchor \notin render_indices(e)
    /\ unregister_humanoid(anchor)

-----------------------------------------------------------------------------
\* Removing them

\* Mutant: std::sort without std::greater, the lowest slot first.
IsNext_ascending(slot, slots) == \A other \in slots : slot <= other

\* The slots are sorted in descending order.
IsNext(slot, slots) == \A other \in slots : other <= slot

remove_next ==
    /\ \E slot \in call.slots :
          /\ IsNext(slot, call.slots)
          /\ remove_particle(slot)
          /\ call' = [call EXCEPT !.slots = @ \ {slot}]
    /\ UNCHANGED entities

\* Mutant: the ids of a destroyed entity stay mapped.
destroyEntity_keeps_ids(e) == entities' = entities \ {e} /\ UNCHANGED kg

\* KGCore::destroyEntity erases the forward entries of the entity's ids.
destroyEntity(e) ==
    /\ entities' = entities \ {e}
    /\ kg' = [kg_to_render |-> Restrict(kg.kg_to_render,
                  {k \in DOMAIN kg.kg_to_render : KGOwner[k] # e}),
              render_to_kg |-> kg.render_to_kg]

return ==
    /\ call # NoCall
    /\ call.slots = {}
    /\ call' = NoCall
    /\ IF call.destroys THEN destroyEntity(call.entity) ELSE UNCHANGED <<entities, kg>>
    /\ UNCHANGED <<particles, pending_particles, pending_deletions,
                   entity_particle_indices, physics, cached, has_rendered, loop>>

\* Between the calls the store goes on.  createKGParticle gives out growing ids,
\* for entities that exist.
StoreStep ==
    /\ call = NoCall
    /\ \/ \E p \in Particles : add_particle(p)
       \/ \E p \in Particles, k \in KGIds :
             /\ KGOwner[k] = EntityOf[p]
             /\ KGOwner[k] \in entities
             /\ \A j \in DOMAIN kg.kg_to_render : j < k
             /\ load_particle(p, k)
       \/ \E slot \in Slots : remove_particle(slot)
       \/ \E slot \in Slots : queue_particle_deletion(slot) \/ unregister_humanoid(slot)
       \/ flush_one_deletion
       \/ deletions_flushed
       \/ engine_update
       \/ engine_render
    /\ UNCHANGED removal_vars

RemovalNext ==
    \/ StoreStep
    \/ \E e \in entities, destroy \in BOOLEAN :
          removeEntity(e, destroy) \/ \E anchor \in Slots : removeHumanoid(e, destroy, anchor)
    \/ remove_next
    \/ return

\* A removal is one call: it goes through.
RemovalSpec ==
    /\ RemovalInit /\ [][RemovalNext]_system_vars
    /\ WF_system_vars(remove_next \/ return)
    /\ Fairness

-----------------------------------------------------------------------------
\* Properties

\* When a removal has gone through its slots, the bodies the KG bound to the
\* entity are gone, every other particle lives on, and no id of the entity finds
\* a slot, however the removals rename each other's slots: the reason
\* entity_system.cpp gives for its sorting.
RemovalIsExact ==
    (call # NoCall /\ call.slots = {}) =>
        /\ Live = call.spares
        /\ \A k \in KGIds :
              KGOwner[k] = call.entity => getRenderIndex(kg, k) = INVALID_RENDER_INDEX

\* "Remove all KG particles for this entity" (KGCore::destroyEntity): no id of an
\* entity that was destroyed with its bodies has a slot again, whichever bodies
\* move later.
DestroyedStaysUnmapped ==
    \A k \in DOMAIN kg.kg_to_render : KGOwner[k] \in entities
=============================================================================
