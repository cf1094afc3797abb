-------------------------- MODULE KnowledgeWorld --------------------------
(***************************************************************************)
(* The knowledge graph with those who change it and those who listen:      *)
(* KGModule, which publishes every change of a property or a relation;     *)
(* apply_kg_ops_atomically, which applies a batch with the event bus       *)
(* detached, undoes it when an operation fails and publishes it when all   *)
(* have succeeded; the state_changes channel, which calls its subscribers  *)
(* and then journals the event; the CapabilityStore, a subscriber that     *)
(* writes what a creature can do back into the graph; and a reader of the  *)
(* journal that rebuilds the graph's properties from what it reads.        *)
(*                                                                         *)
(* All of it runs on the main thread.  A batch is one call, but each of    *)
(* its operations, undos and publications is a step, and nothing else      *)
(* happens until it returns.  Which operation of a batch fails validation  *)
(* is a free choice; names, types, aliases and wording are left out.  What *)
(* a creature can do is a function of its inputs and those of its parts;   *)
(* the function is left open by writing those inputs themselves.           *)
(***************************************************************************)
EXTENDS KGGraph, EventLog, FiniteSets

CONSTANTS
    Creature,            \* the entity the store may track
    Input, Capability,   \* keys: what capability is computed from, and "capability.*"
    Values,              \* values of Input
    None,                \* no entity
    Capacities,          \* sizes the journal's ring may have
    max_entities,        \* config.max_entities
    max_relations,       \* config.max_relations
    BatchCapacities,     \* bound: those it may have while a batch runs
    LastEntity,          \* bound: ids given out
    MaxOps,              \* bound: operations of a batch
    MaxEvents            \* bound: events journalled

Ids == Creature .. LastEntity

\* What a creature can do, as compute_from_kg writes it.
Profiles == SUBSET (Ids \X (Values \cup {NoValue}))

\* No text of a value is empty.
ASSUME WorldAssumption ==
    /\ Creature \in Nat \ {0}
    /\ LastEntity \in Nat /\ Creature <= LastEntity
    /\ Capacities \subseteq Nat \ {0}
    /\ NoValue \notin Values /\ \A profile \in Profiles : profile # NoValue
    /\ None \notin Ids
    /\ Input # Capability

VARIABLES
    graph,               \* the KGCore
    next_entity_id,      \* next_entity_id
    tracked,             \* whether the store tracks the creature
    log,                 \* the journal of state_changes
    reader,              \* a reader of it
    phase,               \* "idle", or where apply_kg_ops_atomically is
    undo,                \* undo
    buffered             \* buffered_events

\* History
VARIABLES
    before,              \* [graph, seq]: when the batch under way began
    read_total,          \* events the reader was given
    told,                \* the properties as replayed from them, until it lost one
    told_relations,      \* the relations as replayed from the relation events, less
                         \* those of destroyed entities
    unheard              \* the creature's body changed by a relation, and no
                         \* input of the body has been written since

batch == <<phase, undo, buffered, before>>
vars == <<graph, next_entity_id, tracked, log, reader, batch, read_total, told, told_relations,
          unheard>>

NoBatch == [graph |-> EmptyGraph, seq |-> 0]

Body(g) == {Creature} \cup getRelated(g, Creature)

Init ==
    /\ graph = createEntity(EmptyGraph, Creature)
    /\ next_entity_id = Creature + 1
    /\ tracked = FALSE
    /\ log \in {EmptyLog(c) : c \in Capacities}
    /\ reader = create_reader(log)
    /\ phase = "idle" /\ undo = <<>> /\ buffered = <<>>
    /\ before = NoBatch
    /\ read_total = 0 /\ told = <<>> /\ told_relations = <<>>
    /\ unheard = FALSE

-----------------------------------------------------------------------------
\* The capability store

\* compute_from_kg: from the inputs of the creature and of its parts.
compute_from_kg(g) == {<<member, getProperty(g, member, Input)>> : member \in Body(g)}

\* The creature, if first owners lead from the entity to it in at most four hops.
tracked_root_of(g, e) ==
    LET up(x) == IF incoming_relations(g, x) = {} THEN None ELSE first_owner(g, x)
        walk == {e, up(e), up(up(e)), up(up(up(e))), up(up(up(up(e))))}
    IN  IF tracked /\ Creature \in walk THEN Creature ELSE None

\* write_back: the capabilities, with the bus attached, if they have changed.
\* What publishing changes is a record w of the graph and the journal.
write_back(w) ==
    LET event == [entity |-> Creature, key |-> Capability, value |-> compute_from_kg(w.graph),
                  prev |-> getProperty(w.graph, Creature, Capability)]
    IN  IF event.value = event.prev THEN w
        ELSE [graph |-> setProperty(w.graph, Creature, Capability, event.value),
              log |-> emit_entry(w.log, event)]

\* Mutant: a write to a part is not traced to its creature.
on_state_change_of_root(w, event) ==
    IF event.key = Capability \/ ~tracked \/ event.entity # Creature
    THEN w ELSE write_back(w)

\* The subscriber.  Capabilities are no input; that guard and the writing flag
\* make the store deaf to its own write.
on_state_change(w, event) ==
    IF event.key = Capability \/ tracked_root_of(w.graph, event.entity) = None
    THEN w ELSE write_back(w)

-----------------------------------------------------------------------------
\* KGModule: the calls that publish what they do

\* EventChannel::emit: the subscribers first, and what they emit, then the journal.
emit(w, event) ==
    LET heard == on_state_change(w, event)
    IN  [graph |-> heard.graph, log |-> emit_entry(heard.log, event)]

World(g) == [graph |-> g, log |-> log]

Becomes(w) == graph' = w.graph /\ log' = w.log

\* Bound: room for the events of n more writes and one write-back: the first event of
\* a batch to reach the capability store finds all of its operations done.
RoomFor(n) == log.next_seq + n + 1 <= MaxEvents

Heard(g, e) == unheard' = (unheard /\ e \notin Body(g))

\* A write of another value than before.
set_property(e, v) ==
    /\ phase = "idle" /\ RoomFor(1)
    /\ exists(graph, e)
    /\ getProperty(graph, e, Input) # v
    /\ Becomes(emit(World(setProperty(graph, e, Input, v)),
                    [entity |-> e, key |-> Input, value |-> v,
                     prev |-> getProperty(graph, e, Input)]))
    /\ Heard(graph, e)
    /\ UNCHANGED <<next_entity_id, tracked, reader, batch, read_total, told, told_relations>>

remove_property(e) ==
    /\ phase = "idle" /\ RoomFor(1)
    /\ hasProperty(graph, e, Input)
    /\ Becomes(emit(World(removeProperty(graph, e, Input)),
                    [entity |-> e, key |-> Input, value |-> NoValue,
                     prev |-> getProperty(graph, e, Input)]))
    /\ Heard(graph, e)
    /\ UNCHANGED <<next_entity_id, tracked, reader, batch, read_total, told, told_relations>>

\* Creating and destroying entities publishes nothing.
MayCreate == Cardinality(graph.entities) < max_entities /\ next_entity_id <= LastEntity

create_entity ==
    /\ phase = "idle"
    /\ MayCreate
    /\ graph' = createEntity(graph, next_entity_id)
    /\ next_entity_id' = next_entity_id + 1
    /\ UNCHANGED <<tracked, log, reader, batch, read_total, told, told_relations, unheard>>

BodyChanges(g) == unheard' = (unheard \/ getRelated(g, Creature) # getRelated(graph, Creature))

destroy_entity(e) ==
    /\ phase = "idle"
    /\ exists(graph, e) /\ e # Creature
    /\ graph' = destroyEntity(graph, e)
    /\ told_relations' = Without(told_relations, e)
    /\ BodyChanges(graph')
    /\ UNCHANGED <<next_entity_id, tracked, log, reader, batch, read_total, told>>

\* Bodies are trees: the callers give a part one owner.
MayRelate(from, to) ==
    /\ exists(graph, from) /\ exists(graph, to)
    /\ to # Creature /\ from # to
    /\ incoming_relations(graph, to) = {}
    /\ Len(graph.relations) < max_relations

create_relation(from, to) ==
    /\ phase = "idle"
    /\ MayRelate(from, to)
    /\ graph' = createRelation(graph, from, to)
    /\ told_relations' = Append(told_relations, <<from, to>>)
    /\ BodyChanges(graph')
    /\ UNCHANGED <<next_entity_id, tracked, log, reader, batch, read_total, told>>

destroy_relation(from, to) ==
    /\ phase = "idle"
    /\ findRelation(graph, from, to) # {}
    /\ graph' = destroyRelation(graph, from, to)
    /\ told_relations' = RemoveFirst(told_relations, <<from, to>>)
    /\ BodyChanges(graph')
    /\ UNCHANGED <<next_entity_id, tracked, log, reader, batch, read_total, told>>

\* CapabilityStore::track computes at once.
track ==
    /\ phase = "idle" /\ RoomFor(1)
    /\ ~tracked
    /\ tracked' = TRUE
    /\ Becomes(write_back(World(graph)))
    /\ unheard' = FALSE
    /\ UNCHANGED <<next_entity_id, reader, batch, read_total, told, told_relations>>

untrack ==
    /\ tracked /\ phase = "idle"
    /\ tracked' = FALSE
    /\ UNCHANGED <<graph, next_entity_id, log, reader, batch, read_total, told, told_relations,
                   unheard>>

-----------------------------------------------------------------------------
\* apply_kg_ops_atomically: the operations, with the bus detached

begin_batch ==
    /\ phase = "idle"
    /\ log.capacity \in BatchCapacities
    /\ phase' = "applying"
    /\ before' = [graph |-> graph, seq |-> log.next_seq]
    /\ UNCHANGED <<graph, next_entity_id, tracked, log, reader, undo, buffered, read_total,
                   told, told_relations, unheard>>

IsRelation(event) == "from" \in DOMAIN event

Operation ==
    /\ phase = "applying"
    /\ Len(undo) < MaxOps
    /\ RoomFor(Cardinality({i \in DOMAIN buffered : ~IsRelation(buffered[i])}) + 1)
    /\ UNCHANGED <<tracked, log, reader, phase, before, read_total, told, told_relations,
                   unheard>>

\* An event is buffered unless the value is what it was.
buffer_property_event(e, v, prev) ==
    buffered' = IF v = prev THEN buffered
                ELSE Append(buffered, [entity |-> e, key |-> Input, value |-> v,
                                       prev |-> prev])

\* Mutant: the ends of the relation are swapped.
buffer_relation_event_swapped(from, to) ==
    buffered' = Append(buffered, [from |-> to, to |-> from])

buffer_relation_event(from, to) ==
    buffered' = Append(buffered, [from |-> from, to |-> to])

\* An entity, with or without an input.
op_create(v) ==
    /\ Operation
    /\ MayCreate
    /\ graph' = IF v = NoValue THEN createEntity(graph, next_entity_id)
                ELSE setProperty(createEntity(graph, next_entity_id), next_entity_id, Input, v)
    /\ next_entity_id' = next_entity_id + 1
    /\ undo' = Append(undo, [kind |-> "created", id |-> next_entity_id])
    /\ buffer_property_event(next_entity_id, v, NoValue)

\* Mutant: the undo of a property always restores a value.
UndoProperty_existed(e) ==
    [kind |-> "property", id |-> e, existed |-> TRUE, value |-> getProperty(graph, e, Input)]

UndoProperty(e) ==
    [kind |-> "property", id |-> e, existed |-> hasProperty(graph, e, Input),
     value |-> getProperty(graph, e, Input)]

op_set_property(e, v) ==
    /\ Operation
    /\ exists(graph, e)
    /\ graph' = setProperty(graph, e, Input, v)
    /\ undo' = Append(undo, UndoProperty(e))
    /\ buffer_property_event(e, v, getProperty(graph, e, Input))
    /\ UNCHANGED next_entity_id

op_set_relation(from, to) ==
    /\ Operation
    /\ MayRelate(from, to)
    /\ graph' = createRelation(graph, from, to)
    /\ undo' = Append(undo, [kind |-> "relation", from |-> from, to |-> to])
    /\ buffer_relation_event(from, to)
    /\ UNCHANGED next_entity_id

\* Any operation may fail: to resolve, to validate or to apply.
batch_fails ==
    /\ phase = "applying"
    /\ phase' = "undoing"
    /\ UNCHANGED <<graph, next_entity_id, tracked, log, reader, undo, buffered, before,
                   read_total, told, told_relations, unheard>>

Undone(g, action) ==
    CASE action.kind = "created" -> destroyEntity(g, action.id)
      [] action.kind = "relation" -> destroyRelation(g, action.from, action.to)
      [] action.kind = "property" /\ action.existed ->
            setProperty(g, action.id, Input, action.value)
      [] action.kind = "property" /\ ~action.existed ->
            removeProperty(g, action.id, Input)

\* From the last backwards;
undo_one ==
    /\ phase = "undoing"
    /\ undo # <<>>
    /\ graph' = Undone(graph, Last(undo))
    /\ undo' = Front(undo)
    /\ UNCHANGED <<next_entity_id, tracked, log, reader, phase, buffered, before,
                   read_total, told, told_relations, unheard>>

\* then the buffered events are thrown away.
undo_done ==
    /\ phase = "undoing"
    /\ undo = <<>>
    /\ phase' = "idle" /\ buffered' = <<>> /\ before' = NoBatch
    /\ UNCHANGED <<graph, next_entity_id, tracked, log, reader, undo, read_total, told,
                   told_relations, unheard>>

\* All operations have succeeded: the bus is attached again
batch_succeeds ==
    /\ phase = "applying"
    /\ phase' = "publishing"
    /\ undo' = <<>>
    /\ unheard' = (unheard \/ getRelated(before.graph, Creature) # getRelated(graph, Creature))
    /\ before' = NoBatch
    /\ UNCHANGED <<graph, next_entity_id, tracked, log, reader, buffered, read_total, told,
                   told_relations>>

\* and the events go out in the order of the operations.
publish_property ==
    /\ phase = "publishing"
    /\ buffered # <<>> /\ ~IsRelation(Head(buffered))
    /\ Becomes(emit(World(graph), Head(buffered)))
    /\ Heard(graph, Head(buffered).entity)
    /\ buffered' = Tail(buffered)
    /\ UNCHANGED <<next_entity_id, tracked, reader, phase, undo, before, read_total, told,
                   told_relations>>

publish_relation ==
    /\ phase = "publishing"
    /\ buffered # <<>> /\ IsRelation(Head(buffered))
    /\ told_relations' = Append(told_relations, <<Head(buffered).from, Head(buffered).to>>)
    /\ buffered' = Tail(buffered)
    /\ UNCHANGED <<graph, next_entity_id, tracked, log, reader, phase, undo, before,
                   read_total, told, unheard>>

publish_done ==
    /\ phase = "publishing"
    /\ buffered = <<>>
    /\ phase' = "idle"
    /\ UNCHANGED <<graph, next_entity_id, tracked, log, reader, undo, buffered, before,
                   read_total, told, told_relations, unheard>>

-----------------------------------------------------------------------------
\* The journal's reader

Lookup(map, e, k) == IF <<e, k>> \in DOMAIN map THEN map[<<e, k>>] ELSE NoValue

\* EventReader::read; drain is one read after another.
read ==
    /\ phase = "idle"
    /\ LET synced == sync(reader, log)
           events == unread(synced, log)
       IN  /\ events # <<>>
           /\ reader' = [synced EXCEPT !.next_seq = @ + 1]
           /\ read_total' = read_total + 1
           /\ told' = IF synced.dropped > 0 THEN <<>>
                      ELSE Put(told, <<Head(events).entity, Head(events).key>>,
                               Head(events).value)
    /\ UNCHANGED <<graph, next_entity_id, tracked, log, batch, told_relations, unheard>>

resize(n) ==
    /\ phase = "idle"
    /\ n # log.capacity
    /\ log' = set_capacity(log, n)
    /\ UNCHANGED <<graph, next_entity_id, tracked, reader, batch, read_total, told,
                   told_relations, unheard>>

-----------------------------------------------------------------------------
DirectCall ==
    \/ \E e \in Ids : \/ \E v \in Values : set_property(e, v)
                      \/ remove_property(e)
                      \/ destroy_entity(e)
                      \/ \E f \in Ids : create_relation(e, f) \/ destroy_relation(e, f)
    \/ create_entity
    \/ track \/ untrack

BatchStep ==
    \/ begin_batch
    \/ \E v \in Values \cup {NoValue} : op_create(v)
    \/ \E e \in Ids : \/ \E v \in Values : op_set_property(e, v)
                      \/ \E f \in Ids : op_set_relation(e, f)
    \/ batch_fails \/ undo_one \/ undo_done
    \/ batch_succeeds \/ publish_property \/ publish_relation \/ publish_done

Next ==
    \/ DirectCall
    \/ BatchStep
    \/ read
    \/ \E n \in Capacities : resize(n)

Spec == Init /\ [][Next]_vars

-----------------------------------------------------------------------------
\* Properties

\* The state's shape: relations and properties hang on entities, ids are fresh,
\* the ring holds what it says it holds.
TypeOK ==
    /\ graph.entities \subseteq Creature .. next_entity_id - 1
    /\ \A slot \in DOMAIN graph.properties :
           /\ slot \in graph.entities \X {Input, Capability}
           /\ graph.properties[slot] # NoValue
    /\ \A i \in DOMAIN graph.relations : graph.relations[i] \in graph.entities \X graph.entities
    /\ next_entity_id \in Creature + 1 .. LastEntity + 1
    /\ tracked \in BOOLEAN /\ unheard \in BOOLEAN
    /\ DOMAIN log.ring = 0 .. log.capacity - 1
    /\ log.write \in 0 .. log.capacity - 1
    /\ log.size <= log.capacity /\ log.size <= log.next_seq
    /\ reader.next_seq <= log.next_seq
    /\ phase \in {"idle", "applying", "undoing", "publishing"}
    /\ phase = "idle" => undo = <<>> /\ buffered = <<>>

\* Whatever a batch had done when one of its operations failed, undoing it gives the
\* graph it found: entities, properties with their absence, and relations in their
\* order.  Until it has succeeded nothing is journalled, and so nobody hears of it.
UndoRestores ==
    /\ phase = "undoing" /\ undo = <<>> => graph = before.graph
    /\ phase \in {"applying", "undoing"} => log.next_seq = before.seq

\* What a reader is told by the journal, over single writes, batches, write-backs
\* nested in them and a ring of changing size, is the graph's properties: each
\* event's previous value is the one before it, and the events replayed with
\* those still unread give the values of every living entity.  A reader the ring
\* has outrun knows how many events it lost.
Unread == unread(sync(reader, log), log)

Writes(event, e, k) == ~IsRelation(event) /\ event.entity = e /\ event.key = k

\* The value of a slot before the i-th of some events, if it was base before the first.
HeldBefore(base, events, i, e, k) ==
    LET writes == {j \in 1 .. i - 1 : Writes(events[j], e, k)}
    IN  IF writes = {} THEN base ELSE events[Max(writes)].value

ReaderMissesNothing ==
    LET events == Unread
        Held(i, e, k) == HeldBefore(Lookup(told, e, k), events, i, e, k)
    IN  /\ read_total + sync(reader, log).dropped + Len(events) = log.next_seq
        /\ phase = "idle" /\ sync(reader, log).dropped = 0 =>
               /\ \A i \in DOMAIN events :
                      events[i].prev = Held(i, events[i].entity, events[i].key)
               /\ \A e \in graph.entities, k \in {Input, Capability} :
                      Held(Len(events) + 1, e, k) = getProperty(graph, e, k)

\* The relation events replayed give the graph's relations, over single calls and
\* batches that succeed or are undone, for a listener who forgets the relations of
\* an entity when it is destroyed: of those no event tells.
RelationsTold == phase = "idle" => graph.relations = told_relations

\* Between calls the graph says of a tracked creature what its body can do, once
\* an input of the body was written after the last change of its relations: also
\* when one batch made a part, gave it its inputs and attached it, in any order.
CapabilityCurrent ==
    phase = "idle" /\ tracked /\ ~unheard =>
        getProperty(graph, Creature, Capability) = compute_from_kg(graph)
=============================================================================
