----------------------------- MODULE KGGraph -----------------------------
(***************************************************************************)
(* The knowledge graph's entities, properties and relations, as operators  *)
(* from graph to graph, one per method of KGCore.  A graph is a record:    *)
(*   entities    the ids that exist                                        *)
(*   properties  [<<entity, key>> |-> value], partial                      *)
(*   relations   the relations <<from, to>> in the order they were made    *)
(* Relations of one type stand for all: types do not interact.             *)
(***************************************************************************)
EXTENDS Naturals, Sequences, SequencesExt

CONSTANT NoValue     \* the empty string: what a missing property reads as

EmptyGraph == [entities |-> {}, properties |-> <<>>, relations |-> <<>>]

exists(g, e) == e \in g.entities

hasProperty(g, e, k) == <<e, k>> \in DOMAIN g.properties

getProperty(g, e, k) == IF hasProperty(g, e, k) THEN g.properties[<<e, k>>] ELSE NoValue

\* A map with one slot written.
Put(map, slot, v) == [s \in DOMAIN map \cup {slot} |-> IF s = slot THEN v ELSE map[s]]

setProperty(g, e, k, v) ==
    IF exists(g, e) THEN [g EXCEPT !.properties = Put(@, <<e, k>>, v)] ELSE g

removeProperty(g, e, k) ==
    [g EXCEPT !.properties = Restrict(@, DOMAIN @ \ {<<e, k>>})]

createEntity(g, e) == [g EXCEPT !.entities = @ \cup {e}]

\* The relations that do not touch e, in their order.
Without(relations, e) ==
    LET kept[n \in 0 .. Len(relations)] ==
            IF n = 0 THEN <<>>
            ELSE IF e \in {relations[n][1], relations[n][2]} THEN kept[n - 1]
            ELSE Append(kept[n - 1], relations[n])
    IN  kept[Len(relations)]

\* Mutant: a destroyed entity's relations stay.
destroyEntity_keeps_relations(g, e) ==
    [entities |-> g.entities \ {e},
     properties |-> RestrictDomain(g.properties, LAMBDA slot : slot[1] # e),
     relations |-> g.relations]

\* An entity goes with its properties and with the relations at either end.
destroyEntity(g, e) ==
    [entities |-> g.entities \ {e},
     properties |-> RestrictDomain(g.properties, LAMBDA slot : slot[1] # e),
     relations |-> Without(g.relations, e)]

createRelation(g, from, to) == [g EXCEPT !.relations = Append(@, <<from, to>>)]

findRelation(g, from, to) == {i \in DOMAIN g.relations : g.relations[i] = <<from, to>>}

\* The first that fits.
destroyRelation(g, from, to) ==
    [g EXCEPT !.relations = RemoveAt(@, Min(findRelation(g, from, to)))]

getRelated(g, e) == {g.relations[i][2] : i \in {j \in DOMAIN g.relations : g.relations[j][1] = e}}

\* The relations that lead to e; the first of them, in their order, names its owner.
incoming_relations(g, e) == {i \in DOMAIN g.relations : g.relations[i][2] = e}

first_owner(g, e) == g.relations[Min(incoming_relations(g, e))][1]
=============================================================================
