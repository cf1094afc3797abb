# Logosphere in TLA+

Logosphere is a C++ engine in which every visible thing is a set of physical
particles, and a knowledge graph (KG) says which entity each particle belongs
to. Particles live in one vector and are removed by moving the last one into
the hole. Every other table of the engine names particles by their raw index in
that vector, so each removal renames a particle under everybody's feet. Much of
what has gone wrong in the engine (its comments tell the stories) went wrong
there, and the core of this project is about it.

The other subjects are the engine's threads and its knowledge: the thread that
generates chunks of the world, the thread that carries prompts to a language
model and the callers that wait for it, the atomic batches a model's proposals
are applied in and the events that tell of them, and the procedure by which a
character of the `logovger` game lives a life.

Paths below are relative to `src/` of the repository unless they start with
`src/`.

## Inventory

| Component | State | Operations | Interacts with | Hard behaviour | What makes it correct |
|---|---|---|---|---|---|
| ParticleSystem (`src/core/particle_system.cpp`) | particle vector, addition queue, deletion queue, per-entity slot lists | add, queue and flush additions; remove, queue and flush deletions | called by the engine, generators, entity removal, chunk streaming; tells physics, dynamics and the KG of each removal | deferred deletions whose indices move before they fall due; two flushes in one frame | no index past the end; every index keeps meaning its particle; a deletion strikes its own target, in order, not before its frames |
| KGCore's render map (`src/kg/kg_core.cpp`) | `kg_to_render_`, `render_to_kg_` | create, destroy, update, swap, erase, unload | told of swaps by ParticleSystem; read by streaming, entity systems, rules | two directions written separately by each method | the directions are inverse; an id never finds a foreign body |
| PhysicsSystem's tables (`src/core/physics_system_v4.cpp`) | gluons, pair index, collision events | add, prune, tear, remove for a particle, rename | told of removals; events read by games after the update | a rename changes pair keys; events outlive the bodies they name | index and list describe the same bonds; events name live bodies |
| ParticleDynamicsSystem (`src/core/particle_dynamics_system.cpp`) | cached particle ids | `notify_particle_swap` | told of swaps | ids cached over frames | an id follows its particle |
| Engine (`src/core/engine.cpp`) | frame counter, `has_rendered_` | update, render | drives the flushes | headless sessions, render that starts late | every deletion happens |
| ChunkSystem (`src/worldgen/chunk_system.cpp`) | active chunks, pending loads | update (load, unload), apply ready chunks, create, preload | loader, ParticleSystem, KG | a reload while the old body waits for its frames; a chunk created while its load is in flight | bindings never cross; reloads bind |
| AsyncChunkLoader (`src/worldgen/async_chunk_loader.cpp`) | request and result queues, pending marks, running flag | start, stop, request, pop | main thread and one worker | critical sections with gaps, lost wakeups, restart | marks exact; once each, in order; stop returns |
| EntityManager, EntitySystem (`src/entity_manager.cpp`, `src/entity_system.cpp`) | none of their own | activate, deactivate, remove an entity | KG for the slots, ParticleSystem | slots collected before the first removal | exactly the entity's bodies go |
| LLMSystemHTTP (`src/llm/llm_system_http.cpp`), LLMSystem (`src/llm/llm_system.cpp`, its local twin) | request and response queues, cancelled ids, histories of tool calls, worker | initialize, submit, cancel, poll, shutdown | game loop, KG operations, tools | shutdown against a waiting worker; a conversation goes on under new ids; cancellation at any moment | one answer each; stopped when going nowhere; shutdown returns |
| Adjudicator (`examples/logovger/src/adjudicator.cpp`), ModelReferee (`examples/voyager/`) | reply cache, the request being waited for | decide | an LLMSystemHTTP of its own | a late answer to a question given up | the answer is to the question |
| KGCore entities, KG operations (`src/kg/`) | entities, relations, properties, undo log | create, destroy, relate, batches | rules, LLM proposals, event bus | a batch fails half way; writes published while others are | all or nothing, and all of it told |
| EventLog, EventBus, Signal (`include/logosphere/events/`) | ring, cursors, connections | emit, read, resize, connect, disconnect | everybody | ring overwrite, emission while emitting | nothing lost uncounted |
| Capability store (`src/capability/`) | tracked creatures | track, react, write back | KG as a subscriber and a writer | its own writes come back to it; a batch tells of a part before the part hangs on the body | the KG says what the body can do |
| ProcedureRunner (`src/rules/procedure_runner.cpp`) | cursor | start, resume | primitives of the games | a failure keeps the cursor and the effects | steps and routes in order |
| ChargenSession (`examples/logovger/chargen/`) | sheet, counters, open question | seventeen primitives, choose | runner, KG, dice, adjudicator | counters over several steps; a step that asks two questions; an outcome that fails half way | counts exact, nobody walks on at 0 |
| Rules: outcomes, tables, checks (`src/rules/`) | rules reached; a plan while it is made | apply, roll | KG operations, dice, choice resolver, attribute selector | a rule reads what it is going to write; a question half way; dice rolled for a plan nobody applies | what is applied is what the rule says; all or nothing, dice included; asked once |
| TileThreadPool (`src/rendering/tile_thread_pool.cpp`) | tile counters, workers | submit, wait | only `tests/test_parallel_tiles.cpp` | counters reset in several steps under spinning workers | every tile once |
| Triggers, effects (`src/effects/`) | timers | fire, tick | KG, EventBus | order against the events | each fires once |
| GOAP planner and executor (`src/npc-ai/`) | plan, current step | plan, step, replan | KG, locomotion | the world changes under a plan | no step with a false precondition |
| Run recorder and tape (`src/replay/`) | tape, cursor | record, replay | engine input | tape ends early | replay equals run |
| Seed loader, verifier, ontology, ledger (`src/kg/`) | parsed seeds | load, verify | KG | none: sequential | validation |
| Generators, solver, locomotion, rendering, UI, telemetry, audio, input | numeric or I/O | | | floating point | out of reach of a model checker |

`PROJECT.json` lists the hazards of these components with the line where each
bites and the property that watches it, or why there is none yet.

## Modules

| Module | Models |
|---|---|
| `KGRenderMap` | KGCore's two maps, one operator per method, from table to table |
| `PhysicsTables` | gluons, pair index and collision events, likewise |
| `ParticleStore` | ParticleSystem with its callers in the frame; removal repairs all tables with the operators above |
| `ParticleWorld` | the abstract specification of ParticleStore: particles instead of indices |
| `ChunkStreaming` | ChunkSystem over ParticleStore (it EXTENDS it): loads, double loads, unloads, reloads |
| `EntityRemoval` | `removeEntity` with `destroyEntity` over ParticleStore (EXTENDS) |
| `AsyncChunkLoader` | the loader with both threads at the grain of critical sections |
| `ChunkPipeline` | the abstract specification of AsyncChunkLoader: one queue without duplicates |
| `LLMSystemHTTP` | prompts, tool conversations and their worker |
| `RequestLedger` | the abstract specification of LLMSystemHTTP: each request answered at most once, never when cancelled in time |
| `Adjudicator` | callers that wait for an answer, over LLMSystemHTTP (EXTENDS) |
| `KGGraph` | entities, properties and relations of KGCore, one operator per method, from graph to graph |
| `EventLog` | the ring of one channel and a cursor into it, likewise |
| `KnowledgeWorld` | single writes, atomic batches, the channel, the capability store and a reader, over the two (EXTENDS) |
| `ProcedureRunner` | what a primitive's result does to a procedure |
| `ChargenSession` | the primitives of a life, run by it (INSTANCE) |
| `OutcomeExecutor` | the planning and applying of a rulebook's outcomes, with the plain performance of a rule as its reference |
| `MCParticleStore`, `MCChunkStreaming`, `MCEntityRemoval`, `MCKnowledgeWorld`, `MCChargenSession`, `MCOutcomeExecutor` | instances for TLC |
| `ParticleStoreProofs`, `ParticleRefinementProofs` | theorems about ParticleStore: its indices, its tables, its refinement of ParticleWorld |
| `ChunkStreamingProofs`, `EntityRemovalProofs` | theorems about the two, over those of ParticleStore |
| `AsyncChunkLoaderProofs` | theorems about AsyncChunkLoader |
| `LLMSystemHTTPProofs` | theorems about LLMSystemHTTP: its requests, then its conversations |
| `KnowledgeWorldProofs` | theorems about KnowledgeWorld |
| `ChargenSessionProofs` | theorems about ChargenSession |

### How state and actions correspond to the code

*Slots.* A slot is the code's index plus one, so that sequences can be used; 0
is `INVALID_RENDER_INDEX`, `(uint32_t)-1` and `-1`, whichever the table uses.

*Deletion queue.* A deque entry is a record with a ticket; the deque's order is
the ticket order, its front the smallest. `safe_deletion_frame` appears only as
its distance to the current frame, `frames_left`, because the code only ever
compares the two. `Engine::update` increments the frame counter, which is
`engine_update` counting every distance down. Tickets restart when the queue is
empty, which keeps the state space finite and changes nothing observable.

*A second clock.* The anchors of a humanoid's feet are queued with the frame
counter of the locomotion (`humanoid_locomotion.cpp:1865`), which
`update_post_physics` increments. From the renderer's increment at the start of
`Engine::update` until then it is one behind, and an entry queued in between waits
two frames instead of three. The queue is then not sorted by frame, while the
flush looks at its front only: such an entry waits behind its elders, and goes
early when it is the front. `unregister_humanoid` leaves the lag open; it takes one anchor
of a humanoid, and is taken twice for a humanoid with both feet planted.

*Removal.* `remove_particle_unlocked` is one action: the deletion queue loses
the entries of the dying slot and retargets those of the tail
(`coherent_queue`), the bonds and events of the dying slot go and the tail's are
renamed (`coherent_physics`), so are the KG map (`coherent_kg`), the entity lists
(`coherent_entities`) and the cached id (`coherent_cached`), then swap-and-pop.
Several of these read state that an earlier one wrote; the operators keep that
order (the rename sees what the removal left).

*Flushes.* `flush_safe_deletions` and `flush_pending_particles` hold the store's
lock, so nothing else runs in between, but each turn of their loops is a step of
its own: the deletion loop looks at a queue its last removal has rewritten.
`loop` says which flush is under way; all other actions need `loop = "run"`.

*Births.* Whether the creation door refuses a body depends on geometry, which is
left out: acceptance and refusal are both possible every time, including the
second time a queued body meets the door. `load_particle` is a birth followed by
`createKGParticle`, with the invalid index if the body was refused.

*Free choices.* Which bonds tear, which bodies touch, what the dynamics cache
and when callers call: any choice, within the bounds.

*Chunk streaming.* A chunk has one content entity with one body, so chunks are
the store's `Entities` and `KGOf` names the KG particle of each. `jobs` is the
loader as the main thread sees it; `generate` is the worker running the create
callback, at any moment of the frame, against the KG as it is then.
`apply_ready_chunk` binds whatever `add_particle` returned. Queueing the slots of
an unloaded entity is part of `unload_chunk`, as it is one call in the code;
`clear_all_chunks` unloads every chunk in an order left open (a hash map's) and
touches neither requests nor results of the loader.

*Entity removal.* A call collects its slots in one step and removes them one per
step, since each removal sees the store its predecessor left. The slots are a set, of
which the largest goes next (`IsNext`): the code sorts its list in descending order
before the loop, and as the identifiers of an entity have slots of their own no slot is
listed twice. `spares` in the
record `call` is a history component: the particles that must survive. Ids grow,
as `next_kg_particle_id_` does. Hierarchies of entities are flattened: an entity
stands for itself with its children. The anchor of a humanoid's
planted foot is no body of the entity: `removeHumanoid` queues it first, and the
removals that follow rename it in the queue.

*Loader.* Each critical section is a step; `request_load` has three and the
notification. The worker's wait is split in evaluating the predicate (which
takes `request_mutex_`) and falling asleep (which releases it): the gap between
the two is where a notification sent without the mutex gets lost. A wakeup leads
back to re-taking the mutex, spurious ones included. Clearing `running_` needs
no mutex. Whether generation fails is left out: a failed result travels alike.

*LLM requests.* Of a request only its id, the id of the prompt it goes back to
(`root`) and its turn are kept. A reply that calls a tool is answered with a
continuation, a request with a new id; tables keyed by the root (`call_history`,
`error_counts`) are function-local statics of the code, shared by all
conversations. What `process_completed_responses` erases after a final answer are
other statics that happen to have the same names (`answer`), so the histories
stay, and no root id comes back that could read them. Taking one reply off the
queue and all the code does with it is one step, at the instant the continuation
is queued; a callback is application code, which may submit and cancel before it
returns (`inside`). Polling again from inside a callback is left out.
`request_mutex_` shows only where it matters: a worker that is `"dozing"` has
found its predicate false and still holds it, so nobody can submit, while
`shutdown`, which takes no mutex, can come and go. A request left over at shutdown
is served after the next `initialize`. A cancellation names the root and matches
only requests that carry it as their id: after the first tool turn it is too
late, the "best effort" of `llm_system.h:183`.

*Waiting callers.* `decide` submits and polls until its callback has run or its
time is up. The callback holds references into the frame of the `decide` that
submitted it; one that arrives later writes where that frame was. What it hits is
undefined, so `reply_arrives` chooses between the variables of the `decide` that
polls and something else. Voyager's `ModelReferee` waits the same way, without a
cache; the narrator's callbacks capture by value and do not.

*Batches.* `apply_kg_ops_atomically` detaches the bus, applies the operations,
recording how to undo each, and either undoes them from the last backwards or
attaches the bus again and publishes what it has buffered. Each operation, undo
and publication is a step. Which operation fails is a free choice. Identifiers a
failed batch consumed stay consumed. Relations of one type stand for all, since
types do not interact, and the bodies are trees (`MayRelate`), as the ontology's
generators build them.

*Emission.* A channel calls its subscribers, then journals. The capability store
is one, and writes capabilities while the event that made it write is being
emitted: `emit` journals the nested event before its cause, which is the
order the ring has in the code. The store's two guards (its own key, unchanged
values) end the echo. `compute_from_kg` is left open by returning the inputs it
would read, the creature's own and its parts', so two profiles are equal exactly if all their inputs are. Several
`capability.*` keys stand for one. `read` takes one event; draining is reading
again.

*A life.* `ProcedureRunner` runs one primitive per step; a primitive advances by a
label, asks (`pending`), fails or completes. `choose` resumes the step that asked.
A failure hands back no cursor, so the caller keeps the one it has and may answer
again, while what the primitive did before failing stays done. Answers are the keys
of the choices on offer, or any other text (`"something else"`). `take_career` is what
the step does once the throw for a career has succeeded, `enter_career` the part of it
that the function of that name does. Dice are free
choices. An outcome of a table row can fail in one way only, the referee not
answering a question the row leaves open, which aging and injury rows have. Age
counts in half-terms and stops at the age where aging begins, since nothing later
depends on it. Ladders are contiguous rungs. The table a training roll is made on,
skills, titles and all characteristics but "one is at 0" (`ruined`) are left out.
`history` remembers what a term and a career were owed. A new life can be started
at any question ("again").

*Outcomes.* A rule is a graph of outcome entities. `node` is the planner's walk over
it, as a function from plan to plan; after each effect the world is read as the
plan will leave it (`PlannedWorld`), never from the graph. Money, possessions and
skills are parts of the target that refer to a thing and have an amount: `plan_part`
is what the three planners share. A part the plan creates is known by the alias its
outcome gives it until the batch is applied (`Committed`). The dice are a stream that
repeats; a plan reads ahead in it, and only a plan that was applied moves the place
(`rolls_kept`, the dice transaction). A call gives answers (`selections`), may have a
resolver that answers in place, and a selector that picks attributes; all are free
choices, wrong answers included, and so is whether the batch is refused. `dialogue`
is a caller that asks a player and comes back, while others apply rules of their own.
`perform` is the reference: the rule carried out at once, line by line, on sets and
functions, without plan, operations or references.

## Runs

| Run | Specification | Checks | Shows |
|---|---|---|---|
| `store` | `Spec` | `TypeOK`, `IndicesLive`, `EntityListsExact`, `PairIndexExact`, `RenderMapsInverse`, `CachedIdFollows`, `ImplementsWorld` | every table survives every interleaving of births, refusals, bonds, bindings, removals and flushes, and the whole store behaves like a world without indices |
| `prediction` (violation) | `Spec` | `PredictionStands` | the index `queue_particle_addition` promises is wrong when a deletion falls due in the same render |
| `streaming` | `StreamingSpec` | `BindingNeverCrosses`, `IndicesLive` | no order of loads and unloads binds an id to a foreign body |
| `unload` (violation) | `StreamingSpec` | `UnloadedIsInactive` | a swap revives the binding of an unloaded body |
| `removal` | `RemovalSpec` | `RemovalIsExact`, `DestroyedStaysUnmapped`, `DeletionsHappen`, `ImplementsWorld` | `removeEntity` removes what it should and nothing else; deletions queued before, in between or by it happen, headless or rendering, not before their frame, and hit the body they were meant for |
| `loader` | `FairSpec` | `TypeOK`, `PendingIsExact`, `InFlightOnce`, `ImplementsPipeline`, `StopReturns`, `AcceptedIsDelivered` | marks are exact, each chunk comes out once and in order, stop returns, accepted chunks arrive |
| `llm` | `FairSpec` | `TypeOK`, `OneCarrier`, `StopsExactlyWhenStuck`, `ImplementsLedger`, `AnsweredInTheEnd` | no prompt is lost or answered twice through tool turns, cancellations and restarts; a conversation is stopped exactly when it repeats itself or keeps failing; every prompt is answered or dropped unless the system is shut down |
| `llm_shutdown` (violation) | `FairSpec` | `ShutdownReturns` | the notification of shutdown can be lost, and join then waits for ever |
| `adjudicator` (violation) | `AdjudicatorSpec` | `AnswersTheQuestion` | a late answer to a question given up is returned for another one, and cached |
| `world` | `Spec` | `TypeOK`, `UndoRestores`, `ReaderMissesNothing`, `RelationsTold`, `CapabilityCurrent` | a batch that fails leaves no trace; the journal tells everything once and in an order that can be replayed, or says how much was lost; capabilities follow the body, also when one batch makes, fills and attaches parts of a tracked creature and its events go out at its end |
| `chargen` | `Spec` | `TypeOK`, `TermsCapped`, `NobodyWalksAtZero`, `OneMishapEach`, `TrainingIsExact`, `BenefitsAreExact`, `FullTrainingOnce`, `CareIsPaidInFull` | the counts of a life of several careers are exact whatever the player types and whether or not the referee answers |
| `outcomes` | `Spec` | `PlansAreRules`, `OnlyAppliedPlansCount`, `AskedOnce` | planning a rule as a whole and applying it as one batch is the same as carrying it out line by line; what is not applied leaves neither rolls nor reached rules; each choice is asked once |

Each property of a passing run has a mutant of the code in `PROJECT.json` that
breaks it; the mutated definitions stand next to the ones they replace, marked
`Mutant`.

### Bounds and why they are enough

* `store`: three particles (`MaxParticles = 3`), two owners (two particles of one,
  one of the other), two KG ids, one bond, one event, one queued birth, one
  queued deletion. A removal concerns three roles: the dying slot, the tail and
  a bystander; three particles fill them, and each table can name any of them.
  A second bond would add pairs sharing an end; that case is covered by the
  proof of `PairIndexIsExact`, which has no bound. One frame in flight is the
  least that separates queueing from flushing.
* `MaxDeletions` bounds the tickets given out since the queue was last empty, so
  it bounds the queue's length as well.
* `streaming`: two chunks, two bodies each (a chunk's old body and its reload, or
  the two of a double load), two deletions. `unload` uses three frames.
* `removal`: two entities, one of two bodies, the other of one; three ids, of which
  the middle one is the other entity's, so that the bodies of an entity need not be
  neighbours; two deletions and two frames in flight, so that entries of different
  ages wait. Bonds and events do not take part in the queue.
* `loader`: three chunks and a queue of two: the queue can be full while the
  worker holds a chunk or a result waits. The number of starts and stops is not
  bounded.
* `llm`: two prompts, each with up to four tool turns, one tool, a good and a bad
  result. The code's limits are 50 turns, a window of 5, 2 repetitions and 3
  errors; here 4, 2, 2 and 2. The window is shorter than a conversation, so it is
  trimmed, and both limits can be met at the same call or one turn apart. Two
  conversations are what sharing the tables needs. Starts and shutdowns are not
  bounded. `llm_shutdown` needs one prompt at most and no tools.
* `adjudicator`: two questions, two requests, three attempts.
* `world`: three entities (the creature and two parts), two relations, batches of
  up to three operations (make a part, give it an input, attach it), four events
  in a ring of two or three places: the ring overwrites, wraps and is resized with
  unread events in it; batches run while it has two (`BatchCapacities`), as what they
  publish enters the ring the way single writes do. The two values are interchangeable (symmetry). The code's
  `max_entities` and `max_relations` are configuration. A write needs room
  for its event and a write-back; a batch for one event per input it writes and one
  write-back in all, since its first event on the body finds the batch complete
  (`RoomFor`). Tracking takes one event of the four, which leaves a tracked creature a
  batch of two inputs, with an attachment among them, and an untracked one three.
* `chargen`: two services and the Drifter, three terms (`max_terms` is 7) and one
  beyond, a ladder of ranks 0 to 2, one benefit roll in cash, care at a price of 1
  or 2 against a purse of at most 2, aging after two full terms, one injury
  undecided, four careers listed (`MaxCareers`: careers ended by mishaps count no
  term, so their number has no bound in the code). A second career is needed for
  what must be reset, a third for what refusals do to the list.
* `outcomes`: a rule that comes to one gain and one choice twice, the second time
  through another choice, one that lowers, raises and lowers attributes against their
  limits, by amounts and by rolls in both directions, and advances a skill below 0,
  outcomes without effect and with a granted table roll, and one that contains itself;
  two attributes, a
  die of two sides, a stream that repeats after two rolls (`Period`), amounts up to 4
  (`MaxAmount`). Every set of answers, right or wrong, with and without a resolver, is
  tried in every state.

Symmetry: particles of the same owner, KG ids and bond ids are interchangeable in
`store` (no definition orders them); in the streaming and removal instances only
the bodies of one owner are. The bounds above are the same for permuted values.
Runs that check liveness use no symmetry.

### Fairness

`ParticleStore.Fairness`: a flush that has begun runs to its end (it is a loop in
one function); the main loop calls `Engine::update` again and again, strong
because a flush disables it for a while. A session either renders for ever or
not at all from some point on, and then only if it has never rendered, the
headless case: the formula is a disjunction of "never renders" and strong
fairness of render. A session that renders and then stops for good is left out:
the code drains from update only while `has_rendered_` is false, so its
deletions would wait.

`RemovalSpec` adds that a removal of an entity, one call, goes through.

`AsyncChunkLoader.Fairness`: both threads are scheduled; a thread waiting for a
mutex that is free again and again gets it (strong fairness of the steps that
lock); the main loop polls for results every frame. No start, stop, request or
spurious wakeup is forced.

`LLMSystemHTTP.Fairness`: the worker and the main thread's calls go on (weak; a
transport call ends, it has a timeout), and the main loop polls every frame
(strong fairness of `ProcessStep`, which callbacks and notifications interrupt).
Nothing makes the application submit, cancel or shut down. `AnsweredInTheEnd`
therefore says "or the system was shut down": requests then wait for the next
start.

Deadlock is checked in every run.

## Proofs

All for every value of the constants: any number of particles, entities, ids
and bonds, any bounds. The assumptions are those the modules declare. `ParticleStore`:
`EntityOf` is a function from particles to entities, the bounds are natural
numbers and `FRAMES_IN_FLIGHT` a positive one. `ChunkStreaming`: `KGOf` gives each
entity a KG particle of its own (each generator creates one). `EntityRemoval`: every id
has an owner, and the value for "no call" is none. `AsyncChunkLoader`: `None` is no
chunk and the queue has room for one. `LLMSystemHTTP`: the limits are natural numbers
and `None` is no tool. `ChargenSession`: the Drifter and the drafts are among the
careers, the limits and prices are natural numbers, each rank up to the top one has its
extra benefits, and the values for "no step" and "no input" are neither.
`KnowledgeWorld`: the creature has a positive id, a ring at least one place, a value is
never the empty text, and inputs and capabilities have different keys; nothing is assumed
of the limits on entities, relations, operations and events, and no proof uses a guard
that mentions the last two. `MaxCareers`,
`MaxForced` and `MaxUnanswered` have no assumption, and no proof uses a guard that
mentions them: the results hold for lives without these bounds.

`ParticleStoreProofs`: `SafeAlways` proves that `Safe == TypeOK /\ IndicesLive`
holds in every reachable state, hence `TypeCorrect` and `IndicesAreLive`. `TypeOK`
alone is not what one wants and `IndicesLive` alone is not inductive: that a rename
lands on a live slot needs the shapes, and swap-and-pop keeps the vector a
sequence of particles only for a slot that is live. The argument of the only
hard step, removal, goes table by table: whatever named the dying slot was
dropped, whatever named the tail names the hole, and everything else is below
the tail, hence within the shorter vector. The lemmas say so for each table.

The second half of the module adds one helper invariant per table to `Safe`:

* `EntityListsAreExact`: the list of an entity is the set of its slots; the
  removal's two updates commute with swap-and-pop.
* `PairIndexIsExact`: domain and values of the pair index are those of the bond
  list. The step that matters is the rename: distinct bonds have distinct pairs
  before it, and since no bond names the dying slot any longer, renaming the
  tail to it cannot make two pairs collide.
* `RenderMapsAreInverse`: the two directions of the render map agree.
  `eraseRenderIndexMappings` leaves no entry of the dying slot in either
  direction, so the rename overwrites nothing.
* `CachedIdsFollow`: an action property, from the helper that all particles in
  the vector and the addition queue are distinct.

`AsyncChunkLoaderProofs`: none of the loader's properties is inductive alone.
`LoaderInvAlways` proves `LoaderInv == TypeOK /\ Places /\ Marks /\ InFlightOnce`.
`Places` says where the threads are when: the worker has a chunk in hand exactly
while it generates, and there is no worker left once a stop has returned, without
which a restart would find an old worker's chunk. `Marks` is `PendingIsExact` with
its gap: between the push of a request and its mark the marks miss exactly that
chunk, and before the push they do not have it. Every step either pushes behind
the chunks in flight, or pops in front of them, or only moves them
(`PipelineStep`), from which follow `MarksAreExact`, `NeverTwiceInFlight` and
`LoaderIsAPipeline`: the loader implements `ChunkPipeline`, whose queue is the
results, the chunk in hand and the requests, one behind the other.

`ParticleRefinementProofs`: `StoreImplementsWorld` proves `ImplementsWorld`. No step of
the store maps to one of `ParticleWorld` on the strength of the shapes alone, so the
invariant is `StoreInv == Safe /\ Distinct /\ PairExact(physics) /\ TwoWay(kg, n)`.
A removal is the step that needs all of it: after swap-and-pop each particle
but the removed one is named by its new slot in the queue, the bonds, the events and
the map, so the world sees one particle vanish and nothing else move. That each
particle is at one slot only (`Distinct`) makes "the slot of a particle" a function; that
the map is `TwoWay` is what keeps a binding attached to its particle. The lemmas are one
per kind of step (`AppearStep`, `RemoveStep`, `DoomStep`, ...); steps that move only
bookkeeping of the code are stutters of the world.

`ChunkStreamingProofs`: `BindingInv == Safe /\ active_chunks \subseteq Entities /\
BindingsFaithful`. `RenderMapsInverse` fails here, as the run `unload` shows, so
the proof cannot rest on it. What survives (`Faithful`): an id that finds a slot is the
one the slot finds, and a slot finds no id but that of its body's entity; it may still
find one that an unload has unbound. That is inductive, because the rename of a tail
goes through the reverse entry of the tail's slot only, which is of the tail's entity,
stale or not. From it `BindingsNeverCross`, and `StreamedIndicesAreLive` from `Safe`.

`EntityRemovalProofs`: `RemovalInv` adds to `StoreInv` that a call under way
(`CallGoesOn`) still holds slots that are live, and that the bodies at these
slots and the spares are together the live particles. It is inductive because the
highest slot goes first: the tail that fills the hole lies above every slot still
listed, so none of them is renamed. In ascending order it is not, and the mutant
`IsNext_ascending` shows it. From it `RemovalsAreExact`; a removal is a removal of the
store, hence `RemovalImplementsWorld`. `DestroyedEntitiesStayUnmapped` needs that a
listed slot's id is that of the entity being removed.

`LLMSystemHTTPProofs`: `CarrierInv == Typed /\ OneCarrier /\ open \subseteq DOMAIN
transcript`. `Typed` gives all eight variables their shapes; `OneCarrier` says
that each prompt that is open is carried by exactly one thing, a queued request, the
one in the worker's hands, a reply or a continuation. The proof counts carriers with
marks (a place and a root): every step moves at most one mark and keeps its root.

On top of it, `ConversationsKeepTheLedger` proves that the system implements
`RequestLedger`; a step is a submission, a cancellation, a drop, an answer, or quiet, and
`LedgerInv` says which roots the ledger holds. `StoppedWhenStuck` is about tables that
outlive their conversations: `StuckInv` relates the histories and error counts of each
open root to the transcript, which is the history variable, and says that a root not
yet given has no entry anywhere.

`ChargenSessionProofs`: the properties of a life hold for reasons that lie many steps
back, and none is inductive. `LifeInvAlways` proves `LifeInv`, which says for each place
a life can be at (`where`: the step the runner is at or whose question is open, or
nowhere, when nothing is on offer) what is true there:

* `Training`: the rolls owed and taken add up to one, the ranks climbed in the term and
  one for a missing ladder, from the commission to the end of `roll_training`. Nothing
  is owed anywhere else, so nothing can be carried into another term.
* `Benefits`: `terms_in_career` is the difference of the terms served and those at the
  entry; the counter whose 0 means two things is above 0 exactly while a benefit is
  being asked for, and then what is taken and owed is what is due; a forfeit is on the
  session exactly if a mishap of this career put it there.
* `Careering`: the list of careers is as long as the number of careers that took the
  character in, plus the one being tried; only a survivor of a crisis has a longer
  one, and has entered a career before.
* `Crises`: while anybody is at 0 a crisis is open, and what is on offer is what was
  offered at the price that was quoted.
* `Terms`, `Offered`, `Mishapping`, and `Placed` for the runner: which steps ask, and
  that a life waits with nothing on offer only when it is over or when aging failed
  after the training answer was spent, in which case no answer is accepted any more.

There is a lemma per primitive; those that only go on, ask, or leave their question
open share one (`QuietStep`, `AskStep`, `StillOpen`). From `LifeInv`: `LifeTypeOK`,
`TermsStayCapped`, `NobodyEverWalksAtZero`, `MishapsStayOne`, and for the action
properties, with the step at hand, `TrainingStaysExact`, `BenefitsStayExact`,
`FullTrainingStaysOnce`, `CareStaysPaidInFull`. To be proved about, the module has its
routes as a table of rows (`step_routes`) and the careers on offer as a set of indices.

`KnowledgeWorldProofs`: a batch is many steps, and what is true of it in the middle is
only how it leads somewhere. The invariants say so with *trails*, functions from the
number of operations done to the value there was then; a step of the batch adds a value
at the end of the trail or takes one off an end, and no induction over the batch is needed.

* `TypeInv == GraphPart /\ LogPart /\ FlagPart /\ BatchPart /\ TrailPart`. `GraphOK` is
  what a well-formed graph is, one owner for each part included: two relations with the
  same ends would be undone in the wrong place. `LogOK` is the ring. `TrailPart`: there are
  graphs from the one the batch found to the present one, and each action on the undo
  list takes the graph after its operation to the graph before it. Two
  graphs are the same if their entities, relations and readable properties are
  (`GraphEqual`), since no property is kept that reads as the empty text.
  Hence `WorldTypeOK` and `WorldUndoRestores`.
* `RelPart`: a trail of relation lists, from what listeners were told to what the graph
  has, by the relation events still buffered. Hence `WorldRelationsTold`.
* `CapPart`: the creature's capability is current, or there is a buffered event on its body
  that will make it so; and as long as a batch is applied, an input it has no event for
  is as it was. Operations that write what was there buffer nothing, which is why the
  second half is needed. Hence `WorldCapabilityCurrent`.
* `JournalPart`: there are values, one per slot, that are what all journalled events say.
  The unread events lead from what the reader replayed to them (`Tells`), and the buffered
  ones lead from them to the graph's inputs (`Tracks`), each knowing the value it replaces.
  The capability is not on the second trail: it is written back as events go out, each
  write-back nested in the publication of an input (`TellsPublished`). Hence
  `WorldReaderMissesNothing`; a reader the ring has outrun loses the trail, and
  keeps the count (`SyncCounts`).

About the ring there are lemmas of its own: where an event of a given number lies
(`RingSlot`, `AtSeq`), and that writing one more (`EmitEntry`) or moving to a ring of
another size (`SetCapacity`) leaves every event that is still retained where its number
says.

### Only model-checked

* All liveness (`DeletionsHappen`, `StopReturns`, `AcceptedIsDelivered`,
  `AnsweredInTheEnd`), which the prover cannot do.
* Outcomes (`PlansAreRules`, `OnlyAppliedPlansCount`, `AskedOnce`): a rule is a tree that
  refers to other rules, `node` walks it as a recursive operator, and what it computes
  for every rule is induction over data.
* The runs that find a violation, and everything about `Adjudicator`.

## Findings

1. *Promised index* (`prediction`). `Engine::render` flushes deletions before
   additions. A body queued before a render in which a deletion falls due lands lower
   than the index `queue_particle_addition` returned, by which generators bond.
   `PredictionStands` speaks of what render flushes, not of the deletions a session
   that has never rendered flushes in `update`.
2. *Unloading is undone by a swap* (`unload`). `unloadEntity` invalidates the
   forward entries only. While the body waits for its deletion, a swap that
   moves it writes a live slot back, and a reload in that time believes the
   dying body to be active.
3. *Shutdown can hang* (`llm_shutdown`). `LLMSystemHTTP::shutdown` sets its flag and
   notifies without `request_mutex_` (`llm_system_http.cpp:176-177`). A worker that
   has evaluated its predicate and not yet gone to sleep misses both, and `join`
   waits for ever. `LLMSystem` takes the mutex.
4. *A late reply answers another question* (`adjudicator`). A `decide` that gave up
   leaves a callback that writes into its dead frame; the next `decide`, at the
   same place on the stack, takes the reply for its own, returns it and caches it
   under its own question.

What does hold in spite of 2 is `BindingNeverCrosses`: an id is stale or unbound
at worst, never bound to another entity's body.

### Observations

Met while modelling, reproduced by the models' behaviours or read in the code, and
stated by no run:

* A body reloaded after its predecessor's deletion fell due stays unbound: the erase
  finds the id through the stale reverse entry and erases the forward entry, and
  `updateRenderIndex` ignores ids without one. `destroyEntity` leaves reverse
  entries too (`kg_core.cpp:126`), and a swap of a surviving body makes a forward
  entry of one.
* A planted foot's anchor may be removed two frames after it was queued
  (see "A second clock"), where `particle_system.h` promises three for triple
  buffering; `humanoid_locomotion.cpp:70-74` asks for "monotonicity" only.
* `deactivate_entity` removes its slots unsorted and can leave bodies behind.
  Nothing calls it yet.
* Capabilities are stale from the moment a part is attached, detached or destroyed
  until an input of the body is next written (`CapabilityCurrent` says so with
  `unheard`); a part with two owners counts for the first only.
* `destroyEntity` publishes no removal of the relations it takes away
  (`RelationsTold` grants its listener that); `setProperty` on a missing entity
  changes nothing and publishes all the same.
* While a batch runs the bus is detached from the graph for every thread, and an
  exception leaves it detached.
* A barred character is turned away without the career being taken off the list
  (`chargen.cpp:858-864`, against `894`), and `turned_away_from_` keeps its last
  value.
* When the referee leaves an injury undecided after a mishap was applied, the same
  answer given again suffers a second mishap (`chargen.cpp:2147`); `OneMishapEach`
  allows one for each such injury. When it leaves aging undecided after a training
  answer, the choices are gone and no answer is accepted any more.
* `resolve_crisis` and `survival_mishap` read answers that are not on offer: "1"
  where care cannot be afforded takes what there is and saves the character, any
  other text is death, against `chargen.h:102-105` ("a wrong answer is never
  guessed at"). The chargen properties about crises speak of answers on offer.

* A choice that a rule reaches twice takes one answer of the caller for both visits,
  but a resolver is asked again each time (`outcome_executor.cpp:740`).

## Not modelled, and the plan

In this order, most important first:

1. `ParticleStore`: the addition queue shared with the loader thread.
2. Table rolls that an outcome grants (`run_granted_rolls`), with OutcomeExecutor in
   place of the free choice `ChargenSession` has there.
3. Triggers and effects over `KnowledgeWorld`; `Signal` with connections made and
   broken while it emits.
4. GOAP plan execution against a changing world; the run tape.

Not planned: TileThreadPool, which no program but a test uses; the solver,
contacts, locomotion, generators and rendering, which are floating-point; UI,
text, audio and telemetry, which are I/O; parsing and validation of seeds and
ontologies, which is sequential text processing. These, with the generated
ontology headers, are most of the repository's 200,000 lines: the share of lines
that a model covers will stay small, and says little about how much of the
engine's control logic is covered.
