-------------------------- MODULE ParticleWorld --------------------------
(***************************************************************************)
(* What ParticleStore promises its callers, with no index in sight: bonds, *)
(* contacts, KG bindings and queued deaths are about particles, a death    *)
(* takes along exactly what was about the dead one, and a queued death     *)
(* strikes the particle it was queued for, in order and not before its     *)
(* frames have passed (one less for those a second clock has counted).     *)
(***************************************************************************)
EXTENDS Naturals, Sequences

CONSTANTS Particles, KGIds, GluonIds, FRAMES_IN_FLIGHT

VARIABLES
    live,      \* the particles of the world
    pending,   \* births waiting for the end of the frame, in order
    doomed,    \* queued deaths: [ticket, particle, frames_left]
    bonds,     \* gluons: [id, ends]
    contacts,  \* colliding pairs of the last physics update
    bound,     \* which particle a KG id stands for
    flushing   \* the queued deaths whose time has come are being carried out

vars == <<live, pending, doomed, bonds, contacts, bound, flushing>>

Init ==
    /\ live = {}
    /\ pending = <<>>
    /\ doomed = {}
    /\ bonds = {}
    /\ contacts = {}
    /\ bound = [k \in {} |-> 0]
    /\ flushing = FALSE

New(p) == p \notin live /\ \A i \in DOMAIN pending : pending[i] # p

Appear(p) ==
    /\ ~flushing /\ New(p)
    /\ live' = live \cup {p}
    /\ UNCHANGED <<pending, doomed, bonds, contacts, bound, flushing>>

AppearBound(p, k) ==
    /\ ~flushing /\ New(p)
    /\ k \notin DOMAIN bound
    /\ live' = live \cup {p}
    /\ bound' = [x \in DOMAIN bound \cup {k} |-> IF x = k THEN p ELSE bound[x]]
    /\ UNCHANGED <<pending, doomed, bonds, contacts, flushing>>

Unbind(ks) ==
    /\ ~flushing
    /\ bound' = [x \in DOMAIN bound \ ks |-> bound[x]]
    /\ UNCHANGED <<live, pending, doomed, bonds, contacts, flushing>>

Enqueue(p) ==
    /\ ~flushing /\ New(p)
    /\ pending' = Append(pending, p)
    /\ UNCHANGED <<live, doomed, bonds, contacts, bound, flushing>>

\* The oldest waiting birth happens or is refused.
Dequeue ==
    /\ ~flushing /\ pending # <<>>
    /\ pending' = Tail(pending)
    /\ live' \in {live, live \cup {Head(pending)}}
    /\ UNCHANGED <<doomed, bonds, contacts, bound, flushing>>

DoomIn(p, frames) ==
    \E t \in {1} \cup {1 + d.ticket : d \in doomed} :
        /\ \A d \in doomed : d.ticket < t
        /\ doomed' = doomed \cup {[ticket |-> t, particle |-> p, frames_left |-> frames]}

Doom(p) ==
    /\ ~flushing /\ p \in live
    /\ DoomIn(p, FRAMES_IN_FLIGHT)
    /\ UNCHANGED <<live, pending, bonds, contacts, bound, flushing>>

\* p lets go of everything now, and leaves later.
LetGo(p) ==
    /\ ~flushing /\ p \in live
    /\ \E lag \in {0, 1} : DoomIn(p, FRAMES_IN_FLIGHT - lag)
    /\ bonds' = {b \in bonds : p \notin b.ends}
    /\ contacts' = {c \in contacts : p \notin c}
    /\ UNCHANGED <<live, pending, bound, flushing>>

\* p leaves, with everything that is about p and nothing that is not.
Vanish(p) ==
    /\ live' = live \ {p}
    /\ doomed' = {d \in doomed : d.particle # p}
    /\ bonds' = {b \in bonds : p \notin b.ends}
    /\ contacts' = {c \in contacts : p \notin c}
    /\ bound' = [k \in {x \in DOMAIN bound : bound[x] # p} |-> bound[k]]
    /\ UNCHANGED <<pending, flushing>>

Remove(p) == ~flushing /\ p \in live /\ Vanish(p)

Oldest(d) == \A e \in doomed : d.ticket <= e.ticket

Expire ==
    /\ flushing
    /\ \E d \in doomed : Oldest(d) /\ d.frames_left = 0 /\ Vanish(d.particle)

Rest ==
    /\ flushing
    /\ \A d \in doomed : Oldest(d) => d.frames_left > 0
    /\ flushing' = FALSE
    /\ UNCHANGED <<live, pending, doomed, bonds, contacts, bound>>

Tick ==
    /\ ~flushing
    /\ doomed' = {[d EXCEPT !.frames_left = IF @ > 0 THEN @ - 1 ELSE 0] : d \in doomed}
    /\ flushing' \in BOOLEAN
    /\ UNCHANGED <<live, pending, bonds, contacts, bound>>

Flush ==
    /\ ~flushing
    /\ flushing' = TRUE
    /\ UNCHANGED <<live, pending, doomed, bonds, contacts, bound>>

Bond(id, p, q) ==
    /\ ~flushing
    /\ p # q /\ {p, q} \subseteq live
    /\ \A b \in bonds : b.id # id /\ b.ends # {p, q}
    /\ bonds' = bonds \cup {[id |-> id, ends |-> {p, q}]}
    /\ UNCHANGED <<live, pending, doomed, contacts, bound, flushing>>

\* Bonds break only by name; contacts are between the living.
Physics ==
    /\ ~flushing
    /\ bonds' \in SUBSET bonds
    /\ contacts' \in SUBSET ({{p, q} : p \in live, q \in live} \ {{p} : p \in live})
    /\ UNCHANGED <<live, pending, doomed, bound, flushing>>

Next ==
    \/ \E p \in Particles : Appear(p) \/ Enqueue(p) \/ Doom(p) \/ LetGo(p) \/ Remove(p)
    \/ \E p \in Particles, k \in KGIds : AppearBound(p, k)
    \/ \E ks \in SUBSET KGIds : Unbind(ks)
    \/ \E id \in GluonIds, p, q \in Particles : Bond(id, p, q)
    \/ Dequeue \/ Expire \/ Rest \/ Tick \/ Flush \/ Physics

Spec == Init /\ [][Next]_vars
=============================================================================
