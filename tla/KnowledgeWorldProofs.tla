------------------------ MODULE KnowledgeWorldProofs ------------------------
(***************************************************************************)
(* Proofs about KnowledgeWorld: that the graph, the journal and the batch  *)
(* keep their shape; that undoing a batch restores the graph; that what    *)
(* listeners are told of relations and of properties is the graph; and     *)
(* that a tracked creature's capability is current.                        *)
(*                                                                         *)
(* The invariants are TypeInv, and relative to it RelPart, CapPart and     *)
(* JournalPart.  Each says of a batch under way, by a trail of values      *)
(* from one operation to the next, how what it has done and what it will   *)
(* publish lead from the state it found to the state there is.             *)
(***************************************************************************)
EXTENDS KnowledgeWorld, SequenceTheorems, WellFoundedInduction, TLAPS

-----------------------------------------------------------------------------
\* Least and greatest elements, and what Without keeps

\* A set of natural numbers that is not empty has a least element,
LEMMA LeastNatural ==
  ASSUME NEW T, T \subseteq Nat, T # {}
  PROVE  \E n \in T : \A m \in T : n <= m
<1>1. IsWellFoundedOn(OpToRel(<, Nat), Nat)
  BY NatLessThanWellFounded
<1>2. PICK n \in T : \A m \in T : ~(<<m, n>> \in OpToRel(<, Nat))
  BY <1>1, WFMin
<1>3. ASSUME NEW m \in T PROVE n <= m
  <2>1. m \in Nat /\ n \in Nat
    OBVIOUS
  <2>2. <<m, n>> \in Nat \X Nat
    BY <2>1
  <2>3. ~(m < n)
    BY <1>2, <2>2 DEF OpToRel
  <2> QED
    BY <2>1, <2>3
<1> QED
  BY <1>3

\* and a greatest one if it is bounded.
LEMMA GreatestNatural ==
  ASSUME NEW b \in Nat, NEW T, T \subseteq 1 .. b, T # {}
  PROVE  /\ Max(T) \in T
         /\ \A m \in T : m <= Max(T)
<1> DEFINE D == {b - m : m \in T}
<1>1. D \subseteq Nat /\ D # {}
  <2>1. \A m \in T : m \in 1 .. b
    OBVIOUS
  <2>2. \A m \in T : b - m \in Nat
    BY <2>1
  <2> QED
    BY <2>2
<1>2. PICK d \in D : \A c \in D : d <= c
  BY <1>1, LeastNatural
<1>3. PICK x \in T : d = b - x
  OBVIOUS
<1>4. \A m \in T : m <= x
  <2> TAKE m \in T
  <2>1. b - m \in D
    OBVIOUS
  <2>2. b - x <= b - m
    BY <1>2, <1>3, <2>1
  <2> QED
    BY <2>2
<1>5. \E y \in T : \A m \in T : y >= m
  BY <1>4
<1> HIDE DEF D
<1>6. Max(T) \in T /\ \A m \in T : Max(T) >= m
  BY <1>5 DEF Max
<1> QED
  BY <1>6

\* What Without computes, prefix by prefix.
KeptUpTo(rel, e, m, f) ==
    f = [n \in 0 .. m |->
            IF n = 0 THEN <<>>
            ELSE IF e \in {rel[n][1], rel[n][2]} THEN f[n - 1]
            ELSE Append(f[n - 1], rel[n])]

\* Such a function exists, and each of its values follows from the one before.
LEMMA KeptExists ==
  ASSUME NEW rel, NEW e, NEW m \in Nat
  PROVE  \E f : KeptUpTo(rel, e, m, f)
<1> DEFINE Bad == {n \in Nat : ~\E f : KeptUpTo(rel, e, n, f)}
<1> SUFFICES ASSUME Bad # {} PROVE FALSE
  OBVIOUS
<1>1. PICK n \in Bad : \A k \in Bad : n <= k
  BY LeastNatural
<1>2. n \in Nat /\ ~\E f : KeptUpTo(rel, e, n, f)
  OBVIOUS
<1>3. n # 0
  <2> SUFFICES ASSUME n = 0 PROVE FALSE
    OBVIOUS
  <2> DEFINE f == [k \in 0 .. 0 |-> <<>>]
  <2>1. KeptUpTo(rel, e, 0, f)
    BY DEF KeptUpTo
  <2> QED
    BY <1>2, <2>1
<1>4. n - 1 \in Nat /\ n - 1 \notin Bad
  BY <1>1, <1>2, <1>3
<1>5. PICK g : KeptUpTo(rel, e, n - 1, g)
  BY <1>4
<1> DEFINE next == IF e \in {rel[n][1], rel[n][2]} THEN g[n - 1] ELSE Append(g[n - 1], rel[n])
           f == [k \in 0 .. n |-> IF k = n THEN next ELSE g[k]]
<1>6. f = [k \in 0 .. n |->
              IF k = 0 THEN <<>>
              ELSE IF e \in {rel[k][1], rel[k][2]} THEN f[k - 1]
              ELSE Append(f[k - 1], rel[k])]
  <2> SUFFICES ASSUME NEW k \in 0 .. n
               PROVE  f[k] = IF k = 0 THEN <<>>
                             ELSE IF e \in {rel[k][1], rel[k][2]} THEN f[k - 1]
                             ELSE Append(f[k - 1], rel[k])
    BY Zenon
  <2>1. CASE k = n
    <3>1. f[k] = next /\ f[k - 1] = g[n - 1]
      BY <1>2, <1>3, <2>1
    <3> QED
      BY <1>3, <2>1, <3>1
  <2>2. CASE k # n
    <3>1. k \in 0 .. n - 1 /\ f[k] = g[k] /\ (k # 0 => f[k - 1] = g[k - 1])
      BY <1>2, <2>2
    <3>2. g[k] = IF k = 0 THEN <<>>
                 ELSE IF e \in {rel[k][1], rel[k][2]} THEN g[k - 1]
                 ELSE Append(g[k - 1], rel[k])
      BY <1>5, <3>1 DEF KeptUpTo
    <3> QED
      BY <3>1, <3>2
  <2> QED
    BY <2>1, <2>2
<1>7. KeptUpTo(rel, e, n, f)
  BY <1>6 DEF KeptUpTo
<1> QED
  BY <1>2, <1>7

\* Without is that function at the length of the relations.
LEMMA WithoutIsKept ==
  ASSUME NEW rel, NEW e, Len(rel) \in Nat
  PROVE  \E f : KeptUpTo(rel, e, Len(rel), f) /\ Without(rel, e) = f[Len(rel)]
<1> DEFINE kept == CHOOSE f : f = [n \in 0 .. Len(rel) |->
                           IF n = 0 THEN <<>>
                           ELSE IF e \in {rel[n][1], rel[n][2]} THEN f[n - 1]
                           ELSE Append(f[n - 1], rel[n])]
<1>1. \E f : f = [n \in 0 .. Len(rel) |->
                           IF n = 0 THEN <<>>
                           ELSE IF e \in {rel[n][1], rel[n][2]} THEN f[n - 1]
                           ELSE Append(f[n - 1], rel[n])]
  <2>1. \E f : KeptUpTo(rel, e, Len(rel), f)
    BY KeptExists
  <2> QED
    BY <2>1, Zenon DEF KeptUpTo
<1>2. kept = [n \in 0 .. Len(rel) |->
                           IF n = 0 THEN <<>>
                           ELSE IF e \in {rel[n][1], rel[n][2]} THEN kept[n - 1]
                           ELSE Append(kept[n - 1], rel[n])]
  BY <1>1, Zenon
<1>3. Without(rel, e) = kept[Len(rel)]
  BY DEF Without
<1> QED
  BY <1>2, <1>3 DEF KeptUpTo

\* The pairs that do not touch e.
Away(S, e) == (S \ {e}) \X (S \ {e})

\* No two relations lead to the same entity.
OneOwner(rel, n) == \A i, j \in 1 .. n : rel[i][2] = rel[j][2] => i = j

\* s holds those of the first n relations that do not touch e, and no others: once
\* each if they have different ends, and all of them, in order, if none touches e.
Filtered(s, rel, e, n, S) ==
    /\ s \in Seq(Away(S, e))
    /\ \A i \in 1 .. Len(s) : \E j \in 1 .. n : s[i] = rel[j]
    /\ \A j \in 1 .. n : rel[j] \in Away(S, e) => \E i \in 1 .. Len(s) : s[i] = rel[j]
    /\ OneOwner(rel, n) => OneOwner(s, Len(s))
    /\ (\A j \in 1 .. n : rel[j] \in Away(S, e)) =>
           Len(s) = n /\ \A i \in 1 .. n : s[i] = rel[i]

\* One more relation is kept or left out.
LEMMA FilteredStep ==
  ASSUME NEW S, NEW rel, NEW e, NEW n \in Nat \ {0}, NEW s, Filtered(s, rel, e, n - 1, S)
  PROVE  /\ rel[n] \notin Away(S, e) => Filtered(s, rel, e, n, S)
         /\ rel[n] \in Away(S, e) => Filtered(Append(s, rel[n]), rel, e, n, S)
<1>1. s \in Seq(Away(S, e)) /\ Len(s) \in Nat
  BY DEF Filtered
<1>2. ASSUME rel[n] \notin Away(S, e) PROVE Filtered(s, rel, e, n, S)
  <2>1. n \in 1 .. n /\ \A j \in 1 .. n - 1 : j \in 1 .. n
    OBVIOUS
  <2>2. \A j \in 1 .. n : rel[j] \in Away(S, e) => j \in 1 .. n - 1
    BY <1>2
  <2>3. \A i \in 1 .. Len(s) : \E j \in 1 .. n : s[i] = rel[j]
    BY <2>1 DEF Filtered
  <2>4. \A j \in 1 .. n : rel[j] \in Away(S, e) => \E i \in 1 .. Len(s) : s[i] = rel[j]
    BY <2>2 DEF Filtered
  <2>5. OneOwner(rel, n) => OneOwner(s, Len(s))
    <3>1. OneOwner(rel, n) => OneOwner(rel, n - 1)
      BY <2>1 DEF OneOwner
    <3> QED
      BY <3>1 DEF Filtered
  <2>6. ~ \A j \in 1 .. n : rel[j] \in Away(S, e)
    BY <1>2, <2>1
  <2> QED
    BY <1>1, <2>3, <2>4, <2>5, <2>6 DEF Filtered
<1>3. ASSUME rel[n] \in Away(S, e) PROVE Filtered(Append(s, rel[n]), rel, e, n, S)
  <2> DEFINE t == Append(s, rel[n])
  <2>1. /\ t \in Seq(Away(S, e))
        /\ Len(t) = Len(s) + 1
        /\ \A i \in 1 .. Len(s) : t[i] = s[i]
        /\ t[Len(s) + 1] = rel[n]
    BY <1>1, <1>3, AppendProperties
  <2> HIDE DEF t
  <2>2. \A i \in 1 .. Len(t) : \E j \in 1 .. n : t[i] = rel[j]
    <3> TAKE i \in 1 .. Len(t)
    <3>1. CASE i = Len(s) + 1
      BY <2>1, <3>1
    <3>2. CASE i # Len(s) + 1
      <4>1. i \in 1 .. Len(s)
        BY <1>1, <2>1, <3>2
      <4>2. PICK j \in 1 .. n - 1 : s[i] = rel[j]
        BY <4>1 DEF Filtered
      <4>3. j \in 1 .. n /\ t[i] = rel[j]
        BY <2>1, <4>1, <4>2
      <4> QED
        BY <4>3
    <3> QED
      BY <3>1, <3>2
  <2>3. ASSUME NEW j \in 1 .. n, rel[j] \in Away(S, e)
        PROVE  \E i \in 1 .. Len(t) : t[i] = rel[j]
    <3>1. CASE j = n
      <4>1. Len(s) + 1 \in 1 .. Len(t)
        BY <1>1, <2>1
      <4> QED
        BY <2>1, <3>1, <4>1
    <3>2. CASE j # n
      <4>1. PICK i \in 1 .. Len(s) : s[i] = rel[j]
        BY <2>3, <3>2 DEF Filtered
      <4>2. i \in 1 .. Len(t) /\ t[i] = s[i]
        BY <1>1, <2>1
      <4> QED
        BY <4>1, <4>2
    <3> QED
      BY <3>1, <3>2
  <2>4. ASSUME OneOwner(rel, n) PROVE OneOwner(t, Len(t))
    <3>1. OneOwner(s, Len(s))
      BY <2>4, SMTT(30) DEF Filtered, OneOwner
    <3>2. ASSUME NEW i \in 1 .. Len(s) PROVE s[i][2] # rel[n][2]
      <4>1. PICK j \in 1 .. n - 1 : s[i] = rel[j]
        BY DEF Filtered
      <4>2. j \in 1 .. n /\ n \in 1 .. n /\ j # n
        OBVIOUS
      <4> QED
        BY <2>4, <4>1, <4>2 DEF OneOwner
    <3>3. ASSUME NEW i \in 1 .. Len(t), NEW j \in 1 .. Len(t), t[i][2] = t[j][2]
          PROVE  i = j
      <4>1. /\ i \in 1 .. Len(s) => t[i] = s[i]
            /\ j \in 1 .. Len(s) => t[j] = s[j]
        BY <2>1
      <4>2. CASE i \in 1 .. Len(s) /\ j \in 1 .. Len(s)
        BY <3>1, <3>3, <4>1, <4>2 DEF OneOwner
      <4>3. CASE i \in 1 .. Len(s) /\ j = Len(s) + 1
        BY <2>1, <3>2, <3>3, <4>1, <4>3
      <4>4. CASE i = Len(s) + 1 /\ j \in 1 .. Len(s)
        BY <2>1, <3>2, <3>3, <4>1, <4>4
      <4>5. /\ i \in 1 .. Len(s) \/ i = Len(s) + 1
            /\ j \in 1 .. Len(s) \/ j = Len(s) + 1
        BY <1>1, <2>1
      <4> QED
        BY <4>2, <4>3, <4>4, <4>5
    <3> QED
      BY <3>3 DEF OneOwner
  <2>5. ASSUME \A j \in 1 .. n : rel[j] \in Away(S, e)
        PROVE  Len(t) = n /\ \A i \in 1 .. n : t[i] = rel[i]
    <3>1. Len(s) = n - 1 /\ \A i \in 1 .. n - 1 : s[i] = rel[i]
      BY <2>5 DEF Filtered
    <3>2. Len(t) = n
      BY <2>1, <3>1
    <3>3. ASSUME NEW i \in 1 .. n PROVE t[i] = rel[i]
      <4>1. CASE i = n
        BY <2>1, <3>1, <4>1
      <4>2. CASE i # n
        <5>1. i \in 1 .. n - 1 /\ i \in 1 .. Len(s)
          BY <3>1, <4>2
        <5> QED
          BY <2>1, <3>1, <5>1
      <4> QED
        BY <4>1, <4>2
    <3> QED
      BY <3>2, <3>3
  <2> QED
    BY <2>1, <2>2, <2>3, <2>4, <2>5 DEF Filtered, t
<1> QED
  BY <1>2, <1>3

\* All prefixes are filtered, so the whole is.
LEMMA FilteredAll ==
  ASSUME NEW S, NEW rel \in Seq(S \X S), NEW e
  PROVE  Filtered(Without(rel, e), rel, e, Len(rel), S)
<1>1. /\ Len(rel) \in Nat
      /\ \A n \in 1 .. Len(rel) : rel[n] \in S \X S
  OBVIOUS
<1>2. PICK f : KeptUpTo(rel, e, Len(rel), f) /\ Without(rel, e) = f[Len(rel)]
  BY <1>1, WithoutIsKept
<1> DEFINE Bad == {n \in 0 .. Len(rel) : ~Filtered(f[n], rel, e, n, S)}
<1> SUFFICES ASSUME Bad # {} PROVE FALSE
  BY <1>1, <1>2
<1>3. PICK n \in Bad : \A k \in Bad : n <= k
  <2>1. Bad \subseteq Nat
    BY <1>1
  <2> HIDE DEF Bad
  <2> QED
    BY <2>1, LeastNatural
<1>4. n \in 0 .. Len(rel) /\ ~Filtered(f[n], rel, e, n, S)
  OBVIOUS
<1>5. n # 0
  <2>1. f[0] = <<>>
    BY <1>1, <1>2 DEF KeptUpTo
  <2>2. Filtered(<<>>, rel, e, 0, S)
    BY DEF Filtered, OneOwner
  <2> QED
    BY <1>4, <2>1, <2>2
<1>6. n - 1 \in 0 .. Len(rel) /\ Filtered(f[n - 1], rel, e, n - 1, S)
  BY <1>1, <1>3, <1>4, <1>5
<1>7. f[n] = IF e \in {rel[n][1], rel[n][2]} THEN f[n - 1] ELSE Append(f[n - 1], rel[n])
  BY <1>1, <1>2, <1>4, <1>5 DEF KeptUpTo
<1>8. e \in {rel[n][1], rel[n][2]} <=> rel[n] \notin Away(S, e)
  BY <1>1, <1>4, <1>5 DEF Away
<1>9. n \in Nat \ {0}
  BY <1>1, <1>4, <1>5
<1> QED
  BY <1>4, <1>6, <1>7, <1>8, <1>9, FilteredStep

\* The relations that do not touch an entity are among those there were, and each of
\* those that does not touch it is kept;
LEMMA WithoutKeeps ==
  ASSUME NEW S, NEW rel \in Seq(S \X S), NEW e
  PROVE  /\ Without(rel, e) \in Seq(Away(S, e))
         /\ \A i \in DOMAIN Without(rel, e) : \E j \in DOMAIN rel : Without(rel, e)[i] = rel[j]
         /\ \A j \in DOMAIN rel : rel[j] \in Away(S, e) =>
                \E i \in DOMAIN Without(rel, e) : Without(rel, e)[i] = rel[j]
         /\ OneOwner(rel, Len(rel)) => OneOwner(Without(rel, e), Len(Without(rel, e)))
         /\ rel \in Seq(Away(S, e)) => Without(rel, e) = rel
<1> DEFINE s == Without(rel, e)
<1>1. Filtered(s, rel, e, Len(rel), S)
  BY FilteredAll
<1> HIDE DEF s
<1>2. s \in Seq(Away(S, e)) /\ DOMAIN s = 1 .. Len(s) /\ DOMAIN rel = 1 .. Len(rel)
  BY <1>1 DEF Filtered
<1>3. /\ \A i \in DOMAIN s : \E j \in DOMAIN rel : s[i] = rel[j]
      /\ \A j \in DOMAIN rel : rel[j] \in Away(S, e) => \E i \in DOMAIN s : s[i] = rel[j]
  BY <1>1, <1>2 DEF Filtered
<1>4. OneOwner(rel, Len(rel)) => OneOwner(s, Len(s))
  BY <1>1 DEF Filtered
<1>5. ASSUME rel \in Seq(Away(S, e)) PROVE s = rel
  <2>1. Len(s) = Len(rel) /\ \A i \in 1 .. Len(rel) : s[i] = rel[i]
    BY <1>1, <1>5 DEF Filtered
  <2> QED
    BY <1>2, <1>5, <2>1, SeqEqual
<1> QED
  BY <1>2, <1>3, <1>4, <1>5 DEF s

-----------------------------------------------------------------------------
\* Graphs

\* The keys of a property.
Keys == {Input, Capability}

\* What a slot of each key may hold.
Fits(k, v) == \/ k = Input /\ v \in Values
              \/ k = Capability /\ v \in Profiles

\* A well-formed graph of entities below next: the creature is one, properties hang on
\* entities, relations join them, and a part has one owner.
GraphOK(g, next) ==
    /\ g = [entities |-> g.entities, properties |-> g.properties, relations |-> g.relations]
    /\ g.entities \subseteq Creature .. next - 1
    /\ Creature \in g.entities
    /\ g.properties = [slot \in DOMAIN g.properties |-> g.properties[slot]]
    /\ DOMAIN g.properties \subseteq g.entities \X Keys
    /\ \A e \in g.entities, k \in Keys :
           hasProperty(g, e, k) => Fits(k, g.properties[<<e, k>>])
    /\ g.relations \in Seq(g.entities \X g.entities)
    /\ OneOwner(g.relations, Len(g.relations))

\* What fits a key is a value.
LEMMA FitsIsNoNoValue ==
  ASSUME NEW k, NEW v, Fits(k, v)
  PROVE  v # NoValue
  BY WorldAssumption DEF Fits

\* A property is there exactly when it reads as a value, and then it fits its key.
LEMMA HasProperty ==
  ASSUME NEW g, NEW next, GraphOK(g, next), NEW e, NEW k
  PROVE  /\ hasProperty(g, e, k) <=> getProperty(g, e, k) # NoValue
         /\ hasProperty(g, e, k) => e \in g.entities /\ k \in Keys /\ Fits(k, getProperty(g, e, k))
                                    /\ getProperty(g, e, k) = g.properties[<<e, k>>]
<1>1. ASSUME hasProperty(g, e, k)
      PROVE  /\ e \in g.entities /\ k \in Keys
             /\ getProperty(g, e, k) = g.properties[<<e, k>>]
             /\ Fits(k, getProperty(g, e, k))
  <2>1. <<e, k>> \in g.entities \X Keys
    BY <1>1 DEF GraphOK, hasProperty
  <2> QED
    BY <1>1, <2>1 DEF GraphOK, getProperty
<1>2. ~hasProperty(g, e, k) => getProperty(g, e, k) = NoValue
  BY DEF getProperty
<1> QED
  BY <1>1, <1>2, FitsIsNoNoValue

\* A property is there exactly when it reads as a value.
LEMMA PropertyIsValue ==
  ASSUME NEW g, NEW next, GraphOK(g, next), NEW e, NEW k
  PROVE  hasProperty(g, e, k) <=> getProperty(g, e, k) # NoValue
BY HasProperty

\* A well-formed graph is what its entities, its relations and its properties make it.
LEMMA GraphEqual ==
  ASSUME NEW n, NEW m, NEW g, NEW h, GraphOK(g, n), GraphOK(h, m),
         g.entities = h.entities, g.relations = h.relations,
         \A e \in g.entities, k \in Keys : getProperty(g, e, k) = getProperty(h, e, k)
  PROVE  g = h
<1>1. ASSUME NEW e \in g.entities, NEW k \in Keys
      PROVE  hasProperty(g, e, k) <=> hasProperty(h, e, k)
  <2>1. hasProperty(g, e, k) <=> getProperty(g, e, k) # NoValue
    BY PropertyIsValue
  <2>2. hasProperty(h, e, k) <=> getProperty(h, e, k) # NoValue
    BY PropertyIsValue
  <2> QED
    BY <2>1, <2>2
<1>2. ASSUME NEW slot PROVE slot \in DOMAIN g.properties <=> slot \in DOMAIN h.properties
  <2>1. CASE slot \in g.entities \X Keys
    BY <1>1, <2>1 DEF hasProperty
  <2>2. CASE slot \notin g.entities \X Keys
    BY <2>2 DEF GraphOK
  <2> QED
    BY <2>1, <2>2
<1>3. DOMAIN g.properties = DOMAIN h.properties
  BY <1>2
<1>4. ASSUME NEW slot \in DOMAIN g.properties PROVE g.properties[slot] = h.properties[slot]
  <2>1. PICK e \in g.entities, k \in Keys : slot = <<e, k>>
    BY DEF GraphOK
  <2>2. hasProperty(g, e, k) /\ hasProperty(h, e, k)
    BY <1>1, <2>1 DEF hasProperty
  <2> QED
    BY <2>1, <2>2 DEF getProperty
<1>5. /\ g.properties = [slot \in DOMAIN g.properties |-> g.properties[slot]]
      /\ h.properties = [slot \in DOMAIN h.properties |-> h.properties[slot]]
  BY DEF GraphOK
<1>6. g.properties = h.properties
  BY <1>3, <1>4, <1>5
<1> QED
  BY <1>6 DEF GraphOK

\* Writing a property changes what that slot reads as, and no other.
LEMMA SetProperty ==
  ASSUME NEW next, NEW g, GraphOK(g, next), NEW e \in g.entities, NEW k \in Keys, NEW v,
         Fits(k, v), NEW h, h = setProperty(g, e, k, v)
  PROVE  /\ GraphOK(h, next)
         /\ h.entities = g.entities /\ h.relations = g.relations
         /\ getProperty(h, e, k) = v
         /\ \A f, l : f # e \/ l # k => getProperty(h, f, l) = getProperty(g, f, l)
<1> DEFINE p == Put(g.properties, <<e, k>>, v)
<1>1. /\ DOMAIN p = DOMAIN g.properties \cup {<<e, k>>}
      /\ p = [slot \in DOMAIN p |-> p[slot]]
      /\ p[<<e, k>>] = v
      /\ \A slot \in DOMAIN g.properties : slot # <<e, k>> => p[slot] = g.properties[slot]
  BY DEF Put
<1> HIDE DEF p
<1>2. h = [entities |-> g.entities, properties |-> p, relations |-> g.relations]
  BY DEF setProperty, exists, GraphOK, p
<1>3. h.entities = g.entities /\ h.relations = g.relations /\ h.properties = p
  BY <1>2
<1>4. getProperty(h, e, k) = v
  BY <1>1, <1>3 DEF getProperty, hasProperty
<1>5. ASSUME NEW f, NEW l, f # e \/ l # k
      PROVE  /\ getProperty(h, f, l) = getProperty(g, f, l)
             /\ hasProperty(h, f, l) <=> hasProperty(g, f, l)
  <2>1. <<f, l>> # <<e, k>>
    BY <1>5
  <2> QED
    BY <1>1, <1>3, <2>1 DEF getProperty, hasProperty
<1>6. ASSUME NEW f \in h.entities, NEW l \in Keys, hasProperty(h, f, l)
      PROVE  Fits(l, h.properties[<<f, l>>])
  <2>1. CASE f = e /\ l = k
    BY <1>1, <1>3, <2>1
  <2>2. CASE f # e \/ l # k
    BY <1>3, <1>5, <1>6, <2>2, HasProperty DEF getProperty
  <2> QED
    BY <2>1, <2>2
<1>7. GraphOK(h, next)
  BY <1>1, <1>2, <1>3, <1>6 DEF GraphOK
<1> QED
  BY <1>3, <1>4, <1>5, <1>7

\* Removing a property leaves that slot without a value, and the others alone.
LEMMA RemoveProperty ==
  ASSUME NEW next, NEW g, GraphOK(g, next), NEW e, NEW k,
         NEW h, h = removeProperty(g, e, k)
  PROVE  /\ GraphOK(h, next)
         /\ h.entities = g.entities /\ h.relations = g.relations
         /\ getProperty(h, e, k) = NoValue
         /\ \A f, l : f # e \/ l # k => getProperty(h, f, l) = getProperty(g, f, l)
<1> DEFINE p == Restrict(g.properties, DOMAIN g.properties \ {<<e, k>>})
<1>1. /\ DOMAIN p = DOMAIN g.properties \ {<<e, k>>}
      /\ p = [slot \in DOMAIN p |-> p[slot]]
      /\ \A slot \in DOMAIN p : p[slot] = g.properties[slot]
  BY DEF Restrict
<1> HIDE DEF p
<1>2. h = [entities |-> g.entities, properties |-> p, relations |-> g.relations]
  BY DEF removeProperty, GraphOK, p
<1>3. h.entities = g.entities /\ h.relations = g.relations /\ h.properties = p
  BY <1>2
<1>4. getProperty(h, e, k) = NoValue
  BY <1>1, <1>3 DEF getProperty, hasProperty
<1>5. ASSUME NEW f, NEW l, f # e \/ l # k
      PROVE  getProperty(h, f, l) = getProperty(g, f, l)
  <2>1. <<f, l>> # <<e, k>>
    BY <1>5
  <2> QED
    BY <1>1, <1>3, <2>1 DEF getProperty, hasProperty
<1>6. ASSUME NEW f \in h.entities, NEW l \in Keys, hasProperty(h, f, l)
      PROVE  Fits(l, h.properties[<<f, l>>])
  BY <1>1, <1>3, <1>6 DEF GraphOK, hasProperty
<1>7. GraphOK(h, next)
  BY <1>1, <1>2, <1>3, <1>6 DEF GraphOK
<1> QED
  BY <1>3, <1>4, <1>5, <1>7

\* A new entity has no property and no relation.
LEMMA CreateEntity ==
  ASSUME NEW next \in Nat, Creature < next, NEW g, GraphOK(g, next),
         NEW h, h = createEntity(g, next)
  PROVE  /\ GraphOK(h, next + 1)
         /\ h.entities = g.entities \cup {next} /\ h.relations = g.relations
         /\ next \notin g.entities
         /\ \A f, l : getProperty(h, f, l) = getProperty(g, f, l)
<1>1. h = [entities |-> g.entities \cup {next}, properties |-> g.properties,
           relations |-> g.relations]
  BY DEF createEntity, GraphOK
<1>2. /\ h.entities = g.entities \cup {next} /\ h.relations = g.relations
      /\ h.properties = g.properties
  BY <1>1
<1>3. next \notin g.entities
  BY WorldAssumption DEF GraphOK
<1>4. \A f, l : /\ hasProperty(h, f, l) <=> hasProperty(g, f, l)
                /\ getProperty(h, f, l) = getProperty(g, f, l)
  BY <1>2 DEF hasProperty, getProperty
<1>5. h.relations \in Seq(h.entities \X h.entities)
  <2>1. g.entities \X g.entities \subseteq h.entities \X h.entities
    BY <1>2
  <2>2. g.relations \in Seq(g.entities \X g.entities)
    BY DEF GraphOK
  <2> QED
    BY <1>2, <2>1, <2>2, SeqMonotonic
<1>6. h.entities \subseteq Creature .. (next + 1) - 1
  <2>1. g.entities \subseteq Creature .. next - 1
    BY DEF GraphOK
  <2>2. Creature \in Nat
    BY WorldAssumption
  <2> QED
    BY <1>2, <2>1, <2>2
<1>7. ASSUME NEW f \in h.entities, NEW l \in Keys, hasProperty(h, f, l)
      PROVE  Fits(l, h.properties[<<f, l>>])
  BY <1>2, <1>4, <1>7, HasProperty
<1>8. GraphOK(h, next + 1)
  <2>1. h = [entities |-> h.entities, properties |-> h.properties, relations |-> h.relations]
    BY <1>1, <1>2
  <2>2. Creature \in h.entities /\ OneOwner(h.relations, Len(h.relations))
    BY <1>2 DEF GraphOK
  <2>3. /\ h.properties = [slot \in DOMAIN h.properties |-> h.properties[slot]]
        /\ DOMAIN h.properties \subseteq h.entities \X Keys
    BY <1>2 DEF GraphOK
  <2> QED
    BY <1>5, <1>6, <1>7, <2>1, <2>2, <2>3 DEF GraphOK
<1> QED
  BY <1>2, <1>3, <1>4, <1>8

\* Destroying a part leaves a well-formed graph of the other entities, with their properties.
LEMMA DestroyEntity ==
  ASSUME NEW next, NEW g, GraphOK(g, next), NEW e, e # Creature,
         NEW h, h = destroyEntity(g, e)
  PROVE  /\ GraphOK(h, next)
         /\ h.entities = g.entities \ {e} /\ h.relations = Without(g.relations, e)
         /\ \A l : getProperty(h, e, l) = NoValue
         /\ \A f, l : f # e => getProperty(h, f, l) = getProperty(g, f, l)
<1> DEFINE p == RestrictDomain(g.properties, LAMBDA slot : slot[1] # e)
<1>1. /\ DOMAIN p = {slot \in DOMAIN g.properties : slot[1] # e}
      /\ p = [slot \in DOMAIN p |-> p[slot]]
      /\ \A slot \in DOMAIN p : p[slot] = g.properties[slot]
  BY DEF Restrict, RestrictDomain
<1>2. h = [entities |-> g.entities \ {e}, properties |-> p,
           relations |-> Without(g.relations, e)]
  BY DEF destroyEntity
<1> HIDE DEF p
<1>3. /\ h.entities = g.entities \ {e} /\ h.relations = Without(g.relations, e)
      /\ h.properties = p
  BY <1>2
<1>4. ASSUME NEW f, NEW l
      PROVE  /\ f = e => ~hasProperty(h, f, l)
             /\ f # e => (hasProperty(h, f, l) <=> hasProperty(g, f, l))
             /\ f # e => getProperty(h, f, l) = getProperty(g, f, l)
  BY <1>1, <1>3 DEF hasProperty, getProperty
<1>5. g.relations \in Seq(g.entities \X g.entities) /\ OneOwner(g.relations, Len(g.relations))
  BY DEF GraphOK
<1>6. /\ h.relations \in Seq(h.entities \X h.entities)
      /\ OneOwner(h.relations, Len(h.relations))
  <2> DEFINE S == g.entities
             r == g.relations
  <2>1. /\ Without(r, e) \in Seq(Away(S, e))
        /\ OneOwner(r, Len(r)) => OneOwner(Without(r, e), Len(Without(r, e)))
    <3> HIDE DEF S, r
    <3> SUFFICES r \in Seq(S \X S)
      BY WithoutKeeps
    <3> QED
      BY <1>5 DEF S, r
  <2> QED
    BY <1>3, <1>5, <2>1 DEF Away
<1>7. ASSUME NEW f \in h.entities, NEW l \in Keys, hasProperty(h, f, l)
      PROVE  Fits(l, h.properties[<<f, l>>])
  BY <1>1, <1>3, <1>7 DEF GraphOK, hasProperty
<1>8. DOMAIN p \subseteq h.entities \X Keys
  BY <1>1, <1>3 DEF GraphOK
<1>9. GraphOK(h, next)
  <2>1. h.entities \subseteq Creature .. next - 1 /\ Creature \in h.entities
    BY <1>3 DEF GraphOK
  <2> QED
    BY <1>1, <1>2, <1>3, <1>6, <1>7, <1>8, <2>1 DEF GraphOK
<1> QED
  BY <1>3, <1>4, <1>9 DEF getProperty

\* A relation to an entity without an owner leaves the graph well-formed.
LEMMA CreateRelation ==
  ASSUME NEW next, NEW g, GraphOK(g, next), NEW from \in g.entities, NEW to \in g.entities,
         incoming_relations(g, to) = {},
         NEW h, h = createRelation(g, from, to)
  PROVE  /\ GraphOK(h, next)
         /\ h.entities = g.entities /\ h.relations = Append(g.relations, <<from, to>>)
         /\ \A f, l : getProperty(h, f, l) = getProperty(g, f, l)
<1> DEFINE r == Append(g.relations, <<from, to>>)
<1>1. h = [entities |-> g.entities, properties |-> g.properties, relations |-> r]
  BY DEF createRelation, GraphOK
<1>2. g.relations \in Seq(g.entities \X g.entities) /\ Len(g.relations) \in Nat
      /\ DOMAIN g.relations = 1 .. Len(g.relations)
  BY DEF GraphOK
<1>3. /\ r \in Seq(g.entities \X g.entities)
      /\ Len(r) = Len(g.relations) + 1
      /\ \A i \in 1 .. Len(g.relations) : r[i] = g.relations[i]
      /\ r[Len(g.relations) + 1] = <<from, to>>
  BY <1>2, AppendProperties
<1> HIDE DEF r
<1>4. \A i \in 1 .. Len(g.relations) : g.relations[i][2] # to
  BY <1>2 DEF incoming_relations
<1>5. OneOwner(r, Len(r))
  <2>1. \A i, j \in 1 .. Len(g.relations) : g.relations[i][2] = g.relations[j][2] => i = j
    BY DEF GraphOK, OneOwner
  <2>2. ASSUME NEW i \in 1 .. Len(r), NEW j \in 1 .. Len(r), r[i][2] = r[j][2]
        PROVE  i = j
    <3>1. \/ i \in 1 .. Len(g.relations) /\ j \in 1 .. Len(g.relations)
          \/ i \in 1 .. Len(g.relations) /\ j = Len(g.relations) + 1
          \/ i = Len(g.relations) + 1 /\ j \in 1 .. Len(g.relations)
          \/ i = Len(g.relations) + 1 /\ j = Len(g.relations) + 1
      BY <1>2, <1>3
    <3>2. <<from, to>>[2] = to
      OBVIOUS
    <3> QED
      BY <1>3, <1>4, <2>1, <2>2, <3>1, <3>2, SMTT(30)
  <2> QED
    BY <2>2 DEF OneOwner
<1>6. h.entities = g.entities /\ h.relations = r /\ h.properties = g.properties
  BY <1>1
<1>7. \A f, l : /\ hasProperty(h, f, l) <=> hasProperty(g, f, l)
                /\ getProperty(h, f, l) = getProperty(g, f, l)
  BY <1>6 DEF hasProperty, getProperty
<1>8. GraphOK(h, next)
  BY <1>1, <1>3, <1>5, <1>6, <1>7 DEF GraphOK
<1> QED
  BY <1>6, <1>7, <1>8 DEF r

\* A sequence without one of its elements: those before it, then those after it.
LEMMA RemoveAtProperties ==
  ASSUME NEW S, NEW s \in Seq(S), NEW i \in 1 .. Len(s)
  PROVE  /\ RemoveAt(s, i) \in Seq(S)
         /\ Len(RemoveAt(s, i)) = Len(s) - 1
         /\ \A j \in 1 .. Len(s) - 1 : RemoveAt(s, i)[j] = IF j < i THEN s[j] ELSE s[j + 1]
<1> DEFINE a == SubSeq(s, 1, i - 1)
           b == SubSeq(s, i + 1, Len(s))
<1>1. Len(s) \in Nat /\ i \in Nat /\ 1 <= i /\ i <= Len(s)
  OBVIOUS
<1>2. /\ a \in Seq(S) /\ Len(a) = i - 1
      /\ \A j \in 1 .. i - 1 : a[j] = s[j]
  <2>1. \A j \in 1 .. i - 1 : s[j] \in S
    BY <1>1
  <2> QED
    BY <1>1, <2>1, SubSeqProperties
<1>3. /\ b \in Seq(S) /\ Len(b) = Len(s) - i
      /\ \A j \in 1 .. Len(s) - i : b[j] = s[i + j]
  <2>1. \A j \in i + 1 .. Len(s) : s[j] \in S
    BY <1>1
  <2>2. /\ b \in Seq(S)
        /\ Len(b) = IF i + 1 <= Len(s) THEN Len(s) - (i + 1) + 1 ELSE 0
        /\ \A j \in 1 .. Len(s) - (i + 1) + 1 : b[j] = s[(i + 1) + j - 1]
    BY <1>1, <2>1, SubSeqProperties
  <2> QED
    BY <1>1, <2>2
<1>4. RemoveAt(s, i) = a \o b
  BY DEF RemoveAt
<1> HIDE DEF a, b
<1>5. /\ a \o b \in Seq(S)
      /\ Len(a \o b) = Len(a) + Len(b)
      /\ \A j \in 1 .. Len(a) + Len(b) : (a \o b)[j] = IF j <= Len(a) THEN a[j] ELSE b[j - Len(a)]
  BY <1>2, <1>3, ConcatProperties
<1>6. ASSUME NEW j \in 1 .. Len(s) - 1
      PROVE  (a \o b)[j] = IF j < i THEN s[j] ELSE s[j + 1]
  <2>1. CASE j < i
    BY <1>1, <1>2, <1>3, <1>5, <2>1
  <2>2. CASE ~(j < i)
    <3>1. j - (i - 1) \in 1 .. Len(s) - i
      BY <1>1, <2>2
    <3>2. (a \o b)[j] = b[j - (i - 1)]
      BY <1>1, <1>2, <1>3, <1>5, <2>2
    <3>3. b[j - (i - 1)] = s[i + (j - (i - 1))]
      BY <1>3, <3>1
    <3>4. i + (j - (i - 1)) = j + 1
      BY <1>1
    <3> QED
      BY <2>2, <3>2, <3>3, <3>4
  <2> QED
    BY <2>1, <2>2
<1> QED
  BY <1>1, <1>2, <1>3, <1>4, <1>5, <1>6, SMTT(30)

\* Without the first relation that fits, a graph is well-formed.
LEMMA DestroyRelation ==
  ASSUME NEW next, NEW g, GraphOK(g, next), NEW from, NEW to,
         NEW i \in findRelation(g, from, to),
         NEW h, h = destroyRelation(g, from, to)
  PROVE  /\ GraphOK(h, next)
         /\ h.entities = g.entities
         /\ findRelation(g, from, to) = {i}
         /\ h.relations = RemoveAt(g.relations, i)
         /\ \A f, l : getProperty(h, f, l) = getProperty(g, f, l)
<1>1. g.relations \in Seq(g.entities \X g.entities) /\ OneOwner(g.relations, Len(g.relations))
      /\ DOMAIN g.relations = 1 .. Len(g.relations) /\ Len(g.relations) \in Nat
  BY DEF GraphOK
<1>3. findRelation(g, from, to) = {i}
  BY <1>1 DEF findRelation, OneOwner
<1>4. Min({i}) = i
  BY <1>1 DEF Min, findRelation
<1> DEFINE r == RemoveAt(g.relations, i)
<1>5. h = [entities |-> g.entities, properties |-> g.properties, relations |-> r]
  BY <1>3, <1>4 DEF destroyRelation, GraphOK
<1>6. i \in 1 .. Len(g.relations)
  BY <1>1 DEF findRelation
<1>7. /\ r \in Seq(g.entities \X g.entities)
      /\ Len(r) = Len(g.relations) - 1
      /\ \A j \in 1 .. Len(g.relations) - 1 :
             r[j] = IF j < i THEN g.relations[j] ELSE g.relations[j + 1]
  BY <1>1, <1>6, RemoveAtProperties
<1> HIDE DEF r
<1>8. OneOwner(r, Len(r))
  <2>1. \A k, l \in 1 .. Len(g.relations) : g.relations[k][2] = g.relations[l][2] => k = l
    BY <1>1 DEF OneOwner
  <2> DEFINE old(j) == IF j < i THEN j ELSE j + 1
  <2>2. \A j \in 1 .. Len(r) : old(j) \in 1 .. Len(g.relations) /\ r[j] = g.relations[old(j)]
    BY <1>1, <1>6, <1>7
  <2>3. \A k, l \in 1 .. Len(r) : old(k) = old(l) => k = l
    BY <1>1, <1>6, <1>7
  <2> HIDE DEF old
  <2>4. ASSUME NEW k \in 1 .. Len(r), NEW l \in 1 .. Len(r), r[k][2] = r[l][2]
        PROVE  k = l
    <3>1. old(k) \in 1 .. Len(g.relations) /\ r[k] = g.relations[old(k)]
      BY <2>2
    <3>2. old(l) \in 1 .. Len(g.relations) /\ r[l] = g.relations[old(l)]
      BY <2>2
    <3>3. old(k) = old(l)
      BY <2>1, <2>4, <3>1, <3>2
    <3> QED
      BY <2>3, <3>3
  <2> QED
    BY <2>4 DEF OneOwner
<1>9. h.entities = g.entities /\ h.relations = r /\ h.properties = g.properties
  BY <1>5
<1>10. \A f, l : /\ hasProperty(h, f, l) <=> hasProperty(g, f, l)
                 /\ getProperty(h, f, l) = getProperty(g, f, l)
  BY <1>9 DEF hasProperty, getProperty
<1>11. GraphOK(h, next)
  BY <1>5, <1>7, <1>8, <1>9, <1>10 DEF GraphOK
<1> QED
  BY <1>3, <1>9, <1>10, <1>11 DEF r

-----------------------------------------------------------------------------
\* Undoing an operation gives back the graph it was applied to.

\* Destroying the entity an operation has just made gives the graph back.
LEMMA UndoCreate ==
  ASSUME NEW next \in Nat, Creature < next, NEW g, GraphOK(g, next), NEW v \in Values \cup {NoValue},
         NEW h, h = IF v = NoValue THEN createEntity(g, next)
                    ELSE setProperty(createEntity(g, next), next, Input, v)
  PROVE  /\ GraphOK(h, next + 1)
         /\ h.entities = g.entities \cup {next} /\ h.relations = g.relations
         /\ getProperty(g, next, Input) = NoValue /\ getProperty(h, next, Input) = v
         /\ \A f, l : f # next \/ l # Input => getProperty(h, f, l) = getProperty(g, f, l)
         /\ destroyEntity(h, next) = g
<1> DEFINE c == createEntity(g, next)
<1>1. /\ GraphOK(c, next + 1)
      /\ c.entities = g.entities \cup {next} /\ c.relations = g.relations
      /\ next \notin g.entities
      /\ \A f, l : getProperty(c, f, l) = getProperty(g, f, l)
  BY CreateEntity
<1> HIDE DEF c
<1>2. \A l : getProperty(g, next, l) = NoValue
  BY <1>1, HasProperty
<1>3. /\ GraphOK(h, next + 1)
      /\ h.entities = c.entities /\ h.relations = c.relations
      /\ getProperty(h, next, Input) = v
      /\ \A f, l : f # next \/ l # Input => getProperty(h, f, l) = getProperty(c, f, l)
  <2>1. CASE v = NoValue
    <3>1. h = c
      BY <2>1 DEF c
    <3> QED
      BY <1>1, <1>2, <2>1, <3>1
  <2>2. CASE v # NoValue
    <3>1. h = setProperty(c, next, Input, v)
      BY <2>2 DEF c
    <3>2. next \in c.entities /\ Input \in Keys /\ Fits(Input, v)
      BY <1>1, <2>2 DEF Keys, Fits
    <3> QED
      BY <1>1, <3>1, <3>2, SetProperty
  <2> QED
    BY <2>1, <2>2
<1> DEFINE d == destroyEntity(h, next)
<1>4. next # Creature
  BY WorldAssumption
<1>5. /\ GraphOK(d, next + 1)
      /\ d.entities = h.entities \ {next} /\ d.relations = Without(h.relations, next)
      /\ \A l : getProperty(d, next, l) = NoValue
      /\ \A f, l : f # next => getProperty(d, f, l) = getProperty(h, f, l)
  BY <1>3, <1>4, DestroyEntity
<1> HIDE DEF d
<1>6. d.entities = g.entities
  BY <1>1, <1>3, <1>5
<1>7. d.relations = g.relations
  <2> DEFINE S == g.entities \cup {next}
             r == g.relations
  <2>1. Away(S, next) = g.entities \X g.entities
    BY <1>1 DEF Away
  <2>2. r \in Seq(Away(S, next))
    BY <2>1 DEF GraphOK
  <2>3. r \in Seq(S \X S)
    <3>1. Away(S, next) \subseteq S \X S
      BY DEF Away
    <3> QED
      BY <2>2, <3>1, SeqMonotonic
  <2> HIDE DEF S, r
  <2>4. Without(r, next) = r
    BY <2>2, <2>3, WithoutKeeps
  <2> QED
    BY <1>1, <1>3, <1>5, <2>4 DEF r
<1>8. \A e \in d.entities, k \in Keys : getProperty(d, e, k) = getProperty(g, e, k)
  BY <1>1, <1>3, <1>5, <1>6
<1>9. d = g
  BY <1>5, <1>6, <1>7, <1>8, GraphEqual
<1> QED
  BY <1>1, <1>2, <1>3, <1>9 DEF d

\* Writing the old value, or removing the property if there was none, gives the graph back.
LEMMA UndoSetProperty ==
  ASSUME NEW next, NEW g, GraphOK(g, next), NEW e \in g.entities, NEW v \in Values,
         NEW h, h = setProperty(g, e, Input, v)
  PROVE  IF hasProperty(g, e, Input)
         THEN setProperty(h, e, Input, getProperty(g, e, Input)) = g
         ELSE removeProperty(h, e, Input) = g
<1>1. Input \in Keys /\ Fits(Input, v)
  BY DEF Keys, Fits
<1>2. /\ GraphOK(h, next)
      /\ h.entities = g.entities /\ h.relations = g.relations
      /\ \A f, l : f # e \/ l # Input => getProperty(h, f, l) = getProperty(g, f, l)
  BY <1>1, SetProperty
<1>3. CASE hasProperty(g, e, Input)
  <2> DEFINE d == setProperty(h, e, Input, getProperty(g, e, Input))
  <2>1. Fits(Input, getProperty(g, e, Input)) /\ e \in h.entities
    BY <1>2, <1>3, HasProperty
  <2>2. /\ GraphOK(d, next)
        /\ d.entities = h.entities /\ d.relations = h.relations
        /\ getProperty(d, e, Input) = getProperty(g, e, Input)
        /\ \A f, l : f # e \/ l # Input => getProperty(d, f, l) = getProperty(h, f, l)
    BY <1>1, <1>2, <2>1, SetProperty
  <2> HIDE DEF d
  <2>3. \A f, l : getProperty(d, f, l) = getProperty(g, f, l)
    BY <1>2, <2>2
  <2>4. d = g
    BY <1>2, <2>2, <2>3, GraphEqual
  <2> QED
    BY <1>3, <2>4 DEF d
<1>4. CASE ~hasProperty(g, e, Input)
  <2> DEFINE d == removeProperty(h, e, Input)
  <2>1. getProperty(g, e, Input) = NoValue
    BY <1>4 DEF getProperty
  <2>2. /\ GraphOK(d, next)
        /\ d.entities = h.entities /\ d.relations = h.relations
        /\ getProperty(d, e, Input) = NoValue
        /\ \A f, l : f # e \/ l # Input => getProperty(d, f, l) = getProperty(h, f, l)
    BY <1>2, RemoveProperty
  <2> HIDE DEF d
  <2>3. \A f, l : getProperty(d, f, l) = getProperty(g, f, l)
    BY <1>2, <2>1, <2>2
  <2>4. d = g
    BY <1>2, <2>2, <2>3, GraphEqual
  <2> QED
    BY <1>4, <2>4 DEF d
<1> QED
  BY <1>3, <1>4

\* Removing the relation just made finds that one, and gives the graph back.
LEMMA UndoCreateRelation ==
  ASSUME NEW next, NEW g, GraphOK(g, next), NEW from \in g.entities, NEW to \in g.entities,
         incoming_relations(g, to) = {},
         NEW h, h = createRelation(g, from, to)
  PROVE  destroyRelation(h, from, to) = g
<1>1. /\ GraphOK(h, next)
      /\ h.entities = g.entities /\ h.relations = Append(g.relations, <<from, to>>)
      /\ \A f, l : getProperty(h, f, l) = getProperty(g, f, l)
  BY CreateRelation
<1> DEFINE s == g.relations
           t == Append(s, <<from, to>>)
           n == Len(s) + 1
<1>2. s \in Seq(g.entities \X g.entities) /\ DOMAIN s = 1 .. Len(s) /\ Len(s) \in Nat
  BY DEF GraphOK
<1>3. /\ t \in Seq(g.entities \X g.entities)
      /\ Len(t) = Len(s) + 1
      /\ \A i \in 1 .. Len(s) : t[i] = s[i]
      /\ t[n] = <<from, to>>
  BY <1>2, AppendProperties
<1>4. \A i \in 1 .. Len(s) : s[i][2] # to
  BY <1>2 DEF incoming_relations
<1> HIDE DEF s, t
<1>5. h.relations = t
  BY <1>1 DEF t, s
<1>6. n \in findRelation(h, from, to)
  BY <1>2, <1>3, <1>5 DEF findRelation
<1> DEFINE d == destroyRelation(h, from, to)
<1>7. /\ GraphOK(d, next)
      /\ d.entities = h.entities
      /\ d.relations = RemoveAt(h.relations, n)
      /\ \A f, l : getProperty(d, f, l) = getProperty(h, f, l)
  <2>1. GraphOK(h, next)
    BY <1>1
  <2>2. d = destroyRelation(h, from, to)
    OBVIOUS
  <2>3. \A i \in findRelation(h, from, to) :
            /\ GraphOK(d, next)
            /\ d.entities = h.entities
            /\ d.relations = RemoveAt(h.relations, i)
            /\ \A f, l : getProperty(d, f, l) = getProperty(h, f, l)
    <3> HIDE DEF d, n
    <3> QED
      BY <2>1, <2>2, DestroyRelation
  <2> HIDE DEF d
  <2> QED
    BY <1>6, <2>3
<1> HIDE DEF d
<1>8. d.relations = RemoveAt(t, n)
  BY <1>5, <1>7
<1>9. RemoveAt(t, n) = s
  <2>1. n \in 1 .. Len(t)
    BY <1>2, <1>3
  <2>2. /\ RemoveAt(t, n) \in Seq(g.entities \X g.entities)
        /\ Len(RemoveAt(t, n)) = Len(t) - 1
        /\ \A j \in 1 .. Len(t) - 1 : RemoveAt(t, n)[j] = IF j < n THEN t[j] ELSE t[j + 1]
    BY <1>3, <2>1, RemoveAtProperties
  <2>3. Len(RemoveAt(t, n)) = Len(s) /\ \A j \in 1 .. Len(s) : RemoveAt(t, n)[j] = s[j]
    BY <1>2, <1>3, <2>2
  <2> QED
    BY <1>2, <2>2, <2>3, SeqEqual
<1>10. d = g
  BY <1>1, <1>7, <1>8, <1>9, GraphEqual DEF s
<1> QED
  BY <1>10 DEF d

-----------------------------------------------------------------------------
\* The ring

\* A journal whose ring holds what it says it holds.
LogOK(lg) ==
    /\ lg = [ring |-> lg.ring, capacity |-> lg.capacity, write |-> lg.write, size |-> lg.size,
             next_seq |-> lg.next_seq]
    /\ lg.capacity \in Nat \ {0}
    /\ lg.ring = [i \in 0 .. lg.capacity - 1 |-> lg.ring[i]]
    /\ lg.write \in 0 .. lg.capacity - 1
    /\ lg.size \in 0 .. lg.capacity
    /\ lg.next_seq \in Nat /\ lg.size <= lg.next_seq

\* The slot d places before slot w of a ring of c slots.
Back(w, c, d) == IF d <= w THEN w - d ELSE w + c - d

\* The i-th of s retained events lies s - i places before the slot to write next.
LEMMA RingSlot ==
  ASSUME NEW c \in Nat \ {0}, NEW w \in 0 .. c - 1, NEW s \in 0 .. c, NEW i \in 0 .. s - 1
  PROVE  (((w + c - s) % c) + i) % c = Back(w, c, s - i)
<1>1. \A x \in 0 .. c - 1 : x % c = x /\ (x + c) % c = x
  OBVIOUS
<1>2. CASE s <= w
  <2>1. (w + c - s) % c = w - s
    <3>1. w - s \in 0 .. c - 1 /\ w + c - s = (w - s) + c
      BY <1>2
    <3> QED
      BY <1>1, <3>1
  <2>2. (w - s + i) % c = w - s + i
    <3>1. w - s + i \in 0 .. c - 1
      BY <1>2
    <3> QED
      BY <1>1, <3>1
  <2> QED
    BY <1>2, <2>1, <2>2 DEF Back
<1>3. CASE ~(s <= w)
  <2>1. (w + c - s) % c = w + c - s
    <3>1. w + c - s \in 0 .. c - 1
      BY <1>3
    <3> QED
      BY <1>1, <3>1
  <2>2. CASE s - i <= w
    <3>1. w - s + i \in 0 .. c - 1 /\ w + c - s + i = (w - s + i) + c
      BY <1>3, <2>2
    <3>2. (w + c - s + i) % c = w - s + i
      BY <1>1, <3>1
    <3> QED
      BY <2>1, <2>2, <3>2 DEF Back
  <2>3. CASE ~(s - i <= w)
    <3>1. w + c - s + i \in 0 .. c - 1
      BY <1>3, <2>3
    <3>2. (w + c - s + i) % c = w + c - s + i
      BY <1>1, <3>1
    <3> QED
      BY <2>1, <2>3, <3>2 DEF Back
  <2> QED
    BY <2>2, <2>3
<1> QED
  BY <1>2, <1>3

\* Where the ring holds a retained event.
LEMMA AtSeq ==
  ASSUME NEW lg, LogOK(lg), NEW seq \in oldest_seq(lg) .. lg.next_seq - 1
  PROVE  at_seq(lg, seq) = lg.ring[Back(lg.write, lg.capacity, lg.next_seq - seq)]
<1> DEFINE i == seq - oldest_seq(lg)
<1>1. /\ lg.capacity \in Nat \ {0} /\ lg.write \in 0 .. lg.capacity - 1
      /\ lg.size \in 0 .. lg.capacity /\ lg.next_seq \in Nat
  BY DEF LogOK
<1>2. i \in 0 .. lg.size - 1 /\ lg.size - i = lg.next_seq - seq
  BY <1>1 DEF oldest_seq
<1>3. at_seq(lg, seq) =
          lg.ring[(((lg.write + lg.capacity - lg.size) % lg.capacity) + i) % lg.capacity]
  BY DEF at_seq, at
<1> HIDE DEF i
<1>4. (((lg.write + lg.capacity - lg.size) % lg.capacity) + i) % lg.capacity
          = Back(lg.write, lg.capacity, lg.size - i)
  <2> HIDE DEF Back
  <2>1. \A c \in Nat \ {0} : \A w \in 0 .. c - 1, s \in 0 .. c : \A k \in 0 .. s - 1 :
            (((w + c - s) % c) + k) % c = Back(w, c, s - k)
    BY RingSlot, Zenon
  <2> QED
    BY <1>1, <1>2, <2>1, Zenon
<1> QED
  BY <1>2, <1>3, <1>4

\* Journalling an event keeps the newest events where they can be read, and it.
LEMMA EmitEntry ==
  ASSUME NEW lg, LogOK(lg), NEW event, NEW h, h = emit_entry(lg, event)
  PROVE  /\ LogOK(h)
         /\ h.next_seq = lg.next_seq + 1
         /\ oldest_seq(h) \in Nat /\ oldest_seq(lg) \in Nat
         /\ oldest_seq(lg) <= oldest_seq(h) /\ oldest_seq(h) <= lg.next_seq
         /\ \A seq \in oldest_seq(h) .. lg.next_seq - 1 : at_seq(h, seq) = at_seq(lg, seq)
         /\ at_seq(h, lg.next_seq) = event
<1> DEFINE c == lg.capacity
           w == lg.write
           s == lg.size
           n == lg.next_seq
           r == [lg.ring EXCEPT ![w] = event]
           s2 == IF s < c THEN s + 1 ELSE s
           w2 == (w + 1) % c
<1>1. /\ c \in Nat \ {0} /\ w \in 0 .. c - 1 /\ s \in 0 .. c /\ n \in Nat /\ s <= n
  BY DEF LogOK
<1>2. /\ w2 \in 0 .. c - 1
      /\ w2 = IF w = c - 1 THEN 0 ELSE w + 1
  BY <1>1
<1>3. s2 \in 1 .. c /\ s2 <= n + 1 /\ s2 <= s + 1
  BY <1>1
<1>4. /\ r = [i \in 0 .. c - 1 |-> r[i]]
      /\ \A i \in 0 .. c - 1 : r[i] = IF i = w THEN event ELSE lg.ring[i]
  BY DEF LogOK
<1>5. h = [ring |-> r, capacity |-> c, write |-> w2, size |-> s2, next_seq |-> n + 1]
  BY DEF emit_entry, LogOK
<1> HIDE DEF r, w2, s2
<1>6. h.ring = r /\ h.capacity = c /\ h.write = w2 /\ h.size = s2 /\ h.next_seq = n + 1
  BY <1>5
<1>7. LogOK(h)
  BY <1>1, <1>2, <1>3, <1>4, <1>5, <1>6 DEF LogOK
<1>8. oldest_seq(h) = n + 1 - s2 /\ oldest_seq(lg) = n - s
  BY <1>1, <1>3, <1>6 DEF oldest_seq
<1>9. ASSUME NEW seq \in oldest_seq(h) .. n - 1
      PROVE  at_seq(h, seq) = at_seq(lg, seq)
  <2>1. seq \in Int /\ n + 1 - s2 <= seq /\ seq <= n - 1
    BY <1>1, <1>3, <1>8
  <2>2. /\ seq \in oldest_seq(h) .. h.next_seq - 1
        /\ seq \in oldest_seq(lg) .. lg.next_seq - 1
    BY <1>1, <1>3, <1>6, <1>8, <2>1
  <2>3. at_seq(h, seq) = r[Back(w2, c, n + 1 - seq)] /\ at_seq(lg, seq) = lg.ring[Back(w, c, n - seq)]
    <3>1. at_seq(h, seq) = h.ring[Back(h.write, h.capacity, h.next_seq - seq)]
      BY <1>7, <2>2, AtSeq
    <3>2. at_seq(lg, seq) = lg.ring[Back(lg.write, lg.capacity, lg.next_seq - seq)]
      BY <2>2, AtSeq
    <3>3. h.next_seq - seq = n + 1 - seq
      BY <1>1, <1>6, <2>1
    <3>4. at_seq(h, seq) = r[Back(w2, c, n + 1 - seq)]
      BY <1>6, <3>1, <3>3, Zenon
    <3> QED
      BY <3>2, <3>4
  <2> DEFINE d == n - seq
  <2>4. d \in 1 .. c - 1 /\ n + 1 - seq = d + 1
    BY <1>1, <1>3, <2>1
  <2> HIDE DEF d
  <2>5. Back(w2, c, d + 1) = Back(w, c, d) /\ Back(w, c, d) \in 0 .. c - 1 /\ Back(w, c, d) # w
    BY <1>1, <1>2, <2>4 DEF Back
  <2> QED
    BY <1>4, <2>3, <2>4, <2>5 DEF d
<1>10. at_seq(h, n) = event
  <2>1. n \in oldest_seq(h) .. h.next_seq - 1
    BY <1>1, <1>3, <1>6, <1>8
  <2>2. at_seq(h, n) = r[Back(w2, c, h.next_seq - n)]
    BY <1>6, <1>7, <2>1, AtSeq
  <2>3. h.next_seq - n = 1 /\ Back(w2, c, 1) = w
    BY <1>1, <1>2, <1>6 DEF Back
  <2> QED
    BY <1>1, <1>4, <2>2, <2>3
<1> QED
  BY <1>1, <1>3, <1>6, <1>7, <1>8, <1>9, <1>10

\* A ring of another size has the newest events that fit.
LEMMA SetCapacity ==
  ASSUME NEW lg, LogOK(lg), NEW n \in Nat \ {0}, NEW h, h = set_capacity(lg, n)
  PROVE  /\ LogOK(h)
         /\ h.next_seq = lg.next_seq
         /\ oldest_seq(h) \in Nat /\ oldest_seq(lg) \in Nat
         /\ oldest_seq(lg) <= oldest_seq(h) /\ oldest_seq(h) <= lg.next_seq
         /\ \A seq \in oldest_seq(h) .. lg.next_seq - 1 : at_seq(h, seq) = at_seq(lg, seq)
<1> DEFINE s == lg.size
           keep == IF s < n THEN s ELSE n
           r == [i \in 0 .. n - 1 |-> IF i < keep THEN at(lg, s - keep + i) ELSE NoEvent]
<1>1. /\ lg.capacity \in Nat \ {0} /\ s \in Nat /\ lg.next_seq \in Nat /\ s <= lg.next_seq
  BY DEF LogOK
<1>2. keep \in 0 .. n /\ keep <= s
  BY <1>1
<1>3. h = [ring |-> r, capacity |-> n, write |-> keep % n, size |-> keep,
           next_seq |-> lg.next_seq]
  BY DEF set_capacity
<1>4. /\ r = [i \in 0 .. n - 1 |-> r[i]]
      /\ \A i \in 0 .. keep - 1 : r[i] = at(lg, s - keep + i)
  BY <1>2
<1> HIDE DEF r, keep
<1>5. /\ h.ring = r /\ h.capacity = n /\ h.write = keep % n /\ h.size = keep
      /\ h.next_seq = lg.next_seq
  BY <1>3
<1>6. /\ keep % n \in 0 .. n - 1
      /\ keep < n => keep % n = keep
      /\ keep = n => keep % n = 0
  BY <1>2
<1>7. LogOK(h)
  BY <1>1, <1>2, <1>3, <1>4, <1>5, <1>6 DEF LogOK
<1>8. oldest_seq(h) = lg.next_seq - keep /\ oldest_seq(lg) = lg.next_seq - s
  BY <1>5 DEF oldest_seq
<1>9. ASSUME NEW seq \in oldest_seq(h) .. lg.next_seq - 1
      PROVE  at_seq(h, seq) = at_seq(lg, seq)
  <2> DEFINE i == seq - (lg.next_seq - keep)
  <2>1. i \in 0 .. keep - 1 /\ s - keep + i = seq - (lg.next_seq - s)
    BY <1>1, <1>2, <1>8
  <2>2. at_seq(h, seq) = r[Back(keep % n, n, lg.next_seq - seq)]
    BY <1>5, <1>7, AtSeq
  <2>3. lg.next_seq - seq = keep - i
    BY <1>1, <1>2, <1>8
  <2> HIDE DEF i
  <2>4. Back(keep % n, n, keep - i) = i
    BY <1>2, <1>6, <2>1 DEF Back
  <2>5. at_seq(h, seq) = at(lg, s - keep + i)
    BY <1>4, <2>1, <2>2, <2>3, <2>4
  <2> QED
    BY <1>8, <2>1, <2>5 DEF at_seq
<1> QED
  BY <1>1, <1>2, <1>5, <1>7, <1>8, <1>9

-----------------------------------------------------------------------------
\* What publishing an event does to the graph

\* The graph says of the creature what its body can do.
Current(g) == getProperty(g, Creature, Capability) = compute_from_kg(g)

\* Two graphs that differ in the creature's capability at most.
SameButCapability(g, h) ==
    /\ h.entities = g.entities /\ h.relations = g.relations
    /\ \A f, l : f # Creature \/ l # Capability => getProperty(h, f, l) = getProperty(g, f, l)

\* Parts are entities.
LEMMA RelatedAreEntities ==
  ASSUME NEW next, NEW g, GraphOK(g, next)
  PROVE  getRelated(g, Creature) \subseteq g.entities
<1>1. g.relations \in Seq(g.entities \X g.entities)
  BY DEF GraphOK
<1>2. \A i \in DOMAIN g.relations : g.relations[i][2] \in g.entities
  BY <1>1
<1> QED
  BY <1>2 DEF getRelated

\* What a creature can do depends on its relations and the inputs of its body.
LEMMA ComputeSame ==
  ASSUME NEW g, NEW h, h.relations = g.relations,
         \A e \in Body(g) : getProperty(h, e, Input) = getProperty(g, e, Input)
  PROVE  /\ getRelated(h, Creature) = getRelated(g, Creature)
         /\ compute_from_kg(h) = compute_from_kg(g)
<1>1. getRelated(h, Creature) = getRelated(g, Creature)
  BY DEF getRelated
<1>2. Body(h) = Body(g)
  BY <1>1 DEF Body
<1> QED
  BY <1>1, <1>2 DEF compute_from_kg

\* What is computed is a profile.
LEMMA ComputeFits ==
  ASSUME NEW next \in Nat, next <= LastEntity + 1, NEW g, GraphOK(g, next)
  PROVE  Fits(Capability, compute_from_kg(g))
<1>1. Body(g) \subseteq Ids
  <2>1. g.entities \subseteq Ids /\ Creature \in Ids
    BY WorldAssumption DEF GraphOK, Ids
  <2> QED
    BY <2>1, RelatedAreEntities DEF Body
<1>2. \A e \in Body(g) : getProperty(g, e, Input) \in Values \cup {NoValue}
  <2> TAKE e \in Body(g)
  <2>1. CASE hasProperty(g, e, Input)
    BY <2>1, HasProperty, WorldAssumption DEF Fits
  <2>2. CASE ~hasProperty(g, e, Input)
    BY <2>2 DEF getProperty
  <2> QED
    BY <2>1, <2>2
<1>3. compute_from_kg(g) \subseteq Ids \X (Values \cup {NoValue})
  BY <1>1, <1>2 DEF compute_from_kg
<1> QED
  BY <1>3 DEF Fits, Profiles

\* A write-back leaves the graph current, and otherwise as it was.
LEMMA WriteBackGraph ==
  ASSUME NEW next \in Nat, next <= LastEntity + 1, NEW w, GraphOK(w.graph, next),
         NEW h, h = write_back(w).graph
  PROVE  /\ GraphOK(h, next)
         /\ SameButCapability(w.graph, h)
         /\ Current(h)
<1> DEFINE g == w.graph
           v == compute_from_kg(g)
           event == [entity |-> Creature, key |-> Capability, value |-> v,
                     prev |-> getProperty(g, Creature, Capability)]
           u == [graph |-> setProperty(g, Creature, Capability, v),
                 log |-> emit_entry(w.log, event)]
<1>1. write_back(w) = IF event.value = event.prev THEN w ELSE u
  BY Zenon DEF write_back
<1>2. event.value = v /\ event.prev = getProperty(g, Creature, Capability)
  OBVIOUS
<1>3. CASE v = getProperty(g, Creature, Capability)
  <2>1. h = g
    BY <1>1, <1>2, <1>3
  <2> QED
    BY <1>3, <2>1 DEF SameButCapability, Current
<1>4. CASE v # getProperty(g, Creature, Capability)
  <2>1. h = setProperty(g, Creature, Capability, v)
    BY <1>1, <1>2, <1>4
  <2>2. Creature \in g.entities /\ Capability \in Keys /\ Fits(Capability, v)
    BY ComputeFits DEF GraphOK, Keys
  <2> HIDE DEF g, v
  <2>3. /\ GraphOK(h, next)
        /\ h.entities = g.entities /\ h.relations = g.relations
        /\ getProperty(h, Creature, Capability) = v
        /\ \A f, l : f # Creature \/ l # Capability => getProperty(h, f, l) = getProperty(g, f, l)
    <3>1. GraphOK(g, next)
      BY DEF g
    <3> QED
      BY <2>1, <2>2, <3>1, SetProperty
  <2>4. compute_from_kg(h) = v
    <3>1. Input # Capability
      BY WorldAssumption
    <3> QED
      BY <2>3, <3>1, ComputeSame DEF v
  <2> QED
    BY <2>3, <2>4 DEF SameButCapability, Current, g
<1> QED
  BY <1>3, <1>4

\* A part is traced to its creature.
LEMMA RootOfBody ==
  ASSUME NEW next, NEW g, GraphOK(g, next), NEW e \in Body(g), tracked
  PROVE  tracked_root_of(g, e) = Creature
<1> DEFINE up(x) == IF incoming_relations(g, x) = {} THEN None ELSE first_owner(g, x)
           walk == {e, up(e), up(up(e)), up(up(up(e))), up(up(up(up(e))))}
<1>1. tracked_root_of(g, e) = IF tracked /\ Creature \in walk THEN Creature ELSE None
  BY Zenon DEF tracked_root_of
<1>2. CASE e = Creature
  BY <1>1, <1>2
<1>3. CASE e # Creature
  <2>1. PICK i \in DOMAIN g.relations : g.relations[i][1] = Creature /\ g.relations[i][2] = e
    BY <1>3 DEF Body, getRelated
  <2>2. DOMAIN g.relations = 1 .. Len(g.relations) /\ Len(g.relations) \in Nat
    BY DEF GraphOK
  <2>3. incoming_relations(g, e) = {i}
    BY <2>1, <2>2 DEF incoming_relations, GraphOK, OneOwner
  <2>4. Min({i}) = i
    BY <2>1, <2>2 DEF Min
  <2>5. up(e) = Creature
    BY <2>1, <2>3, <2>4 DEF first_owner
  <2> HIDE DEF up
  <2> QED
    BY <1>1, <2>5
<1> QED
  BY <1>2, <1>3

\* A root is the creature, and only a tracked one.
LEMMA RootOrNone ==
  ASSUME NEW g, NEW e
  PROVE  /\ tracked_root_of(g, e) \in {Creature, None}
         /\ Creature # None
         /\ ~tracked => tracked_root_of(g, e) = None
<1>1. Creature # None
  BY WorldAssumption DEF Ids
<1> QED
  BY <1>1 DEF tracked_root_of

\* Publishing an event leaves all but the creature's capability, keeps that current if it
\* was, and makes it current if the event is of the creature's body.
LEMMA EmitGraph ==
  ASSUME NEW next \in Nat, next <= LastEntity + 1, NEW w, GraphOK(w.graph, next), NEW event,
         NEW h, h = emit(w, event).graph
  PROVE  /\ GraphOK(h, next)
         /\ SameButCapability(w.graph, h)
         /\ Current(w.graph) => Current(h)
         /\ tracked /\ event.entity \in Body(w.graph) /\ event.key # Capability => Current(h)
<1>1. h = on_state_change(w, event).graph
  BY DEF emit
<1>2. CASE event.key = Capability \/ tracked_root_of(w.graph, event.entity) = None
  <2>1. h = w.graph
    BY <1>1, <1>2 DEF on_state_change
  <2> QED
    BY <1>2, <2>1, RootOfBody, RootOrNone DEF SameButCapability
<1>3. CASE ~(event.key = Capability \/ tracked_root_of(w.graph, event.entity) = None)
  <2>1. h = write_back(w).graph
    BY <1>1, <1>3 DEF on_state_change
  <2> QED
    BY <2>1, WriteBackGraph
<1> QED
  BY <1>2, <1>3

\* The journal of an event: itself, after the write-back it may have caused.
LEMMA EmitLog ==
  ASSUME NEW w, NEW event
  PROVE  \/ /\ emit(w, event).graph = w.graph
            /\ emit(w, event).log = emit_entry(w.log, event)
         \/ \E v : LET own == [entity |-> Creature, key |-> Capability, value |-> v,
                               prev |-> getProperty(w.graph, Creature, Capability)]
                   IN  /\ v = compute_from_kg(w.graph)
                       /\ emit(w, event).graph = setProperty(w.graph, Creature, Capability, v)
                       /\ emit(w, event).log = emit_entry(emit_entry(w.log, own), event)
<1>1. /\ emit(w, event).graph = on_state_change(w, event).graph
      /\ emit(w, event).log = emit_entry(on_state_change(w, event).log, event)
  BY DEF emit
<1>2. CASE on_state_change(w, event) = w
  BY <1>1, <1>2
<1>3. CASE on_state_change(w, event) # w
  <2>1. on_state_change(w, event) = write_back(w) /\ write_back(w) # w
    BY <1>3 DEF on_state_change
  <2> DEFINE v == compute_from_kg(w.graph)
             own == [entity |-> Creature, key |-> Capability, value |-> v,
                     prev |-> getProperty(w.graph, Creature, Capability)]
             u == [graph |-> setProperty(w.graph, Creature, Capability, own.value),
                   log |-> emit_entry(w.log, own)]
  <2>2. write_back(w) = IF own.value = own.prev THEN w ELSE u
    BY Zenon DEF write_back
  <2>3. on_state_change(w, event) = u
    BY <2>1, <2>2
  <2>4. /\ emit(w, event).graph = setProperty(w.graph, Creature, Capability, v)
        /\ emit(w, event).log = emit_entry(emit_entry(w.log, own), event)
    <3>1. u.graph = setProperty(w.graph, Creature, Capability, v) /\ u.log = emit_entry(w.log, own)
      OBVIOUS
    <3> HIDE DEF u
    <3> QED
      BY <1>1, <2>3, <3>1
  <2> QED
    BY <2>4
<1> QED
  BY <1>2, <1>3

\* Publishing keeps the journal well-formed and numbers one or two events.
LEMMA EmitLogOK ==
  ASSUME NEW w, NEW event, LogOK(w.log), NEW h, h = emit(w, event).log
  PROVE  LogOK(h) /\ w.log.next_seq <= h.next_seq
<1>1. CASE h = emit_entry(w.log, event)
  <2>1. LogOK(h) /\ h.next_seq = w.log.next_seq + 1
    BY <1>1, EmitEntry
  <2>2. w.log.next_seq \in Nat
    BY DEF LogOK
  <2> QED
    BY <2>1, <2>2
<1>2. ASSUME NEW own, h = emit_entry(emit_entry(w.log, own), event)
      PROVE  LogOK(h) /\ w.log.next_seq <= h.next_seq
  <2> DEFINE m == emit_entry(w.log, own)
  <2>1. LogOK(m) /\ m.next_seq = w.log.next_seq + 1
    BY EmitEntry
  <2>2. h = emit_entry(m, event)
    BY <1>2
  <2> HIDE DEF m
  <2>3. LogOK(h) /\ h.next_seq = m.next_seq + 1
    BY <2>1, <2>2, EmitEntry
  <2>4. w.log.next_seq \in Nat
    BY DEF LogOK
  <2> QED
    BY <2>1, <2>3, <2>4
<1> QED
  BY <1>1, <1>2, EmitLog

\* A write-back changes nothing, or writes the capability and journals that.
LEMMA WriteBackLog ==
  ASSUME NEW w
  PROVE  \/ write_back(w) = w
         \/ \E v : LET own == [entity |-> Creature, key |-> Capability, value |-> v,
                               prev |-> getProperty(w.graph, Creature, Capability)]
                   IN  /\ v = compute_from_kg(w.graph)
                       /\ write_back(w).graph = setProperty(w.graph, Creature, Capability, v)
                       /\ write_back(w).log = emit_entry(w.log, own)
<1> DEFINE v == compute_from_kg(w.graph)
           own == [entity |-> Creature, key |-> Capability, value |-> v,
                   prev |-> getProperty(w.graph, Creature, Capability)]
           u == [graph |-> setProperty(w.graph, Creature, Capability, own.value),
                 log |-> emit_entry(w.log, own)]
<1>1. write_back(w) = IF own.value = own.prev THEN w ELSE u
  BY Zenon DEF write_back
<1>2. u.graph = setProperty(w.graph, Creature, Capability, v) /\ u.log = emit_entry(w.log, own)
  OBVIOUS
<1>3. CASE write_back(w) = w
  BY <1>3
<1>4. CASE write_back(w) = u
  <2> HIDE DEF u
  <2>1. /\ v = compute_from_kg(w.graph)
        /\ write_back(w).graph = setProperty(w.graph, Creature, Capability, v)
        /\ write_back(w).log = emit_entry(w.log, own)
    BY <1>2, <1>4
  <2> QED
    BY <2>1
<1> QED
  BY <1>1, <1>3, <1>4

-----------------------------------------------------------------------------
\* What each action does to the graph

\* The graph is well-formed, and ids are fresh.
GraphPart ==
    /\ next_entity_id \in Creature + 1 .. LastEntity + 1
    /\ GraphOK(graph, next_entity_id)

\* Two graphs that differ in the input of e, which the second has as v, and in the
\* creature's capability at most.
InputWritten(g, h, e, v) ==
    /\ h.entities = g.entities /\ h.relations = g.relations
    /\ getProperty(h, e, Input) = v
    /\ \A f : f # e => getProperty(h, f, Input) = getProperty(g, f, Input)

\* Ids are numbers, and entities have them.
LEMMA IdTypes ==
  ASSUME GraphPart
  PROVE  /\ next_entity_id \in Nat /\ Creature < next_entity_id
         /\ next_entity_id <= LastEntity + 1
         /\ Creature \in Nat \ {0} /\ LastEntity \in Nat
         /\ graph.entities \subseteq Ids
  BY WorldAssumption DEF GraphPart, GraphOK, Ids

\* A well-formed graph stays so when further ids are given out.
LEMMA GraphOKMonotone ==
  ASSUME NEW n \in Nat, NEW m \in Nat, n <= m, NEW g, GraphOK(g, n)
  PROVE  GraphOK(g, m)
<1>1. g.entities \subseteq Creature .. m - 1
  BY WorldAssumption DEF GraphOK
<1> QED
  BY <1>1 DEF GraphOK

\* An input written and published: the store has brought the capability up to date if
\* the entity is of the body, and nothing else has changed.
LEMMA PublishedWrite ==
  ASSUME NEW next \in Nat, next <= LastEntity + 1, NEW g, GraphOK(g, next),
         NEW h, GraphOK(h, next), NEW e, NEW v, InputWritten(g, h, e, v),
         \A f : getProperty(h, f, Capability) = getProperty(g, f, Capability),
         NEW w, w.graph = h, NEW event, event.entity = e, event.key = Input,
         NEW r, r = emit(w, event).graph
  PROVE  /\ GraphOK(r, next)
         /\ InputWritten(g, r, e, v)
         /\ \A f : f # Creature => getProperty(r, f, Capability) = getProperty(g, f, Capability)
         /\ tracked /\ e \in Body(g) => Current(r)
         /\ Current(g) /\ e \notin Body(g) => Current(r)
<1>1. Input # Capability
  BY WorldAssumption
<1>2. /\ GraphOK(r, next)
      /\ SameButCapability(h, r)
      /\ Current(h) => Current(r)
      /\ tracked /\ e \in Body(h) => Current(r)
  BY <1>1, EmitGraph
<1>3. Body(h) = Body(g)
  BY DEF Body, getRelated, InputWritten
<1>4. ASSUME Current(g), e \notin Body(g)
      PROVE  Current(h)
  <2>1. \A f \in Body(g) : getProperty(h, f, Input) = getProperty(g, f, Input)
    BY <1>4 DEF InputWritten
  <2>2. compute_from_kg(h) = compute_from_kg(g)
    BY <2>1, ComputeSame DEF InputWritten
  <2> QED
    BY <1>4, <2>2 DEF Current
<1> QED
  BY <1>1, <1>2, <1>3, <1>4 DEF SameButCapability, InputWritten

\* What set_property does,
LEMMA SetPropertyEffect ==
  ASSUME GraphPart, NEW e \in Ids, NEW v \in Values, set_property(e, v)
  PROVE  LET h == setProperty(graph, e, Input, v)
             event == [entity |-> e, key |-> Input, value |-> v,
                       prev |-> getProperty(graph, e, Input)]
         IN  /\ GraphOK(h, next_entity_id) /\ InputWritten(graph, h, e, v)
             /\ \A f : getProperty(h, f, Capability) = getProperty(graph, f, Capability)
             /\ graph' = emit(World(h), event).graph
             /\ log' = emit(World(h), event).log
             /\ e \in graph.entities
<1> DEFINE h == setProperty(graph, e, Input, v)
<1>1. e \in graph.entities /\ Input \in Keys /\ Fits(Input, v) /\ GraphOK(graph, next_entity_id)
  BY DEF set_property, exists, Keys, Fits, GraphPart
<1>2. /\ GraphOK(h, next_entity_id)
      /\ h.entities = graph.entities /\ h.relations = graph.relations
      /\ getProperty(h, e, Input) = v
      /\ \A f, l : f # e \/ l # Input => getProperty(h, f, l) = getProperty(graph, f, l)
  BY <1>1, SetProperty
<1>3. Input # Capability
  BY WorldAssumption
<1>4. /\ GraphOK(h, next_entity_id) /\ InputWritten(graph, h, e, v)
      /\ \A f : getProperty(h, f, Capability) = getProperty(graph, f, Capability)
  <2> HIDE DEF h
  <2> QED
    BY <1>2, <1>3 DEF InputWritten
<1> QED
  BY <1>1, <1>4 DEF set_property, Becomes

\* remove_property,
LEMMA RemovePropertyEffect ==
  ASSUME GraphPart, NEW e \in Ids, remove_property(e)
  PROVE  LET h == removeProperty(graph, e, Input)
             event == [entity |-> e, key |-> Input, value |-> NoValue,
                       prev |-> getProperty(graph, e, Input)]
         IN  /\ GraphOK(h, next_entity_id) /\ InputWritten(graph, h, e, NoValue)
             /\ \A f : getProperty(h, f, Capability) = getProperty(graph, f, Capability)
             /\ graph' = emit(World(h), event).graph
             /\ log' = emit(World(h), event).log
             /\ e \in graph.entities
<1> DEFINE h == removeProperty(graph, e, Input)
<1>1. GraphOK(graph, next_entity_id)
  BY DEF GraphPart
<1>2. e \in graph.entities
  BY <1>1, HasProperty DEF remove_property
<1>3. /\ GraphOK(h, next_entity_id)
      /\ h.entities = graph.entities /\ h.relations = graph.relations
      /\ getProperty(h, e, Input) = NoValue
      /\ \A f, l : f # e \/ l # Input => getProperty(h, f, l) = getProperty(graph, f, l)
  BY <1>1, RemoveProperty
<1>4. Input # Capability
  BY WorldAssumption
<1>5. /\ GraphOK(h, next_entity_id) /\ InputWritten(graph, h, e, NoValue)
      /\ \A f : getProperty(h, f, Capability) = getProperty(graph, f, Capability)
  <2> HIDE DEF h
  <2> QED
    BY <1>3, <1>4 DEF InputWritten
<1> QED
  BY <1>2, <1>5 DEF remove_property, Becomes

\* create_entity,
LEMMA CreateEffect ==
  ASSUME GraphPart, create_entity
  PROVE  /\ GraphOK(graph', next_entity_id + 1) /\ next_entity_id' = next_entity_id + 1
         /\ next_entity_id + 1 \in Creature + 1 .. LastEntity + 1
         /\ graph'.entities = graph.entities \cup {next_entity_id}
         /\ graph'.relations = graph.relations
         /\ next_entity_id \notin graph.entities
         /\ \A f, l : getProperty(graph', f, l) = getProperty(graph, f, l)
<1>1. next_entity_id \in Nat /\ Creature < next_entity_id /\ GraphOK(graph, next_entity_id)
  BY IdTypes DEF GraphPart
<1>2. next_entity_id + 1 \in Creature + 1 .. LastEntity + 1
  BY IdTypes DEF create_entity, MayCreate
<1> QED
  BY <1>1, <1>2, CreateEntity DEF create_entity

\* destroy_entity,
LEMMA DestroyEffect ==
  ASSUME GraphPart, NEW e \in Ids, destroy_entity(e)
  PROVE  /\ GraphOK(graph', next_entity_id)
         /\ graph'.entities = graph.entities \ {e}
         /\ graph'.relations = Without(graph.relations, e)
         /\ \A f, l : f # e => getProperty(graph', f, l) = getProperty(graph, f, l)
<1>1. GraphOK(graph, next_entity_id) /\ e # Creature
  BY DEF GraphPart, destroy_entity
<1> QED
  BY <1>1, DestroyEntity DEF destroy_entity

\* create_relation
LEMMA CreateRelationEffect ==
  ASSUME GraphPart, NEW from, NEW to, MayRelate(from, to),
         graph' = createRelation(graph, from, to)
  PROVE  /\ GraphOK(graph', next_entity_id)
         /\ graph'.entities = graph.entities
         /\ graph'.relations = Append(graph.relations, <<from, to>>)
         /\ from \in graph.entities /\ to \in graph.entities
         /\ \A f, l : getProperty(graph', f, l) = getProperty(graph, f, l)
<1>1. /\ from \in graph.entities /\ to \in graph.entities
      /\ incoming_relations(graph, to) = {} /\ GraphOK(graph, next_entity_id)
  BY DEF MayRelate, exists, GraphPart
<1> QED
  BY <1>1, CreateRelation

\* and destroy_relation.
LEMMA DestroyRelationEffect ==
  ASSUME GraphPart, NEW from, NEW to, destroy_relation(from, to)
  PROVE  /\ GraphOK(graph', next_entity_id)
         /\ graph'.entities = graph.entities
         /\ graph'.relations = RemoveFirst(graph.relations, <<from, to>>)
         /\ \A f, l : getProperty(graph', f, l) = getProperty(graph, f, l)
<1>1. GraphOK(graph, next_entity_id) /\ findRelation(graph, from, to) # {}
  BY DEF GraphPart, destroy_relation
<1>2. PICK i \in findRelation(graph, from, to) : TRUE
  BY <1>1
<1> DEFINE h == destroyRelation(graph, from, to)
<1>3. \A j \in findRelation(graph, from, to) :
          /\ GraphOK(h, next_entity_id)
          /\ h.entities = graph.entities
          /\ findRelation(graph, from, to) = {j}
          /\ h.relations = RemoveAt(graph.relations, j)
          /\ \A f, l : getProperty(h, f, l) = getProperty(graph, f, l)
  <2>1. h = destroyRelation(graph, from, to)
    OBVIOUS
  <2> HIDE DEF h
  <2> QED
    BY <1>1, <2>1, DestroyRelation
<1> HIDE DEF h
<1>4. RemoveFirst(graph.relations, <<from, to>>) = RemoveAt(graph.relations, i)
  <2>1. findRelation(graph, from, to) = {i}
    BY <1>2, <1>3
  <2>2. i \in DOMAIN graph.relations /\ graph.relations[i] = <<from, to>>
    BY <1>2 DEF findRelation
  <2>3. \A j \in DOMAIN graph.relations : graph.relations[j] = <<from, to>> => j = i
    BY <2>1 DEF findRelation
  <2>4. DOMAIN graph.relations = 1 .. Len(graph.relations) /\ Len(graph.relations) \in Nat
    BY <1>1 DEF GraphOK
  <2> DEFINE s == graph.relations
             x == <<from, to>>
             I == {j \in 1 .. Len(s) : s[j] = x}
  <2>5. \E j \in 1 .. Len(s) : s[j] = x
    BY <2>2, <2>4
  <2>6. I = {i}
    BY <2>2, <2>3, <2>4
  <2>7. Min({i}) = i
    BY <2>2, <2>4 DEF Min
  <2>8. RemoveFirst(s, x) = RemoveAt(s, IF I # {} THEN Min(I) ELSE 0)
    BY <2>5 DEF RemoveFirst, SelectInSeq
  <2> QED
    BY <2>6, <2>7, <2>8
<1>5. graph' = h
  BY DEF destroy_relation, h
<1> QED
  BY <1>2, <1>3, <1>4, <1>5

-----------------------------------------------------------------------------
\* The inductive invariant: shapes, and the way back to where the batch began

\* What a batch buffers,
PropertyEvents(next) ==
    [entity : Creature .. next - 1, key : {Input}, value : Values \cup {NoValue},
     prev : Values \cup {NoValue}]

RelationEvents(next) == [from : Creature .. next - 1, to : Creature .. next - 1]

\* and what it remembers to undo.
UndoActions ==
    [kind : {"created"}, id : Ids] \cup [kind : {"relation"}, from : Ids, to : Ids]
    \cup [kind : {"property"}, id : Ids, existed : BOOLEAN, value : Values \cup {NoValue}]

\* t goes from g through the graphs before each operation in u to h: undoing an operation
\* gives the graph before it.
Trail(t, g, u, h, next) ==
    /\ t[0] = g /\ t[Len(u)] = h
    /\ \A i \in 0 .. Len(u) : GraphOK(t[i], next)
    /\ \A i \in 1 .. Len(u) : Undone(t[i], u[i]) = t[i - 1]

\* The journal is well-formed, and its reader is not ahead of it.
LogPart ==
    /\ LogOK(log)
    /\ reader = [next_seq |-> reader.next_seq, dropped |-> reader.dropped]
    /\ reader.next_seq \in Nat /\ reader.dropped \in Nat
    /\ reader.next_seq <= log.next_seq

\* The flags are flags.
FlagPart == tracked \in BOOLEAN /\ unheard \in BOOLEAN

\* Only a batch under way has something to undo, or something to publish.
BatchPart ==
    /\ phase \in {"idle", "applying", "undoing", "publishing"}
    /\ undo \in Seq(UndoActions)
    /\ buffered \in Seq(PropertyEvents(next_entity_id) \cup RelationEvents(next_entity_id))
    /\ phase \in {"idle", "publishing"} => undo = <<>>
    /\ phase = "idle" => buffered = <<>>

\* The undo list of a batch leads back to the graph it found, and nothing is journalled
\* meanwhile.
TrailPart ==
    phase \in {"applying", "undoing"} =>
        /\ before.seq = log.next_seq
        /\ \E t : Trail(t, before.graph, undo, graph, next_entity_id)

\* The first inductive invariant.
TypeInv == GraphPart /\ LogPart /\ FlagPart /\ BatchPart /\ TrailPart

\* An operation whose undo gives the graph before it makes the trail longer by one;
LEMMA TrailGrows ==
  ASSUME NEW n \in Nat, NEW m \in Nat, n <= m, NEW t, NEW g, NEW u \in Seq(UndoActions), NEW h,
         Trail(t, g, u, h, n), NEW a \in UndoActions, NEW r, GraphOK(r, m), Undone(r, a) = h
  PROVE  \E s : Trail(s, g, Append(u, a), r, m)
<1> DEFINE v == Append(u, a)
           s == [i \in 0 .. Len(u) + 1 |-> IF i = Len(u) + 1 THEN r ELSE t[i]]
<1>1. /\ Len(u) \in Nat /\ Len(v) = Len(u) + 1
      /\ \A i \in 1 .. Len(u) : v[i] = u[i]
      /\ v[Len(u) + 1] = a
  BY AppendProperties
<1>2. s[Len(u) + 1] = r /\ \A i \in 0 .. Len(u) : s[i] = t[i]
  BY <1>1
<1> HIDE DEF v, s
<1>3. s[0] = g /\ s[Len(v)] = r
  BY <1>1, <1>2 DEF Trail
<1>4. \A i \in 0 .. Len(v) : GraphOK(s[i], m)
  <2>1. \A i \in 0 .. Len(u) : GraphOK(t[i], m)
    BY GraphOKMonotone DEF Trail
  <2> QED
    BY <1>1, <1>2, <2>1
<1>5. \A i \in 1 .. Len(v) : Undone(s[i], v[i]) = s[i - 1]
  <2> TAKE i \in 1 .. Len(v)
  <2>1. CASE i \in 1 .. Len(u)
    BY <1>1, <1>2, <2>1 DEF Trail
  <2>2. CASE i = Len(u) + 1
    <3>1. s[i] = r /\ v[i] = a /\ s[i - 1] = t[Len(u)]
      BY <1>1, <1>2, <2>2
    <3> QED
      BY <3>1 DEF Trail
  <2> QED
    BY <1>1, <2>1, <2>2
<1>6. Trail(s, g, v, r, m)
  BY <1>3, <1>4, <1>5 DEF Trail
<1> QED
  BY <1>6 DEF v

\* undoing it makes the trail shorter again.
LEMMA TrailShrinks ==
  ASSUME NEW n, NEW t, NEW g, NEW u \in Seq(UndoActions), u # <<>>, NEW h, Trail(t, g, u, h, n)
  PROVE  /\ Trail(t, g, Front(u), Undone(h, Last(u)), n)
         /\ GraphOK(Undone(h, Last(u)), n)
         /\ Front(u) \in Seq(UndoActions)
<1>1. /\ Front(u) \in Seq(UndoActions) /\ Len(Front(u)) = Len(u) - 1 /\ Len(u) \in Nat \ {0}
      /\ \A i \in 1 .. Len(u) - 1 : Front(u)[i] = u[i]
      /\ Last(u) = u[Len(u)]
  <2>1. Len(u) \in Nat \ {0}
    BY EmptySeq
  <2>2. \A i \in 1 .. Len(u) - 1 : u[i] \in UndoActions
    BY <2>1
  <2>3. Front(u) = SubSeq(u, 1, Len(u) - 1) /\ Last(u) = u[Len(u)]
    BY DEF Front, Last
  <2>4. /\ SubSeq(u, 1, Len(u) - 1) \in Seq(UndoActions)
        /\ Len(SubSeq(u, 1, Len(u) - 1)) = IF 1 <= Len(u) - 1 THEN Len(u) - 1 - 1 + 1 ELSE 0
        /\ \A i \in 1 .. Len(u) - 1 - 1 + 1 : SubSeq(u, 1, Len(u) - 1)[i] = u[1 + i - 1]
    BY <2>1, <2>2, SubSeqProperties
  <2> DEFINE r == SubSeq(u, 1, Len(u) - 1)
             n1 == Len(u) - 1
  <2>5. /\ n1 \in Nat /\ n1 - 1 + 1 = n1
        /\ \A i \in 1 .. n1 : 1 + i - 1 = i
    BY <2>1
  <2> HIDE DEF r, n1
  <2>6. /\ r \in Seq(UndoActions) /\ Len(r) = n1
        /\ \A i \in 1 .. n1 : r[i] = u[i]
    <3>1. /\ r \in Seq(UndoActions)
          /\ Len(r) = IF 1 <= n1 THEN n1 - 1 + 1 ELSE 0
          /\ \A i \in 1 .. n1 - 1 + 1 : r[i] = u[1 + i - 1]
      BY <2>4 DEF r, n1
    <3> QED
      BY <2>5, <3>1
  <2> QED
    BY <2>1, <2>3, <2>6 DEF r, n1
<1>2. Undone(h, Last(u)) = t[Len(u) - 1]
  BY <1>1 DEF Trail
<1>3. GraphOK(t[Len(u) - 1], n)
  BY <1>1 DEF Trail
<1>4. Trail(t, g, Front(u), t[Len(u) - 1], n)
  BY <1>1 DEF Trail
<1> QED
  BY <1>1, <1>2, <1>3, <1>4

-----------------------------------------------------------------------------
\* What the steps of a batch do

\* An operation remembers an action that undoes it.
OpEffect(a, h, next) ==
    /\ undo' = Append(undo, a) /\ a \in UndoActions
    /\ graph' = h /\ GraphOK(h, next) /\ Undone(h, a) = graph
    /\ next_entity_id' = next /\ next_entity_id <= next /\ next \in Creature + 1 .. LastEntity + 1

\* So does the creation of an entity, with or without an input,
LEMMA OpCreateEffect ==
  ASSUME GraphPart, NEW v \in Values \cup {NoValue}, op_create(v)
  PROVE  /\ OpEffect([kind |-> "created", id |-> next_entity_id], graph', next_entity_id + 1)
         /\ graph'.entities = graph.entities \cup {next_entity_id}
         /\ graph'.relations = graph.relations
         /\ getProperty(graph, next_entity_id, Input) = NoValue
         /\ getProperty(graph', next_entity_id, Input) = v
         /\ \A f, l : f # next_entity_id \/ l # Input =>
                getProperty(graph', f, l) = getProperty(graph, f, l)
<1> DEFINE h == IF v = NoValue THEN createEntity(graph, next_entity_id)
                ELSE setProperty(createEntity(graph, next_entity_id), next_entity_id, Input, v)
           a == [kind |-> "created", id |-> next_entity_id]
<1>1. next_entity_id \in Nat /\ Creature < next_entity_id /\ GraphOK(graph, next_entity_id)
  BY IdTypes DEF GraphPart
<1>2. /\ GraphOK(h, next_entity_id + 1)
      /\ h.entities = graph.entities \cup {next_entity_id} /\ h.relations = graph.relations
      /\ getProperty(graph, next_entity_id, Input) = NoValue
      /\ getProperty(h, next_entity_id, Input) = v
      /\ \A f, l : f # next_entity_id \/ l # Input =>
             getProperty(h, f, l) = getProperty(graph, f, l)
      /\ destroyEntity(h, next_entity_id) = graph
  BY <1>1, UndoCreate
<1>3. graph' = h /\ undo' = Append(undo, a) /\ next_entity_id' = next_entity_id + 1
  BY DEF op_create
<1> HIDE DEF h
<1>4. Undone(h, a) = destroyEntity(h, next_entity_id)
  BY DEF Undone
<1>5. next_entity_id \in Ids /\ next_entity_id + 1 \in Creature + 1 .. LastEntity + 1
  BY IdTypes DEF op_create, MayCreate, Ids
<1>6. a \in UndoActions
  BY <1>5 DEF UndoActions
<1> QED
  BY <1>1, <1>2, <1>3, <1>4, <1>5, <1>6 DEF OpEffect

\* the write of a property,
LEMMA OpSetPropertyEffect ==
  ASSUME GraphPart, NEW e \in Ids, NEW v \in Values, op_set_property(e, v)
  PROVE  /\ OpEffect(UndoProperty(e), graph', next_entity_id)
         /\ e \in graph.entities
         /\ InputWritten(graph, graph', e, v)
         /\ \A f : getProperty(graph', f, Capability) = getProperty(graph, f, Capability)
<1> DEFINE h == setProperty(graph, e, Input, v)
<1>1. e \in graph.entities /\ Input \in Keys /\ Fits(Input, v) /\ GraphOK(graph, next_entity_id)
  BY DEF op_set_property, exists, Keys, Fits, GraphPart
<1>2. /\ GraphOK(h, next_entity_id)
      /\ h.entities = graph.entities /\ h.relations = graph.relations
      /\ getProperty(h, e, Input) = v
      /\ \A f, l : f # e \/ l # Input => getProperty(h, f, l) = getProperty(graph, f, l)
  BY <1>1, SetProperty
<1>3. IF hasProperty(graph, e, Input)
      THEN setProperty(h, e, Input, getProperty(graph, e, Input)) = graph
      ELSE removeProperty(h, e, Input) = graph
  BY <1>1, UndoSetProperty
<1>4. graph' = h /\ undo' = Append(undo, UndoProperty(e)) /\ next_entity_id' = next_entity_id
  BY DEF op_set_property
<1>5. Input # Capability
  BY WorldAssumption
<1> DEFINE p == hasProperty(graph, e, Input)
           old == getProperty(graph, e, Input)
           a == [kind |-> "property", id |-> e, existed |-> p, value |-> old]
<1>6. UndoProperty(e) = a
  BY DEF UndoProperty
<1>7. p \in BOOLEAN /\ old \in Values \cup {NoValue}
  <2>1. p \in BOOLEAN
    BY DEF hasProperty
  <2>2. old \in Values \cup {NoValue}
    <3>1. CASE p
      BY <1>1, <1>5, <3>1, HasProperty DEF Fits
    <3>2. CASE ~p
      BY <3>2 DEF getProperty
    <3> QED
      BY <3>1, <3>2
  <2> QED
    BY <2>1, <2>2
<1> HIDE DEF h, p, old
<1>8. a \in UndoActions
  BY <1>7 DEF UndoActions
<1>9. Undone(h, a) = graph
  <2>1. CASE p = TRUE
    <3>1. Undone(h, a) = setProperty(h, e, Input, old)
      BY <2>1 DEF Undone
    <3> QED
      BY <1>3, <2>1, <3>1 DEF p, old
  <2>2. CASE p = FALSE
    <3>1. Undone(h, a) = removeProperty(h, e, Input)
      BY <2>2 DEF Undone
    <3> QED
      BY <1>3, <2>2, <3>1 DEF p
  <2> QED
    BY <1>7, <2>1, <2>2
<1>10. next_entity_id \in Creature + 1 .. LastEntity + 1 /\ next_entity_id <= next_entity_id
  BY IdTypes DEF GraphPart
<1> QED
  BY <1>1, <1>2, <1>4, <1>5, <1>6, <1>8, <1>9, <1>10 DEF OpEffect, InputWritten

\* and the making of a relation.
LEMMA OpSetRelationEffect ==
  ASSUME GraphPart, NEW from \in Ids, NEW to \in Ids, op_set_relation(from, to)
  PROVE  /\ OpEffect([kind |-> "relation", from |-> from, to |-> to], graph', next_entity_id)
         /\ from \in graph.entities /\ to \in graph.entities
         /\ graph'.entities = graph.entities
         /\ graph'.relations = Append(graph.relations, <<from, to>>)
         /\ \A f, l : getProperty(graph', f, l) = getProperty(graph, f, l)
<1> DEFINE h == createRelation(graph, from, to)
           a == [kind |-> "relation", from |-> from, to |-> to]
<1>1. /\ GraphOK(graph', next_entity_id)
      /\ graph'.entities = graph.entities
      /\ graph'.relations = Append(graph.relations, <<from, to>>)
      /\ from \in graph.entities /\ to \in graph.entities
      /\ \A f, l : getProperty(graph', f, l) = getProperty(graph, f, l)
  BY CreateRelationEffect DEF op_set_relation
<1>2. incoming_relations(graph, to) = {} /\ GraphOK(graph, next_entity_id)
  BY DEF op_set_relation, MayRelate, GraphPart
<1>3. graph' = h /\ undo' = Append(undo, a) /\ next_entity_id' = next_entity_id
  BY DEF op_set_relation
<1>4. destroyRelation(h, from, to) = graph
  BY <1>1, <1>2, UndoCreateRelation
<1> HIDE DEF h
<1>5. Undone(h, a) = destroyRelation(h, from, to)
  BY DEF Undone
<1>6. a \in UndoActions
  BY DEF UndoActions
<1>7. next_entity_id \in Creature + 1 .. LastEntity + 1 /\ next_entity_id <= next_entity_id
  BY IdTypes DEF GraphPart
<1> QED
  BY <1>1, <1>3, <1>4, <1>5, <1>6, <1>7 DEF OpEffect

\* A published write of the batch changes the capability at most.
LEMMA PublishEffect ==
  ASSUME GraphPart, BatchPart, publish_property
  PROVE  /\ Head(buffered) \in PropertyEvents(next_entity_id)
         /\ GraphOK(graph', next_entity_id)
         /\ SameButCapability(graph, graph')
         /\ Current(graph) => Current(graph')
         /\ tracked /\ Head(buffered).entity \in Body(graph) => Current(graph')
         /\ graph' = emit(World(graph), Head(buffered)).graph
         /\ log' = emit(World(graph), Head(buffered)).log
<1>1. Head(buffered) \in PropertyEvents(next_entity_id) \cup RelationEvents(next_entity_id)
  BY DEF publish_property, BatchPart
<1>2. ASSUME Head(buffered) \in RelationEvents(next_entity_id)
      PROVE  FALSE
  BY <1>2 DEF publish_property, IsRelation, RelationEvents
<1>3. Head(buffered) \in PropertyEvents(next_entity_id)
  BY <1>1, <1>2
<1>4. Head(buffered).key # Capability
  BY <1>3, WorldAssumption DEF PropertyEvents
<1>5. World(graph).graph = graph
  BY DEF World
<1>6. /\ graph' = emit(World(graph), Head(buffered)).graph
      /\ log' = emit(World(graph), Head(buffered)).log
  BY DEF publish_property, Becomes
<1>7. next_entity_id \in Nat /\ next_entity_id <= LastEntity + 1 /\ GraphOK(graph, next_entity_id)
  BY IdTypes DEF GraphPart
<1> QED
  BY <1>3, <1>4, <1>5, <1>6, <1>7, EmitGraph

\* Tracking makes the capability current.
LEMMA TrackEffect ==
  ASSUME GraphPart, track
  PROVE  /\ GraphOK(graph', next_entity_id)
         /\ SameButCapability(graph, graph')
         /\ Current(graph')
<1>1. graph' = write_back(World(graph)).graph /\ World(graph).graph = graph
  BY DEF track, Becomes, World
<1>2. next_entity_id \in Nat /\ next_entity_id <= LastEntity + 1 /\ GraphOK(graph, next_entity_id)
  BY IdTypes DEF GraphPart
<1> QED
  BY <1>1, <1>2, WriteBackGraph

-----------------------------------------------------------------------------
\* TypeInv is inductive

\* It holds at first, and each part of it is kept by every step.
LEMMA InitTypeInv == Init => TypeInv
<1> SUFFICES ASSUME Init PROVE TypeInv
  OBVIOUS
<1>1. Creature \in Nat \ {0} /\ LastEntity \in Nat /\ Creature <= LastEntity
  BY WorldAssumption
<1> DEFINE g == createEntity(EmptyGraph, Creature)
<1>2. g = [entities |-> {Creature}, properties |-> <<>>, relations |-> <<>>]
  <2>1. g = [EmptyGraph EXCEPT !.entities = @ \cup {Creature}]
    BY DEF createEntity
  <2>2. EmptyGraph = [entities |-> {}, properties |-> <<>>, relations |-> <<>>]
    BY DEF EmptyGraph
  <2>3. g = [entities |-> {} \cup {Creature}, properties |-> <<>>, relations |-> <<>>]
    BY <2>1, <2>2
  <2>4. {} \cup {Creature} = {Creature}
    OBVIOUS
  <2> QED
    BY <2>3, <2>4
<1>3. g.entities = {Creature} /\ g.properties = <<>> /\ g.relations = <<>>
  BY <1>2
<1>4. GraphOK(g, Creature + 1)
  <2>1. g = [entities |-> g.entities, properties |-> g.properties, relations |-> g.relations]
    BY <1>2, <1>3
  <2>2. g.entities \subseteq Creature .. (Creature + 1) - 1
    BY <1>1, <1>3
  <2>3. DOMAIN g.properties = {} /\ g.properties = [slot \in DOMAIN g.properties |-> g.properties[slot]]
    BY <1>3
  <2>4. g.relations \in Seq(g.entities \X g.entities) /\ OneOwner(g.relations, Len(g.relations))
    BY <1>3 DEF OneOwner
  <2> HIDE DEF g
  <2>5. \A e, k : ~hasProperty(g, e, k)
    BY <2>3 DEF hasProperty
  <2> QED
    BY <1>3, <2>1, <2>2, <2>3, <2>4, <2>5 DEF GraphOK
<1>5. GraphPart
  BY <1>1, <1>4 DEF GraphPart, Init
<1>6. LogPart
  <2>1. PICK c \in Capacities : log = EmptyLog(c)
    BY DEF Init
  <2>2. c \in Nat \ {0}
    BY <2>1, WorldAssumption
  <2>3. /\ log.capacity = c /\ log.write = 0 /\ log.size = 0 /\ log.next_seq = 0
        /\ log.ring = [i \in 0 .. c - 1 |-> NoEvent]
    BY <2>1 DEF EmptyLog
  <2>4. log.ring = [i \in 0 .. log.capacity - 1 |-> log.ring[i]]
    BY <2>3
  <2>5. log = [ring |-> log.ring, capacity |-> log.capacity, write |-> log.write,
               size |-> log.size, next_seq |-> log.next_seq]
    BY <2>1 DEF EmptyLog
  <2>6. LogOK(log)
    BY <2>2, <2>3, <2>4, <2>5 DEF LogOK
  <2>7. reader = [next_seq |-> log.next_seq, dropped |-> 0]
    BY DEF Init, create_reader
  <2> QED
    BY <2>3, <2>6, <2>7 DEF LogPart
<1>7. FlagPart /\ TrailPart
  BY DEF Init, FlagPart, TrailPart
<1>8. BatchPart
  <2>1. phase = "idle" /\ undo = <<>> /\ buffered = <<>>
    BY DEF Init
  <2> QED
    BY <2>1 DEF BatchPart
<1> QED
  BY <1>5, <1>6, <1>7, <1>8 DEF TypeInv

\* The graph stays well-formed.
LEMMA GraphPartKept == TypeInv /\ [Next]_vars => GraphPart'
<1> SUFFICES ASSUME TypeInv, [Next]_vars PROVE GraphPart'
  OBVIOUS
<1>1. GraphPart /\ BatchPart /\ GraphOK(graph, next_entity_id)
  BY DEF TypeInv, GraphPart
<1>2. CASE UNCHANGED <<graph, next_entity_id>>
  BY <1>1, <1>2 DEF GraphPart
<1>3. ASSUME UNCHANGED next_entity_id, GraphOK(graph', next_entity_id)
      PROVE  GraphPart'
  BY <1>1, <1>3 DEF GraphPart
<1>4. ASSUME NEW e \in Ids, NEW v \in Values, set_property(e, v)
      PROVE  GraphPart'
  <2> DEFINE h == setProperty(graph, e, Input, v)
             event == [entity |-> e, key |-> Input, value |-> v,
                       prev |-> getProperty(graph, e, Input)]
  <2>1. /\ GraphOK(h, next_entity_id) /\ InputWritten(graph, h, e, v)
        /\ \A f : getProperty(h, f, Capability) = getProperty(graph, f, Capability)
        /\ graph' = emit(World(h), event).graph
    BY <1>1, <1>4, SetPropertyEffect
  <2>2. World(h).graph = h /\ event.entity = e /\ event.key = Input
    BY DEF World
  <2> HIDE DEF h, event
  <2>3. GraphOK(graph', next_entity_id)
    BY <1>1, <2>1, <2>2, IdTypes, PublishedWrite
  <2> QED
    BY <1>3, <1>4, <2>3 DEF set_property
<1>5. ASSUME NEW e \in Ids, remove_property(e)
      PROVE  GraphPart'
  <2> DEFINE h == removeProperty(graph, e, Input)
             event == [entity |-> e, key |-> Input, value |-> NoValue,
                       prev |-> getProperty(graph, e, Input)]
  <2>1. /\ GraphOK(h, next_entity_id) /\ InputWritten(graph, h, e, NoValue)
        /\ \A f : getProperty(h, f, Capability) = getProperty(graph, f, Capability)
        /\ graph' = emit(World(h), event).graph
    BY <1>1, <1>5, RemovePropertyEffect
  <2>2. World(h).graph = h /\ event.entity = e /\ event.key = Input
    BY DEF World
  <2> HIDE DEF h, event
  <2>3. GraphOK(graph', next_entity_id)
    BY <1>1, <2>1, <2>2, IdTypes, PublishedWrite
  <2> QED
    BY <1>3, <1>5, <2>3 DEF remove_property
<1>6. CASE create_entity
  BY <1>1, <1>6, CreateEffect DEF GraphPart
<1>7. ASSUME NEW e \in Ids, destroy_entity(e)
      PROVE  GraphPart'
  BY <1>1, <1>3, <1>7, DestroyEffect DEF destroy_entity
<1>8. ASSUME NEW e \in Ids, NEW f \in Ids, create_relation(e, f)
      PROVE  GraphPart'
  BY <1>1, <1>3, <1>8, CreateRelationEffect DEF create_relation
<1>9. ASSUME NEW e \in Ids, NEW f \in Ids, destroy_relation(e, f)
      PROVE  GraphPart'
  BY <1>1, <1>3, <1>9, DestroyRelationEffect DEF destroy_relation
<1>10. CASE track
  BY <1>1, <1>3, <1>10, TrackEffect DEF track
<1>11. ASSUME NEW v \in Values \cup {NoValue}, op_create(v)
       PROVE  GraphPart'
  BY <1>1, <1>11, OpCreateEffect DEF OpEffect, GraphPart
<1>12. ASSUME NEW e \in Ids, NEW v \in Values, op_set_property(e, v)
       PROVE  GraphPart'
  BY <1>1, <1>12, OpSetPropertyEffect DEF OpEffect, GraphPart
<1>13. ASSUME NEW e \in Ids, NEW f \in Ids, op_set_relation(e, f)
       PROVE  GraphPart'
  BY <1>1, <1>13, OpSetRelationEffect DEF OpEffect, GraphPart
<1>14. CASE undo_one
  <2>1. PICK t : Trail(t, before.graph, undo, graph, next_entity_id)
    BY <1>14 DEF TypeInv, TrailPart, undo_one
  <2>2. undo \in Seq(UndoActions) /\ undo # <<>>
    BY <1>1, <1>14 DEF BatchPart, undo_one
  <2>3. GraphOK(Undone(graph, Last(undo)), next_entity_id)
    BY <2>1, <2>2, TrailShrinks
  <2> QED
    BY <1>3, <1>14, <2>3 DEF undo_one
<1>15. CASE publish_property
  BY <1>1, <1>3, <1>15, PublishEffect DEF publish_property
<1>16. CASE UNCHANGED vars \/ untrack \/ begin_batch \/ batch_fails \/ undo_done \/ batch_succeeds
            \/ publish_relation \/ publish_done \/ read \/ \E n \in Capacities : resize(n)
  BY <1>2, <1>16 DEF vars, untrack, begin_batch, batch_fails, undo_done, batch_succeeds,
                     publish_relation, publish_done, read, resize
<1> QED
  BY <1>4, <1>5, <1>6, <1>7, <1>8, <1>9, <1>10, <1>11, <1>12, <1>13, <1>14, <1>15, <1>16
  DEF Next, DirectCall, BatchStep

\* What a reader reads: the journal holds an event it has not read, or none.
LEMMA ReadEffect ==
  ASSUME LogPart, read
  PROVE  /\ sync(reader, log).next_seq < log.next_seq
         /\ sync(reader, log).next_seq \in Nat /\ sync(reader, log).dropped \in Nat
         /\ reader' = [next_seq |-> sync(reader, log).next_seq + 1,
                       dropped |-> sync(reader, log).dropped]
<1> DEFINE s == sync(reader, log)
<1>1. /\ log.next_seq \in Nat /\ log.size \in Nat /\ log.size <= log.next_seq
      /\ reader.next_seq \in Nat /\ reader.dropped \in Nat /\ reader.next_seq <= log.next_seq
      /\ oldest_seq(log) = log.next_seq - log.size
  BY DEF LogPart, LogOK, oldest_seq
<1>2. /\ s.next_seq \in Nat /\ s.dropped \in Nat /\ s.next_seq <= log.next_seq
      /\ s = [next_seq |-> s.next_seq, dropped |-> s.dropped]
  <2>1. CASE reader.next_seq < oldest_seq(log)
    <3>1. s = [next_seq |-> oldest_seq(log),
               dropped |-> reader.dropped + oldest_seq(log) - reader.next_seq]
      BY <2>1 DEF sync
    <3> HIDE DEF s
    <3>2. /\ s.next_seq = oldest_seq(log)
          /\ s.dropped = reader.dropped + oldest_seq(log) - reader.next_seq
      BY <3>1
    <3>3. reader.dropped + oldest_seq(log) - reader.next_seq \in Nat
      BY <1>1, <2>1
    <3> QED
      BY <1>1, <3>1, <3>2, <3>3
  <2>2. CASE ~(reader.next_seq < oldest_seq(log))
    <3>1. s = reader
      BY <2>2 DEF sync
    <3> QED
      BY <1>1, <3>1 DEF LogPart
  <2> QED
    BY <2>1, <2>2
<1>3. reader' = [s EXCEPT !.next_seq = @ + 1] /\ unread(s, log) # <<>>
  BY DEF read
<1> HIDE DEF s
<1>4. s.next_seq < log.next_seq
  <2> SUFFICES ASSUME ~(s.next_seq < log.next_seq) PROVE FALSE
    OBVIOUS
  <2>1. 1 .. log.next_seq - s.next_seq = 1 .. 0
    BY <1>1, <1>2
  <2>2. unread(s, log) = [i \in 1 .. 0 |-> at_seq(log, s.next_seq + i - 1)]
    BY <2>1 DEF unread
  <2>3. unread(s, log) \in Seq({}) /\ Len(unread(s, log)) = 0
    BY <2>2
  <2> QED
    BY <1>3, <2>3, EmptySeq
<1>5. reader' = [next_seq |-> s.next_seq + 1, dropped |-> s.dropped]
  BY <1>2, <1>3
<1> QED
  BY <1>2, <1>4, <1>5 DEF s

\* So does the journal, and the reader stays behind its end.
LEMMA LogPartKept == TypeInv /\ [Next]_vars => LogPart'
<1> SUFFICES ASSUME TypeInv, [Next]_vars PROVE LogPart'
  OBVIOUS
<1>1. GraphPart /\ BatchPart /\ LogPart /\ LogOK(log) /\ log.next_seq \in Nat
  BY DEF TypeInv, LogPart, LogOK
<1>2. CASE UNCHANGED <<log, reader>>
  BY <1>1, <1>2 DEF LogPart
<1>3. ASSUME UNCHANGED reader, LogOK(log'), log.next_seq <= log'.next_seq
      PROVE  LogPart'
  BY <1>1, <1>3 DEF LogPart, LogOK
<1>4. ASSUME UNCHANGED reader, NEW w, NEW event, w.log = log, log' = emit(w, event).log
      PROVE  LogPart'
  BY <1>1, <1>3, <1>4, EmitLogOK
<1>5. ASSUME NEW e \in Ids, NEW v \in Values, set_property(e, v)
      PROVE  LogPart'
  BY <1>4, <1>5 DEF set_property, Becomes, World
<1>6. ASSUME NEW e \in Ids, remove_property(e)
      PROVE  LogPart'
  BY <1>4, <1>6 DEF remove_property, Becomes, World
<1>7. CASE publish_property
  BY <1>4, <1>7 DEF publish_property, Becomes, World
<1>8. CASE track
  <2>1. /\ log' = write_back(World(graph)).log /\ World(graph).log = log
        /\ UNCHANGED reader
    BY <1>8 DEF track, Becomes, World
  <2>2. CASE log' = log
    BY <1>2, <2>1, <2>2
  <2>3. ASSUME NEW own, log' = emit_entry(log, own)
        PROVE  LogPart'
    <3>1. LogOK(log') /\ log'.next_seq = log.next_seq + 1
      BY <1>1, <2>3, EmitEntry
    <3> QED
      BY <1>1, <1>3, <2>1, <3>1
  <2> QED
    BY <2>1, <2>2, <2>3, WriteBackLog
<1>9. CASE read
  <2>1. LogOK(log') /\ log' = log
    BY <1>1, <1>9 DEF read
  <2> QED
    BY <1>1, <1>9, <2>1, ReadEffect DEF LogPart
<1>10. ASSUME NEW n \in Capacities, resize(n)
       PROVE  LogPart'
  <2>1. n \in Nat \ {0} /\ log' = set_capacity(log, n) /\ UNCHANGED reader
    BY <1>10, WorldAssumption DEF resize
  <2>2. LogOK(log') /\ log'.next_seq = log.next_seq
    BY <1>1, <2>1, SetCapacity
  <2> QED
    BY <1>1, <1>3, <2>1, <2>2
<1>11. CASE UNCHANGED <<log, reader>> \/ untrack \/ begin_batch \/ batch_fails \/ undo_done
            \/ batch_succeeds \/ publish_relation \/ publish_done \/ create_entity \/ undo_one
  BY <1>2, <1>11 DEF untrack, begin_batch, batch_fails, undo_done, batch_succeeds, undo_one,
                     publish_relation, publish_done, create_entity
<1>12. ASSUME NEW e \in Ids,
              destroy_entity(e) \/ \E f \in Ids : \/ create_relation(e, f) \/ destroy_relation(e, f)
                                                  \/ op_set_relation(e, f)
       PROVE  LogPart'
  BY <1>2, <1>12 DEF destroy_entity, create_relation, destroy_relation, op_set_relation, Operation
<1>13. ASSUME NEW v, op_create(v) \/ \E e \in Ids : op_set_property(e, v)
       PROVE  LogPart'
  BY <1>2, <1>13 DEF op_create, op_set_property, Operation
<1> QED
  BY <1>5, <1>6, <1>7, <1>8, <1>9, <1>10, <1>11, <1>12, <1>13
  DEF Next, DirectCall, BatchStep, vars

\* Flags stay flags.
LEMMA FlagPartKept == TypeInv /\ [Next]_vars => FlagPart'
<1> SUFFICES ASSUME TypeInv, [Next]_vars PROVE FlagPart'
  OBVIOUS
<1>1. tracked \in BOOLEAN /\ unheard \in BOOLEAN
  BY DEF TypeInv, FlagPart
<1>2. tracked' \in BOOLEAN
  <2>1. tracked' = tracked \/ tracked' = TRUE \/ tracked' = FALSE
    BY DEF Next, vars, batch, DirectCall, BatchStep, set_property, remove_property, create_entity,
           destroy_entity, create_relation, destroy_relation, track, untrack, begin_batch,
           op_create, op_set_property, op_set_relation, Operation, batch_fails, undo_one,
           undo_done, batch_succeeds, publish_property, publish_relation, publish_done, read,
           resize
  <2> QED
    BY <1>1, <2>1
<1>3. unheard' \in BOOLEAN
  <2>1. ASSUME NEW g, NEW e, Heard(g, e)
        PROVE  unheard' \in BOOLEAN
    BY <2>1 DEF Heard
  <2>2. ASSUME NEW g, BodyChanges(g)
        PROVE  unheard' \in BOOLEAN
    BY <2>2 DEF BodyChanges
  <2>3. CASE batch_succeeds
    BY <2>3 DEF batch_succeeds
  <2>4. CASE track
    BY <2>4 DEF track
  <2>5. CASE unheard' = unheard
    BY <1>1, <2>5
  <2>6. ASSUME NEW e \in Ids,
               \/ \E v \in Values : set_property(e, v)
               \/ remove_property(e) \/ destroy_entity(e)
               \/ \E f \in Ids : create_relation(e, f) \/ destroy_relation(e, f)
        PROVE  unheard' \in BOOLEAN
    BY <2>1, <2>2, <2>6 DEF set_property, remove_property, destroy_entity, create_relation,
                            destroy_relation
  <2>7. CASE publish_property
    BY <2>1, <2>7 DEF publish_property
  <2>8. CASE \/ create_entity \/ untrack \/ read \/ UNCHANGED vars
             \/ begin_batch \/ batch_fails \/ undo_one \/ undo_done \/ publish_relation
             \/ publish_done \/ \E n \in Capacities : resize(n)
    BY <2>5, <2>8 DEF create_entity, untrack, read, vars, begin_batch, batch_fails, undo_one,
                      undo_done, publish_relation, publish_done, resize
  <2>9. ASSUME NEW v, NEW e, op_create(v) \/ op_set_property(e, v) \/ op_set_relation(e, v)
        PROVE  unheard' \in BOOLEAN
    BY <2>5, <2>9 DEF op_create, op_set_property, op_set_relation, Operation
  <2> QED
    BY <2>3, <2>4, <2>6, <2>7, <2>8, <2>9 DEF Next, DirectCall, BatchStep
<1> QED
  BY <1>2, <1>3 DEF FlagPart

\* What a batch buffers.
BatchEvents(next) == PropertyEvents(next) \cup RelationEvents(next)

\* Events stay events when further ids are given out.
LEMMA EventsMonotone ==
  ASSUME NEW n \in Nat, NEW m \in Nat, n <= m
  PROVE  /\ BatchEvents(n) \subseteq BatchEvents(m)
         /\ \A s \in Seq(BatchEvents(n)) : s \in Seq(BatchEvents(m))
<1>1. Creature .. n - 1 \subseteq Creature .. m - 1
  BY WorldAssumption
<1>2. PropertyEvents(n) \subseteq PropertyEvents(m)
  BY <1>1 DEF PropertyEvents
<1>3. RelationEvents(n) \subseteq RelationEvents(m)
  BY <1>1 DEF RelationEvents
<1>4. BatchEvents(n) \subseteq BatchEvents(m)
  BY <1>2, <1>3 DEF BatchEvents
<1> QED
  BY <1>4, SeqMonotonic

\* The event of a write, if there is one.
LEMMA BufferEffect ==
  ASSUME NEW n \in Nat, buffered \in Seq(BatchEvents(n)), NEW e \in Creature .. n - 1,
         NEW v \in Values \cup {NoValue}, NEW prev \in Values \cup {NoValue},
         buffer_property_event(e, v, prev)
  PROVE  /\ buffered' \in Seq(BatchEvents(n))
         /\ v = prev => buffered' = buffered
         /\ v # prev => buffered' = Append(buffered, [entity |-> e, key |-> Input, value |-> v,
                                                      prev |-> prev])
<1> DEFINE event == [entity |-> e, key |-> Input, value |-> v, prev |-> prev]
<1>1. event \in BatchEvents(n)
  BY DEF BatchEvents, PropertyEvents
<1>2. /\ v = prev => buffered' = buffered
      /\ v # prev => buffered' = Append(buffered, event)
  BY DEF buffer_property_event
<1> HIDE DEF event
<1>3. Append(buffered, event) \in Seq(BatchEvents(n))
  BY <1>1
<1> QED
  BY <1>2, <1>3 DEF event

\* Inputs are values, or missing.
LEMMA InputTypes ==
  ASSUME GraphPart, NEW e
  PROVE  getProperty(graph, e, Input) \in Values \cup {NoValue}
<1>1. GraphOK(graph, next_entity_id) /\ Input # Capability
  BY WorldAssumption DEF GraphPart
<1>2. CASE hasProperty(graph, e, Input)
  BY <1>1, <1>2, HasProperty DEF Fits
<1>3. CASE ~hasProperty(graph, e, Input)
  BY <1>3 DEF getProperty
<1> QED
  BY <1>2, <1>3

\* What the operations buffer: the new entity's input, if it has one,
LEMMA OpCreateEvents ==
  ASSUME GraphPart, buffered \in Seq(BatchEvents(next_entity_id)),
         NEW v \in Values \cup {NoValue}, op_create(v)
  PROVE  /\ buffered' \in Seq(BatchEvents(next_entity_id'))
         /\ v = NoValue => buffered' = buffered
         /\ v # NoValue => buffered' = Append(buffered, [entity |-> next_entity_id, key |-> Input,
                                                         value |-> v, prev |-> NoValue])
<1>1. /\ next_entity_id' = next_entity_id + 1
      /\ buffer_property_event(next_entity_id, v, NoValue)
  BY DEF op_create
<1>2. next_entity_id \in Nat /\ next_entity_id \in Creature .. (next_entity_id + 1) - 1
  BY IdTypes
<1>3. buffered \in Seq(BatchEvents(next_entity_id + 1))
  BY <1>2, EventsMonotone
<1> QED
  BY <1>1, <1>2, <1>3, BufferEffect

\* a write, unless the value is what it was,
LEMMA OpSetPropertyEvents ==
  ASSUME GraphPart, buffered \in Seq(BatchEvents(next_entity_id)),
         NEW e \in Ids, NEW v \in Values, op_set_property(e, v)
  PROVE  LET prev == getProperty(graph, e, Input)
         IN  /\ buffered' \in Seq(BatchEvents(next_entity_id'))
             /\ v = prev => buffered' = buffered
             /\ v # prev => buffered' = Append(buffered, [entity |-> e, key |-> Input,
                                                          value |-> v, prev |-> prev])
<1> DEFINE prev == getProperty(graph, e, Input)
<1>1. /\ next_entity_id' = next_entity_id
      /\ buffer_property_event(e, v, prev)
      /\ e \in graph.entities
  BY DEF op_set_property, exists
<1>2. next_entity_id \in Nat /\ e \in Creature .. next_entity_id - 1
  BY <1>1, IdTypes DEF GraphPart, GraphOK
<1>3. prev \in Values \cup {NoValue}
  BY InputTypes
<1> HIDE DEF prev
<1>4. /\ buffered' \in Seq(BatchEvents(next_entity_id))
      /\ v = prev => buffered' = buffered
      /\ v # prev => buffered' = Append(buffered, [entity |-> e, key |-> Input,
                                                   value |-> v, prev |-> prev])
  BY <1>1, <1>2, <1>3, BufferEffect
<1> QED
  BY <1>1, <1>4 DEF prev

\* and every relation.
LEMMA OpSetRelationEvents ==
  ASSUME GraphPart, buffered \in Seq(BatchEvents(next_entity_id)),
         NEW from \in Ids, NEW to \in Ids, op_set_relation(from, to)
  PROVE  /\ buffered' \in Seq(BatchEvents(next_entity_id'))
         /\ buffered' = Append(buffered, [from |-> from, to |-> to])
<1>1. /\ next_entity_id' = next_entity_id
      /\ buffered' = Append(buffered, [from |-> from, to |-> to])
      /\ from \in graph.entities /\ to \in graph.entities
  BY DEF op_set_relation, MayRelate, exists, buffer_relation_event
<1>2. from \in Creature .. next_entity_id - 1 /\ to \in Creature .. next_entity_id - 1
  BY <1>1 DEF GraphPart, GraphOK
<1>3. [from |-> from, to |-> to] \in BatchEvents(next_entity_id)
  BY <1>2 DEF BatchEvents, RelationEvents
<1> QED
  BY <1>1, <1>3

\* What is buffered and remembered keeps its shape.
LEMMA BatchPartKept == TypeInv /\ [Next]_vars => BatchPart'
<1> SUFFICES ASSUME TypeInv, [Next]_vars PROVE BatchPart'
  OBVIOUS
<1>1. /\ GraphPart /\ BatchPart
      /\ next_entity_id \in Nat
      /\ undo \in Seq(UndoActions) /\ buffered \in Seq(BatchEvents(next_entity_id))
  BY IdTypes DEF TypeInv, BatchPart, BatchEvents
<1>2. ASSUME phase' \in {"idle", "applying", "undoing", "publishing"},
             undo' \in Seq(UndoActions), buffered' \in Seq(BatchEvents(next_entity_id')),
             phase' \in {"idle", "publishing"} => undo' = <<>>,
             phase' = "idle" => buffered' = <<>>
      PROVE  BatchPart'
  BY <1>2 DEF BatchPart, BatchEvents
<1>3. CASE UNCHANGED <<phase, undo, buffered, next_entity_id>>
  BY <1>1, <1>3 DEF BatchPart
<1>4. ASSUME NEW e \in Ids,
             \/ \E v \in Values : set_property(e, v)
             \/ remove_property(e) \/ destroy_entity(e)
             \/ \E f \in Ids : create_relation(e, f) \/ destroy_relation(e, f)
      PROVE  BatchPart'
  BY <1>3, <1>4 DEF set_property, remove_property, destroy_entity, create_relation,
                    destroy_relation, batch
<1>5. CASE track \/ untrack \/ read \/ UNCHANGED vars \/ \E n \in Capacities : resize(n)
  BY <1>3, <1>5 DEF track, untrack, read, vars, resize, batch
<1>6. CASE create_entity
  <2>1. /\ phase = "idle" /\ UNCHANGED <<phase, undo, buffered>>
    BY <1>6 DEF create_entity, batch
  <2>2. undo' = <<>> /\ buffered' = <<>> /\ phase' = "idle"
    BY <1>1, <2>1 DEF BatchPart
  <2> QED
    BY <1>2, <2>2
<1>7. CASE begin_batch \/ batch_fails \/ undo_done \/ publish_done
  <2>1. /\ phase' \in {"idle", "applying", "undoing"}
        /\ UNCHANGED <<undo, next_entity_id>>
        /\ phase' = "idle" => undo' = <<>> /\ buffered' = <<>>
        /\ buffered' \in {buffered, <<>>}
    <3>1. CASE begin_batch
      BY <1>1, <3>1 DEF begin_batch, BatchPart
    <3>2. CASE batch_fails
      BY <1>1, <3>2 DEF batch_fails, BatchPart
    <3>3. CASE undo_done
      BY <1>1, <3>3 DEF undo_done, BatchPart
    <3>4. CASE publish_done
      BY <1>1, <3>4 DEF publish_done, BatchPart
    <3> QED
      BY <1>7, <3>1, <3>2, <3>3, <3>4
  <2>2. buffered' \in Seq(BatchEvents(next_entity_id'))
    <3>1. <<>> \in Seq(BatchEvents(next_entity_id))
      OBVIOUS
    <3>2. buffered' \in Seq(BatchEvents(next_entity_id))
      BY <1>1, <2>1, <3>1
    <3> QED
      BY <2>1, <3>2
  <2> QED
    BY <1>1, <1>2, <2>1, <2>2
<1>8. CASE batch_succeeds
  <2>1. phase' = "publishing" /\ undo' = <<>> /\ UNCHANGED <<buffered, next_entity_id>>
    BY <1>8 DEF batch_succeeds
  <2> QED
    BY <1>1, <1>2, <2>1
<1>9. CASE undo_one
  <2>1. /\ phase = "undoing" /\ UNCHANGED <<phase, buffered, next_entity_id>>
        /\ undo # <<>> /\ undo' = Front(undo)
    BY <1>9 DEF undo_one
  <2>2. PICK t : Trail(t, before.graph, undo, graph, next_entity_id)
    BY <2>1 DEF TypeInv, TrailPart
  <2>3. undo' \in Seq(UndoActions)
    BY <1>1, <2>1, <2>2, TrailShrinks
  <2> QED
    BY <1>1, <1>2, <2>1, <2>3
<1>10. CASE publish_property \/ publish_relation
  <2>1. /\ phase = "publishing" /\ UNCHANGED <<phase, undo, next_entity_id>>
        /\ buffered # <<>> /\ buffered' = Tail(buffered)
    BY <1>10 DEF publish_property, publish_relation
  <2>2. undo' = <<>> /\ buffered' \in Seq(BatchEvents(next_entity_id'))
    BY <1>1, <2>1 DEF BatchPart
  <2> QED
    BY <1>2, <2>1, <2>2
<1>11. ASSUME NEW a \in UndoActions, phase = "applying", UNCHANGED phase, undo' = Append(undo, a),
              buffered' \in Seq(BatchEvents(next_entity_id'))
       PROVE  BatchPart'
  <2>1. undo' \in Seq(UndoActions)
    BY <1>1, <1>11
  <2> QED
    BY <1>2, <1>11, <2>1
<1>12. ASSUME NEW v \in Values \cup {NoValue}, op_create(v)
       PROVE  BatchPart'
  <2>1. phase = "applying" /\ UNCHANGED phase
    BY <1>12 DEF op_create, Operation
  <2> QED
    BY <1>1, <1>11, <1>12, <2>1, OpCreateEffect, OpCreateEvents DEF OpEffect
<1>13. ASSUME NEW e \in Ids, NEW v \in Values, op_set_property(e, v)
       PROVE  BatchPart'
  <2>1. phase = "applying" /\ UNCHANGED phase
    BY <1>13 DEF op_set_property, Operation
  <2> QED
    BY <1>1, <1>11, <1>13, <2>1, OpSetPropertyEffect, OpSetPropertyEvents DEF OpEffect
<1>14. ASSUME NEW e \in Ids, NEW f \in Ids, op_set_relation(e, f)
       PROVE  BatchPart'
  <2>1. phase = "applying" /\ UNCHANGED phase
    BY <1>14 DEF op_set_relation, Operation
  <2> QED
    BY <1>1, <1>11, <1>14, <2>1, OpSetRelationEffect, OpSetRelationEvents DEF OpEffect
<1> QED
  BY <1>4, <1>5, <1>6, <1>7, <1>8, <1>9, <1>10, <1>12, <1>13, <1>14
  DEF Next, DirectCall, BatchStep

\* The way back stays a way back.
LEMMA TrailPartKept == TypeInv /\ [Next]_vars => TrailPart'
<1> SUFFICES ASSUME TypeInv, [Next]_vars PROVE TrailPart'
  OBVIOUS
<1>1. /\ GraphPart /\ BatchPart /\ TrailPart
      /\ next_entity_id \in Nat /\ undo \in Seq(UndoActions)
      /\ GraphOK(graph, next_entity_id)
  BY IdTypes DEF TypeInv, BatchPart, GraphPart
<1>2. CASE phase' \notin {"applying", "undoing"}
  BY <1>2 DEF TrailPart
<1>3. CASE UNCHANGED <<phase, undo, before, log, graph, next_entity_id>>
  BY <1>1, <1>3 DEF TrailPart
<1>4. CASE begin_batch
  <2>1. /\ phase = "idle" /\ before' = [graph |-> graph, seq |-> log.next_seq]
        /\ UNCHANGED <<graph, next_entity_id, log, undo>>
    BY <1>4 DEF begin_batch
  <2>2. before'.graph = graph /\ before'.seq = log'.next_seq /\ undo' = <<>>
    BY <1>1, <2>1 DEF BatchPart
  <2>3. Trail([i \in {0} |-> graph], graph, <<>>, graph, next_entity_id)
    BY <1>1 DEF Trail
  <2> QED
    BY <2>1, <2>2, <2>3 DEF TrailPart
<1>5. CASE batch_fails
  BY <1>1, <1>5 DEF TrailPart, batch_fails
<1>6. CASE undo_one
  <2>1. /\ phase = "undoing" /\ UNCHANGED <<before, log, next_entity_id>>
        /\ undo # <<>> /\ undo' = Front(undo) /\ graph' = Undone(graph, Last(undo))
    BY <1>6 DEF undo_one
  <2>2. PICK t : Trail(t, before.graph, undo, graph, next_entity_id)
    BY <1>1, <2>1 DEF TrailPart
  <2>3. Trail(t, before.graph, undo', graph', next_entity_id)
    BY <1>1, <2>1, <2>2, TrailShrinks
  <2>4. before.seq = log.next_seq
    BY <1>1, <2>1 DEF TrailPart
  <2> QED
    BY <2>1, <2>3, <2>4 DEF TrailPart
<1>7. ASSUME NEW a, phase = "applying", UNCHANGED <<before, log>>,
             OpEffect(a, graph', next_entity_id')
      PROVE  TrailPart'
  <2>1. PICK t : Trail(t, before.graph, undo, graph, next_entity_id)
    BY <1>1, <1>7 DEF TrailPart
  <2>2. /\ undo' = Append(undo, a) /\ a \in UndoActions
        /\ GraphOK(graph', next_entity_id') /\ Undone(graph', a) = graph
        /\ next_entity_id' \in Nat /\ next_entity_id <= next_entity_id'
    BY <1>7, WorldAssumption DEF OpEffect
  <2> DEFINE h == graph'
             m == next_entity_id'
  <2>3. GraphOK(h, m) /\ Undone(h, a) = graph /\ m \in Nat /\ next_entity_id <= m
    BY <2>2
  <2> HIDE DEF h, m
  <2>4. \E s : Trail(s, before.graph, Append(undo, a), h, m)
    BY <1>1, <2>1, <2>2, <2>3, TrailGrows
  <2>5. before.seq = log.next_seq
    BY <1>1, <1>7 DEF TrailPart
  <2> QED
    BY <1>7, <2>2, <2>4, <2>5 DEF TrailPart, h, m
<1>8. ASSUME NEW v \in Values \cup {NoValue}, op_create(v)
      PROVE  TrailPart'
  <2>1. phase = "applying" /\ UNCHANGED <<before, log>> /\ next_entity_id' = next_entity_id + 1
    BY <1>8 DEF op_create, Operation
  <2> QED
    BY <1>1, <1>7, <1>8, <2>1, OpCreateEffect
<1>9. ASSUME NEW e \in Ids, NEW v \in Values, op_set_property(e, v)
      PROVE  TrailPart'
  <2>1. phase = "applying" /\ UNCHANGED <<before, log>> /\ next_entity_id' = next_entity_id
    BY <1>9 DEF op_set_property, Operation
  <2> QED
    BY <1>1, <1>7, <1>9, <2>1, OpSetPropertyEffect
<1>10. ASSUME NEW e \in Ids, NEW f \in Ids, op_set_relation(e, f)
       PROVE  TrailPart'
  <2>1. phase = "applying" /\ UNCHANGED <<before, log>> /\ next_entity_id' = next_entity_id
    BY <1>10 DEF op_set_relation, Operation
  <2> QED
    BY <1>1, <1>7, <1>10, <2>1, OpSetRelationEffect
<1>11. ASSUME NEW e \in Ids,
              \/ \E v \in Values : set_property(e, v)
              \/ remove_property(e) \/ destroy_entity(e)
              \/ \E f \in Ids : create_relation(e, f) \/ destroy_relation(e, f)
       PROVE  TrailPart'
  BY <1>2, <1>11 DEF set_property, remove_property, destroy_entity, create_relation,
                     destroy_relation, batch
<1>12. CASE create_entity \/ track \/ untrack \/ read \/ (\E n \in Capacities : resize(n))
            \/ undo_done \/ batch_succeeds \/ publish_property \/ publish_relation \/ publish_done
  BY <1>2, <1>12 DEF create_entity, track, untrack, read, resize, batch, undo_done,
                     batch_succeeds, publish_property, publish_relation, publish_done
<1>13. CASE UNCHANGED vars
  BY <1>3, <1>13 DEF vars, batch
<1> QED
  BY <1>4, <1>5, <1>6, <1>8, <1>9, <1>10, <1>11, <1>12, <1>13 DEF Next, DirectCall, BatchStep

\* The parts together are an invariant: the graph is well-formed through single writes,
\* batches and undos, the ring is what it says it is, and the undo list leads back.
THEOREM WorldTypeInv == Spec => []TypeInv
<1>1. TypeInv /\ [Next]_vars => TypeInv'
  BY GraphPartKept, LogPartKept, FlagPartKept, BatchPartKept, TrailPartKept DEF TypeInv
<1> QED
  BY <1>1, InitTypeInv, PTL DEF Spec

\* The state has its shape: relations and properties hang on entities, ids are fresh, the
\* ring holds what it says it holds.
THEOREM WorldTypeOK == Spec => []TypeOK
<1>1. TypeInv => TypeOK
  <2> SUFFICES ASSUME TypeInv PROVE TypeOK
    OBVIOUS
  <2>1. GraphOK(graph, next_entity_id) /\ next_entity_id \in Creature + 1 .. LastEntity + 1
    BY DEF TypeInv, GraphPart
  <2>2. ASSUME NEW slot \in DOMAIN graph.properties
        PROVE  /\ slot \in graph.entities \X {Input, Capability}
               /\ graph.properties[slot] # NoValue
    <3>1. slot \in graph.entities \X Keys
      BY <2>1 DEF GraphOK
    <3>2. PICK e \in graph.entities, k \in Keys : slot = <<e, k>>
      BY <3>1
    <3>3. Fits(k, graph.properties[slot])
      BY <2>1, <3>2 DEF GraphOK, hasProperty
    <3> QED
      BY <3>1, <3>3, FitsIsNoNoValue DEF Keys
  <2>3. graph.entities \subseteq Creature .. next_entity_id - 1
    BY <2>1 DEF GraphOK
  <2>4. \A i \in DOMAIN graph.relations : graph.relations[i] \in graph.entities \X graph.entities
    <3>1. graph.relations \in Seq(graph.entities \X graph.entities)
      BY <2>1 DEF GraphOK
    <3> QED
      BY <3>1
  <2>5. /\ DOMAIN log.ring = 0 .. log.capacity - 1
        /\ log.write \in 0 .. log.capacity - 1
        /\ log.size <= log.capacity /\ log.size <= log.next_seq
        /\ reader.next_seq <= log.next_seq
    BY DEF TypeInv, LogPart, LogOK
  <2>6. /\ tracked \in BOOLEAN /\ unheard \in BOOLEAN
        /\ phase \in {"idle", "applying", "undoing", "publishing"}
        /\ phase = "idle" => undo = <<>> /\ buffered = <<>>
    BY DEF TypeInv, FlagPart, BatchPart
  <2> QED
    BY <2>1, <2>2, <2>3, <2>4, <2>5, <2>6 DEF TypeOK
<1> QED
  BY <1>1, WorldTypeInv, PTL

\* However far a batch got before one of its operations failed, undoing it gives the graph
\* it found, with the absence of properties and the order of relations, and nobody has
\* been told of anything.
THEOREM WorldUndoRestores == Spec => []UndoRestores
<1>1. TypeInv => UndoRestores
  <2> SUFFICES ASSUME TypeInv PROVE UndoRestores
    OBVIOUS
  <2>1. ASSUME phase = "undoing", undo = <<>>
        PROVE  graph = before.graph
    <3>1. PICK t : Trail(t, before.graph, undo, graph, next_entity_id)
      BY <2>1 DEF TypeInv, TrailPart
    <3> QED
      BY <2>1, <3>1 DEF Trail
  <2> QED
    BY <2>1 DEF UndoRestores, TypeInv, TrailPart
<1> QED
  BY <1>1, WorldTypeInv, PTL

-----------------------------------------------------------------------------
\* Relations as told

\* r goes from the relations s, by the relations among the events, to rel.
RelTrail(r, s, events, rel) ==
    /\ r[0] = s /\ r[Len(events)] = rel
    /\ \A i \in 1 .. Len(events) :
           r[i] = IF IsRelation(events[i])
                  THEN Append(r[i - 1], <<events[i].from, events[i].to>>) ELSE r[i - 1]

\* Between calls the relations are as told; in a batch, those before it are, and its
\* buffered events lead from them to those there are.
RelPart ==
    /\ phase = "idle" => graph.relations = told_relations
    /\ phase \in {"applying", "undoing"} => before.graph.relations = told_relations
    /\ phase \in {"applying", "publishing"} =>
           \E r : RelTrail(r, told_relations, buffered, graph.relations)

\* An event buffered is a step of the trail,
LEMMA RelTrailGrows ==
  ASSUME NEW S, NEW events \in Seq(S), NEW r, NEW s, NEW rel, RelTrail(r, s, events, rel),
         NEW x, NEW next,
         next = IF IsRelation(x) THEN Append(rel, <<x.from, x.to>>) ELSE rel
  PROVE  \E q : RelTrail(q, s, Append(events, x), next)
<1> DEFINE v == Append(events, x)
           n == Len(events) + 1
           q == [i \in 0 .. n |-> IF i = n THEN next ELSE r[i]]
<1>1. /\ Len(events) \in Nat /\ Len(v) = n
      /\ \A i \in 1 .. Len(events) : v[i] = events[i]
      /\ v[n] = x
  BY AppendProperties
<1>2. q[n] = next /\ \A i \in 0 .. Len(events) : q[i] = r[i]
  BY <1>1
<1> HIDE DEF v, q
<1>3. q[0] = s /\ q[Len(v)] = next
  BY <1>1, <1>2 DEF RelTrail
<1>4. ASSUME NEW i \in 1 .. Len(v)
      PROVE  q[i] = IF IsRelation(v[i]) THEN Append(q[i - 1], <<v[i].from, v[i].to>>) ELSE q[i - 1]
  <2>1. CASE i \in 1 .. Len(events)
    <3>1. v[i] = events[i] /\ q[i] = r[i] /\ q[i - 1] = r[i - 1]
      BY <1>1, <1>2, <2>1
    <3> QED
      BY <2>1, <3>1 DEF RelTrail
  <2>2. CASE i = n
    <3>1. v[i] = x /\ q[i] = next /\ q[i - 1] = rel
      BY <1>1, <1>2, <2>2 DEF RelTrail
    <3> QED
      BY <3>1
  <2> QED
    BY <1>1, <2>1, <2>2
<1>5. RelTrail(q, s, v, next)
  BY <1>3, <1>4 DEF RelTrail
<1> QED
  BY <1>5 DEF v

\* and an event published is none of it any more.
LEMMA RelTrailShrinks ==
  ASSUME NEW S, NEW events \in Seq(S), events # <<>>, NEW r, NEW s, NEW rel,
         RelTrail(r, s, events, rel), NEW next,
         next = IF IsRelation(Head(events))
                THEN Append(s, <<Head(events).from, Head(events).to>>) ELSE s
  PROVE  \E q : RelTrail(q, next, Tail(events), rel)
<1> DEFINE n == Len(events)
           v == Tail(events)
           q == [i \in 0 .. n - 1 |-> r[i + 1]]
<1>1. /\ n \in Nat \ {0} /\ Len(v) = n - 1 /\ Head(events) = events[1]
      /\ \A i \in 1 .. n - 1 : v[i] = events[i + 1]
  <2>1. n \in Nat \ {0}
    BY EmptySeq
  <2> QED
    BY <2>1, HeadTailProperties
<1>2. \A i \in 0 .. n - 1 : q[i] = r[i + 1]
  OBVIOUS
<1> HIDE DEF v, q
<1>3. q[0] = next
  <2>1. r[1] = IF IsRelation(events[1])
               THEN Append(r[1 - 1], <<events[1].from, events[1].to>>) ELSE r[1 - 1]
    BY <1>1 DEF RelTrail
  <2>2. r[1 - 1] = s /\ q[0] = r[1]
    BY <1>1, <1>2 DEF RelTrail
  <2> QED
    BY <1>1, <2>1, <2>2
<1>4. q[Len(v)] = rel
  BY <1>1, <1>2 DEF RelTrail
<1>5. ASSUME NEW i \in 1 .. Len(v)
      PROVE  q[i] = IF IsRelation(v[i]) THEN Append(q[i - 1], <<v[i].from, v[i].to>>) ELSE q[i - 1]
  <2> DEFINE j == i + 1
  <2>1. j \in 1 .. n /\ q[i] = r[j] /\ q[i - 1] = r[j - 1] /\ v[i] = events[j]
    BY <1>1, <1>2
  <2> HIDE DEF j
  <2> QED
    BY <2>1 DEF RelTrail
<1>6. RelTrail(q, next, v, rel)
  BY <1>3, <1>4, <1>5 DEF RelTrail
<1> QED
  BY <1>6 DEF v

\* RelPart is inductive relative to TypeInv.
LEMMA RelPartKept == TypeInv /\ RelPart /\ [Next]_vars => RelPart'
<1> SUFFICES ASSUME TypeInv, RelPart, [Next]_vars PROVE RelPart'
  OBVIOUS
<1>1. /\ GraphPart /\ BatchPart /\ LogPart
      /\ buffered \in Seq(BatchEvents(next_entity_id))
  BY DEF TypeInv, BatchPart, BatchEvents
<1>2. CASE UNCHANGED <<phase, graph, told_relations, buffered, before>>
  BY <1>2 DEF RelPart
<1>3. ASSUME phase = "idle", UNCHANGED phase, graph'.relations = told_relations'
      PROVE  RelPart'
  BY <1>3 DEF RelPart
<1>4. ASSUME phase = "idle", UNCHANGED <<phase, told_relations>>, graph'.relations = graph.relations
      PROVE  RelPart'
  BY <1>3, <1>4 DEF RelPart
<1>5. ASSUME NEW e \in Ids, NEW v \in Values, set_property(e, v)
      PROVE  RelPart'
  <2> DEFINE h == setProperty(graph, e, Input, v)
             event == [entity |-> e, key |-> Input, value |-> v,
                       prev |-> getProperty(graph, e, Input)]
  <2>1. /\ GraphOK(h, next_entity_id) /\ InputWritten(graph, h, e, v)
        /\ \A f : getProperty(h, f, Capability) = getProperty(graph, f, Capability)
        /\ graph' = emit(World(h), event).graph
    BY <1>1, <1>5, SetPropertyEffect
  <2>2. World(h).graph = h /\ event.entity = e /\ event.key = Input
    BY DEF World
  <2> HIDE DEF h, event
  <2>3. graph'.relations = graph.relations
    BY <1>1, <2>1, <2>2, IdTypes, PublishedWrite DEF InputWritten, GraphPart
  <2> QED
    BY <1>4, <1>5, <2>3 DEF set_property, batch
<1>6. ASSUME NEW e \in Ids, remove_property(e)
      PROVE  RelPart'
  <2> DEFINE h == removeProperty(graph, e, Input)
             event == [entity |-> e, key |-> Input, value |-> NoValue,
                       prev |-> getProperty(graph, e, Input)]
  <2>1. /\ GraphOK(h, next_entity_id) /\ InputWritten(graph, h, e, NoValue)
        /\ \A f : getProperty(h, f, Capability) = getProperty(graph, f, Capability)
        /\ graph' = emit(World(h), event).graph
    BY <1>1, <1>6, RemovePropertyEffect
  <2>2. World(h).graph = h /\ event.entity = e /\ event.key = Input
    BY DEF World
  <2> HIDE DEF h, event
  <2>3. graph'.relations = graph.relations
    BY <1>1, <2>1, <2>2, IdTypes, PublishedWrite DEF InputWritten, GraphPart
  <2> QED
    BY <1>4, <1>6, <2>3 DEF remove_property, batch
<1>7. CASE create_entity
  BY <1>1, <1>4, <1>7, CreateEffect DEF create_entity, batch
<1>8. ASSUME NEW e \in Ids, destroy_entity(e)
      PROVE  RelPart'
  BY <1>1, <1>3, <1>8, DestroyEffect DEF destroy_entity, batch, RelPart
<1>9. ASSUME NEW e \in Ids, NEW f \in Ids, create_relation(e, f)
      PROVE  RelPart'
  BY <1>1, <1>3, <1>9, CreateRelationEffect DEF create_relation, batch, RelPart
<1>10. ASSUME NEW e \in Ids, NEW f \in Ids, destroy_relation(e, f)
       PROVE  RelPart'
  BY <1>1, <1>3, <1>10, DestroyRelationEffect DEF destroy_relation, batch, RelPart
<1>11. CASE track
  BY <1>1, <1>4, <1>11, TrackEffect DEF track, batch, SameButCapability
<1>12. CASE begin_batch
  <2>1. /\ phase = "idle" /\ phase' = "applying" /\ before'.graph = graph
        /\ UNCHANGED <<graph, told_relations, buffered>>
    BY <1>12 DEF begin_batch
  <2>2. graph.relations = told_relations /\ buffered = <<>>
    BY <1>1, <2>1 DEF RelPart, BatchPart
  <2>3. RelTrail([i \in {0} |-> told_relations], told_relations, <<>>, told_relations)
    BY DEF RelTrail
  <2> QED
    BY <2>1, <2>2, <2>3 DEF RelPart
<1>13. ASSUME NEW x, phase = "applying", UNCHANGED <<phase, before, told_relations>>,
              buffered' = Append(buffered, x),
              graph'.relations = IF IsRelation(x) THEN Append(graph.relations, <<x.from, x.to>>)
                                 ELSE graph.relations
       PROVE  RelPart'
  <2>1. PICK r : RelTrail(r, told_relations, buffered, graph.relations)
    BY <1>13 DEF RelPart
  <2> DEFINE next == graph'.relations
  <2>2. next = IF IsRelation(x) THEN Append(graph.relations, <<x.from, x.to>>)
               ELSE graph.relations
    BY <1>13
  <2> HIDE DEF next
  <2>3. \E q : RelTrail(q, told_relations, Append(buffered, x), next)
    BY <1>1, <2>1, <2>2, RelTrailGrows
  <2>4. before.graph.relations = told_relations
    BY <1>13 DEF RelPart
  <2> QED
    BY <1>13, <2>3, <2>4 DEF RelPart, next
<1>14. ASSUME phase = "applying", UNCHANGED <<phase, before, told_relations, buffered>>,
              graph'.relations = graph.relations
       PROVE  RelPart'
  BY <1>14 DEF RelPart
<1>15. ASSUME NEW v \in Values \cup {NoValue}, op_create(v)
       PROVE  RelPart'
  <2>1. /\ phase = "applying" /\ UNCHANGED <<phase, before, told_relations>>
        /\ graph'.relations = graph.relations
    BY <1>1, <1>15, OpCreateEffect DEF op_create, Operation
  <2>2. ~IsRelation([entity |-> next_entity_id, key |-> Input, value |-> v, prev |-> NoValue])
    BY DEF IsRelation
  <2> QED
    BY <1>1, <1>13, <1>14, <1>15, <2>1, <2>2, OpCreateEvents
<1>16. ASSUME NEW e \in Ids, NEW v \in Values, op_set_property(e, v)
       PROVE  RelPart'
  <2>1. /\ phase = "applying" /\ UNCHANGED <<phase, before, told_relations>>
        /\ graph'.relations = graph.relations
    BY <1>1, <1>16, OpSetPropertyEffect DEF op_set_property, Operation, InputWritten
  <2> DEFINE prev == getProperty(graph, e, Input)
             x == [entity |-> e, key |-> Input, value |-> v, prev |-> prev]
  <2>2. ~IsRelation(x)
    BY DEF IsRelation
  <2>3. buffered' = buffered \/ buffered' = Append(buffered, x)
    BY <1>1, <1>16, OpSetPropertyEvents
  <2> HIDE DEF x
  <2> QED
    BY <1>13, <1>14, <2>1, <2>2, <2>3
<1>17. ASSUME NEW e \in Ids, NEW f \in Ids, op_set_relation(e, f)
       PROVE  RelPart'
  <2>1. /\ phase = "applying" /\ UNCHANGED <<phase, before, told_relations>>
        /\ graph'.relations = Append(graph.relations, <<e, f>>)
    BY <1>1, <1>17, OpSetRelationEffect DEF op_set_relation, Operation
  <2> DEFINE x == [from |-> e, to |-> f]
  <2>2. IsRelation(x) /\ x.from = e /\ x.to = f
    BY DEF IsRelation
  <2>3. buffered' = Append(buffered, x)
    BY <1>1, <1>17, OpSetRelationEvents
  <2> HIDE DEF x
  <2> QED
    BY <1>13, <2>1, <2>2, <2>3
<1>18. CASE batch_fails
  BY <1>18 DEF batch_fails, RelPart
<1>19. CASE undo_one
  BY <1>19 DEF undo_one, RelPart
<1>20. CASE undo_done
  <2>1. PICK t : Trail(t, before.graph, undo, graph, next_entity_id)
    BY <1>20 DEF undo_done, TypeInv, TrailPart
  <2>2. graph = before.graph
    BY <1>20, <2>1 DEF undo_done, Trail
  <2> QED
    BY <1>20, <2>2 DEF undo_done, RelPart
<1>21. CASE batch_succeeds
  BY <1>21 DEF batch_succeeds, RelPart
<1>22. ASSUME phase = "publishing", UNCHANGED phase, buffered # <<>>, buffered' = Tail(buffered),
              graph'.relations = graph.relations,
              told_relations' = IF IsRelation(Head(buffered))
                                THEN Append(told_relations, <<Head(buffered).from, Head(buffered).to>>)
                                ELSE told_relations
       PROVE  RelPart'
  <2>1. PICK r : RelTrail(r, told_relations, buffered, graph.relations)
    BY <1>22 DEF RelPart
  <2> DEFINE next == told_relations'
  <2>2. next = IF IsRelation(Head(buffered))
               THEN Append(told_relations, <<Head(buffered).from, Head(buffered).to>>)
               ELSE told_relations
    BY <1>22
  <2> HIDE DEF next
  <2>3. \E q : RelTrail(q, next, Tail(buffered), graph.relations)
    BY <1>1, <1>22, <2>1, <2>2, RelTrailShrinks
  <2> QED
    BY <1>22, <2>3 DEF RelPart, next
<1>23. CASE publish_property
  BY <1>1, <1>22, <1>23, PublishEffect DEF publish_property, SameButCapability
<1>24. CASE publish_relation
  BY <1>22, <1>24 DEF publish_relation
<1>25. CASE publish_done
  <2>1. phase = "publishing" /\ buffered = <<>> /\ phase' = "idle"
        /\ UNCHANGED <<graph, told_relations>>
    BY <1>25 DEF publish_done
  <2>2. PICK r : RelTrail(r, told_relations, buffered, graph.relations)
    BY <2>1 DEF RelPart
  <2>3. graph.relations = told_relations
    BY <2>1, <2>2 DEF RelTrail
  <2> QED
    BY <2>1, <2>3 DEF RelPart
<1>26. CASE untrack \/ read \/ UNCHANGED vars \/ \E n \in Capacities : resize(n)
  BY <1>2, <1>26 DEF untrack, read, vars, resize, batch
<1> QED
  BY <1>5, <1>6, <1>7, <1>8, <1>9, <1>10, <1>11, <1>12, <1>15, <1>16, <1>17, <1>18, <1>19,
     <1>20, <1>21, <1>23, <1>24, <1>25, <1>26
  DEF Next, DirectCall, BatchStep

\* Replaying the relation events gives the graph's relations, over single calls and over
\* batches that succeed or are undone.
THEOREM WorldRelationsTold == Spec => []RelationsTold
<1>1. Init => RelPart
  BY DEF Init, RelPart, createEntity, EmptyGraph
<1>2. RelPart => RelationsTold
  BY DEF RelPart, RelationsTold
<1> QED
  BY <1>1, <1>2, RelPartKept, WorldTypeInv, PTL DEF Spec

-----------------------------------------------------------------------------
\* Capabilities that are current

\* No event writes the input of e.
Unwritten(events, e) == \A j \in DOMAIN events : ~Writes(events[j], e, Input)

\* The capability of a tracked creature is current, or an event still to be published will
\* make it so; a batch writes inputs only with an event that says so.
CapPart ==
    /\ tracked /\ ~unheard =>
           /\ phase = "idle" => Current(graph)
           /\ phase \in {"applying", "undoing"} => Current(before.graph)
           /\ phase = "publishing" /\ (\A e \in Body(graph) : Unwritten(buffered, e)) =>
                  Current(graph)
    /\ phase = "applying" =>
           /\ \A e : Unwritten(buffered, e) =>
                  getProperty(graph, e, Input) = getProperty(before.graph, e, Input)
           /\ getProperty(graph, Creature, Capability)
                  = getProperty(before.graph, Creature, Capability)

\* The graph stays current if neither the body nor its inputs nor the capability change.
LEMMA CurrentSame ==
  ASSUME NEW g, NEW h, getRelated(h, Creature) = getRelated(g, Creature),
         \A e \in Body(g) : getProperty(h, e, Input) = getProperty(g, e, Input),
         getProperty(h, Creature, Capability) = getProperty(g, Creature, Capability),
         Current(g)
  PROVE  Current(h)
<1>1. compute_from_kg(h) = compute_from_kg(g)
  BY DEF compute_from_kg, Body
<1> QED
  BY <1>1 DEF Current

\* What is unwritten by more events is unwritten by fewer,
LEMMA UnwrittenAppend ==
  ASSUME NEW S, NEW events \in Seq(S), NEW x, NEW e, Unwritten(Append(events, x), e)
  PROVE  Unwritten(events, e) /\ ~Writes(x, e, Input)
<1> DEFINE v == Append(events, x)
<1>1. /\ Len(events) \in Nat /\ DOMAIN events = 1 .. Len(events)
      /\ DOMAIN v = 1 .. Len(events) + 1
      /\ \A i \in 1 .. Len(events) : v[i] = events[i]
      /\ v[Len(events) + 1] = x
  BY AppendProperties
<1>2. \A j \in DOMAIN v : ~Writes(v[j], e, Input)
  BY DEF Unwritten
<1> HIDE DEF v
<1>3. ~Writes(x, e, Input)
  <2>1. Len(events) + 1 \in DOMAIN v
    BY <1>1
  <2> QED
    BY <1>1, <1>2, <2>1
<1>4. ASSUME NEW j \in DOMAIN events
      PROVE  ~Writes(events[j], e, Input)
  <2>1. j \in DOMAIN v /\ v[j] = events[j]
    BY <1>1
  <2> QED
    BY <1>2, <2>1
<1> QED
  BY <1>3, <1>4 DEF Unwritten

\* and what the first does not write and the others do not, none does.
LEMMA UnwrittenTail ==
  ASSUME NEW S, NEW events \in Seq(S), events # <<>>, NEW e, Unwritten(Tail(events), e),
         ~Writes(Head(events), e, Input)
  PROVE  Unwritten(events, e)
<1>1. /\ Len(events) \in Nat \ {0} /\ DOMAIN events = 1 .. Len(events)
      /\ DOMAIN Tail(events) = 1 .. Len(events) - 1
      /\ \A i \in 1 .. Len(events) - 1 : Tail(events)[i] = events[i + 1]
      /\ Head(events) = events[1]
  <2>1. Len(events) \in Nat \ {0}
    BY EmptySeq
  <2> QED
    BY <2>1, HeadTailProperties
<1>2. ASSUME NEW j \in 1 .. Len(events)
      PROVE  ~Writes(events[j], e, Input)
  <2>1. CASE j = 1
    BY <1>1, <2>1
  <2>2. CASE j # 1
    <3>1. j - 1 \in DOMAIN Tail(events) /\ Tail(events)[j - 1] = events[j]
      BY <1>1, <2>2
    <3> QED
      BY <3>1 DEF Unwritten
  <2> QED
    BY <2>1, <2>2
<1> QED
  BY <1>1, <1>2 DEF Unwritten

\* CapPart is inductive relative to TypeInv.
LEMMA CapPartKept == TypeInv /\ CapPart /\ [Next]_vars => CapPart'
<1> SUFFICES ASSUME TypeInv, CapPart, [Next]_vars PROVE CapPart'
  OBVIOUS
<1>1. /\ GraphPart /\ BatchPart /\ LogPart /\ GraphOK(graph, next_entity_id)
      /\ next_entity_id \in Nat /\ next_entity_id <= LastEntity + 1
      /\ buffered \in Seq(BatchEvents(next_entity_id))
      /\ tracked \in BOOLEAN /\ unheard \in BOOLEAN
  BY IdTypes DEF TypeInv, BatchPart, BatchEvents, GraphPart, FlagPart
<1>2. CASE UNCHANGED <<phase, graph, tracked, unheard, buffered, before>>
  BY <1>2 DEF CapPart
<1>3. ASSUME phase = "idle", UNCHANGED phase, tracked' /\ ~unheard' => Current(graph')
      PROVE  CapPart'
  BY <1>3 DEF CapPart
<1>4. ASSUME phase = "idle", UNCHANGED <<phase, tracked>>, NEW e, Heard(graph, e),
             tracked /\ e \in Body(graph) => Current(graph'),
             Current(graph) /\ e \notin Body(graph) => Current(graph')
      PROVE  CapPart'
  <2>1. ASSUME tracked', ~unheard'
        PROVE  Current(graph')
    <3>1. CASE e \in Body(graph)
      BY <1>4, <2>1, <3>1
    <3>2. CASE e \notin Body(graph)
      <4>1. tracked /\ ~unheard
        BY <1>4, <2>1, <3>2 DEF Heard
      <4> QED
        BY <1>4, <3>2, <4>1 DEF CapPart
    <3> QED
      BY <3>1, <3>2
  <2> QED
    BY <1>3, <1>4, <2>1
<1>5. ASSUME NEW e \in Ids, NEW v \in Values, set_property(e, v)
      PROVE  CapPart'
  <2> DEFINE h == setProperty(graph, e, Input, v)
             event == [entity |-> e, key |-> Input, value |-> v,
                       prev |-> getProperty(graph, e, Input)]
  <2>1. /\ GraphOK(h, next_entity_id) /\ InputWritten(graph, h, e, v)
        /\ \A f : getProperty(h, f, Capability) = getProperty(graph, f, Capability)
        /\ graph' = emit(World(h), event).graph
    BY <1>1, <1>5, SetPropertyEffect
  <2>2. World(h).graph = h /\ event.entity = e /\ event.key = Input
    BY DEF World
  <2> HIDE DEF h, event
  <2>3. /\ tracked /\ e \in Body(graph) => Current(graph')
        /\ Current(graph) /\ e \notin Body(graph) => Current(graph')
    BY <1>1, <2>1, <2>2, PublishedWrite
  <2>4. phase = "idle" /\ UNCHANGED <<phase, tracked>> /\ Heard(graph, e)
    BY <1>5 DEF set_property, batch
  <2> QED
    BY <1>4, <2>3, <2>4
<1>6. ASSUME NEW e \in Ids, remove_property(e)
      PROVE  CapPart'
  <2> DEFINE h == removeProperty(graph, e, Input)
             event == [entity |-> e, key |-> Input, value |-> NoValue,
                       prev |-> getProperty(graph, e, Input)]
  <2>1. /\ GraphOK(h, next_entity_id) /\ InputWritten(graph, h, e, NoValue)
        /\ \A f : getProperty(h, f, Capability) = getProperty(graph, f, Capability)
        /\ graph' = emit(World(h), event).graph
    BY <1>1, <1>6, RemovePropertyEffect
  <2>2. World(h).graph = h /\ event.entity = e /\ event.key = Input
    BY DEF World
  <2> HIDE DEF h, event
  <2>3. /\ tracked /\ e \in Body(graph) => Current(graph')
        /\ Current(graph) /\ e \notin Body(graph) => Current(graph')
    BY <1>1, <2>1, <2>2, PublishedWrite
  <2>4. phase = "idle" /\ UNCHANGED <<phase, tracked>> /\ Heard(graph, e)
    BY <1>6 DEF remove_property, batch
  <2> QED
    BY <1>4, <2>3, <2>4
<1>7. ASSUME phase = "idle", UNCHANGED <<phase, tracked>>,
             tracked /\ ~unheard' => ~unheard /\ getRelated(graph', Creature) = getRelated(graph, Creature),
             getRelated(graph', Creature) = getRelated(graph, Creature) =>
                 \A e \in Body(graph) :
                     getProperty(graph', e, Input) = getProperty(graph, e, Input),
             getProperty(graph', Creature, Capability) = getProperty(graph, Creature, Capability)
      PROVE  CapPart'
  <2>1. ASSUME tracked', ~unheard'
        PROVE  Current(graph')
    <3>1. Current(graph)
      BY <1>7, <2>1 DEF CapPart
    <3> DEFINE g == graph'
    <3>2. /\ getRelated(g, Creature) = getRelated(graph, Creature)
          /\ \A e \in Body(graph) :
                 getProperty(g, e, Input) = getProperty(graph, e, Input)
          /\ getProperty(g, Creature, Capability) = getProperty(graph, Creature, Capability)
      BY <1>7, <2>1
    <3> HIDE DEF g
    <3>3. Current(g)
      BY <3>1, <3>2, CurrentSame
    <3> QED
      BY <3>3 DEF g
  <2> QED
    BY <1>3, <1>7, <2>1
<1>8. CASE create_entity
  <2>1. /\ graph'.relations = graph.relations
        /\ \A f, l : getProperty(graph', f, l) = getProperty(graph, f, l)
        /\ phase = "idle" /\ UNCHANGED <<phase, tracked, unheard>>
    BY <1>1, <1>8, CreateEffect DEF create_entity, batch
  <2>2. getRelated(graph', Creature) = getRelated(graph, Creature)
    BY <2>1 DEF getRelated
  <2> QED
    BY <1>7, <2>1, <2>2
<1>9. ASSUME BodyChanges(graph'), tracked, ~unheard'
      PROVE  ~unheard /\ getRelated(graph', Creature) = getRelated(graph, Creature)
  BY <1>9 DEF BodyChanges
<1>10. ASSUME NEW e \in Ids, destroy_entity(e)
       PROVE  CapPart'
  <2>1. /\ GraphOK(graph', next_entity_id)
        /\ graph'.entities = graph.entities \ {e}
        /\ \A f, l : f # e => getProperty(graph', f, l) = getProperty(graph, f, l)
    BY <1>1, <1>10, DestroyEffect
  <2>2. /\ phase = "idle" /\ UNCHANGED <<phase, tracked>> /\ BodyChanges(graph') /\ e # Creature
    BY <1>10 DEF destroy_entity, batch
  <2> DEFINE g == graph'
  <2>3. GraphOK(g, next_entity_id)
    BY <2>1
  <2> HIDE DEF g
  <2>4. getRelated(g, Creature) \subseteq g.entities
    BY <2>3, RelatedAreEntities
  <2>5. e \notin getRelated(graph', Creature)
    BY <2>1, <2>4 DEF g
  <2>6. getRelated(graph', Creature) = getRelated(graph, Creature) => e \notin Body(graph)
    BY <2>2, <2>5 DEF Body
  <2> QED
    BY <1>7, <1>9, <2>1, <2>2, <2>6
<1>11. ASSUME NEW e \in Ids, NEW f \in Ids, create_relation(e, f)
       PROVE  CapPart'
  <2>1. \A x, l : getProperty(graph', x, l) = getProperty(graph, x, l)
    BY <1>1, <1>11, CreateRelationEffect DEF create_relation
  <2>2. phase = "idle" /\ UNCHANGED <<phase, tracked>> /\ BodyChanges(graph')
    BY <1>11 DEF create_relation, batch
  <2> QED
    BY <1>7, <1>9, <2>1, <2>2
<1>12. ASSUME NEW e \in Ids, NEW f \in Ids, destroy_relation(e, f)
       PROVE  CapPart'
  <2>1. \A x, l : getProperty(graph', x, l) = getProperty(graph, x, l)
    BY <1>1, <1>12, DestroyRelationEffect
  <2>2. phase = "idle" /\ UNCHANGED <<phase, tracked>> /\ BodyChanges(graph')
    BY <1>12 DEF destroy_relation, batch
  <2> QED
    BY <1>7, <1>9, <2>1, <2>2
<1>13. CASE track
  BY <1>1, <1>3, <1>13, TrackEffect DEF track, batch
<1>14. CASE untrack
  BY <1>3, <1>14 DEF untrack, batch
<1>15. CASE begin_batch
  <2>1. /\ phase = "idle" /\ phase' = "applying" /\ before'.graph = graph
        /\ UNCHANGED <<graph, tracked, unheard>>
    BY <1>15 DEF begin_batch
  <2> QED
    BY <2>1 DEF CapPart
<1>16. ASSUME phase = "applying", UNCHANGED <<phase, before, tracked, unheard>>,
              \A e : Unwritten(buffered', e) =>
                  /\ Unwritten(buffered, e)
                  /\ getProperty(graph', e, Input) = getProperty(graph, e, Input),
              getProperty(graph', Creature, Capability) = getProperty(graph, Creature, Capability)
       PROVE  CapPart'
  BY <1>16 DEF CapPart
<1>17. ASSUME NEW e, NEW v, NEW prev, prev = getProperty(graph, e, Input),
              getProperty(graph', e, Input) = v,
              \A f : f # e => getProperty(graph', f, Input) = getProperty(graph, f, Input),
              v = prev => buffered' = buffered,
              v # prev => buffered' = Append(buffered, [entity |-> e, key |-> Input,
                                                        value |-> v, prev |-> prev]),
              NEW f, Unwritten(buffered', f)
       PROVE  /\ Unwritten(buffered, f)
              /\ getProperty(graph', f, Input) = getProperty(graph, f, Input)
  <2>1. CASE v = prev
    BY <1>17, <2>1
  <2>2. CASE v # prev
    <3> DEFINE x == [entity |-> e, key |-> Input, value |-> v, prev |-> prev]
    <3>1. Unwritten(Append(buffered, x), f)
      BY <1>17, <2>2
    <3>2. Writes(x, e, Input)
      BY DEF Writes, IsRelation
    <3> HIDE DEF x
    <3>3. Unwritten(buffered, f) /\ ~Writes(x, f, Input)
      BY <1>1, <3>1, UnwrittenAppend
    <3> QED
      BY <1>17, <3>2, <3>3
  <2> QED
    BY <2>1, <2>2
<1>18. ASSUME NEW v \in Values \cup {NoValue}, op_create(v)
       PROVE  CapPart'
  <2>1. /\ getProperty(graph, next_entity_id, Input) = NoValue
        /\ getProperty(graph', next_entity_id, Input) = v
        /\ \A f, l : f # next_entity_id \/ l # Input =>
               getProperty(graph', f, l) = getProperty(graph, f, l)
        /\ phase = "applying" /\ UNCHANGED <<phase, before, tracked, unheard>>
    BY <1>1, <1>18, OpCreateEffect DEF op_create, Operation
  <2>2. /\ v = NoValue => buffered' = buffered
        /\ v # NoValue => buffered' = Append(buffered, [entity |-> next_entity_id, key |-> Input,
                                                        value |-> v, prev |-> NoValue])
    BY <1>1, <1>18, OpCreateEvents
  <2>3. ASSUME NEW f, Unwritten(buffered', f)
        PROVE  /\ Unwritten(buffered, f)
               /\ getProperty(graph', f, Input) = getProperty(graph, f, Input)
    BY <1>17, <2>1, <2>2, <2>3
  <2>4. Input # Capability
    BY WorldAssumption
  <2> QED
    BY <1>16, <2>1, <2>3, <2>4
<1>19. ASSUME NEW e \in Ids, NEW v \in Values, op_set_property(e, v)
       PROVE  CapPart'
  <2> DEFINE prev == getProperty(graph, e, Input)
  <2>1. /\ getProperty(graph', e, Input) = v
        /\ \A f : f # e => getProperty(graph', f, Input) = getProperty(graph, f, Input)
        /\ \A f : getProperty(graph', f, Capability) = getProperty(graph, f, Capability)
        /\ phase = "applying" /\ UNCHANGED <<phase, before, tracked, unheard>>
    BY <1>1, <1>19, OpSetPropertyEffect DEF op_set_property, Operation, InputWritten
  <2>2. /\ v = prev => buffered' = buffered
        /\ v # prev => buffered' = Append(buffered, [entity |-> e, key |-> Input,
                                                     value |-> v, prev |-> prev])
    BY <1>1, <1>19, OpSetPropertyEvents
  <2>3. prev = getProperty(graph, e, Input)
    OBVIOUS
  <2> HIDE DEF prev
  <2>4. ASSUME NEW f, Unwritten(buffered', f)
        PROVE  /\ Unwritten(buffered, f)
               /\ getProperty(graph', f, Input) = getProperty(graph, f, Input)
    BY <1>17, <2>1, <2>2, <2>3, <2>4
  <2> QED
    BY <1>16, <2>1, <2>4
<1>20. ASSUME NEW e \in Ids, NEW f \in Ids, op_set_relation(e, f)
       PROVE  CapPart'
  <2>1. /\ \A x, l : getProperty(graph', x, l) = getProperty(graph, x, l)
        /\ phase = "applying" /\ UNCHANGED <<phase, before, tracked, unheard>>
    BY <1>1, <1>20, OpSetRelationEffect DEF op_set_relation, Operation
  <2>2. buffered' = Append(buffered, [from |-> e, to |-> f])
    BY <1>1, <1>20, OpSetRelationEvents
  <2>3. \A x : Unwritten(buffered', x) => Unwritten(buffered, x)
    BY <1>1, <2>2, UnwrittenAppend
  <2> QED
    BY <1>16, <2>1, <2>3
<1>21. CASE batch_fails
  BY <1>21 DEF batch_fails, CapPart
<1>22. CASE undo_one
  BY <1>22 DEF undo_one, CapPart
<1>23. CASE undo_done
  <2>1. PICK t : Trail(t, before.graph, undo, graph, next_entity_id)
    BY <1>23 DEF undo_done, TypeInv, TrailPart
  <2>2. graph = before.graph
    BY <1>23, <2>1 DEF undo_done, Trail
  <2> QED
    BY <1>23, <2>2 DEF undo_done, CapPart
<1>24. CASE batch_succeeds
  <2>1. /\ phase = "applying" /\ phase' = "publishing" /\ UNCHANGED <<graph, buffered, tracked>>
        /\ unheard' = (unheard \/ getRelated(before.graph, Creature) # getRelated(graph, Creature))
    BY <1>24 DEF batch_succeeds
  <2>2. ASSUME tracked, ~unheard', \A e \in Body(graph) : Unwritten(buffered, e)
        PROVE  Current(graph)
    <3>1. ~unheard /\ getRelated(graph, Creature) = getRelated(before.graph, Creature)
      BY <2>1, <2>2
    <3>2. /\ Current(before.graph)
          /\ getProperty(graph, Creature, Capability) = getProperty(before.graph, Creature, Capability)
          /\ \A e \in Body(before.graph) :
                 getProperty(graph, e, Input) = getProperty(before.graph, e, Input)
      BY <2>1, <2>2, <3>1 DEF CapPart, Body
    <3> QED
      BY <3>1, <3>2, CurrentSame
  <2> QED
    BY <2>1, <2>2 DEF CapPart
<1>25. ASSUME phase = "publishing", UNCHANGED <<phase, tracked>>, Body(graph') = Body(graph),
              tracked /\ ~unheard' /\ (\A e \in Body(graph) : Unwritten(buffered', e)) =>
                  Current(graph')
       PROVE  CapPart'
  BY <1>25 DEF CapPart
<1>26. CASE publish_property
  <2>1. /\ SameButCapability(graph, graph')
        /\ Head(buffered) \in PropertyEvents(next_entity_id)
        /\ Current(graph) => Current(graph')
        /\ tracked /\ Head(buffered).entity \in Body(graph) => Current(graph')
    BY <1>1, <1>26, PublishEffect
  <2>2. /\ phase = "publishing" /\ UNCHANGED <<phase, tracked>> /\ buffered' = Tail(buffered)
        /\ buffered # <<>> /\ Heard(graph, Head(buffered).entity)
    BY <1>26 DEF publish_property
  <2>3. Body(graph') = Body(graph)
    BY <2>1 DEF Body, getRelated, SameButCapability
  <2>4. ASSUME tracked, ~unheard', \A e \in Body(graph) : Unwritten(buffered', e)
        PROVE  Current(graph')
    <3>1. CASE Head(buffered).entity \in Body(graph)
      BY <2>1, <2>4, <3>1
    <3>2. CASE Head(buffered).entity \notin Body(graph)
      <4>1. ~unheard
        BY <2>2, <2>4, <3>2 DEF Heard
      <4>2. \A e \in Body(graph) : Unwritten(buffered, e)
        <5>1. \A e \in Body(graph) : ~Writes(Head(buffered), e, Input)
          BY <3>2 DEF Writes
        <5> QED
          BY <1>1, <2>2, <2>4, <5>1, UnwrittenTail
      <4>3. Current(graph)
        BY <2>2, <2>4, <4>1, <4>2 DEF CapPart
      <4> QED
        BY <2>1, <4>3
    <3> QED
      BY <3>1, <3>2
  <2> QED
    BY <1>25, <2>2, <2>3, <2>4
<1>27. CASE publish_relation
  <2>1. /\ phase = "publishing" /\ UNCHANGED <<phase, tracked, graph, unheard>>
        /\ buffered' = Tail(buffered) /\ buffered # <<>> /\ IsRelation(Head(buffered))
    BY <1>27 DEF publish_relation
  <2>2. \A e : Unwritten(buffered', e) => Unwritten(buffered, e)
    BY <1>1, <2>1, UnwrittenTail DEF Writes
  <2>3. tracked /\ ~unheard' /\ (\A e \in Body(graph) : Unwritten(buffered', e)) => Current(graph')
    BY <2>1, <2>2 DEF CapPart
  <2>4. Body(graph') = Body(graph)
    BY <2>1
  <2> QED
    BY <1>25, <2>1, <2>3, <2>4
<1>28. CASE publish_done
  <2>1. /\ phase = "publishing" /\ buffered = <<>> /\ phase' = "idle"
        /\ UNCHANGED <<graph, tracked, unheard>>
    BY <1>28 DEF publish_done
  <2>2. \A e : Unwritten(buffered, e)
    BY <2>1 DEF Unwritten
  <2> QED
    BY <2>1, <2>2 DEF CapPart
<1>29. CASE read \/ UNCHANGED vars \/ \E n \in Capacities : resize(n)
  BY <1>2, <1>29 DEF read, vars, resize, batch
<1> QED
  BY <1>5, <1>6, <1>8, <1>10, <1>11, <1>12, <1>13, <1>14, <1>15, <1>18, <1>19, <1>20, <1>21,
     <1>22, <1>23, <1>24, <1>26, <1>27, <1>28, <1>29
  DEF Next, DirectCall, BatchStep

\* Between calls the graph says of a tracked creature what its body can do, once an input
\* of the body was written after the last change of its relations.
THEOREM WorldCapabilityCurrent == Spec => []CapabilityCurrent
<1>1. Init => CapPart
  BY DEF Init, CapPart
<1>2. CapPart => CapabilityCurrent
  BY DEF CapPart, CapabilityCurrent, Current
<1> QED
  BY <1>1, <1>2, CapPartKept, WorldTypeInv, PTL DEF Spec

-----------------------------------------------------------------------------
\* What the journal tells its reader

\* Where a property may be.
Slots == Ids \X Keys

\* An event takes the values a to the values b, and knows the one it replaces.
Step(a, event, b) ==
    /\ ~IsRelation(event) /\ <<event.entity, event.key>> \in Slots
    /\ event.prev = a[<<event.entity, event.key>>]
    /\ \A s \in Slots : b[s] = IF s = <<event.entity, event.key>> THEN event.value ELSE a[s]

\* The reader has lost nothing.
Caught(lg, rd) == rd.dropped = 0 /\ oldest_seq(lg) <= rd.next_seq

\* The unread events take the values in map to those in m, one after another.
Replay(q, lg, rd, map, m) ==
    /\ \A s \in Slots : q[rd.next_seq][s] = Lookup(map, s[1], s[2])
    /\ \A s \in Slots : q[lg.next_seq][s] = m[s]
    /\ \A seq \in rd.next_seq .. lg.next_seq - 1 : Step(q[seq], at_seq(lg, seq), q[seq + 1])

\* A reader that lost nothing can replay the values m.
Tells(lg, rd, map, m) == Caught(lg, rd) => \E q : Replay(q, lg, rd, map, m)

\* One more event journalled tells one more step.
LEMMA TellsEmit ==
  ASSUME NEW lg, LogOK(lg), NEW rd, rd.next_seq \in Nat, rd.next_seq <= lg.next_seq,
         NEW map, NEW m, Tells(lg, rd, map, m), NEW event, NEW k, Step(m, event, k),
         NEW h, h = emit_entry(lg, event)
  PROVE  Tells(h, rd, map, k)
<1> SUFFICES ASSUME Caught(h, rd) PROVE \E q : Replay(q, h, rd, map, k)
  BY DEF Tells
<1> DEFINE n == lg.next_seq
<1>1. /\ n \in Nat /\ h.next_seq = n + 1
      /\ oldest_seq(h) \in Nat /\ oldest_seq(lg) \in Nat
      /\ oldest_seq(lg) <= oldest_seq(h)
      /\ \A seq \in oldest_seq(h) .. n - 1 : at_seq(h, seq) = at_seq(lg, seq)
      /\ at_seq(h, n) = event
  <2>1. n \in Nat
    BY DEF LogOK
  <2> QED
    BY <2>1, EmitEntry
<1>2. Caught(lg, rd)
  BY <1>1 DEF Caught
<1>3. PICK q : Replay(q, lg, rd, map, m)
  BY <1>2 DEF Tells
<1> DEFINE p == [x \in 0 .. n + 1 |-> IF x = n + 1 THEN k ELSE q[x]]
<1>4. p[n + 1] = k /\ \A x \in 0 .. n : p[x] = q[x]
  BY <1>1
<1> HIDE DEF p
<1>5. \A s \in Slots : p[rd.next_seq][s] = Lookup(map, s[1], s[2])
  BY <1>1, <1>3, <1>4 DEF Replay
<1>6. \A s \in Slots : p[h.next_seq][s] = k[s]
  BY <1>1, <1>4
<1>7. ASSUME NEW seq \in rd.next_seq .. h.next_seq - 1
      PROVE  Step(p[seq], at_seq(h, seq), p[seq + 1])
  <2>1. CASE seq \in rd.next_seq .. n - 1
    <3>1. p[seq] = q[seq] /\ p[seq + 1] = q[seq + 1]
      BY <1>1, <1>4, <2>1
    <3>2. seq \in oldest_seq(h) .. n - 1
      BY <1>1, <2>1 DEF Caught
    <3>3. Step(q[seq], at_seq(lg, seq), q[seq + 1])
      BY <1>3, <2>1 DEF Replay
    <3> QED
      BY <1>1, <3>1, <3>2, <3>3
  <2>2. CASE seq = n
    <3>1. p[seq] = q[n] /\ p[seq + 1] = k /\ at_seq(h, seq) = event
      BY <1>1, <1>4, <2>2
    <3>2. \A s \in Slots : q[n][s] = m[s]
      BY <1>3 DEF Replay
    <3>3. Step(q[n], event, k)
      BY <3>2 DEF Step
    <3> QED
      BY <3>1, <3>3
  <2>3. seq \in rd.next_seq .. n - 1 \/ seq = n
    BY <1>1
  <2> QED
    BY <2>1, <2>2, <2>3
<1> QED
  BY <1>5, <1>6, <1>7 DEF Replay

\* Resizing the ring tells the reader the same, or makes it lose events.
LEMMA TellsResized ==
  ASSUME NEW lg, LogOK(lg), NEW rd, rd.next_seq \in Nat, rd.next_seq <= lg.next_seq,
         NEW map, NEW m, Tells(lg, rd, map, m), NEW n \in Nat \ {0},
         NEW h, h = set_capacity(lg, n)
  PROVE  Tells(h, rd, map, m)
<1> SUFFICES ASSUME Caught(h, rd) PROVE \E q : Replay(q, h, rd, map, m)
  BY DEF Tells
<1>1. /\ lg.next_seq \in Nat /\ h.next_seq = lg.next_seq
      /\ oldest_seq(h) \in Nat /\ oldest_seq(lg) \in Nat
      /\ oldest_seq(lg) <= oldest_seq(h)
      /\ \A seq \in oldest_seq(h) .. lg.next_seq - 1 : at_seq(h, seq) = at_seq(lg, seq)
  <2>1. lg.next_seq \in Nat
    BY DEF LogOK
  <2> QED
    BY <2>1, SetCapacity
<1>2. Caught(lg, rd)
  BY <1>1 DEF Caught
<1>3. PICK q : Replay(q, lg, rd, map, m)
  BY <1>2 DEF Tells
<1>4. \A seq \in rd.next_seq .. lg.next_seq - 1 : at_seq(h, seq) = at_seq(lg, seq)
  BY <1>1 DEF Caught
<1>5. Replay(q, h, rd, map, m)
  BY <1>1, <1>3, <1>4 DEF Replay
<1> QED
  BY <1>5

\* What a map with one slot written reads as.
LEMMA PutLookup ==
  ASSUME NEW map, NEW slot, NEW v, NEW e, NEW k
  PROVE  Lookup(Put(map, slot, v), e, k) = IF <<e, k>> = slot THEN v ELSE Lookup(map, e, k)
BY DEF Put, Lookup

\* After the own write-back it may have caused, an event leaves the journal telling the
\* values as they are.
LEMMA TellsPublished ==
  ASSUME NEW next \in Nat, next <= LastEntity + 1, NEW w, GraphOK(w.graph, next), LogOK(w.log),
         NEW rd, rd.next_seq \in Nat, rd.next_seq <= w.log.next_seq,
         NEW map, NEW m, Tells(w.log, rd, map, m),
         NEW event, ~IsRelation(event), event.entity \in Ids, event.key = Input,
         event.prev = m[<<event.entity, Input>>],
         m[<<Creature, Capability>>] = getProperty(w.graph, Creature, Capability),
         NEW r, r = emit(w, event)
  PROVE  \E k : /\ Tells(r.log, rd, map, k)
                /\ \A e \in Ids : k[<<e, Input>>] = IF e = event.entity THEN event.value
                                                    ELSE m[<<e, Input>>]
                /\ \A e \in Ids : e # Creature => k[<<e, Capability>>] = m[<<e, Capability>>]
                /\ k[<<Creature, Capability>>] = getProperty(r.graph, Creature, Capability)
<1>1. Input # Capability /\ Creature \in Ids
  BY WorldAssumption DEF Ids
<1> DEFINE slot == <<event.entity, Input>>
           own == <<Creature, Capability>>
<1>2. slot \in Slots /\ own \in Slots /\ slot # own
  BY <1>1 DEF Slots, Keys
<1>3. CASE r.graph = w.graph /\ r.log = emit_entry(w.log, event)
  <2> DEFINE k == [s \in Slots |-> IF s = slot THEN event.value ELSE m[s]]
  <2>1. \A s \in Slots : k[s] = IF s = slot THEN event.value ELSE m[s]
    OBVIOUS
  <2> HIDE DEF k
  <2>2. Step(m, event, k)
    BY <1>2, <2>1 DEF Step
  <2>3. Tells(r.log, rd, map, k)
    BY <1>3, <2>2, TellsEmit
  <2>4. \A e \in Ids : <<e, Input>> \in Slots /\ <<e, Capability>> \in Slots
    BY DEF Slots, Keys
  <2> QED
    BY <1>1, <1>2, <1>3, <2>1, <2>3, <2>4
<1>4. ASSUME NEW v,
             r.graph = setProperty(w.graph, Creature, Capability, v),
             v = compute_from_kg(w.graph),
             NEW self, self = [entity |-> Creature, key |-> Capability, value |-> v,
                               prev |-> getProperty(w.graph, Creature, Capability)],
             r.log = emit_entry(emit_entry(w.log, self), event)
      PROVE  \E k : /\ Tells(r.log, rd, map, k)
                    /\ \A e \in Ids : k[<<e, Input>>] = IF e = event.entity THEN event.value
                                                        ELSE m[<<e, Input>>]
                    /\ \A e \in Ids : e # Creature => k[<<e, Capability>>] = m[<<e, Capability>>]
                    /\ k[<<Creature, Capability>>] = getProperty(r.graph, Creature, Capability)
  <2> DEFINE c == [s \in Slots |-> IF s = own THEN v ELSE m[s]]
             k == [s \in Slots |-> IF s = slot THEN event.value ELSE c[s]]
             lg == emit_entry(w.log, self)
  <2>1. \A s \in Slots : c[s] = IF s = own THEN v ELSE m[s]
    OBVIOUS
  <2> HIDE DEF c
  <2>2. \A s \in Slots : k[s] = IF s = slot THEN event.value ELSE c[s]
    OBVIOUS
  <2> HIDE DEF k
  <2>3. Step(m, self, c)
    <3>1. self.entity = Creature /\ self.key = Capability /\ self.value = v
          /\ self.prev = m[own] /\ ~IsRelation(self)
      BY <1>4 DEF IsRelation
    <3> QED
      BY <1>2, <2>1, <3>1 DEF Step
  <2>4. Tells(lg, rd, map, c)
    BY <2>3, TellsEmit
  <2>5. LogOK(lg) /\ rd.next_seq <= lg.next_seq
    <3>1. LogOK(lg) /\ lg.next_seq = w.log.next_seq + 1
      BY EmitEntry
    <3>2. w.log.next_seq \in Nat
      BY DEF LogOK
    <3> QED
      BY <3>1, <3>2
  <2>6. Step(c, event, k)
    BY <1>2, <2>1, <2>2 DEF Step
  <2>7. r.log = emit_entry(lg, event)
    BY <1>4
  <2> HIDE DEF lg
  <2>8. Tells(r.log, rd, map, k)
    BY <2>4, <2>5, <2>6, <2>7, TellsEmit
  <2>9. getProperty(r.graph, Creature, Capability) = v
    <3>1. Creature \in w.graph.entities /\ Capability \in Keys /\ Fits(Capability, v)
      BY <1>4, ComputeFits DEF GraphOK, Keys
    <3> QED
      BY <1>4, <3>1, SetProperty
  <2>10. \A e \in Ids : <<e, Input>> \in Slots /\ <<e, Capability>> \in Slots
    BY DEF Slots, Keys
  <2>11. \A e \in Ids : k[<<e, Input>>] = IF e = event.entity THEN event.value
                                           ELSE m[<<e, Input>>]
    BY <1>1, <2>1, <2>2, <2>10
  <2>12. \A e \in Ids : e # Creature => k[<<e, Capability>>] = m[<<e, Capability>>]
    BY <1>1, <2>1, <2>2, <2>10
  <2>13. k[own] = v
    BY <1>2, <2>1, <2>2
  <2> QED
    BY <2>8, <2>9, <2>11, <2>12, <2>13
<1> DEFINE v == compute_from_kg(w.graph)
           self == [entity |-> Creature, key |-> Capability, value |-> v,
                    prev |-> getProperty(w.graph, Creature, Capability)]
<1>5. \/ r.graph = w.graph /\ r.log = emit_entry(w.log, event)
      \/ /\ r.graph = setProperty(w.graph, Creature, Capability, v)
         /\ r.log = emit_entry(emit_entry(w.log, self), event)
  BY EmitLog
<1> QED
  BY <1>3, <1>4, <1>5

\* So does a write-back by itself.
LEMMA TellsWrittenBack ==
  ASSUME NEW next \in Nat, next <= LastEntity + 1, NEW w, GraphOK(w.graph, next), LogOK(w.log),
         NEW rd, rd.next_seq \in Nat, rd.next_seq <= w.log.next_seq,
         NEW map, NEW m, Tells(w.log, rd, map, m),
         m[<<Creature, Capability>>] = getProperty(w.graph, Creature, Capability),
         NEW r, r = write_back(w)
  PROVE  \E k : /\ Tells(r.log, rd, map, k)
                /\ \A e \in Ids : k[<<e, Input>>] = m[<<e, Input>>]
                /\ \A e \in Ids : e # Creature => k[<<e, Capability>>] = m[<<e, Capability>>]
                /\ k[<<Creature, Capability>>] = getProperty(r.graph, Creature, Capability)
<1>1. Input # Capability /\ Creature \in Ids
  BY WorldAssumption DEF Ids
<1> DEFINE own == <<Creature, Capability>>
           v == compute_from_kg(w.graph)
           self == [entity |-> Creature, key |-> Capability, value |-> v,
                    prev |-> getProperty(w.graph, Creature, Capability)]
           c == [s \in Slots |-> IF s = own THEN v ELSE m[s]]
<1>2. \/ r = w
      \/ /\ r.graph = setProperty(w.graph, Creature, Capability, v)
         /\ r.log = emit_entry(w.log, self)
  BY WriteBackLog
<1>3. CASE r = w
  BY <1>3
<1>4. CASE /\ r.graph = setProperty(w.graph, Creature, Capability, v)
           /\ r.log = emit_entry(w.log, self)
  <2>1. \A s \in Slots : c[s] = IF s = own THEN v ELSE m[s]
    OBVIOUS
  <2>2. own \in Slots
    BY <1>1 DEF Slots, Keys
  <2>3. self.entity = Creature /\ self.key = Capability /\ self.value = v
        /\ self.prev = m[own] /\ ~IsRelation(self)
    BY DEF IsRelation
  <2> HIDE DEF c, self
  <2>4. Step(m, self, c)
    BY <2>1, <2>2, <2>3 DEF Step
  <2>5. Tells(r.log, rd, map, c)
    BY <1>4, <2>4, TellsEmit
  <2>6. getProperty(r.graph, Creature, Capability) = v
    <3>1. Creature \in w.graph.entities /\ Capability \in Keys /\ Fits(Capability, v)
      BY ComputeFits DEF GraphOK, Keys
    <3> QED
      BY <1>4, <3>1, SetProperty
  <2>7. \A e \in Ids : <<e, Input>> \in Slots /\ <<e, Capability>> \in Slots
    BY DEF Slots, Keys
  <2> QED
    BY <1>1, <2>1, <2>2, <2>5, <2>6, <2>7
<1> QED
  BY <1>2, <1>3, <1>4

\* The first n events lead from one value of p to the next.
Chain(p, events, n) == \A i \in 1 .. n : Step(p[i], events[i], p[i + 1])

\* The value before an event is the value of the last write before it.
LEMMA HeldIsReplayed ==
  ASSUME NEW n \in Nat, NEW events, NEW q,
         Chain(q, events, n),
         NEW e, NEW k, <<e, k>> \in Slots, NEW base, base = q[1][<<e, k>>]
  PROVE  \A i \in 1 .. n + 1 : HeldBefore(base, events, i, e, k) = q[i][<<e, k>>]
<1> DEFINE T(i) == {j \in 1 .. i - 1 : Writes(events[j], e, k)}
           Bad == {i \in 1 .. n + 1 : HeldBefore(base, events, i, e, k) # q[i][<<e, k>>]}
<1>1. \A i : HeldBefore(base, events, i, e, k) = IF T(i) = {} THEN base ELSE events[Max(T(i))].value
  BY DEF HeldBefore
<1>2. SUFFICES ASSUME Bad # {} PROVE FALSE
  OBVIOUS
<1>3. PICK i \in Bad : \A j \in Bad : i <= j
  <2>1. Bad \subseteq Nat
    OBVIOUS
  <2> HIDE DEF Bad
  <2> QED
    BY <1>2, <2>1, LeastNatural
<1>4. i \in 1 .. n + 1 /\ HeldBefore(base, events, i, e, k) # q[i][<<e, k>>]
  OBVIOUS
<1>5. CASE i = 1
  <2>1. T(1) = {}
    OBVIOUS
  <2> QED
    BY <1>1, <1>4, <1>5, <2>1
<1>6. CASE i # 1
  <2> DEFINE l == i - 1
  <2>1. l \in 1 .. n /\ i = l + 1 /\ l \notin Bad
    BY <1>3, <1>4, <1>6
  <2>2. HeldBefore(base, events, l, e, k) = q[l][<<e, k>>]
    BY <2>1
  <2>3. /\ ~IsRelation(events[l])
        /\ q[i][<<e, k>>] = IF <<e, k>> = <<events[l].entity, events[l].key>>
                            THEN events[l].value ELSE q[l][<<e, k>>]
    <3>1. Step(q[l], events[l], q[i])
      BY <2>1 DEF Chain
    <3> HIDE DEF l, Bad
    <3> QED
      BY <3>1 DEF Step
  <2> HIDE DEF l, Bad
  <2>4. CASE Writes(events[l], e, k)
    <3>1. T(i) \subseteq 1 .. l /\ l \in T(i)
      BY <2>1, <2>4
    <3>2. Max(T(i)) = l
      <4> DEFINE S == T(i)
      <4>1. S \subseteq 1 .. l /\ l \in S /\ l \in Nat
        BY <2>1, <3>1
      <4> HIDE DEF S
      <4>2. Max(S) \in S /\ \A x \in S : x <= Max(S)
        <5>1. S # {}
          BY <4>1
        <5> QED
          BY <4>1, <5>1, GreatestNatural
      <4>3. Max(S) = l
        <5>1. Max(S) \in 1 .. l
          BY <4>1, <4>2
        <5>2. l <= Max(S)
          BY <4>1, <4>2
        <5> QED
          BY <4>1, <5>1, <5>2
      <4> QED
        BY <4>3 DEF S
    <3>3. HeldBefore(base, events, i, e, k) = events[l].value
      BY <1>1, <3>1, <3>2
    <3>4. events[l].entity = e /\ events[l].key = k
      BY <2>4 DEF Writes
    <3> QED
      BY <1>4, <2>3, <3>3, <3>4
  <2>5. CASE ~Writes(events[l], e, k)
    <3>1. T(i) = T(l)
      BY <2>1, <2>5
    <3>2. HeldBefore(base, events, i, e, k) = q[l][<<e, k>>]
      BY <1>1, <2>2, <3>1
    <3>3. <<e, k>> # <<events[l].entity, events[l].key>>
      BY <2>3, <2>5 DEF Writes
    <3> QED
      BY <1>4, <2>3, <3>2, <3>3
  <2> QED
    BY <2>4, <2>5
<1> QED
  BY <1>5, <1>6

-----------------------------------------------------------------------------
\* What the journal has told is the graph, or becomes it with the batch's events

\* The input of e after an event.
After(x, e, old) == IF ~IsRelation(x) /\ e = x.entity THEN x.value ELSE old

\* b goes from the inputs in m through the values after each event, each of which knows
\* the value it replaces.
InputTrail(b, m, events) ==
    /\ \A e \in Ids : b[0][e] = m[<<e, Input>>]
    /\ \A i \in 1 .. Len(events) :
           /\ ~IsRelation(events[i]) => events[i].prev = b[i - 1][events[i].entity]
           /\ \A e \in Ids : b[i][e] = After(events[i], e, b[i - 1][e])

\* f has the inputs of g, and nothing for an id not given out.
InputsOf(f, g, next) ==
    /\ \A e \in g.entities : f[e] = getProperty(g, e, Input)
    /\ \A e \in Ids : e >= next => f[e] = NoValue

\* The values m are those of the graph.
Matches(m, g) == \A e \in g.entities, k \in Keys : m[<<e, k>>] = getProperty(g, e, k)

\* m is what all events journalled so far say.
Tracks(m) ==
    /\ \A e \in Ids, k \in Keys : e >= next_entity_id => m[<<e, k>>] = NoValue
    /\ phase = "idle" => Matches(m, graph)
    /\ phase \in {"applying", "undoing"} => Matches(m, before.graph)
    /\ phase \in {"applying", "publishing"} =>
           /\ \A e \in graph.entities : m[<<e, Capability>>] = getProperty(graph, e, Capability)
           /\ \E b : InputTrail(b, m, buffered)
                     /\ InputsOf(b[Len(buffered)], graph, next_entity_id)

\* The reader counts what it reads and what it lost, and what the journal tells it leads
\* to what all events said.
JournalPart ==
    /\ read_total \in Nat /\ read_total + reader.dropped = reader.next_seq
    /\ \E m : Tells(log, reader, told, m) /\ Tracks(m)

\* An event buffered, which knows the value it replaces, is a step of the trail,
LEMMA InputTrailGrows ==
  ASSUME NEW S, NEW events \in Seq(S), NEW b, NEW m, InputTrail(b, m, events), NEW x,
         ~IsRelation(x) => x.prev = b[Len(events)][x.entity]
  PROVE  \E c : /\ InputTrail(c, m, Append(events, x))
                /\ \A e \in Ids : c[Len(Append(events, x))][e] = After(x, e, b[Len(events)][e])
<1> DEFINE v == Append(events, x)
           n == Len(events) + 1
           last == [e \in Ids |-> After(x, e, b[Len(events)][e])]
           c == [i \in 0 .. n |-> IF i = n THEN last ELSE b[i]]
<1>1. /\ Len(events) \in Nat /\ Len(v) = n
      /\ \A i \in 1 .. Len(events) : v[i] = events[i]
      /\ v[n] = x
  BY AppendProperties
<1>2. \A e \in Ids : last[e] = After(x, e, b[Len(events)][e])
  OBVIOUS
<1> HIDE DEF last
<1>3. c[n] = last /\ \A i \in 0 .. Len(events) : c[i] = b[i]
  BY <1>1
<1> HIDE DEF v, c
<1>4. \A e \in Ids : c[0][e] = m[<<e, Input>>]
  BY <1>1, <1>3 DEF InputTrail
<1>5. ASSUME NEW i \in 1 .. Len(v)
      PROVE  /\ ~IsRelation(v[i]) => v[i].prev = c[i - 1][v[i].entity]
             /\ \A e \in Ids : c[i][e] = After(v[i], e, c[i - 1][e])
  <2>1. CASE i \in 1 .. Len(events)
    <3>1. v[i] = events[i] /\ c[i] = b[i] /\ c[i - 1] = b[i - 1]
      BY <1>1, <1>3, <2>1
    <3> QED
      BY <2>1, <3>1 DEF InputTrail
  <2>2. CASE i = n
    <3>1. v[i] = x /\ c[i] = last /\ c[i - 1] = b[Len(events)]
      BY <1>1, <1>3, <2>2
    <3> QED
      BY <1>2, <3>1
  <2> QED
    BY <1>1, <2>1, <2>2
<1>6. InputTrail(c, m, v)
  BY <1>4, <1>5 DEF InputTrail
<1>7. \A e \in Ids : c[Len(v)][e] = After(x, e, b[Len(events)][e])
  BY <1>1, <1>2, <1>3
<1> QED
  BY <1>6, <1>7 DEF v

\* and an event published is none of it any more.
LEMMA InputTrailShrinks ==
  ASSUME NEW S, NEW events \in Seq(S), events # <<>>, NEW b, NEW m, InputTrail(b, m, events),
         NEW k, \A e \in Ids : k[<<e, Input>>] = After(Head(events), e, m[<<e, Input>>])
  PROVE  \E c : /\ InputTrail(c, k, Tail(events))
                /\ c[Len(Tail(events))] = b[Len(events)]
<1> DEFINE n == Len(events)
           v == Tail(events)
           c == [i \in 0 .. n - 1 |-> b[i + 1]]
<1>1. /\ n \in Nat \ {0} /\ Len(v) = n - 1 /\ Head(events) = events[1]
      /\ \A i \in 1 .. n - 1 : v[i] = events[i + 1]
  <2>1. n \in Nat \ {0}
    BY EmptySeq
  <2> QED
    BY <2>1, HeadTailProperties
<1>2. \A i \in 0 .. n - 1 : c[i] = b[i + 1]
  OBVIOUS
<1> HIDE DEF v, c
<1>3. ASSUME NEW e \in Ids
      PROVE  c[0][e] = k[<<e, Input>>]
  <2>1. b[1][e] = After(events[1], e, b[1 - 1][e])
    BY <1>1 DEF InputTrail
  <2>2. b[1 - 1][e] = m[<<e, Input>>] /\ c[0] = b[1]
    BY <1>1, <1>2 DEF InputTrail
  <2> QED
    BY <1>1, <2>1, <2>2
<1>4. c[Len(v)] = b[n]
  BY <1>1, <1>2
<1>5. ASSUME NEW i \in 1 .. Len(v)
      PROVE  /\ ~IsRelation(v[i]) => v[i].prev = c[i - 1][v[i].entity]
             /\ \A e \in Ids : c[i][e] = After(v[i], e, c[i - 1][e])
  <2> DEFINE j == i + 1
  <2>1. j \in 1 .. n /\ c[i] = b[j] /\ c[i - 1] = b[j - 1] /\ v[i] = events[j]
    BY <1>1, <1>2
  <2> HIDE DEF j
  <2> QED
    BY <2>1 DEF InputTrail
<1>6. InputTrail(c, k, v)
  BY <1>3, <1>5 DEF InputTrail
<1> QED
  BY <1>4, <1>6 DEF v

\* A batch begins with nothing to tell.
LEMMA EmptyTrail ==
  ASSUME NEW m
  PROVE  \E b : InputTrail(b, m, <<>>) /\ \A e \in Ids : b[Len(<<>>)][e] = m[<<e, Input>>]
<1> DEFINE b == [i \in {0} |-> [e \in Ids |-> m[<<e, Input>>]]]
<1>1. \A e \in Ids : b[0][e] = m[<<e, Input>>]
  OBVIOUS
<1> HIDE DEF b
<1>2. Len(<<>>) = 0
  OBVIOUS
<1>3. InputTrail(b, m, <<>>)
  BY <1>1 DEF InputTrail
<1> QED
  BY <1>1, <1>2, <1>3

\* Synchronising counts what is skipped, and skips nothing if there is nothing to count.
LEMMA SyncCounts ==
  ASSUME LogPart
  PROVE  /\ sync(reader, log).next_seq \in Nat /\ sync(reader, log).dropped \in Nat
         /\ sync(reader, log).next_seq <= log.next_seq
         /\ sync(reader, log).dropped + reader.next_seq = reader.dropped + sync(reader, log).next_seq
         /\ sync(reader, log).dropped = 0 => sync(reader, log) = reader /\ Caught(log, reader)
<1>1. /\ log.next_seq \in Nat /\ log.size \in Nat /\ log.size <= log.next_seq
      /\ reader.next_seq \in Nat /\ reader.dropped \in Nat /\ reader.next_seq <= log.next_seq
      /\ oldest_seq(log) = log.next_seq - log.size
  BY DEF LogPart, LogOK, oldest_seq
<1>2. CASE reader.next_seq < oldest_seq(log)
  <2> DEFINE s == sync(reader, log)
  <2>1. s = [next_seq |-> oldest_seq(log),
             dropped |-> reader.dropped + oldest_seq(log) - reader.next_seq]
    BY <1>2 DEF sync
  <2> HIDE DEF s
  <2>2. /\ s.next_seq = oldest_seq(log)
        /\ s.dropped = reader.dropped + oldest_seq(log) - reader.next_seq
    BY <2>1
  <2>3. /\ s.next_seq \in Nat /\ s.dropped \in Nat /\ s.next_seq <= log.next_seq
        /\ s.dropped + reader.next_seq = reader.dropped + s.next_seq
        /\ s.dropped # 0
    BY <1>1, <1>2, <2>2
  <2> QED
    BY <2>3 DEF s
<1>3. CASE ~(reader.next_seq < oldest_seq(log))
  <2>1. sync(reader, log) = reader
    BY <1>3 DEF sync
  <2>2. oldest_seq(log) <= reader.next_seq
    BY <1>1, <1>3
  <2> QED
    BY <1>1, <2>1, <2>2 DEF Caught
<1> QED
  BY <1>2, <1>3

\* Reading an event moves the reader one step along the replay.
LEMMA TellsRead ==
  ASSUME LogPart, read, NEW m, Tells(log, reader, told, m)
  PROVE  Tells(log, reader', told', m)
<1> DEFINE n == reader.next_seq
           event == at_seq(log, n)
           rd == reader'
           map == told'
<1>1. /\ sync(reader, log).next_seq < log.next_seq
      /\ rd = [next_seq |-> sync(reader, log).next_seq + 1, dropped |-> sync(reader, log).dropped]
  BY ReadEffect
<1>2. rd.dropped = sync(reader, log).dropped /\ rd.next_seq = sync(reader, log).next_seq + 1
  BY <1>1
<1> SUFFICES ASSUME Caught(log, rd) PROVE \E q : Replay(q, log, rd, map, m)
  BY DEF Tells
<1>3. /\ sync(reader, log) = reader /\ Caught(log, reader) /\ rd.next_seq = n + 1
      /\ n \in Nat /\ n < log.next_seq /\ log.next_seq \in Nat
      /\ sync(reader, log).dropped = 0
  BY <1>1, <1>2, SyncCounts DEF Caught, LogPart, LogOK
<1>4. map = Put(told, <<event.entity, event.key>>, event.value)
  <2> DEFINE events == unread(reader, log)
  <2>1. events = [i \in 1 .. log.next_seq - n |-> at_seq(log, n + i - 1)]
    BY DEF unread
  <2>2. 1 \in 1 .. log.next_seq - n /\ n + 1 - 1 = n
    BY <1>3
  <2>3. events[1] = event
    BY <2>1, <2>2
  <2>4. told' = Put(told, <<Head(events).entity, Head(events).key>>, Head(events).value)
    BY <1>3 DEF read
  <2>5. Head(events) = events[1]
    OBVIOUS
  <2> QED
    BY <2>3, <2>4, <2>5
<1>5. PICK q : Replay(q, log, reader, told, m)
  BY <1>3 DEF Tells
<1>6. Step(q[n], event, q[n + 1])
  BY <1>3, <1>5 DEF Replay
<1> HIDE DEF rd, map, event
<1>7. ASSUME NEW s \in Slots
      PROVE  q[rd.next_seq][s] = Lookup(map, s[1], s[2])
  <2>1. s = <<s[1], s[2]>>
    BY DEF Slots
  <2>2. Lookup(map, s[1], s[2]) = IF s = <<event.entity, event.key>> THEN event.value
                                  ELSE Lookup(told, s[1], s[2])
    BY <1>4, <2>1, PutLookup
  <2>3. q[n][s] = Lookup(told, s[1], s[2])
    BY <1>5 DEF Replay
  <2>4. q[n + 1][s] = IF s = <<event.entity, event.key>> THEN event.value ELSE q[n][s]
    BY <1>6 DEF Step
  <2> QED
    BY <1>3, <2>2, <2>3, <2>4
<1>8. \A seq \in rd.next_seq .. log.next_seq - 1 : Step(q[seq], at_seq(log, seq), q[seq + 1])
  BY <1>3, <1>5 DEF Replay
<1>9. \A s \in Slots : q[log.next_seq][s] = m[s]
  BY <1>5 DEF Replay
<1>10. Replay(q, log, rd, map, m)
  BY <1>7, <1>8, <1>9 DEF Replay
<1> QED
  BY <1>10

\* What does not exist has no property.
LEMMA NoSuchEntity ==
  ASSUME NEW next, NEW g, GraphOK(g, next), NEW e, e \notin g.entities, NEW k
  PROVE  getProperty(g, e, k) = NoValue
BY HasProperty

\* JournalPart is inductive relative to TypeInv.
LEMMA JournalPartKept == TypeInv /\ JournalPart /\ [Next]_vars => JournalPart'
<1> SUFFICES ASSUME TypeInv, JournalPart, [Next]_vars PROVE JournalPart'
  OBVIOUS
<1>1. /\ GraphPart /\ BatchPart /\ LogPart /\ GraphOK(graph, next_entity_id)
      /\ next_entity_id \in Nat /\ next_entity_id <= LastEntity + 1
      /\ Creature < next_entity_id /\ Creature \in graph.entities
      /\ graph.entities \subseteq Ids /\ \A e \in graph.entities : e < next_entity_id
      /\ buffered \in Seq(BatchEvents(next_entity_id))
      /\ phase = "idle" => buffered = <<>>
      /\ Input \in Keys /\ Capability \in Keys /\ Input # Capability /\ Creature \in Ids
      /\ \A k \in Keys : k = Input \/ k = Capability
  <2>1. GraphPart /\ BatchPart /\ LogPart /\ GraphOK(graph, next_entity_id)
    BY DEF TypeInv, GraphPart
  <2>2. /\ next_entity_id \in Nat /\ next_entity_id <= LastEntity + 1
        /\ Creature < next_entity_id /\ graph.entities \subseteq Ids
    BY <2>1, IdTypes
  <2>3. Creature \in graph.entities /\ graph.entities \subseteq Creature .. next_entity_id - 1
    BY <2>1 DEF GraphOK
  <2>4. \A e \in graph.entities : e < next_entity_id
    BY <2>2, <2>3, WorldAssumption
  <2>5. /\ buffered \in Seq(BatchEvents(next_entity_id))
        /\ phase = "idle" => buffered = <<>>
    BY <2>1 DEF BatchPart, BatchEvents
  <2>6. /\ Input \in Keys /\ Capability \in Keys /\ Input # Capability
        /\ \A k \in Keys : k = Input \/ k = Capability
    BY WorldAssumption DEF Keys
  <2> QED
    BY <2>1, <2>2, <2>3, <2>4, <2>5, <2>6
<1>37. /\ \A e \in graph.entities, f \in Ids : f >= next_entity_id => f # e
       /\ \A f \in Ids : f >= next_entity_id => f # Creature
       /\ \A e, f \in Ids : e < next_entity_id /\ f >= next_entity_id => f # e
  BY <1>1 DEF Ids
<1>2. LogOK(log) /\ reader.next_seq \in Nat /\ reader.next_seq <= log.next_seq
  BY <1>1 DEF LogPart
<1>3. PICK m : Tells(log, reader, told, m) /\ Tracks(m)
  BY DEF JournalPart
<1>4. read_total \in Nat /\ read_total + reader.dropped = reader.next_seq
  BY DEF JournalPart
<1>5. ASSUME UNCHANGED <<reader, read_total>>, NEW k, Tells(log', reader, told', k), Tracks(k)'
      PROVE  JournalPart'
  BY <1>4, <1>5 DEF JournalPart
<1>6. ASSUME UNCHANGED <<log, reader, told, read_total>>, Tracks(m)'
      PROVE  JournalPart'
  BY <1>3, <1>5, <1>6
<1>7. \A e \in Ids, k \in Keys : e >= next_entity_id => m[<<e, k>>] = NoValue
  BY <1>3 DEF Tracks
<1>8. phase = "idle" => Matches(m, graph)
  BY <1>3 DEF Tracks
\* Single calls
<1>9. ASSUME phase = "idle", phase' = "idle", NEW k, Matches(k, graph'),
             \A e \in Ids, l \in Keys : e >= next_entity_id' => k[<<e, l>>] = NoValue
      PROVE  Tracks(k)'
  BY <1>9 DEF Tracks
<1>10. ASSUME NEW e \in graph.entities, NEW v, NEW h, GraphOK(h, next_entity_id),
              InputWritten(graph, h, e, v),
              \A f : getProperty(h, f, Capability) = getProperty(graph, f, Capability),
              NEW event,
              event = [entity |-> e, key |-> Input, value |-> v,
                       prev |-> getProperty(graph, e, Input)],
              graph' = emit(World(h), event).graph, log' = emit(World(h), event).log,
              phase = "idle", UNCHANGED <<phase, next_entity_id, reader, told, read_total>>
       PROVE  JournalPart'
  <2> DEFINE w == World(h)
             r == emit(w, event)
  <2>1. w.graph = h /\ w.log = log
    BY DEF World
  <2>2. event.entity = e /\ event.key = Input /\ event.value = v /\ ~IsRelation(event)
        /\ event.prev = getProperty(graph, e, Input)
    BY <1>10 DEF IsRelation
  <2>3. graph' = r.graph /\ log' = r.log
    BY <1>10
  <2> HIDE DEF w
  <2>4. /\ InputWritten(graph, r.graph, e, v)
        /\ \A f : f # Creature => getProperty(r.graph, f, Capability) = getProperty(graph, f, Capability)
    <3> DEFINE g == r.graph
    <3>1. g = emit(w, event).graph
      OBVIOUS
    <3> HIDE DEF g
    <3>2. /\ InputWritten(graph, g, e, v)
          /\ \A f : f # Creature => getProperty(g, f, Capability) = getProperty(graph, f, Capability)
      BY <1>1, <1>10, <2>1, <2>2, <3>1, PublishedWrite
    <3> QED
      BY <3>2 DEF g
  <2>5. /\ event.prev = m[<<event.entity, Input>>]
        /\ m[<<Creature, Capability>>] = getProperty(w.graph, Creature, Capability)
    BY <1>1, <1>8, <1>10, <2>1, <2>2 DEF Matches
  <2>6. event.entity \in Ids
    BY <1>1, <2>2
  <2> HIDE DEF r
  <2>7. PICK k : /\ Tells(r.log, reader, told, k)
                 /\ \A f \in Ids : k[<<f, Input>>] = IF f = event.entity THEN event.value
                                                     ELSE m[<<f, Input>>]
                 /\ \A f \in Ids : f # Creature => k[<<f, Capability>>] = m[<<f, Capability>>]
                 /\ k[<<Creature, Capability>>] = getProperty(r.graph, Creature, Capability)
    <3>1. r = emit(w, event)
      BY DEF r
    <3>2. GraphOK(w.graph, next_entity_id) /\ LogOK(w.log) /\ reader.next_seq <= w.log.next_seq
          /\ Tells(w.log, reader, told, m)
      BY <1>2, <1>3, <1>10, <2>1
    <3>3. next_entity_id \in Nat /\ next_entity_id <= LastEntity + 1 /\ reader.next_seq \in Nat
      BY <1>1, <1>2
    <3>4. ~IsRelation(event) /\ event.key = Input
      BY <2>2
    <3> QED
      BY <2>5, <2>6, <3>1, <3>2, <3>3, <3>4, TellsPublished, SMTT(30)
  <2>8. Matches(k, r.graph)
    <3>1. r.graph.entities = graph.entities
      BY <2>4 DEF InputWritten
    <3>2. ASSUME NEW f \in graph.entities
          PROVE  k[<<f, Input>>] = getProperty(r.graph, f, Input)
      BY <1>1, <1>8, <1>10, <2>2, <2>4, <2>7 DEF Matches, InputWritten
    <3>3. ASSUME NEW f \in graph.entities
          PROVE  k[<<f, Capability>>] = getProperty(r.graph, f, Capability)
      <4>1. CASE f = Creature
        BY <2>7, <4>1
      <4>2. CASE f # Creature
        BY <1>1, <1>8, <1>10, <2>4, <2>7, <4>2 DEF Matches
      <4> QED
        BY <4>1, <4>2
    <3> QED
      BY <1>1, <3>1, <3>2, <3>3 DEF Matches
  <2>9. ASSUME NEW f \in Ids, NEW l \in Keys, f >= next_entity_id
        PROVE  k[<<f, l>>] = NoValue
    <3>1. f # Creature /\ f # e
      BY <1>37, <2>9
    <3> QED
      BY <1>1, <1>7, <2>2, <2>7, <2>9, <3>1
  <2>10. Matches(k, graph')
    BY <2>3, <2>8
  <2>11. Tracks(k)'
    BY <1>9, <1>10, <2>9, <2>10
  <2> QED
    BY <1>5, <1>10, <2>3, <2>7, <2>11
<1>11. ASSUME NEW e \in Ids, NEW v \in Values, set_property(e, v)
       PROVE  JournalPart'
  <2> DEFINE h == setProperty(graph, e, Input, v)
             event == [entity |-> e, key |-> Input, value |-> v,
                       prev |-> getProperty(graph, e, Input)]
  <2>1. /\ GraphOK(h, next_entity_id) /\ InputWritten(graph, h, e, v)
        /\ \A f : getProperty(h, f, Capability) = getProperty(graph, f, Capability)
        /\ graph' = emit(World(h), event).graph
        /\ log' = emit(World(h), event).log
        /\ e \in graph.entities
    BY <1>1, <1>11, SetPropertyEffect
  <2>2. phase = "idle" /\ UNCHANGED <<phase, next_entity_id, reader, told, read_total>>
    BY <1>11 DEF set_property, batch
  <2>3. event = [entity |-> e, key |-> Input, value |-> v, prev |-> getProperty(graph, e, Input)]
    OBVIOUS
  <2> HIDE DEF h, event
  <2> QED
    BY <1>10, <2>1, <2>2, <2>3
<1>12. ASSUME NEW e \in Ids, remove_property(e)
       PROVE  JournalPart'
  <2> DEFINE h == removeProperty(graph, e, Input)
             event == [entity |-> e, key |-> Input, value |-> NoValue,
                       prev |-> getProperty(graph, e, Input)]
  <2>1. /\ GraphOK(h, next_entity_id) /\ InputWritten(graph, h, e, NoValue)
        /\ \A f : getProperty(h, f, Capability) = getProperty(graph, f, Capability)
        /\ graph' = emit(World(h), event).graph
        /\ log' = emit(World(h), event).log
        /\ e \in graph.entities
    BY <1>1, <1>12, RemovePropertyEffect
  <2>2. phase = "idle" /\ UNCHANGED <<phase, next_entity_id, reader, told, read_total>>
    BY <1>12 DEF remove_property, batch
  <2>3. event = [entity |-> e, key |-> Input, value |-> NoValue,
                 prev |-> getProperty(graph, e, Input)]
    OBVIOUS
  <2> HIDE DEF h, event
  <2> QED
    BY <1>10, <2>1, <2>2, <2>3
<1>13. CASE create_entity
  <2>1. /\ graph'.entities = graph.entities \cup {next_entity_id}
        /\ next_entity_id' = next_entity_id + 1
        /\ \A f, l : getProperty(graph', f, l) = getProperty(graph, f, l)
        /\ next_entity_id \notin graph.entities
        /\ next_entity_id + 1 \in Creature + 1 .. LastEntity + 1
    BY <1>1, <1>13, CreateEffect
  <2>2. phase = "idle" /\ UNCHANGED <<phase, log, reader, told, read_total>>
    BY <1>13 DEF create_entity, batch
  <2>3. next_entity_id \in Ids
    BY <1>1, <2>1, WorldAssumption DEF Ids
  <2>4. ASSUME NEW e \in graph'.entities, NEW k \in Keys
        PROVE  m[<<e, k>>] = getProperty(graph', e, k)
    <3>1. CASE e \in graph.entities
      BY <1>8, <2>1, <2>2, <3>1 DEF Matches
    <3>2. CASE e = next_entity_id
      <4>1. getProperty(graph, e, k) = NoValue
        BY <1>1, <2>1, <3>2, NoSuchEntity
      <4> QED
        BY <1>1, <1>7, <2>1, <2>3, <3>2, <4>1
    <3> QED
      BY <2>1, <3>1, <3>2
  <2>5. Matches(m, graph')
    BY <2>4 DEF Matches
  <2>6. \A e \in Ids, l \in Keys : e >= next_entity_id' => m[<<e, l>>] = NoValue
    BY <1>1, <1>7, <2>1 DEF Ids
  <2> QED
    BY <1>6, <1>9, <2>2, <2>5, <2>6
<1>14. ASSUME phase = "idle", UNCHANGED <<phase, next_entity_id, log, reader, told, read_total>>,
              graph'.entities \subseteq graph.entities,
              \A e \in graph'.entities, l \in Keys : getProperty(graph', e, l) = getProperty(graph, e, l)
       PROVE  JournalPart'
  <2>1. Matches(m, graph')
    BY <1>8, <1>14 DEF Matches
  <2> QED
    BY <1>6, <1>7, <1>9, <1>14, <2>1
<1>15. ASSUME NEW e \in Ids, destroy_entity(e)
       PROVE  JournalPart'
  BY <1>1, <1>14, <1>15, DestroyEffect DEF destroy_entity, batch
<1>16. ASSUME NEW e \in Ids, NEW f \in Ids, create_relation(e, f)
       PROVE  JournalPart'
  BY <1>1, <1>14, <1>16, CreateRelationEffect DEF create_relation, batch
<1>17. ASSUME NEW e \in Ids, NEW f \in Ids, destroy_relation(e, f)
       PROVE  JournalPart'
  BY <1>1, <1>14, <1>17, DestroyRelationEffect DEF destroy_relation, batch
<1>18. CASE track
  <2> DEFINE w == World(graph)
             r == write_back(w)
  <2>1. w.graph = graph /\ w.log = log
    BY DEF World
  <2>2. /\ phase = "idle" /\ UNCHANGED <<phase, next_entity_id, reader, told, read_total>>
        /\ graph' = r.graph /\ log' = r.log
    BY <1>18 DEF track, batch, Becomes
  <2>3. SameButCapability(graph, graph')
    BY <1>1, <1>18, TrackEffect
  <2>4. m[<<Creature, Capability>>] = getProperty(w.graph, Creature, Capability)
    BY <1>1, <1>8, <2>1, <2>2 DEF Matches
  <2> HIDE DEF w
  <2>5. r = write_back(w)
    OBVIOUS
  <2> HIDE DEF r
  <2>6. PICK k : /\ Tells(r.log, reader, told, k)
                 /\ \A e \in Ids : k[<<e, Input>>] = m[<<e, Input>>]
                 /\ \A e \in Ids : e # Creature => k[<<e, Capability>>] = m[<<e, Capability>>]
                 /\ k[<<Creature, Capability>>] = getProperty(r.graph, Creature, Capability)
    <3>1. GraphOK(w.graph, next_entity_id) /\ LogOK(w.log) /\ reader.next_seq <= w.log.next_seq
          /\ Tells(w.log, reader, told, m)
      BY <1>1, <1>2, <1>3, <2>1
    <3>2. next_entity_id \in Nat /\ next_entity_id <= LastEntity + 1 /\ reader.next_seq \in Nat
      BY <1>1, <1>2
    <3> QED
      BY <2>4, <2>5, <3>1, <3>2, TellsWrittenBack, SMTT(30)
  <2>7. ASSUME NEW e \in graph.entities, NEW l \in Keys
        PROVE  k[<<e, l>>] = getProperty(graph', e, l)
    <3>1. CASE e = Creature /\ l = Capability
      BY <2>2, <2>6, <3>1
    <3>2. CASE ~(e = Creature /\ l = Capability)
      <4>1. k[<<e, l>>] = m[<<e, l>>]
        BY <1>1, <2>6, <3>2
      <4>2. getProperty(graph', e, l) = getProperty(graph, e, l)
        BY <2>3, <3>2 DEF SameButCapability
      <4> QED
        BY <1>8, <2>2, <4>1, <4>2 DEF Matches
    <3> QED
      BY <3>1, <3>2
  <2>8. Matches(k, graph')
    BY <2>3, <2>7 DEF Matches, SameButCapability
  <2>9. \A e \in Ids, l \in Keys : e >= next_entity_id => k[<<e, l>>] = NoValue
    BY <1>1, <1>7, <1>37, <2>6 DEF Keys
  <2>10. Tracks(k)'
    BY <1>9, <2>2, <2>8, <2>9
  <2> QED
    BY <1>5, <2>2, <2>6, <2>10
<1>19. CASE untrack
  BY <1>14, <1>19 DEF untrack, batch
\* Batches
<1>20. CASE begin_batch
  <2>1. /\ phase = "idle" /\ phase' = "applying" /\ before'.graph = graph
        /\ UNCHANGED <<graph, next_entity_id, buffered, log, reader, told, read_total>>
    BY <1>20 DEF begin_batch
  <2>2. PICK b : InputTrail(b, m, <<>>) /\ \A e \in Ids : b[Len(<<>>)][e] = m[<<e, Input>>]
    BY EmptyTrail
  <2>3. InputsOf(b[Len(<<>>)], graph, next_entity_id)
    BY <1>1, <1>7, <1>8, <2>1, <2>2 DEF InputsOf, Matches
  <2>4. Matches(m, graph) /\ buffered = <<>>
    BY <1>1, <1>8, <2>1
  <2>5. Tracks(m)'
    BY <1>1, <1>7, <2>1, <2>2, <2>3, <2>4 DEF Tracks, Matches
  <2> QED
    BY <1>6, <2>1, <2>5
<1>21. ASSUME phase = "applying"
       PROVE  /\ Matches(m, before.graph)
              /\ \A e \in graph.entities : m[<<e, Capability>>] = getProperty(graph, e, Capability)
              /\ \E b : InputTrail(b, m, buffered)
                        /\ InputsOf(b[Len(buffered)], graph, next_entity_id)
  BY <1>3, <1>21 DEF Tracks
<1>22. ASSUME phase = "applying", UNCHANGED <<phase, before, log, reader, told, read_total>>,
              next_entity_id <= next_entity_id', next_entity_id' \in Nat,
              \A e \in graph'.entities : m[<<e, Capability>>] = getProperty(graph', e, Capability),
              NEW b, InputTrail(b, m, buffered'),
              InputsOf(b[Len(buffered')], graph', next_entity_id')
       PROVE  JournalPart'
  <2>1. \A e \in Ids, l \in Keys : e >= next_entity_id' => m[<<e, l>>] = NoValue
    BY <1>1, <1>7, <1>22 DEF Ids
  <2>2. Tracks(m)'
    BY <1>21, <1>22, <2>1 DEF Tracks
  <2> QED
    BY <1>6, <1>22, <2>2
<1>23. ASSUME NEW v \in Values \cup {NoValue}, op_create(v)
       PROVE  JournalPart'
  <2> DEFINE n == next_entity_id
             x == [entity |-> n, key |-> Input, value |-> v, prev |-> NoValue]
  <2>1. /\ graph'.entities = graph.entities \cup {n} /\ next_entity_id' = n + 1
        /\ n + 1 \in Creature + 1 .. LastEntity + 1
        /\ getProperty(graph, n, Input) = NoValue
        /\ getProperty(graph', n, Input) = v
        /\ \A f, l : f # n \/ l # Input => getProperty(graph', f, l) = getProperty(graph, f, l)
    BY <1>1, <1>23, OpCreateEffect DEF OpEffect
  <2>2. /\ phase = "applying" /\ UNCHANGED <<phase, before, log, reader, told, read_total>>
    BY <1>23 DEF op_create, Operation
  <2>3. /\ v = NoValue => buffered' = buffered
        /\ v # NoValue => buffered' = Append(buffered, x)
    BY <1>1, <1>23, OpCreateEvents
  <2>4. n \in Ids /\ n \notin graph.entities
    BY <1>1, <2>1, WorldAssumption DEF Ids
  <2>5. \A e \in graph'.entities : m[<<e, Capability>>] = getProperty(graph', e, Capability)
    <3>1. getProperty(graph, n, Capability) = NoValue
      BY <1>1, <2>4, NoSuchEntity
    <3>2. m[<<n, Capability>>] = NoValue
      BY <1>1, <1>7, <2>4
    <3> QED
      BY <1>1, <1>21, <2>1, <2>2, <3>1, <3>2
  <2>6. PICK b : InputTrail(b, m, buffered) /\ InputsOf(b[Len(buffered)], graph, n)
    BY <1>21, <2>2
  <2>7. x.entity = n /\ x.value = v /\ x.prev = NoValue /\ ~IsRelation(x)
    BY DEF IsRelation
  <2>8. b[Len(buffered)][n] = NoValue
    BY <1>1, <2>4, <2>6 DEF InputsOf
  <2> HIDE DEF x
  <2>9. ASSUME NEW last, \A e \in Ids : last[e] = IF e = n THEN v ELSE b[Len(buffered)][e]
        PROVE  InputsOf(last, graph', n + 1)
    <3>1. ASSUME NEW e \in graph'.entities
          PROVE  last[e] = getProperty(graph', e, Input)
      <4>1. CASE e = n
        BY <2>1, <2>4, <2>9, <4>1
      <4>2. CASE e # n
        BY <1>1, <2>1, <2>6, <2>9, <4>2 DEF InputsOf
      <4> QED
        BY <4>1, <4>2
    <3>2. ASSUME NEW e \in Ids, e >= n + 1
          PROVE  last[e] = NoValue
      <4>1. e # n /\ e >= n
        BY <1>1, <3>2 DEF Ids
      <4> QED
        BY <2>6, <2>9, <4>1 DEF InputsOf
    <3> QED
      BY <3>1, <3>2 DEF InputsOf
  <2>10. CASE v = NoValue
    <3>1. InputsOf(b[Len(buffered)], graph', n + 1)
      BY <2>8, <2>9, <2>10
    <3>2. InputTrail(b, m, buffered') /\ InputsOf(b[Len(buffered')], graph', next_entity_id')
      BY <2>1, <2>3, <2>6, <2>10, <3>1
    <3> QED
      BY <1>1, <1>22, <2>1, <2>2, <2>5, <3>2
  <2>11. CASE v # NoValue
    <3>1. buffered' = Append(buffered, x)
      BY <2>3, <2>11
    <3>2. PICK c : /\ InputTrail(c, m, Append(buffered, x))
                   /\ \A e \in Ids : c[Len(Append(buffered, x))][e] = After(x, e, b[Len(buffered)][e])
      BY <1>1, <2>6, <2>7, <2>8, InputTrailGrows
    <3>3. InputsOf(c[Len(Append(buffered, x))], graph', n + 1)
      BY <2>7, <2>9, <3>2 DEF After
    <3>4. InputTrail(c, m, buffered') /\ InputsOf(c[Len(buffered')], graph', next_entity_id')
      BY <2>1, <3>1, <3>2, <3>3
    <3> QED
      BY <1>1, <1>22, <2>1, <2>2, <2>5, <3>4
  <2> QED
    BY <2>10, <2>11
<1>24. ASSUME NEW e \in Ids, NEW v \in Values, op_set_property(e, v)
       PROVE  JournalPart'
  <2> DEFINE prev == getProperty(graph, e, Input)
             x == [entity |-> e, key |-> Input, value |-> v, prev |-> prev]
  <2>1. /\ graph'.entities = graph.entities /\ next_entity_id' = next_entity_id
        /\ e \in graph.entities
        /\ getProperty(graph', e, Input) = v
        /\ \A f : f # e => getProperty(graph', f, Input) = getProperty(graph, f, Input)
        /\ \A f : getProperty(graph', f, Capability) = getProperty(graph, f, Capability)
    BY <1>1, <1>24, OpSetPropertyEffect DEF OpEffect, InputWritten
  <2>2. /\ phase = "applying" /\ UNCHANGED <<phase, before, log, reader, told, read_total>>
    BY <1>24 DEF op_set_property, Operation
  <2>3. /\ v = prev => buffered' = buffered
        /\ v # prev => buffered' = Append(buffered, x)
    BY <1>1, <1>24, OpSetPropertyEvents
  <2>4. \A f \in graph'.entities : m[<<f, Capability>>] = getProperty(graph', f, Capability)
    BY <1>21, <2>1, <2>2
  <2>5. PICK b : InputTrail(b, m, buffered) /\ InputsOf(b[Len(buffered)], graph, next_entity_id)
    BY <1>21, <2>2
  <2>6. x.entity = e /\ x.value = v /\ x.prev = prev /\ ~IsRelation(x)
    BY DEF IsRelation
  <2>7. b[Len(buffered)][e] = prev
    BY <2>1, <2>5 DEF InputsOf
  <2> HIDE DEF x, prev
  <2>8. ASSUME NEW last, \A f \in Ids : last[f] = IF f = e THEN v ELSE b[Len(buffered)][f]
        PROVE  InputsOf(last, graph', next_entity_id)
    <3>1. ASSUME NEW f \in graph'.entities
          PROVE  last[f] = getProperty(graph', f, Input)
      BY <1>1, <2>1, <2>5, <2>8 DEF InputsOf
    <3>2. ASSUME NEW f \in Ids, f >= next_entity_id
          PROVE  last[f] = NoValue
      <4>1. f # e
        BY <1>37, <2>1, <3>2
      <4> QED
        BY <2>5, <2>8, <3>2, <4>1 DEF InputsOf
    <3> QED
      BY <3>1, <3>2 DEF InputsOf
  <2>9. next_entity_id <= next_entity_id' /\ next_entity_id' \in Nat
    BY <1>1, <2>1
  <2>10. CASE v = prev
    <3>1. InputsOf(b[Len(buffered)], graph', next_entity_id)
      BY <2>7, <2>8, <2>10
    <3>2. InputTrail(b, m, buffered') /\ InputsOf(b[Len(buffered')], graph', next_entity_id')
      BY <2>1, <2>3, <2>5, <2>10, <3>1
    <3> QED
      BY <1>22, <2>2, <2>4, <2>9, <3>2
  <2>11. CASE v # prev
    <3>1. buffered' = Append(buffered, x)
      BY <2>3, <2>11
    <3>2. PICK c : /\ InputTrail(c, m, Append(buffered, x))
                   /\ \A f \in Ids : c[Len(Append(buffered, x))][f] = After(x, f, b[Len(buffered)][f])
      BY <1>1, <2>5, <2>6, <2>7, InputTrailGrows
    <3>3. InputsOf(c[Len(Append(buffered, x))], graph', next_entity_id)
      BY <2>6, <2>8, <3>2 DEF After
    <3>4. InputTrail(c, m, buffered') /\ InputsOf(c[Len(buffered')], graph', next_entity_id')
      BY <2>1, <3>1, <3>2, <3>3
    <3> QED
      BY <1>22, <2>2, <2>4, <2>9, <3>4
  <2> QED
    BY <2>10, <2>11
<1>25. ASSUME NEW e \in Ids, NEW f \in Ids, op_set_relation(e, f)
       PROVE  JournalPart'
  <2> DEFINE x == [from |-> e, to |-> f]
  <2>1. /\ graph'.entities = graph.entities /\ next_entity_id' = next_entity_id
        /\ \A d, l : getProperty(graph', d, l) = getProperty(graph, d, l)
    BY <1>1, <1>25, OpSetRelationEffect DEF OpEffect
  <2>2. /\ phase = "applying" /\ UNCHANGED <<phase, before, log, reader, told, read_total>>
    BY <1>25 DEF op_set_relation, Operation
  <2>3. buffered' = Append(buffered, x)
    BY <1>1, <1>25, OpSetRelationEvents
  <2>4. IsRelation(x)
    BY DEF IsRelation
  <2> HIDE DEF x
  <2>5. PICK b : InputTrail(b, m, buffered) /\ InputsOf(b[Len(buffered)], graph, next_entity_id)
    BY <1>21, <2>2
  <2>6. PICK c : /\ InputTrail(c, m, Append(buffered, x))
                 /\ \A d \in Ids : c[Len(Append(buffered, x))][d] = After(x, d, b[Len(buffered)][d])
    BY <1>1, <2>4, <2>5, InputTrailGrows
  <2>7. \A d \in Ids : c[Len(Append(buffered, x))][d] = b[Len(buffered)][d]
    BY <2>4, <2>6 DEF After
  <2>8. InputsOf(c[Len(Append(buffered, x))], graph', next_entity_id)
    BY <1>1, <2>1, <2>5, <2>7 DEF InputsOf
  <2>9. InputTrail(c, m, buffered') /\ InputsOf(c[Len(buffered')], graph', next_entity_id')
    BY <2>1, <2>3, <2>6, <2>8
  <2>10. \A d \in graph'.entities : m[<<d, Capability>>] = getProperty(graph', d, Capability)
    BY <1>21, <2>1, <2>2
  <2> QED
    BY <1>1, <1>22, <2>1, <2>2, <2>9, <2>10
<1>26. CASE batch_fails \/ undo_one
  <2>1. /\ phase \in {"applying", "undoing"} /\ phase' = "undoing"
        /\ UNCHANGED <<before, next_entity_id, log, reader, told, read_total>>
    BY <1>26 DEF batch_fails, undo_one
  <2>2. Tracks(m)'
    BY <1>3, <2>1 DEF Tracks
  <2> QED
    BY <1>6, <2>1, <2>2
<1>27. CASE undo_done
  <2>1. /\ phase = "undoing" /\ phase' = "idle" /\ undo = <<>>
        /\ UNCHANGED <<graph, next_entity_id, log, reader, told, read_total>>
    BY <1>27 DEF undo_done
  <2>2. PICK t : Trail(t, before.graph, undo, graph, next_entity_id)
    BY <2>1 DEF TypeInv, TrailPart
  <2>3. graph = before.graph
    BY <2>1, <2>2 DEF Trail
  <2>4. Matches(m, graph)
    BY <1>3, <2>1, <2>3 DEF Tracks
  <2>5. Tracks(m)'
    BY <1>7, <2>1, <2>4 DEF Tracks
  <2> QED
    BY <1>6, <2>1, <2>5
<1>28. CASE batch_succeeds
  <2>1. /\ phase = "applying" /\ phase' = "publishing"
        /\ UNCHANGED <<graph, buffered, next_entity_id, log, reader, told, read_total>>
    BY <1>28 DEF batch_succeeds
  <2>2. Tracks(m)'
    BY <1>3, <2>1 DEF Tracks
  <2> QED
    BY <1>6, <2>1, <2>2
<1>29. ASSUME phase = "publishing"
       PROVE  /\ \A e \in graph.entities : m[<<e, Capability>>] = getProperty(graph, e, Capability)
              /\ \E b : InputTrail(b, m, buffered)
                        /\ InputsOf(b[Len(buffered)], graph, next_entity_id)
  BY <1>3, <1>29 DEF Tracks
<1>30. ASSUME phase = "publishing", phase' = phase, UNCHANGED next_entity_id,
              buffered # <<>>, buffered' = Tail(buffered), graph'.entities = graph.entities,
              \A e \in graph.entities : getProperty(graph', e, Input) = getProperty(graph, e, Input),
              NEW k, \A e \in Ids : k[<<e, Input>>] = After(Head(buffered), e, m[<<e, Input>>]),
              \A e \in graph.entities : k[<<e, Capability>>] = getProperty(graph', e, Capability),
              \A e \in Ids, l \in Keys : e >= next_entity_id => k[<<e, l>>] = NoValue
       PROVE  Tracks(k)'
  <2>1. PICK b : InputTrail(b, m, buffered) /\ InputsOf(b[Len(buffered)], graph, next_entity_id)
    BY <1>29, <1>30
  <2>2. PICK c : InputTrail(c, k, Tail(buffered)) /\ c[Len(Tail(buffered))] = b[Len(buffered)]
    BY <1>1, <1>30, <2>1, InputTrailShrinks
  <2>3. InputsOf(c[Len(Tail(buffered))], graph', next_entity_id)
    BY <1>30, <2>1, <2>2 DEF InputsOf
  <2> QED
    BY <1>30, <2>2, <2>3 DEF Tracks
<1>31. CASE publish_property
  <2> DEFINE w == World(graph)
             event == Head(buffered)
             r == emit(w, event)
  <2>1. /\ event \in PropertyEvents(next_entity_id)
        /\ SameButCapability(graph, graph')
        /\ graph' = r.graph /\ log' = r.log
    BY <1>1, <1>31, PublishEffect
  <2>2. /\ phase = "publishing" /\ phase' = phase /\ buffered # <<>> /\ buffered' = Tail(buffered)
        /\ ~IsRelation(event) /\ UNCHANGED <<next_entity_id, reader, told, read_total>>
    BY <1>31 DEF publish_property
  <2>3. w.graph = graph /\ w.log = log
    BY DEF World
  <2>4. event.entity \in Creature .. next_entity_id - 1 /\ event.key = Input
    BY <2>1 DEF PropertyEvents
  <2>5. event.entity \in Ids /\ event.entity < next_entity_id
    BY <1>1, <2>4, WorldAssumption DEF Ids
  <2>6. PICK b : InputTrail(b, m, buffered)
    BY <1>29, <2>2
  <2>7. event.prev = m[<<event.entity, Input>>]
    <3>1. Len(buffered) \in Nat \ {0} /\ event = buffered[1]
      BY <1>1, <2>2, EmptySeq
    <3>2. buffered[1].prev = b[1 - 1][buffered[1].entity]
      BY <2>2, <2>6, <3>1 DEF InputTrail
    <3>3. b[1 - 1][event.entity] = m[<<event.entity, Input>>]
      BY <2>5, <2>6 DEF InputTrail
    <3> QED
      BY <3>1, <3>2, <3>3
  <2>8. m[<<Creature, Capability>>] = getProperty(w.graph, Creature, Capability)
    BY <1>1, <1>29, <2>2, <2>3
  <2>9. r = emit(w, event)
    OBVIOUS
  <2> HIDE DEF w, event, r
  <2>10. PICK k : /\ Tells(r.log, reader, told, k)
                  /\ \A f \in Ids : k[<<f, Input>>] = IF f = event.entity THEN event.value
                                                      ELSE m[<<f, Input>>]
                  /\ \A f \in Ids : f # Creature => k[<<f, Capability>>] = m[<<f, Capability>>]
                  /\ k[<<Creature, Capability>>] = getProperty(r.graph, Creature, Capability)
    <3>1. GraphOK(w.graph, next_entity_id) /\ LogOK(w.log) /\ reader.next_seq <= w.log.next_seq
          /\ Tells(w.log, reader, told, m)
      BY <1>1, <1>2, <1>3, <2>3
    <3>2. next_entity_id \in Nat /\ next_entity_id <= LastEntity + 1 /\ reader.next_seq \in Nat
      BY <1>1, <1>2
    <3>3. ~IsRelation(event) /\ event.key = Input /\ event.entity \in Ids
      BY <2>2, <2>4, <2>5
    <3> QED
      BY <2>7, <2>8, <2>9, <3>1, <3>2, <3>3, TellsPublished, SMTT(30)
  <2>11. \A e \in Ids : k[<<e, Input>>] = After(event, e, m[<<e, Input>>])
    BY <2>2, <2>10 DEF After
  <2>12. ASSUME NEW e \in graph.entities
         PROVE  k[<<e, Capability>>] = getProperty(graph', e, Capability)
    <3>1. CASE e = Creature
      BY <2>1, <2>10, <3>1
    <3>2. CASE e # Creature
      <4>1. getProperty(graph', e, Capability) = getProperty(graph, e, Capability)
        BY <2>1, <3>2 DEF SameButCapability
      <4> QED
        BY <1>1, <1>29, <2>2, <2>10, <3>2, <4>1
    <3> QED
      BY <3>1, <3>2
  <2>13. ASSUME NEW e \in Ids, NEW l \in Keys, e >= next_entity_id
         PROVE  k[<<e, l>>] = NoValue
    <3>1. e # Creature /\ e # event.entity
      BY <1>37, <2>5, <2>13
    <3> QED
      BY <1>1, <1>7, <2>10, <2>13, <3>1
  <2>14. /\ graph'.entities = graph.entities
         /\ \A e \in graph.entities : getProperty(graph', e, Input) = getProperty(graph, e, Input)
    BY <1>1, <2>1 DEF SameButCapability
  <2>15. Tracks(k)'
    BY <1>30, <2>2, <2>11, <2>12, <2>13, <2>14 DEF event
  <2> QED
    BY <1>5, <2>1, <2>2, <2>10, <2>15
<1>32. CASE publish_relation
  <2>1. /\ phase = "publishing" /\ phase' = phase /\ buffered # <<>> /\ buffered' = Tail(buffered)
        /\ IsRelation(Head(buffered))
        /\ UNCHANGED <<graph, next_entity_id, log, reader, told, read_total>>
    BY <1>32 DEF publish_relation
  <2>2. \A e \in Ids : m[<<e, Input>>] = After(Head(buffered), e, m[<<e, Input>>])
    BY <2>1 DEF After
  <2>3. /\ graph'.entities = graph.entities
        /\ \A e \in graph.entities : getProperty(graph', e, Input) = getProperty(graph, e, Input)
        /\ \A e \in graph.entities : m[<<e, Capability>>] = getProperty(graph', e, Capability)
    BY <1>29, <2>1
  <2>4. Tracks(m)'
    BY <1>7, <1>30, <2>1, <2>2, <2>3
  <2> QED
    BY <1>6, <2>1, <2>4
<1>33. CASE publish_done
  <2>1. /\ phase = "publishing" /\ buffered = <<>> /\ phase' = "idle"
        /\ UNCHANGED <<graph, next_entity_id, log, reader, told, read_total>>
    BY <1>33 DEF publish_done
  <2>2. PICK b : InputTrail(b, m, buffered) /\ InputsOf(b[Len(buffered)], graph, next_entity_id)
    BY <1>29, <2>1
  <2>3. \A e \in graph.entities : m[<<e, Input>>] = getProperty(graph, e, Input)
    BY <1>1, <2>1, <2>2 DEF InputTrail, InputsOf
  <2>4. Matches(m, graph)
    BY <1>1, <1>29, <2>1, <2>3 DEF Matches
  <2>5. Tracks(m)'
    BY <1>7, <2>1, <2>4 DEF Tracks
  <2> QED
    BY <1>6, <2>1, <2>5
\* The reader
<1>34. CASE read
  <2>1. Tells(log, reader', told', m)
    BY <1>1, <1>3, <1>34, TellsRead
  <2>2. phase = "idle" /\ UNCHANGED <<graph, next_entity_id, log, batch>> /\ read_total' = read_total + 1
    BY <1>34 DEF read
  <2>3. Tracks(m)'
    BY <1>7, <1>8, <1>9, <2>2 DEF batch
  <2>4. read_total' \in Nat /\ read_total' + reader'.dropped = reader'.next_seq
    <3>1. /\ reader'.next_seq = sync(reader, log).next_seq + 1
          /\ reader'.dropped = sync(reader, log).dropped
      BY <1>1, <1>34, ReadEffect
    <3>2. /\ sync(reader, log).next_seq \in Nat /\ sync(reader, log).dropped \in Nat
          /\ sync(reader, log).dropped + reader.next_seq = reader.dropped + sync(reader, log).next_seq
      BY <1>1, SyncCounts
    <3>3. reader.dropped \in Nat
      BY <1>1 DEF LogPart
    <3> QED
      BY <1>2, <1>4, <2>2, <3>1, <3>2, <3>3
  <2>5. Tells(log', reader', told', m)
    BY <2>1, <2>2
  <2> QED
    BY <2>3, <2>4, <2>5 DEF JournalPart
<1>35. ASSUME NEW n \in Capacities, resize(n)
       PROVE  JournalPart'
  <2>1. /\ phase = "idle" /\ n \in Nat \ {0} /\ log' = set_capacity(log, n)
        /\ UNCHANGED <<graph, next_entity_id, reader, told, read_total, batch>>
    BY <1>35, WorldAssumption DEF resize
  <2>2. Tells(log', reader, told, m)
    BY <1>2, <1>3, <2>1, TellsResized
  <2>3. Tracks(m)'
    BY <1>7, <1>8, <1>9, <2>1 DEF batch
  <2> QED
    BY <1>5, <2>1, <2>2, <2>3
<1>36. CASE UNCHANGED vars
  BY <1>3, <1>6, <1>36 DEF vars, batch, Tracks
<1> QED
  BY <1>11, <1>12, <1>13, <1>15, <1>16, <1>17, <1>18, <1>19, <1>20, <1>23, <1>24, <1>25, <1>26,
     <1>27, <1>28, <1>31, <1>32, <1>33, <1>34, <1>35, <1>36
  DEF Next, DirectCall, BatchStep

\* At first there is nothing to tell.
LEMMA InitJournalPart == Init => JournalPart
<1> SUFFICES ASSUME Init PROVE JournalPart
  OBVIOUS
<1>1. /\ TypeInv
      /\ log.next_seq = 0 /\ reader.next_seq = 0 /\ reader.dropped = 0
  BY InitTypeInv DEF Init, EmptyLog, create_reader
<1>2. /\ phase = "idle" /\ read_total = 0 /\ told = <<>>
      /\ graph = createEntity(EmptyGraph, Creature)
  BY DEF Init
<1>3. \A e, k : getProperty(graph, e, k) = NoValue
  <2>1. graph.properties = <<>>
    BY <1>2 DEF createEntity, EmptyGraph
  <2>2. \A s : s \notin DOMAIN <<>>
    OBVIOUS
  <2> QED
    BY <2>1, <2>2 DEF getProperty, hasProperty
<1>4. \A e, k : Lookup(told, e, k) = NoValue
  <2>1. \A s : s \notin DOMAIN <<>>
    OBVIOUS
  <2> QED
    BY <1>2, <2>1 DEF Lookup
<1>5. graph.entities \subseteq Ids
  BY <1>1, IdTypes DEF TypeInv, GraphPart, GraphOK, Ids
<1> DEFINE m == [s \in Slots |-> NoValue]
           q == [i \in {0} |-> m]
<1>6. \A e \in Ids, k \in Keys : m[<<e, k>>] = NoValue
  BY DEF Slots
<1>7. q[0] = m /\ \A s \in Slots : m[s] = NoValue
  OBVIOUS
<1> HIDE DEF m, q
<1>8. Replay(q, log, reader, told, m)
  BY <1>1, <1>4, <1>7 DEF Replay
<1>9. Tells(log, reader, told, m)
  BY <1>8 DEF Tells
<1>10. Tracks(m)
  BY <1>2, <1>3, <1>5, <1>6 DEF Tracks, Matches
<1> QED
  BY <1>1, <1>2, <1>9, <1>10 DEF JournalPart

\* The values before the unread events are those of a replay.
LEMMA HeldWhileReplayed ==
  ASSUME NEW lg, NEW rd, lg.next_seq \in Nat, rd.next_seq \in Nat, rd.next_seq <= lg.next_seq,
         NEW map, NEW m, NEW q, Replay(q, lg, rd, map, m),
         NEW events, events = unread(rd, lg)
  PROVE  \E n, p : /\ n = lg.next_seq - rd.next_seq
                   /\ Chain(p, events, n)
                   /\ \A s \in Slots : p[n + 1][s] = m[s]
                   /\ \A e, k : <<e, k>> \in Slots =>
                          \A i \in 1 .. n + 1 : HeldBefore(Lookup(map, e, k), events, i, e, k)
                                               = p[i][<<e, k>>]
<1> DEFINE n == lg.next_seq - rd.next_seq
           p == [i \in 1 .. n + 1 |-> q[rd.next_seq + i - 1]]
<1>6. \A i \in 1 .. n + 1 : p[i] = q[rd.next_seq + i - 1]
  OBVIOUS
<1> HIDE DEF p
<1>1. n \in Nat /\ \A i \in 1 .. n : events[i] = at_seq(lg, rd.next_seq + i - 1)
  BY DEF unread
<1>2. /\ p[1] = q[rd.next_seq] /\ p[n + 1] = q[lg.next_seq]
  <2>1. 1 \in 1 .. n + 1 /\ n + 1 \in 1 .. n + 1 /\ rd.next_seq + 1 - 1 = rd.next_seq
        /\ rd.next_seq + (n + 1) - 1 = lg.next_seq
    BY <1>1
  <2> QED
    BY <1>6, <2>1
<1>3. ASSUME NEW i \in 1 .. n
      PROVE  Step(p[i], events[i], p[i + 1])
  <2> DEFINE seq == rd.next_seq + i - 1
  <2>1. seq \in rd.next_seq .. lg.next_seq - 1 /\ i \in 1 .. n + 1 /\ i + 1 \in 1 .. n + 1
        /\ rd.next_seq + (i + 1) - 1 = seq + 1
    BY <1>1
  <2>2. p[i] = q[seq] /\ p[i + 1] = q[seq + 1] /\ events[i] = at_seq(lg, seq)
    BY <1>1, <1>6, <2>1
  <2> HIDE DEF seq
  <2> QED
    BY <2>1, <2>2 DEF Replay
<1>7. n = lg.next_seq - rd.next_seq
  OBVIOUS
<1> HIDE DEF n
<1>4. ASSUME NEW e, NEW k, <<e, k>> \in Slots
      PROVE  \A i \in 1 .. n + 1 : HeldBefore(Lookup(map, e, k), events, i, e, k)
                                   = p[i][<<e, k>>]
  <2>1. Lookup(map, e, k) = p[1][<<e, k>>]
    BY <1>2, <1>4 DEF Replay
  <2>2. Chain(p, events, n)
    BY <1>3 DEF Chain
  <2> QED
    BY <1>1, <1>4, <2>1, <2>2, HeldIsReplayed
<1>5. \A s \in Slots : p[n + 1][s] = m[s]
  BY <1>2 DEF Replay
<1> QED
  BY <1>3, <1>4, <1>5, <1>7 DEF Chain

\* The two invariants give the property.
LEMMA JournalPartMeans ==
  ASSUME TypeInv, JournalPart
  PROVE  ReaderMissesNothing
<1> DEFINE s == sync(reader, log)
           events == Unread
           n == log.next_seq - reader.next_seq
           Held(i, e, k) == HeldBefore(Lookup(told, e, k), events, i, e, k)
<1>1. /\ LogPart /\ GraphPart /\ log.next_seq \in Nat /\ reader.next_seq \in Nat
      /\ reader.next_seq <= log.next_seq
      /\ graph.entities \subseteq Ids
  BY IdTypes DEF TypeInv, LogPart, LogOK, GraphPart, GraphOK, Ids
<1>2. /\ s.next_seq \in Nat /\ s.dropped \in Nat /\ s.next_seq <= log.next_seq
      /\ s.dropped + reader.next_seq = reader.dropped + s.next_seq
      /\ s.dropped = 0 => s = reader /\ Caught(log, reader)
  BY <1>1, SyncCounts
<1>3. read_total \in Nat /\ read_total + reader.dropped = reader.next_seq
  BY DEF JournalPart
<1>4. reader.dropped \in Nat
  BY <1>1 DEF LogPart
<1>5. /\ events = [i \in 1 .. log.next_seq - s.next_seq |-> at_seq(log, s.next_seq + i - 1)]
      /\ Len(events) = log.next_seq - s.next_seq
      /\ DOMAIN events = 1 .. log.next_seq - s.next_seq
  <2>1. events = [i \in 1 .. log.next_seq - s.next_seq |-> at_seq(log, s.next_seq + i - 1)]
    BY DEF Unread, unread
  <2> HIDE DEF events, s
  <2>2. log.next_seq - s.next_seq \in Nat
    BY <1>1, <1>2
  <2> QED
    BY <2>1, <2>2
<1>6. read_total + s.dropped + Len(events) = log.next_seq
  <2> DEFINE a == s.dropped
             b == s.next_seq
             c == Len(events)
  <2>1. /\ a \in Nat /\ b \in Nat /\ a + reader.next_seq = reader.dropped + b
        /\ c = log.next_seq - b
    BY <1>2, <1>5
  <2> HIDE DEF a, b, c
  <2>2. read_total + a + c = log.next_seq
    BY <1>1, <1>3, <1>4, <2>1
  <2> QED
    BY <2>2 DEF a, c
<1> HIDE DEF s
<1>7. ASSUME phase = "idle", s.dropped = 0
      PROVE  /\ \A i \in DOMAIN events :
                    events[i].prev = Held(i, events[i].entity, events[i].key)
             /\ \A e \in graph.entities, k \in {Input, Capability} :
                    Held(Len(events) + 1, e, k) = getProperty(graph, e, k)
  <2>1. s = reader /\ Caught(log, reader)
    BY <1>2, <1>7
  <2>2. PICK m : Tells(log, reader, told, m) /\ Tracks(m)
    BY DEF JournalPart
  <2>3. PICK q : Replay(q, log, reader, told, m)
    BY <2>1, <2>2 DEF Tells
  <2>4. Matches(m, graph)
    BY <1>7, <2>2 DEF Tracks
  <2>5. /\ n \in Nat /\ Len(events) = n /\ DOMAIN events = 1 .. n
        /\ events = unread(reader, log)
    BY <1>1, <1>5, <2>1 DEF Unread, s
  <2> HIDE DEF events
  <2>6. PICK p : /\ Chain(p, events, n)
                 /\ \A slot \in Slots : p[n + 1][slot] = m[slot]
                 /\ \A e, k : <<e, k>> \in Slots =>
                        \A i \in 1 .. n + 1 : Held(i, e, k) = p[i][<<e, k>>]
    BY <1>1, <2>3, <2>5, HeldWhileReplayed
  <2> HIDE DEF n
  <2> HIDE DEF Held
  <2>9. ASSUME NEW i \in DOMAIN events
        PROVE  events[i].prev = Held(i, events[i].entity, events[i].key)
    <3>1. i \in 1 .. n /\ i \in 1 .. n + 1
      BY <2>5
    <3>2. /\ <<events[i].entity, events[i].key>> \in Slots
          /\ events[i].prev = p[i][<<events[i].entity, events[i].key>>]
      BY <2>6, <3>1 DEF Chain, Step
    <3> QED
      BY <2>6, <3>1, <3>2
  <2>10. ASSUME NEW e \in graph.entities, NEW k \in {Input, Capability}
         PROVE  Held(Len(events) + 1, e, k) = getProperty(graph, e, k)
    <3>1. <<e, k>> \in Slots /\ k \in Keys
      BY <1>1 DEF Slots, Keys
    <3>2. Held(n + 1, e, k) = p[n + 1][<<e, k>>]
      BY <2>5, <2>6, <3>1
    <3>3. p[n + 1][<<e, k>>] = m[<<e, k>>]
      BY <2>6, <3>1
    <3> QED
      BY <2>4, <2>5, <3>1, <3>2, <3>3 DEF Matches
  <2> QED
    BY <2>9, <2>10
<1> QED
  BY <1>6, <1>7 DEF ReaderMissesNothing, s

\* A reader misses nothing: the events it was given, those it knows to have lost and those
\* unread are all; and one that lost none is told each value with the one before it, and
\* in the end the graph's properties, over single writes, batches, write-backs nested in
\* them and a ring of changing size.
THEOREM WorldReaderMissesNothing == Spec => []ReaderMissesNothing
<1>1. Init => TypeInv /\ JournalPart
  BY InitTypeInv, InitJournalPart
<1>2. TypeInv /\ JournalPart /\ [Next]_vars => JournalPart'
  BY JournalPartKept
<1>3. TypeInv /\ JournalPart => ReaderMissesNothing
  BY JournalPartMeans
<1>4. Spec => []TypeInv
  BY WorldTypeInv
<1> QED
  BY <1>1, <1>2, <1>3, <1>4, PTL DEF Spec
=============================================================================
