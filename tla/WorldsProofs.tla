----------------------------- MODULE WorldsProofs -----------------------------
(* Worlds, for any number of worlds, slots and players: handles, slots and    *)
(* relations hold whatever is spawned, possessed, removed, moved to another   *)
(* world or reloaded. The inductive invariant is WorldsInv: each action has a *)
(* lemma that it keeps it, names nothing twice and takes nobody's entity away *)
(* (StepIsSound). Lands are arguments of the lemmas, so that a step made of   *)
(* several changes (marks, then insertions) is proved change by change.       *)
EXTENDS Worlds, FiniteSetTheorems, FunctionTheorems, SequenceTheorems, WellFoundedInduction, TLAPS

-----------------------------------------------------------------------------
\* What a land is, and which handles find something in it.

LandType == [Lands -> [at : [Ids -> Entity \cup {NoEntity}], free : Seq(Ids), gen : Nat \ {0}]]
SlotsOK(l) ==
  \A w \in Lands : /\ IsInjective(l[w].free)
                   /\ Range(l[w].free) = {i \in Ids : l[w].at[i] = NoEntity}
SoundLand(l) == l \in LandType /\ SlotsOK(l)

Grows(l, m) ==
  /\ \A w \in Lands : l[w].gen <= m[w].gen
  /\ \A h \in AnyHandle : Finds(m, h) => Finds(l, h) \/ (l[h[1]].gen <= h[3] /\ h[3] < m[h[1]].gen)

\* The same slots taken by the same names.
SameNames(l, m) ==
  /\ m \in LandType
  /\ \A w \in Lands : /\ m[w].free = l[w].free /\ m[w].gen = l[w].gen
                      /\ \A i \in Ids : /\ m[w].at[i] = NoEntity <=> l[w].at[i] = NoEntity
                                        /\ l[w].at[i] # NoEntity => m[w].at[i].gen = l[w].at[i].gen

LEMMA SoundSlots ==
  ASSUME NEW l \in LandType
  PROVE  /\ \A w \in Lands : /\ l[w].at \in [Ids -> Entity \cup {NoEntity}]
                             /\ l[w].free \in Seq(Ids) /\ l[w].gen \in Nat \ {0}
                             /\ l[w] = [at |-> l[w].at, free |-> l[w].free, gen |-> l[w].gen]
         /\ \A w \in Lands, i \in Ids : l[w].at[i] \in Entity \cup {NoEntity}
         /\ DOMAIN l = Lands
  <1>1. \A w \in Lands : l[w] \in [at : [Ids -> Entity \cup {NoEntity}], free : Seq(Ids), gen : Nat \ {0}]
    BY DEF LandType
  <1>2. \A w \in Lands : l[w].at \in [Ids -> Entity \cup {NoEntity}]
    BY <1>1
  <1>3. \A w \in Lands, i \in Ids : l[w].at[i] \in Entity \cup {NoEntity}
    BY <1>2
  <1> QED
    BY <1>1, <1>2, <1>3 DEF LandType

LEMMA HandleParts ==
  ASSUME NEW h \in AnyHandle
  PROVE  /\ h[1] \in Lands /\ h[2] \in Ids /\ h[3] \in Nat \ {0} /\ h # NoHandle
         /\ h = <<h[1], h[2], h[3]>>
  BY WorldsAssumption DEF AnyHandle

LEMMA EntityFields ==
  ASSUME NEW e \in Entity
  PROVE  /\ e.gen \in Nat \ {0}
         /\ e.kind \in {"flower", "mob", "body", "petal", "shot", "summon", "chain"}
         /\ e.of \in SUBSET AnyHandle /\ e.parts \in SUBSET AnyHandle
         /\ e.tags \in SUBSET {"owned", "summons"} /\ e.marked \in BOOLEAN
         /\ e # NoEntity
         /\ e = [gen |-> e.gen, kind |-> e.kind, of |-> e.of, parts |-> e.parts, tags |-> e.tags, marked |-> e.marked]
  <1>1. e # NoEntity
    BY WorldsAssumption
  <1> QED
    BY <1>1 DEF Entity

LEMMA FoundAreEntities ==
  ASSUME NEW l \in LandType, NEW h \in AnyHandle, Finds(l, h)
  PROVE  At(l, h) \in Entity /\ At(l, h).gen = h[3]
  <1>1. l[h[1]].at[h[2]] \in Entity \cup {NoEntity}
    BY SoundSlots, HandleParts
  <1> QED
    BY <1>1 DEF Finds, At

LEMMA FindsSlot ==
  ASSUME NEW l \in LandType, NEW h \in AnyHandle
  PROVE  Finds(l, h) <=> (l[h[1]].at[h[2]] # NoEntity /\ l[h[1]].at[h[2]].gen = h[3])
  BY HandleParts DEF Finds, At

LEMMA HandlesAreFound ==
  ASSUME NEW l \in LandType
  PROVE  /\ Handles(l) = {h \in AnyHandle : Finds(l, h)}
         /\ \A w \in Lands : HandlesIn(l, w) = {h \in AnyHandle : Finds(l, h) /\ h[1] = w}
  <1>1. ASSUME NEW w \in Lands
        PROVE  HandlesIn(l, w) = {h \in AnyHandle : Finds(l, h) /\ h[1] = w}
    <2>1. ASSUME NEW h \in HandlesIn(l, w)
          PROVE  h \in AnyHandle /\ Finds(l, h) /\ h[1] = w
      <3>1. PICK i \in Ids : l[w].at[i] # NoEntity /\ h = <<w, i, l[w].at[i].gen>>
        BY DEF HandlesIn, GetHandle
      <3>2. l[w].at[i] \in Entity
        BY <3>1, SoundSlots
      <3>3. h \in AnyHandle
        BY <3>1, <3>2, EntityFields DEF AnyHandle
      <3>4. h[1] = w /\ h[2] = i /\ h[3] = l[w].at[i].gen
        BY <3>1
      <3> QED
        BY <3>1, <3>3, <3>4, FindsSlot
    <2>2. ASSUME NEW h \in AnyHandle, Finds(l, h), h[1] = w
          PROVE  h \in HandlesIn(l, w)
      <3>1. h[2] \in Ids /\ l[w].at[h[2]] # NoEntity /\ l[w].at[h[2]].gen = h[3]
        BY <2>2, FindsSlot, HandleParts
      <3>2. h = <<w, h[2], l[w].at[h[2]].gen>>
        BY <2>2, <3>1, HandleParts
      <3> QED
        BY <3>1, <3>2 DEF HandlesIn, GetHandle
    <2> QED
      BY <2>1, <2>2
  <1>2. Handles(l) \subseteq {h \in AnyHandle : Finds(l, h)}
    BY <1>1 DEF Handles
  <1>3. ASSUME NEW h \in AnyHandle, Finds(l, h)
        PROVE  h \in Handles(l)
    <2>1. h[1] \in Lands /\ h \in HandlesIn(l, h[1])
      BY <1>1, <1>3, HandleParts
    <2> QED
      BY <2>1 DEF Handles
  <1> QED
    BY <1>1, <1>2, <1>3

LEMMA SameNamesSound ==
  ASSUME NEW l, SoundLand(l), NEW m, SameNames(l, m)
  PROVE  /\ SoundLand(m) /\ Grows(l, m)
         /\ \A w \in Lands : m[w].free = l[w].free /\ m[w].gen = l[w].gen
         /\ \A h \in AnyHandle : Finds(m, h) <=> Finds(l, h)
  <1> USE DEF SoundLand
  <1>0. \A w \in Lands : m[w].free = l[w].free /\ m[w].gen = l[w].gen
    BY DEF SameNames
  <1>1. m \in LandType
    BY DEF SameNames
  <1>2. SlotsOK(m)
    <2> SUFFICES ASSUME NEW w \in Lands
                 PROVE  IsInjective(m[w].free) /\ Range(m[w].free) = {i \in Ids : m[w].at[i] = NoEntity}
      BY DEF SlotsOK
    <2>1. {i \in Ids : m[w].at[i] = NoEntity} = {i \in Ids : l[w].at[i] = NoEntity}
      BY DEF SameNames
    <2> QED
      BY <2>1, <1>0 DEF SlotsOK
  <1>3. ASSUME NEW h \in AnyHandle PROVE Finds(m, h) <=> Finds(l, h)
    BY <1>1, FindsSlot, HandleParts DEF SameNames
  <1>4. Grows(l, m)
    <2>1. \A w \in Lands : l[w].gen <= m[w].gen
      <3>1. \A w \in Lands : l[w].gen \in Nat
        BY SoundSlots
      <3> QED
        BY <1>0, <3>1
    <2> QED
      BY <2>1, <1>3 DEF Grows
  <1> QED
    BY <1>0, <1>1, <1>2, <1>3, <1>4

LEMMA GrowsTransitive ==
  ASSUME NEW l \in LandType, NEW m \in LandType, NEW n \in LandType, Grows(l, m), Grows(m, n)
  PROVE  Grows(l, n)
  <1>1. \A w \in Lands : l[w].gen \in Nat /\ m[w].gen \in Nat /\ n[w].gen \in Nat
    BY SoundSlots
  <1>2. \A w \in Lands : l[w].gen <= m[w].gen /\ m[w].gen <= n[w].gen
    BY DEF Grows
  <1>3. \A w \in Lands : l[w].gen <= n[w].gen
    BY <1>1, <1>2
  <1>4. ASSUME NEW h \in AnyHandle, Finds(n, h), ~Finds(l, h)
        PROVE  l[h[1]].gen <= h[3] /\ h[3] < n[h[1]].gen
    <2>1. h[1] \in Lands /\ h[3] \in Nat
      BY HandleParts
    <2>2. CASE Finds(m, h)
      BY <1>1, <1>2, <1>4, <2>1, <2>2 DEF Grows
    <2>3. CASE ~Finds(m, h)
      BY <1>1, <1>2, <1>4, <2>1, <2>3 DEF Grows
    <2> QED
      BY <2>2, <2>3
  <1> QED
    BY <1>3, <1>4 DEF Grows

-----------------------------------------------------------------------------
\* Rewriting and marking entities where they stand.

\* A slot of the world w rewritten.
Rewritten(l, h, e) == [l EXCEPT ![h[1]].at[h[2]] = e]

LEMMA RewrittenIs ==
  ASSUME NEW l \in LandType, NEW h \in AnyHandle, NEW e \in Entity \cup {NoEntity}
  PROVE  /\ Rewritten(l, h, e) \in LandType
         /\ \A w \in Lands : /\ Rewritten(l, h, e)[w].free = l[w].free
                             /\ Rewritten(l, h, e)[w].gen = l[w].gen
                             /\ \A i \in Ids : Rewritten(l, h, e)[w].at[i] = IF w = h[1] /\ i = h[2] THEN e ELSE l[w].at[i]
  <1> DEFINE v == h[1]  j == h[2]
             X == [at : [Ids -> Entity \cup {NoEntity}], free : Seq(Ids), gen : Nat \ {0}]
             a == [l[v].at EXCEPT ![j] = e]
             n == [at |-> a, free |-> l[v].free, gen |-> l[v].gen]
  <1>1. v \in Lands /\ j \in Ids
    BY HandleParts
  <1>2. l \in [Lands -> X]
    BY DEF LandType
  <1>3. l[v].at \in [Ids -> Entity \cup {NoEntity}] /\ l[v].free \in Seq(Ids) /\ l[v].gen \in Nat \ {0}
        /\ l[v] = [at |-> l[v].at, free |-> l[v].free, gen |-> l[v].gen]
    BY <1>1, SoundSlots
  <1> HIDE DEF v, j
  <1>4. a \in [Ids -> Entity \cup {NoEntity}] /\ \A i \in Ids : a[i] = IF i = j THEN e ELSE l[v].at[i]
    BY <1>1, <1>3
  <1> HIDE DEF a
  <1>5. n \in X
    BY <1>3, <1>4
  <1>6. Rewritten(l, h, e) = [l EXCEPT ![v] = n]
    <2>1. [l[v] EXCEPT !.at = a] = n
      BY <1>3
    <2> QED
      BY <2>1, Zenon DEF Rewritten, v, j, a
  <1> HIDE DEF X
  <1>7. Rewritten(l, h, e) \in [Lands -> X] /\ \A w \in Lands : Rewritten(l, h, e)[w] = IF w = v THEN n ELSE l[w]
    <2> HIDE DEF n
    <2> QED
      BY <1>1, <1>2, <1>5, <1>6
  <1>8. Rewritten(l, h, e) \in LandType
    BY <1>7 DEF X, LandType
  <1>9. n.at = a /\ n.free = l[v].free /\ n.gen = l[v].gen
    OBVIOUS
  <1> HIDE DEF n
  <1>10. \A w \in Lands : /\ Rewritten(l, h, e)[w].free = l[w].free
                          /\ Rewritten(l, h, e)[w].gen = l[w].gen
    BY <1>7, <1>9
  <1>11. \A w \in Lands : \A i \in Ids : Rewritten(l, h, e)[w].at[i] = IF w = v /\ i = j THEN e ELSE l[w].at[i]
    BY <1>4, <1>7, <1>9
  <1> QED
    BY <1>8, <1>10, <1>11 DEF v, j

\* An entity changed where it stands.
LEMMA RewrittenNames ==
  ASSUME NEW l, SoundLand(l), NEW h \in AnyHandle, Finds(l, h), NEW e \in Entity, e.gen = h[3]
  PROVE  /\ SameNames(l, Rewritten(l, h, e))
         /\ At(Rewritten(l, h, e), h) = e
         /\ \A x \in AnyHandle : Finds(l, x) /\ x # h => At(Rewritten(l, h, e), x) = At(l, x)
  <1> DEFINE m == Rewritten(l, h, e)
  <1>1. /\ l \in LandType /\ m \in LandType
        /\ \A w \in Lands : /\ m[w].free = l[w].free
                             /\ m[w].gen = l[w].gen
                             /\ \A i \in Ids : m[w].at[i] = IF w = h[1] /\ i = h[2] THEN e ELSE l[w].at[i]
    BY RewrittenIs DEF SoundLand
  <1> HIDE DEF m
  <1>2. l[h[1]].at[h[2]] # NoEntity /\ l[h[1]].at[h[2]].gen = h[3] /\ e # NoEntity
    BY <1>1, FindsSlot, EntityFields
  <1>3. \A w \in Lands, i \in Ids :  /\ m[w].at[i] = NoEntity <=> l[w].at[i] = NoEntity
                                     /\ l[w].at[i] # NoEntity => m[w].at[i].gen = l[w].at[i].gen
    <2> SUFFICES ASSUME NEW w \in Lands, NEW i \in Ids
                 PROVE  /\ m[w].at[i] = NoEntity <=> l[w].at[i] = NoEntity
                        /\ l[w].at[i] # NoEntity => m[w].at[i].gen = l[w].at[i].gen
      OBVIOUS
    <2>1. CASE w = h[1] /\ i = h[2]
      BY <1>1, <1>2, <2>1
    <2>2. CASE ~(w = h[1] /\ i = h[2])
      BY <1>1, <2>2
    <2> QED
      BY <2>1, <2>2
  <1>4. SameNames(l, m)
    BY <1>1, <1>3 DEF SameNames
  <1>5. At(m, h) = e
    BY <1>1, HandleParts DEF At
  <1>6. ASSUME NEW x \in AnyHandle, Finds(l, x), x # h
        PROVE  At(m, x) = At(l, x)
    <2>1. l[x[1]].at[x[2]] # NoEntity /\ l[x[1]].at[x[2]].gen = x[3]
      BY <1>1, <1>6, FindsSlot
    <2>2. ~(x[1] = h[1] /\ x[2] = h[2])
      <3> SUFFICES ASSUME x[1] = h[1], x[2] = h[2] PROVE FALSE
        OBVIOUS
      <3>1. x[3] = h[3]
        BY <1>2, <2>1
      <3> QED
        BY <1>6, <3>1, HandleParts
    <2>3. x[1] \in Lands /\ x[2] \in Ids
      BY HandleParts
    <2> QED
      BY <1>1, <2>2, <2>3 DEF At
  <1> QED
    BY <1>4, <1>5, <1>6 DEF m

\* MarkForDestroy changes marks only.
LEMMA MarkedIs ==
  ASSUME NEW l, SoundLand(l), NEW hs
  PROVE  /\ SameNames(l, Marked(l, hs))
         /\ \A h \in AnyHandle : Finds(l, h) =>
              At(Marked(l, hs), h) = IF h \in hs THEN [At(l, h) EXCEPT !.marked = TRUE] ELSE At(l, h)
  <1> DEFINE New(w, i) == IF l[w].at[i] # NoEntity /\ <<w, i, l[w].at[i].gen>> \in hs
                            THEN [l[w].at[i] EXCEPT !.marked = TRUE] ELSE l[w].at[i]
             m == Marked(l, hs)
             X == [at : [Ids -> Entity \cup {NoEntity}], free : Seq(Ids), gen : Nat \ {0}]
  <1>0. l \in LandType
    BY DEF SoundLand
  <1>1. \A w \in Lands : [l[w] EXCEPT !.at = [i \in Ids |-> New(w, i)]]
                           = [at |-> [i \in Ids |-> New(w, i)], free |-> l[w].free, gen |-> l[w].gen]
    <2> TAKE w \in Lands
    <2>1. l[w] = [at |-> l[w].at, free |-> l[w].free, gen |-> l[w].gen]
      BY <1>0, SoundSlots
    <2> HIDE DEF New
    <2> QED
      BY <2>1
  <1>2. \A w \in Lands, i \in Ids : l[w].at[i] # NoEntity =>
          /\ New(w, i) \in Entity /\ New(w, i).gen = l[w].at[i].gen
    <2> SUFFICES ASSUME NEW w \in Lands, NEW i \in Ids, l[w].at[i] # NoEntity
                 PROVE  New(w, i) \in Entity /\ New(w, i).gen = l[w].at[i].gen
      OBVIOUS
    <2> DEFINE e == l[w].at[i]
    <2>1. e \in Entity
      BY <1>0, SoundSlots
    <2> HIDE DEF e
    <2>2. [e EXCEPT !.marked = TRUE] \in Entity /\ [e EXCEPT !.marked = TRUE].gen = e.gen
      BY <2>1 DEF Entity
    <2> QED
      BY <2>1, <2>2 DEF e
  <1>3. \A w \in Lands, i \in Ids : New(w, i) \in Entity \cup {NoEntity} /\ (l[w].at[i] = NoEntity => New(w, i) = NoEntity)
    BY <1>0, <1>2, SoundSlots
  <1>4. m = [w \in Lands |-> [at |-> [i \in Ids |-> New(w, i)], free |-> l[w].free, gen |-> l[w].gen]]
    <2>1. m = [w \in Lands |-> [l[w] EXCEPT !.at = [i \in Ids |-> New(w, i)]]]
      <3>1. \A w \in Lands : [l[w] EXCEPT !.at = [i \in Ids |-> IF @[i] # NoEntity /\ <<w, i, @[i].gen>> \in hs
                      THEN [@[i] EXCEPT !.marked = TRUE] ELSE @[i]]] = [l[w] EXCEPT !.at = [i \in Ids |-> New(w, i)]]
        BY DEF New
      <3> QED
        BY <3>1 DEF Marked
    <2> HIDE DEF m, New
    <2> QED
      BY <1>1, <2>1
  <1> HIDE DEF m, New
  <1>5. \A w \in Lands : m[w] = [at |-> [i \in Ids |-> New(w, i)], free |-> l[w].free, gen |-> l[w].gen]
    BY <1>4
  <1>6. \A w \in Lands : /\ m[w].free = l[w].free /\ m[w].gen = l[w].gen
                         /\ \A i \in Ids : m[w].at[i] = New(w, i)
    <2> SUFFICES ASSUME NEW w \in Lands
                 PROVE  m[w].free = l[w].free /\ m[w].gen = l[w].gen /\ m[w].at = [i \in Ids |-> New(w, i)]
      OBVIOUS
    <2> DEFINE a == [i \in Ids |-> New(w, i)]
    <2>1. m[w] = [at |-> a, free |-> l[w].free, gen |-> l[w].gen]
      BY <1>5
    <2> HIDE DEF a
    <2>2. m[w].free = l[w].free /\ m[w].gen = l[w].gen /\ m[w].at = a
      BY <2>1
    <2> QED
      BY <2>2 DEF a
  <1>7. \A w \in Lands : [at |-> [i \in Ids |-> New(w, i)], free |-> l[w].free, gen |-> l[w].gen] \in X
    BY <1>0, <1>3, SoundSlots
  <1>8. m \in LandType
    <2> HIDE DEF X
    <2>1. m \in [Lands -> X]
      BY <1>4, <1>7
    <2> QED
      BY <2>1 DEF X, LandType
  <1>9. SameNames(l, m)
    <2>1. \A w \in Lands, i \in Ids : New(w, i) = NoEntity <=> l[w].at[i] = NoEntity
      BY <1>2, <1>3, EntityFields
    <2> QED
      BY <1>2, <1>6, <1>8, <2>1 DEF SameNames
  <1>10. ASSUME NEW h \in AnyHandle, Finds(l, h)
         PROVE  At(m, h) = IF h \in hs THEN [At(l, h) EXCEPT !.marked = TRUE] ELSE At(l, h)
    <2>1. l[h[1]].at[h[2]] # NoEntity /\ l[h[1]].at[h[2]].gen = h[3] /\ h[1] \in Lands /\ h[2] \in Ids
          /\ h = <<h[1], h[2], h[3]>>
      BY <1>0, <1>10, FindsSlot, HandleParts
    <2>2. <<h[1], h[2], l[h[1]].at[h[2]].gen>> = h
      BY <2>1
    <2>3. New(h[1], h[2]) = IF h \in hs THEN [l[h[1]].at[h[2]] EXCEPT !.marked = TRUE] ELSE l[h[1]].at[h[2]]
      BY <2>1, <2>2 DEF New
    <2> QED
      BY <1>6, <2>1, <2>3 DEF At
  <1> QED
    BY <1>9, <1>10 DEF m

\* What a step that rewrites entities where they stand leaves of them.
LEMMA MarkedFields ==
  ASSUME NEW l, SoundLand(l), NEW hs, NEW h \in AnyHandle, Finds(l, h)
  PROVE  /\ At(Marked(l, hs), h).kind = At(l, h).kind
         /\ At(Marked(l, hs), h).of = At(l, h).of
         /\ At(Marked(l, hs), h).parts = At(l, h).parts
         /\ At(Marked(l, hs), h).tags = At(l, h).tags
         /\ ~At(Marked(l, hs), h).marked <=> (~At(l, h).marked /\ h \notin hs)
  <1> DEFINE e == At(l, h)  n == At(Marked(l, hs), h)
  <1>1. e \in Entity
    BY FoundAreEntities DEF SoundLand
  <1>2. n = IF h \in hs THEN [e EXCEPT !.marked = TRUE] ELSE e
    BY MarkedIs
  <1> HIDE DEF e, n
  <1>3. /\ [e EXCEPT !.marked = TRUE].kind = e.kind
        /\ [e EXCEPT !.marked = TRUE].of = e.of
        /\ [e EXCEPT !.marked = TRUE].parts = e.parts
        /\ [e EXCEPT !.marked = TRUE].tags = e.tags
        /\ [e EXCEPT !.marked = TRUE].marked = TRUE
    BY <1>1 DEF Entity
  <1> QED
    BY <1>2, <1>3 DEF e, n

-----------------------------------------------------------------------------
\* Sequences without repetitions: the free lists.

LEMMA RangeIs ==
  ASSUME NEW S, NEW s \in Seq(S), NEW x
  PROVE  x \in Range(s) <=> \E n \in 1..Len(s) : s[n] = x
  <1>1. DOMAIN s = 1..Len(s)
    BY LenProperties
  <1> QED
    BY <1>1 DEF Range

LEMMA InjectiveIs ==
  ASSUME NEW S, NEW s \in Seq(S)
  PROVE  IsInjective(s) <=> \A a, b \in 1..Len(s) : s[a] = s[b] => a = b
  <1>1. DOMAIN s = 1..Len(s)
    BY LenProperties
  <1> QED
    BY <1>1 DEF IsInjective

Kept(s, k) == SubSeq(s, 1, Len(s) - k)
Tops(s, k) == {s[Len(s) + 1 - n] : n \in 1..k}

\* The last k ids taken from a list without repetitions.
LEMMA PrefixIs ==
  ASSUME NEW S, NEW s \in Seq(S), NEW k \in 0..Len(s), IsInjective(s)
  PROVE  /\ Kept(s, k) \in Seq(S) /\ Len(Kept(s, k)) = Len(s) - k
         /\ IsInjective(Kept(s, k))
         /\ Range(Kept(s, k)) = Range(s) \ Tops(s, k)
  <1> DEFINE z == Len(s)  t == SubSeq(s, 1, z - k)
  <1>1. z \in Nat /\ k \in Nat /\ k <= z /\ \A i \in 1..z : s[i] \in S
    BY LenProperties, ElementOfSeq
  <1>2. t \in Seq(S) /\ Len(t) = z - k /\ \A i \in 1..(z - k) : t[i] = s[i]
    <2> HIDE DEF z
    <2>0. 1 \in Int /\ z - k \in Int /\ \A i \in 1..(z - k) : s[i] \in S
      BY <1>1
    <2>1. /\ SubSeq(s, 1, z - k) \in Seq(S)
          /\ Len(SubSeq(s, 1, z - k)) = IF 1 <= z - k THEN z - k - 1 + 1 ELSE 0
          /\ \A i \in 1..(z - k - 1 + 1) : SubSeq(s, 1, z - k)[i] = s[1 + i - 1]
      BY <2>0, SubSeqProperties
    <2>2. z - k - 1 + 1 = z - k /\ \A i \in Int : 1 + i - 1 = i
      BY <1>1
    <2> HIDE DEF t
    <2>3. Len(t) = z - k
      BY <1>1, <2>1, <2>2 DEF t
    <2> QED
      BY <2>1, <2>2, <2>3 DEF t
  <1> HIDE DEF z, t
  <1>3. \A a, b \in 1..z : s[a] = s[b] => a = b
    BY InjectiveIs DEF z
  <1>4. IsInjective(t)
    <2>1. \A a, b \in 1..Len(t) : t[a] = t[b] => a = b
      <3> SUFFICES ASSUME NEW a \in 1..(z - k), NEW b \in 1..(z - k), t[a] = t[b] PROVE a = b
        BY <1>2
      <3>1. a \in 1..z /\ b \in 1..z
        BY <1>1
      <3> QED
        BY <1>2, <1>3, <3>1
    <2> QED
      BY <1>2, <2>1, InjectiveIs
  <1>5. ASSUME NEW x
        PROVE  x \in Range(t) <=> x \in Range(s) /\ \A n \in 1..k : s[z + 1 - n] # x
    <2>1. x \in Range(t) <=> \E n \in 1..(z - k) : s[n] = x
      BY <1>2, RangeIs
    <2>2. x \in Range(s) <=> \E n \in 1..z : s[n] = x
      BY RangeIs DEF z
    <2>3. ASSUME NEW n \in 1..(z - k), s[n] = x
          PROVE  n \in 1..z /\ \A j \in 1..k : s[z + 1 - j] # x
      <3>1. n \in 1..z
        BY <1>1
      <3>2. \A j \in 1..k : z + 1 - j \in 1..z /\ z + 1 - j # n
        BY <1>1
      <3> QED
        BY <1>3, <2>3, <3>1, <3>2
    <2>4. ASSUME NEW n \in 1..z, s[n] = x, \A j \in 1..k : s[z + 1 - j] # x
          PROVE  n \in 1..(z - k)
      <3> SUFFICES ASSUME n > z - k PROVE FALSE
        BY <1>1
      <3>1. z + 1 - n \in 1..k /\ z + 1 - (z + 1 - n) = n
        BY <1>1
      <3> QED
        BY <2>4, <3>1
    <2> QED
      BY <2>1, <2>2, <2>3, <2>4
  <1>6. Range(t) = Range(s) \ Tops(s, k)
    <2>1. \A x : x \in Tops(s, k) <=> \E n \in 1..k : s[z + 1 - n] = x
      BY DEF Tops, z
    <2> QED
      BY <1>5, <2>1
  <1> QED
    BY <1>2, <1>4, <1>6 DEF t, z, Kept

LEMMA LastIs ==
  ASSUME NEW S, NEW s \in Seq(S), IsInjective(s), Len(s) >= 1
  PROVE  /\ Last(s) \in S /\ Last(s) \in Range(s)
         /\ Front(s) \in Seq(S) /\ Len(Front(s)) = Len(s) - 1 /\ IsInjective(Front(s))
         /\ \A x : x \in Range(Front(s)) <=> x \in Range(s) /\ x # Last(s)
  <1>1. Len(s) \in Nat /\ 1 \in 0..Len(s) /\ Len(s) \in 1..Len(s)
    BY LenProperties
  <1>2. Last(s) = s[Len(s)]
    BY DEF Last
  <1>3. PICK k \in 0..Len(s) : k = 1
    BY <1>1
  <1>4. Front(s) = Kept(s, k)
    BY <1>3 DEF Front, Kept
  <1>5. /\ Kept(s, k) \in Seq(S) /\ Len(Kept(s, k)) = Len(s) - k
        /\ IsInjective(Kept(s, k))
        /\ Range(Kept(s, k)) = Range(s) \ Tops(s, k)
    BY PrefixIs
  <1>6. /\ Front(s) \in Seq(S) /\ Len(Front(s)) = Len(s) - k /\ IsInjective(Front(s))
        /\ Range(Front(s)) = Range(s) \ Tops(s, k)
    BY <1>4, <1>5
  <1>7. 1..k = {1} /\ Len(s) + 1 - 1 = Len(s)
    BY <1>1, <1>3
  <1>8. Tops(s, k) = {Last(s)}
    BY <1>2, <1>7 DEF Tops
  <1>9. \A x : x \in Range(Front(s)) <=> x \in Range(s) /\ x # Last(s)
    BY <1>6, <1>8
  <1>10. Last(s) \in S /\ Last(s) \in Range(s)
    BY <1>1, <1>2, RangeIs, ElementOfSeq
  <1> QED
    BY <1>3, <1>6, <1>9, <1>10

LEMMA ConcatInjective ==
  ASSUME NEW S, NEW s \in Seq(S), NEW t \in Seq(S), IsInjective(s), IsInjective(t),
         \A x \in Range(s) : x \notin Range(t)
  PROVE  s \o t \in Seq(S) /\ IsInjective(s \o t) /\ Range(s \o t) = Range(s) \cup Range(t)
  <1> DEFINE c == s \o t  z == Len(s)  y == Len(t)
  <1>1. z \in Nat /\ y \in Nat
    BY LenProperties
  <1>2. c \in Seq(S) /\ Len(c) = z + y /\ \A i \in 1..(z + y) : c[i] = IF i <= z THEN s[i] ELSE t[i - z]
    BY ConcatProperties
  <1>3. /\ \A a, b \in 1..z : s[a] = s[b] => a = b
        /\ \A a, b \in 1..y : t[a] = t[b] => a = b
    BY InjectiveIs
  <1>4. \A a \in 1..z, b \in 1..y : s[a] # t[b]
    <2>1. \A a \in 1..z : s[a] \in Range(s)
      BY RangeIs
    <2>2. \A b \in 1..y : t[b] \in Range(t)
      BY RangeIs
    <2> QED
      BY <2>1, <2>2
  <1> HIDE DEF c, z, y
  <1>5. \A a, b \in 1..(z + y) : c[a] = c[b] => a = b
    <2> SUFFICES ASSUME NEW a \in 1..(z + y), NEW b \in 1..(z + y), c[a] = c[b] PROVE a = b
      OBVIOUS
    <2>1. CASE a <= z /\ b <= z
      <3>1. a \in 1..z /\ b \in 1..z /\ s[a] = s[b]
        BY <1>1, <1>2, <2>1
      <3> QED
        BY <1>3, <3>1
    <2>2. CASE a > z /\ b > z
      <3>1. a - z \in 1..y /\ b - z \in 1..y
        BY <1>1, <2>2
      <3>2. c[a] = t[a - z] /\ c[b] = t[b - z]
        <4>1. ~(a <= z) /\ ~(b <= z)
          BY <1>1, <2>2
        <4> QED
          BY <1>2, <4>1
      <3>3. a - z = b - z
        BY <1>3, <3>1, <3>2
      <3> QED
        BY <1>1, <3>3
    <2>3. CASE a <= z /\ b > z
      <3>1. a \in 1..z /\ b - z \in 1..y /\ ~(b <= z)
        BY <1>1, <2>3
      <3>2. s[a] = t[b - z]
        BY <1>2, <2>3, <3>1
      <3> QED
        BY <1>4, <3>1, <3>2
    <2>4. CASE a > z /\ b <= z
      <3>1. b \in 1..z /\ a - z \in 1..y /\ ~(a <= z)
        BY <1>1, <2>4
      <3>2. s[b] = t[a - z]
        BY <1>2, <2>4, <3>1
      <3> QED
        BY <1>4, <3>1, <3>2
    <2> QED
      BY <1>1, <2>1, <2>2, <2>3, <2>4
  <1>6. IsInjective(c)
    BY <1>2, <1>5, InjectiveIs
  <1>7. Range(c) = Range(s) \cup Range(t)
    BY RangeConcatenation DEF c
  <1> QED
    BY <1>2, <1>6, <1>7 DEF c

LEMMA AppendInjectiveRange ==
  ASSUME NEW S, NEW s \in Seq(S), IsInjective(s), NEW e \in S, e \notin Range(s)
  PROVE  /\ Append(s, e) \in Seq(S) /\ IsInjective(Append(s, e))
         /\ Range(Append(s, e)) = Range(s) \cup {e}
  <1> DEFINE t == <<e>>
  <1>1. t \in Seq(S) /\ Len(t) = 1 /\ t[1] = e
    OBVIOUS
  <1>2. Append(s, e) = s \o t
    BY AppendIsConcat
  <1> HIDE DEF t
  <1>3. Range(t) = {e}
    BY <1>1, RangeIs
  <1>4. IsInjective(t)
    BY <1>1, InjectiveIs
  <1> QED
    BY <1>1, <1>2, <1>3, <1>4, ConcatInjective

-----------------------------------------------------------------------------
\* Inserting an entity, and freeing its slot.

EntityKinds == {"flower", "mob", "body", "petal", "shot", "summon", "chain"}
NewHandle(l, w) == <<w, NewId(l, w), l[w].gen>>
NewEntity(l, w, kind, of) ==
  [gen |-> l[w].gen, kind |-> kind, of |-> of, parts |-> {},
   tags |-> IF kind = "flower" THEN {"summons"} ELSE {}, marked |-> FALSE]

LEMMA NewEntityIs ==
  ASSUME NEW l \in LandType, NEW w \in Lands, NEW of \in SUBSET AnyHandle,
         NEW kind \in EntityKinds
  PROVE  /\ NewEntity(l, w, kind, of) \in Entity
         /\ NewEntity(l, w, kind, of).gen = l[w].gen /\ NewEntity(l, w, kind, of).kind = kind
         /\ NewEntity(l, w, kind, of).of = of /\ NewEntity(l, w, kind, of).parts = {}
         /\ (kind = "flower" => NewEntity(l, w, kind, of).tags = {"summons"})
         /\ ~NewEntity(l, w, kind, of).marked
  <1>1. l[w].gen \in Nat \ {0}
    BY SoundSlots
  <1> DEFINE t == IF kind = "flower" THEN {"summons"} ELSE {}
  <1>2. t \in SUBSET {"owned", "summons"} /\ (kind = "flower" => t = {"summons"})
    OBVIOUS
  <1>3. NewEntity(l, w, kind, of) = [gen |-> l[w].gen, kind |-> kind, of |-> of, parts |-> {}, tags |-> t, marked |-> FALSE]
    BY DEF NewEntity
  <1> HIDE DEF t
  <1>4. [gen |-> l[w].gen, kind |-> kind, of |-> of, parts |-> {}, tags |-> t, marked |-> FALSE] \in Entity
    BY <1>1, <1>2 DEF Entity, EntityKinds
  <1> QED
    BY <1>2, <1>3, <1>4

\* InsertEntity: a new name in a slot that was empty.
LEMMA InsertedIs ==
  ASSUME NEW l, SoundLand(l), NEW w \in Lands, Len(l[w].free) >= 1, NEW of \in SUBSET AnyHandle,
         NEW kind \in EntityKinds
  PROVE  /\ SoundLand(Inserted(l, w, kind, of)) /\ Grows(l, Inserted(l, w, kind, of))
         /\ NewHandle(l, w) \in AnyHandle /\ ~Finds(l, NewHandle(l, w))
         /\ \A h \in AnyHandle : Finds(Inserted(l, w, kind, of), h) <=> Finds(l, h) \/ h = NewHandle(l, w)
         /\ \A h \in AnyHandle : Finds(l, h) => At(Inserted(l, w, kind, of), h) = At(l, h)
         /\ At(Inserted(l, w, kind, of), NewHandle(l, w)) = NewEntity(l, w, kind, of)
         /\ Inserted(l, w, kind, of)[w].gen = l[w].gen + 1
         /\ Len(Inserted(l, w, kind, of)[w].free) = Len(l[w].free) - 1
  <1> DEFINE j == NewId(l, w)  g == l[w].gen  e == NewEntity(l, w, kind, of)  h0 == NewHandle(l, w)
             X == [at : [Ids -> Entity \cup {NoEntity}], free : Seq(Ids), gen : Nat \ {0}]
             a == [l[w].at EXCEPT ![j] = e]
             n == [at |-> a, free |-> Front(l[w].free), gen |-> g + 1]
             m == Inserted(l, w, kind, of)
  <1>1. l \in LandType /\ SlotsOK(l) /\ l \in [Lands -> X]
    BY DEF SoundLand, LandType
  <1>2. /\ l[w].at \in [Ids -> Entity \cup {NoEntity}] /\ l[w].free \in Seq(Ids) /\ g \in Nat \ {0}
        /\ l[w] = [at |-> l[w].at, free |-> l[w].free, gen |-> g]
    BY <1>1, SoundSlots
  <1>3. IsInjective(l[w].free) /\ Range(l[w].free) = {i \in Ids : l[w].at[i] = NoEntity}
    BY <1>1 DEF SlotsOK
  <1>4. /\ j \in Ids /\ j \in Range(l[w].free)
        /\ Front(l[w].free) \in Seq(Ids) /\ Len(Front(l[w].free)) = Len(l[w].free) - 1
        /\ IsInjective(Front(l[w].free))
        /\ \A x : x \in Range(Front(l[w].free)) <=> x \in Range(l[w].free) /\ x # j
    BY <1>2, <1>3, LastIs DEF NewId
  <1>5. l[w].at[j] = NoEntity
    BY <1>3, <1>4
  <1>6. e \in Entity /\ e.gen = g
    <2>1. NewEntity(l, w, kind, of) \in Entity /\ NewEntity(l, w, kind, of).gen = l[w].gen
      BY <1>1, NewEntityIs DEF NewEntity
    <2> QED
      BY <2>1
  <1>7. a \in [Ids -> Entity \cup {NoEntity}] /\ \A i \in Ids : a[i] = IF i = j THEN e ELSE l[w].at[i]
    <2> HIDE DEF e, j, m, n, X, g, h0
    <2>1. l[w].at \in [Ids -> Entity \cup {NoEntity}] /\ e \in Entity
      BY <1>2, <1>6
    <2> QED
      BY <2>1
  <1>8. m = [l EXCEPT ![w] = n]
    BY DEF Inserted, NewEntity
  <1> HIDE DEF a, e, m, j
  <1>9. n \in X /\ n.at = a /\ n.free = Front(l[w].free) /\ n.gen = g + 1
    BY <1>2, <1>4, <1>7
  <1> HIDE DEF n, X
  <1>10. m \in [Lands -> X] /\ \A v \in Lands : m[v] = IF v = w THEN n ELSE l[v]
    BY <1>1, <1>8, <1>9
  <1>11. m \in LandType
    BY <1>10 DEF LandType, X
  <1>12. \A v \in Lands, i \in Ids : m[v].at[i] = IF v = w /\ i = j THEN e ELSE l[v].at[i]
    BY <1>7, <1>9, <1>10
  <1>13. m[w].free = Front(l[w].free) /\ m[w].gen = g + 1 /\ \A v \in Lands : v # w => m[v].free = l[v].free /\ m[v].gen = l[v].gen
    BY <1>9, <1>10
  <1>14. SlotsOK(m)
    <2> SUFFICES ASSUME NEW v \in Lands
                 PROVE  IsInjective(m[v].free) /\ \A i : i \in Range(m[v].free) <=> i \in Ids /\ m[v].at[i] = NoEntity
      BY DEF SlotsOK
    <2>1. IsInjective(l[v].free) /\ \A i : i \in Range(l[v].free) <=> i \in Ids /\ l[v].at[i] = NoEntity
      BY <1>1 DEF SlotsOK
    <2>2. CASE v # w
      BY <1>12, <1>13, <2>1, <2>2
    <2>3. CASE v = w
      BY <1>4, <1>6, <1>12, <1>13, <2>1, <2>3, EntityFields
    <2> QED
      BY <2>2, <2>3
  <1>15. h0 = <<w, j, g>> /\ h0 \in AnyHandle /\ h0[1] = w /\ h0[2] = j /\ h0[3] = g
    BY <1>2, <1>4 DEF NewHandle, AnyHandle, j
  <1> HIDE DEF h0, g
  <1>16. ~Finds(l, h0)
    BY <1>1, <1>5, <1>15, FindsSlot
  <1>17. ASSUME NEW h \in AnyHandle
         PROVE  /\ Finds(m, h) <=> Finds(l, h) \/ h = h0
                /\ Finds(l, h) => At(m, h) = At(l, h)
    <2>1. h[1] \in Lands /\ h[2] \in Ids /\ h = <<h[1], h[2], h[3]>>
      BY HandleParts
    <2>2. Finds(m, h) <=> (m[h[1]].at[h[2]] # NoEntity /\ m[h[1]].at[h[2]].gen = h[3])
      BY <1>11, FindsSlot
    <2>3. Finds(l, h) <=> (l[h[1]].at[h[2]] # NoEntity /\ l[h[1]].at[h[2]].gen = h[3])
      BY <1>1, FindsSlot
    <2>4. CASE h[1] = w /\ h[2] = j
      <3>1. ~Finds(l, h)
        BY <1>5, <2>3, <2>4
      <3>2. m[h[1]].at[h[2]] = e /\ e # NoEntity
        BY <1>6, <1>12, <2>1, <2>4, EntityFields
      <3>3. Finds(m, h) <=> h[3] = g
        BY <1>6, <2>2, <3>2
      <3>4. h[3] = g <=> h = h0
        BY <1>15, <2>1, <2>4
      <3> QED
        BY <3>1, <3>3, <3>4
    <2>5. CASE ~(h[1] = w /\ h[2] = j)
      <3>1. m[h[1]].at[h[2]] = l[h[1]].at[h[2]] /\ h # h0
        BY <1>12, <1>15, <2>1, <2>5
      <3> QED
        BY <2>2, <2>3, <3>1 DEF At
    <2> QED
      BY <2>4, <2>5
  <1>18. At(m, h0) = e
    BY <1>4, <1>12, <1>15 DEF At
  <1>19. Grows(l, m)
    <2>1. \A v \in Lands : l[v].gen \in Nat /\ g = l[w].gen
      BY <1>1, SoundSlots DEF g
    <2>2. \A v \in Lands : l[v].gen <= m[v].gen
      BY <1>13, <2>1
    <2>3. l[h0[1]].gen <= h0[3] /\ h0[3] < m[h0[1]].gen
      BY <1>13, <1>15, <2>1
    <2> QED
      BY <1>17, <2>2, <2>3 DEF Grows
  <1> QED
    BY <1>4, <1>11, <1>13, <1>14, <1>15, <1>16, <1>17, <1>18, <1>19 DEF SoundLand, h0, m, e, g

\* RemoveEntity: the slot is free again.
LEMMA FreedIs ==
  ASSUME NEW l, SoundLand(l), NEW h \in AnyHandle, Finds(l, h)
  PROVE  /\ SoundLand(Freed(l, h)) /\ Grows(l, Freed(l, h))
         /\ \A x \in AnyHandle : Finds(Freed(l, h), x) <=> Finds(l, x) /\ x # h
         /\ \A x \in AnyHandle : Finds(l, x) /\ x # h => At(Freed(l, h), x) = At(l, x)
  <1> DEFINE w == h[1]  j == h[2]
             X == [at : [Ids -> Entity \cup {NoEntity}], free : Seq(Ids), gen : Nat \ {0}]
             a == [l[w].at EXCEPT ![j] = NoEntity]
             f == Append(l[w].free, j)
             n == [at |-> a, free |-> f, gen |-> l[w].gen]
             m == Freed(l, h)
  <1>1. l \in LandType /\ SlotsOK(l) /\ l \in [Lands -> X]
    BY DEF SoundLand, LandType
  <1>0. w \in Lands /\ j \in Ids /\ h = <<w, j, h[3]>>
    BY HandleParts
  <1>2. /\ l[w].at \in [Ids -> Entity \cup {NoEntity}] /\ l[w].free \in Seq(Ids) /\ l[w].gen \in Nat \ {0}
        /\ l[w] = [at |-> l[w].at, free |-> l[w].free, gen |-> l[w].gen]
    BY <1>0, <1>1, SoundSlots
  <1>3. IsInjective(l[w].free) /\ Range(l[w].free) = {i \in Ids : l[w].at[i] = NoEntity}
    BY <1>0, <1>1 DEF SlotsOK
  <1>4. l[w].at[j] # NoEntity /\ l[w].at[j].gen = h[3]
    BY <1>1, FindsSlot
  <1>8. m = [l EXCEPT ![w] = n]
    BY DEF Freed
  <1> HIDE DEF w, j
  <1>5. a \in [Ids -> Entity \cup {NoEntity}] /\ \A i \in Ids : a[i] = IF i = j THEN NoEntity ELSE l[w].at[i]
    BY <1>0, <1>2
  <1>6. j \in Ids \ Range(l[w].free)
    BY <1>0, <1>3, <1>4
  <1>7. f \in Seq(Ids) /\ IsInjective(f) /\ Range(f) = Range(l[w].free) \cup {j}
    BY <1>2, <1>3, <1>6, AppendInjectiveRange
  <1> HIDE DEF a, f, m
  <1>9. n \in X /\ n.at = a /\ n.free = f /\ n.gen = l[w].gen
    BY <1>2, <1>5, <1>7
  <1> HIDE DEF n, X
  <1>10. m \in [Lands -> X] /\ \A v \in Lands : m[v] = IF v = w THEN n ELSE l[v]
    BY <1>0, <1>1, <1>8, <1>9
  <1>11. m \in LandType
    BY <1>10 DEF LandType, X
  <1>12. \A v \in Lands, i \in Ids : m[v].at[i] = IF v = w /\ i = j THEN NoEntity ELSE l[v].at[i]
    BY <1>5, <1>9, <1>10
  <1>13. m[w].free = f /\ (\A v \in Lands : m[v].gen = l[v].gen) /\ \A v \in Lands : v # w => m[v].free = l[v].free
    BY <1>0, <1>9, <1>10
  <1>14. SlotsOK(m)
    <2> SUFFICES ASSUME NEW v \in Lands
                 PROVE  IsInjective(m[v].free) /\ \A i : i \in Range(m[v].free) <=> i \in Ids /\ m[v].at[i] = NoEntity
      BY DEF SlotsOK
    <2>1. IsInjective(l[v].free) /\ \A i : i \in Range(l[v].free) <=> i \in Ids /\ l[v].at[i] = NoEntity
      BY <1>1 DEF SlotsOK
    <2>2. CASE v # w
      BY <1>12, <1>13, <2>1, <2>2
    <2>3. CASE v = w
      BY <1>0, <1>7, <1>12, <1>13, <2>1, <2>3
    <2> QED
      BY <2>2, <2>3
  <1>17. ASSUME NEW x \in AnyHandle
         PROVE  /\ Finds(m, x) <=> Finds(l, x) /\ x # h
                /\ Finds(l, x) /\ x # h => At(m, x) = At(l, x)
    <2>1. x[1] \in Lands /\ x[2] \in Ids /\ x = <<x[1], x[2], x[3]>>
      BY HandleParts
    <2>2. Finds(m, x) <=> (m[x[1]].at[x[2]] # NoEntity /\ m[x[1]].at[x[2]].gen = x[3])
      BY <1>11, FindsSlot
    <2>3. Finds(l, x) <=> (l[x[1]].at[x[2]] # NoEntity /\ l[x[1]].at[x[2]].gen = x[3])
      BY <1>1, FindsSlot
    <2>4. CASE x[1] = w /\ x[2] = j
      <3>1. ~Finds(m, x)
        BY <1>12, <2>1, <2>2, <2>4
      <3>2. Finds(l, x) => x = h
        BY <1>0, <1>4, <2>1, <2>3, <2>4
      <3> QED
        BY <3>1, <3>2
    <2>5. CASE ~(x[1] = w /\ x[2] = j)
      <3>1. m[x[1]].at[x[2]] = l[x[1]].at[x[2]] /\ x # h
        BY <1>12, <2>1, <2>5 DEF w, j
      <3> QED
        BY <2>2, <2>3, <3>1 DEF At
    <2> QED
      BY <2>4, <2>5
  <1>19. Grows(l, m)
    <2>1. \A v \in Lands : l[v].gen \in Nat
      BY <1>1, SoundSlots
    <2>2. \A v \in Lands : l[v].gen <= m[v].gen
      BY <1>13, <2>1
    <2> QED
      BY <1>17, <2>2 DEF Grows
  <1> QED
    BY <1>11, <1>14, <1>17, <1>19 DEF SoundLand, m

-----------------------------------------------------------------------------
\* Bonds: what an entity belongs to and what belongs to it. Between two
\* ticks both ends are there; during a cleanup an end may be missing only if
\* the sweep that follows will notice.

Needy == {"petal", "shot", "summon", "body", "chain"}
StaysHome(l, h) == \A r \in At(l, h).of \cup At(l, h).parts : r[1] = h[1]
OwnsItself(l, h) ==
  /\ At(l, h).kind \in {"flower", "mob"} => At(l, h).of = {}
  /\ At(l, h).kind = "flower" => "summons" \in At(l, h).tags
Awaited(l, keys, c, h, r) ==
  \/ At(l, h).kind \in {"shot", "petal"} /\ <<r, "owned">> \in keys
  \/ At(l, h).kind = "summon" /\ <<r, "summons">> \in keys
  \/ At(l, h).kind = "chain" /\ c = h[1]
TiedTo(l, h, r) ==
  /\ At(l, h).kind \in {"shot", "petal"} => "owned" \in At(l, r).tags
  /\ At(l, h).kind = "summon" => "summons" \in At(l, r).tags
  /\ At(l, h).kind = "body" => h \in At(l, r).parts /\ At(l, r).kind = "mob"
HasPart(l, h, b) == Finds(l, b) /\ At(l, b).of = {h} /\ At(l, b).kind = "body"
Attached(l, keys, c, h) ==
  /\ At(l, h).kind \in Needy => At(l, h).of # {}
  /\ \A r \in At(l, h).of : /\ Finds(l, r) \/ Awaited(l, keys, c, h, r)
                            /\ Finds(l, r) => TiedTo(l, h, r)
  /\ \A b \in At(l, h).parts : HasPart(l, h, b)
Bond(l, keys, c, h) == StaysHome(l, h) /\ OwnsItself(l, h) /\ (~At(l, h).marked => Attached(l, keys, c, h))
Bonds(l, keys, c) == \A h \in AnyHandle : Finds(l, h) => Bond(l, keys, c, h)

\* What stands stays as it is, up to marks and tags.
Extended(l, m) ==
  \A h \in AnyHandle : Finds(l, h) =>
    /\ Finds(m, h) /\ At(m, h).kind = At(l, h).kind /\ At(m, h).of = At(l, h).of
    /\ At(m, h).parts = At(l, h).parts /\ At(l, h).tags \subseteq At(m, h).tags
    /\ ~At(m, h).marked => ~At(l, h).marked

LEMMA RelatedAreHandles ==
  ASSUME NEW l \in LandType, NEW h \in AnyHandle, Finds(l, h)
  PROVE  At(l, h).of \subseteq AnyHandle /\ At(l, h).parts \subseteq AnyHandle
  BY FoundAreEntities, EntityFields

LEMMA BondsExtended ==
  ASSUME NEW l \in LandType, NEW m \in LandType, Extended(l, m), Bonds(l, {}, NoLand),
         \A h \in AnyHandle : Finds(m, h) /\ ~Finds(l, h) => Bond(m, {}, NoLand, h)
  PROVE  Bonds(m, {}, NoLand)
  <1> SUFFICES ASSUME NEW h \in AnyHandle, Finds(l, h) PROVE Bond(m, {}, NoLand, h)
    BY DEF Bonds
  <1>1. /\ Finds(m, h) /\ At(m, h).kind = At(l, h).kind /\ At(m, h).of = At(l, h).of
        /\ At(m, h).parts = At(l, h).parts /\ At(l, h).tags \subseteq At(m, h).tags
        /\ ~At(m, h).marked => ~At(l, h).marked
    BY DEF Extended
  <1>2. StaysHome(l, h) /\ OwnsItself(l, h) /\ (~At(l, h).marked => Attached(l, {}, NoLand, h))
    BY DEF Bonds, Bond
  <1>3. At(l, h).of \subseteq AnyHandle /\ At(l, h).parts \subseteq AnyHandle
    BY RelatedAreHandles
  <1>4. StaysHome(m, h) /\ OwnsItself(m, h)
    BY <1>1, <1>2 DEF StaysHome, OwnsItself
  <1>5. ASSUME ~At(m, h).marked PROVE Attached(m, {}, NoLand, h)
    <2>1. Attached(l, {}, NoLand, h)
      BY <1>1, <1>2, <1>5
    <2>2. At(m, h).kind \in Needy => At(m, h).of # {}
      BY <1>1, <2>1 DEF Attached
    <2>3. ASSUME NEW r \in At(m, h).of PROVE Finds(m, r) /\ TiedTo(m, h, r)
      <3>1. r \in AnyHandle /\ r \in At(l, h).of
        BY <1>1, <1>3, <2>3
      <3>2. NoLand # h[1]
        BY HandleParts, WorldsAssumption
      <3>3. ~Awaited(l, {}, NoLand, h, r)
        BY <3>2 DEF Awaited
      <3>4. Finds(l, r) /\ TiedTo(l, h, r)
        BY <2>1, <3>1, <3>3 DEF Attached
      <3>5. /\ Finds(m, r) /\ At(m, r).kind = At(l, r).kind /\ At(m, r).parts = At(l, r).parts
            /\ At(l, r).tags \subseteq At(m, r).tags
        BY <3>1, <3>4 DEF Extended
      <3> QED
        BY <1>1, <3>4, <3>5 DEF TiedTo
    <2>4. ASSUME NEW b \in At(m, h).parts PROVE HasPart(m, h, b)
      <3>1. b \in AnyHandle /\ b \in At(l, h).parts
        BY <1>1, <1>3, <2>4
      <3>2. HasPart(l, h, b)
        BY <2>1, <3>1 DEF Attached
      <3> QED
        BY <3>1, <3>2 DEF HasPart, Extended
    <2> QED
      BY <2>2, <2>3, <2>4 DEF Attached
  <1> QED
    BY <1>4, <1>5 DEF Bond

LEMMA ExtendedTransitive ==
  ASSUME NEW l, NEW m, NEW n, Extended(l, m), Extended(m, n)
  PROVE  Extended(l, n)
  <1> SUFFICES ASSUME NEW h \in AnyHandle, Finds(l, h)
               PROVE  /\ Finds(n, h) /\ At(n, h).kind = At(l, h).kind /\ At(n, h).of = At(l, h).of
                      /\ At(n, h).parts = At(l, h).parts /\ At(l, h).tags \subseteq At(n, h).tags
                      /\ ~At(n, h).marked => ~At(l, h).marked
    BY DEF Extended
  <1>1. /\ Finds(m, h) /\ At(m, h).kind = At(l, h).kind /\ At(m, h).of = At(l, h).of
        /\ At(m, h).parts = At(l, h).parts /\ At(l, h).tags \subseteq At(m, h).tags
        /\ ~At(m, h).marked => ~At(l, h).marked
    BY DEF Extended
  <1>2. /\ Finds(n, h) /\ At(n, h).kind = At(m, h).kind /\ At(n, h).of = At(m, h).of
        /\ At(n, h).parts = At(m, h).parts /\ At(m, h).tags \subseteq At(n, h).tags
        /\ ~At(n, h).marked => ~At(m, h).marked
    BY <1>1 DEF Extended
  <1> QED
    BY <1>1, <1>2

LEMMA InsertedExtended ==
  ASSUME NEW l, SoundLand(l), NEW w \in Lands, Len(l[w].free) >= 1, NEW of \in SUBSET AnyHandle, NEW kind \in EntityKinds
  PROVE  Extended(l, Inserted(l, w, kind, of))
  <1>1. /\ \A h \in AnyHandle : Finds(Inserted(l, w, kind, of), h) <=> Finds(l, h) \/ h = NewHandle(l, w)
        /\ \A h \in AnyHandle : Finds(l, h) => At(Inserted(l, w, kind, of), h) = At(l, h)
    BY InsertedIs
  <1> QED
    BY <1>1 DEF Extended

LEMMA MarkedExtended ==
  ASSUME NEW l, SoundLand(l), NEW hs
  PROVE  Extended(l, Marked(l, hs)) /\ SoundLand(Marked(l, hs)) /\ Grows(l, Marked(l, hs))
         /\ \A h \in AnyHandle : Finds(Marked(l, hs), h) <=> Finds(l, h)
  <1>1. SameNames(l, Marked(l, hs))
    BY MarkedIs
  <1>2. SoundLand(Marked(l, hs)) /\ Grows(l, Marked(l, hs))
        /\ \A h \in AnyHandle : Finds(Marked(l, hs), h) <=> Finds(l, h)
    BY <1>1, SameNamesSound
  <1>3. ASSUME NEW h \in AnyHandle, Finds(l, h)
        PROVE  /\ At(Marked(l, hs), h).kind = At(l, h).kind
               /\ At(Marked(l, hs), h).of = At(l, h).of
               /\ At(Marked(l, hs), h).parts = At(l, h).parts
               /\ At(Marked(l, hs), h).tags = At(l, h).tags
               /\ ~At(Marked(l, hs), h).marked => ~At(l, h).marked
    BY <1>3, MarkedFields
  <1> QED
    BY <1>2, <1>3 DEF Extended

\* The new entity's bonds, when what it belongs to stands in its world.
LEMMA InsertedBond ==
  ASSUME NEW l, SoundLand(l), NEW w \in Lands, Len(l[w].free) >= 1, NEW of \in SUBSET AnyHandle, NEW kind \in EntityKinds,
         kind \in {"flower", "mob"} <=> of = {},
         \A r \in of : Finds(l, r) /\ r[1] = w,
         kind # "body",
         kind \in {"shot", "petal"} => \A r \in of : "owned" \in At(l, r).tags,
         kind = "summon" => \A r \in of : "summons" \in At(l, r).tags
  PROVE  Bond(Inserted(l, w, kind, of), {}, NoLand, NewHandle(l, w))
  <1> DEFINE m == Inserted(l, w, kind, of)  h == NewHandle(l, w)  e == NewEntity(l, w, kind, of)
  <1>1. /\ h \in AnyHandle
        /\ \A x \in AnyHandle : Finds(m, x) <=> Finds(l, x) \/ x = h
        /\ \A x \in AnyHandle : Finds(l, x) => At(m, x) = At(l, x)
        /\ At(m, h) = e
    BY InsertedIs
  <1>2. e.kind = kind /\ e.of = of /\ e.parts = {} /\ (kind = "flower" => "summons" \in e.tags)
    BY DEF NewEntity
  <1>3. h[1] = w
    BY DEF NewHandle
  <1> HIDE DEF m, h, e
  <1>4. At(m, h).kind = kind /\ At(m, h).of = of /\ At(m, h).parts = {} /\ (kind = "flower" => "summons" \in At(m, h).tags)
    BY <1>1, <1>2
  <1>5. StaysHome(m, h) /\ OwnsItself(m, h)
    BY <1>3, <1>4 DEF StaysHome, OwnsItself
  <1>6. \A r \in of : Finds(m, r) /\ At(m, r) = At(l, r)
    BY <1>1
  <1>7. \A r \in of : TiedTo(m, h, r)
    BY <1>4, <1>6 DEF TiedTo
  <1>8. kind \in Needy => of # {}
    BY DEF Needy
  <1>9. Attached(m, {}, NoLand, h)
    BY <1>4, <1>6, <1>7, <1>8 DEF Attached
  <1> QED
    BY <1>5, <1>9 DEF Bond, m, h

-----------------------------------------------------------------------------
\* The inductive invariant.

NamesGiven(l, g) == Handles(l) \subseteq g /\ \A h \in g : h[3] < l[h[1]].gen
ControlsDiffer(c, l, g) ==
  /\ \A p \in Pilots : c[p] \in g \cup {NoHandle}
  /\ \A p, q \in Pilots : p # q /\ Finds(l, c[p]) => c[q] # c[p]
  /\ \A p \in Pilots : Finds(l, c[p]) => At(l, c[p]).kind \in {"flower", "mob", "body"}
ControlKept(c, d, l, m) ==
  \A p \in Pilots : /\ Fit(l, c[p]) /\ d[p] = c[p] => Finds(m, c[p])
                    /\ \A q \in Pilots \ {p} : Finds(m, d[p]) => d[q] # d[p]
NamesNew(l, m, g) == \A h \in Handles(m) \ Handles(l) : h \notin g

KeysWait == \A x \in gone : x[1][1] = cleaning

WorldsInv ==
  /\ WorldsTypeOK
  /\ SlotsAreAccounted
  /\ NamesGiven(land, given)
  /\ ControlsDiffer(control, land, given)
  /\ KeysWait
  /\ Bonds(land, gone, cleaning)

StepIsSound == WorldsInv' /\ NamesNew(land, land', given) /\ ControlKept(control, control', land, land')

LEMMA InvIsSound ==
  ASSUME WorldsInv
  PROVE  /\ SoundLand(land) /\ control \in [Pilots -> AnyHandle \cup {NoHandle}] /\ cleaning \in Lands \cup {NoLand}
         /\ gone \subseteq AnyHandle \X {"owned", "summons"} /\ given \subseteq AnyHandle
         /\ NamesGiven(land, given) /\ ControlsDiffer(control, land, given) /\ KeysWait
         /\ Bonds(land, gone, cleaning)
  BY DEF WorldsInv, WorldsTypeOK, SlotsAreAccounted, SoundLand, SlotsOK, LandType

LEMMA CalmHasNoKeys ==
  ASSUME WorldsInv, Calm
  PROVE  gone = {} /\ cleaning = NoLand /\ Bonds(land, {}, NoLand)
  <1>1. cleaning = NoLand
    BY DEF Calm
  <1>2. ASSUME NEW x \in gone PROVE FALSE
    <2>1. gone \subseteq AnyHandle \X {"owned", "summons"} /\ x[1][1] = NoLand
      BY <1>1, <1>2, InvIsSound DEF KeysWait
    <2>2. x[1] \in AnyHandle
      BY <1>2, <2>1
    <2> QED
      BY <2>1, <2>2, HandleParts, WorldsAssumption
  <1>3. gone = {}
    BY <1>2
  <1> QED
    BY <1>1, <1>3, InvIsSound

LEMMA NamesStayGiven ==
  ASSUME NEW l \in LandType, NEW m \in LandType, Grows(l, m), NEW g \in SUBSET AnyHandle, NamesGiven(l, g)
  PROVE  /\ g \cup Handles(m) \in SUBSET AnyHandle /\ NamesGiven(m, g \cup Handles(m)) /\ NamesNew(l, m, g)
         /\ \A h \in AnyHandle : h \in g /\ Finds(m, h) => Finds(l, h)
  <1>1. Handles(l) = {h \in AnyHandle : Finds(l, h)} /\ Handles(m) = {h \in AnyHandle : Finds(m, h)}
    BY HandlesAreFound
  <1>2. \A w \in Lands : l[w].gen \in Nat /\ m[w].gen \in Nat
    BY SoundSlots
  <1>3. \A h \in g : h \in AnyHandle /\ h[3] < l[h[1]].gen
    BY DEF NamesGiven
  <1>4. ASSUME NEW h \in AnyHandle, h \in g
        PROVE  h[3] < m[h[1]].gen /\ (Finds(m, h) => Finds(l, h))
    <2>1. h[1] \in Lands /\ h[3] \in Nat /\ h[3] < l[h[1]].gen
      BY <1>3, <1>4, HandleParts
    <2>2. l[h[1]].gen <= m[h[1]].gen
      BY <2>1 DEF Grows
    <2> QED
      BY <1>2, <2>1, <2>2 DEF Grows
  <1>5. ASSUME NEW h \in Handles(m), h \notin g
        PROVE  h[3] < m[h[1]].gen
    <2>1. h \in AnyHandle /\ Finds(m, h)
      BY <1>1, <1>5
    <2>2. ~Finds(l, h)
      BY <1>1, <1>5, <2>1 DEF NamesGiven
    <2> QED
      BY <2>1, <2>2 DEF Grows
  <1>6. NamesGiven(m, g \cup Handles(m))
    BY <1>3, <1>4, <1>5 DEF NamesGiven
  <1>7. NamesNew(l, m, g)
    BY <1>1, <1>3, <1>4 DEF NamesNew
  <1> QED
    BY <1>1, <1>4, <1>6, <1>7

LEMMA ControlsStay ==
  ASSUME NEW l \in LandType, NEW m \in LandType, Grows(l, m), NEW g \in SUBSET AnyHandle, NamesGiven(l, g),
         NEW c \in [Pilots -> AnyHandle \cup {NoHandle}], ControlsDiffer(c, l, g),
         \A h \in AnyHandle : Finds(l, h) /\ Finds(m, h) /\ At(l, h).kind \in {"flower", "mob", "body"}
                             => At(m, h).kind \in {"flower", "mob", "body"},
         \A h \in AnyHandle : Fit(l, h) => Finds(m, h)
  PROVE  ControlsDiffer(c, m, g \cup Handles(m)) /\ ControlKept(c, c, l, m)
  <1>1. \A h \in AnyHandle : h \in g /\ Finds(m, h) => Finds(l, h)
    BY NamesStayGiven
  <1>2. ASSUME NEW p \in Pilots, Finds(m, c[p])
        PROVE  /\ c[p] \in AnyHandle /\ Finds(l, c[p])
               /\ At(m, c[p]).kind \in {"flower", "mob", "body"}
               /\ \A q \in Pilots : p # q => c[q] # c[p]
    <2>1. c[p] # NoHandle /\ c[p] \in g /\ c[p] \in AnyHandle
      BY <1>2 DEF Finds, ControlsDiffer
    <2>2. Finds(l, c[p])
      BY <1>1, <1>2, <2>1
    <2> QED
      BY <1>2, <2>1, <2>2 DEF ControlsDiffer
  <1>3. ASSUME NEW p \in Pilots, Fit(l, c[p]) PROVE Finds(m, c[p])
    <2>1. c[p] \in AnyHandle
      BY <1>3 DEF Fit, Finds
    <2> QED
      BY <1>3, <2>1
  <1>4. \A p \in Pilots : c[p] \in g \cup Handles(m) \cup {NoHandle}
    BY DEF ControlsDiffer
  <1>5. ControlsDiffer(c, m, g \cup Handles(m))
    <2> HIDE DEF Finds
    <2> QED
      BY <1>2, <1>4 DEF ControlsDiffer
  <1> QED
    BY <1>2, <1>3, <1>5 DEF ControlKept

\* A step between two ticks that leaves what stands, and adds what has its bonds.
LEMMA CalmStep ==
  ASSUME NEW STATE m, WorldsInv, Calm, SoundLand(m), Grows(land, m), Extended(land, m),
         \A h \in AnyHandle : Finds(m, h) /\ ~Finds(land, h) => Bond(m, {}, NoLand, h),
         Keep(m), UNCHANGED <<control, cleaning, gone>>
  PROVE  StepIsSound
  <1>1. /\ SoundLand(land) /\ control \in [Pilots -> AnyHandle \cup {NoHandle}] /\ cleaning \in Lands \cup {NoLand}
        /\ gone \subseteq AnyHandle \X {"owned", "summons"} /\ given \subseteq AnyHandle
        /\ NamesGiven(land, given) /\ ControlsDiffer(control, land, given) /\ KeysWait
        /\ gone = {} /\ cleaning = NoLand /\ Bonds(land, {}, NoLand)
    BY InvIsSound, CalmHasNoKeys
  <1>2. land' = m /\ given' = given \cup Handles(m) /\ control' = control /\ cleaning' = NoLand /\ gone' = {}
    BY <1>1 DEF Keep
  <1>3. land \in LandType /\ m \in LandType
    BY <1>1 DEF SoundLand
  <1>4. Bonds(m, {}, NoLand)
    BY <1>1, <1>3, BondsExtended
  <1>5. given \cup Handles(m) \subseteq AnyHandle /\ NamesGiven(m, given \cup Handles(m)) /\ NamesNew(land, m, given)
    BY <1>1, <1>3, NamesStayGiven
  <1>6. ControlsDiffer(control, m, given \cup Handles(m)) /\ ControlKept(control, control, land, m)
    <2>1. \A h \in AnyHandle : Finds(land, h) => Finds(m, h) /\ At(m, h).kind = At(land, h).kind
      BY DEF Extended
    <2>2. \A h \in AnyHandle : Fit(land, h) => Finds(m, h)
      BY <2>1 DEF Fit
    <2>3. \A h \in AnyHandle : Finds(land, h) /\ Finds(m, h) /\ At(land, h).kind \in {"flower", "mob", "body"}
                             => At(m, h).kind \in {"flower", "mob", "body"}
      BY <2>1
    <2> QED
      BY <1>1, <1>3, <2>2, <2>3, ControlsStay
  <1>7. /\ SoundLand(land') /\ control' \in [Pilots -> AnyHandle \cup {NoHandle}] /\ cleaning' \in Lands \cup {NoLand}
        /\ gone' \subseteq AnyHandle \X {"owned", "summons"} /\ given' \subseteq AnyHandle
        /\ NamesGiven(land', given') /\ ControlsDiffer(control', land', given') /\ KeysWait'
        /\ Bonds(land', gone', cleaning')
    BY <1>1, <1>2, <1>4, <1>5, <1>6 DEF KeysWait
  <1>8. WorldsInv'
    BY <1>7 DEF WorldsInv, WorldsTypeOK, SlotsAreAccounted, SoundLand, SlotsOK, LandType
  <1> QED
    BY <1>2, <1>5, <1>6, <1>8 DEF StepIsSound

-----------------------------------------------------------------------------
\* Destroy and SpawnMob.

LEMMA DestroySound ==
  ASSUME WorldsInv, NEW h \in AnyHandle, Destroy(h)
  PROVE  StepIsSound
  <1>1. Calm /\ Keep(Marked(land, {h})) /\ UNCHANGED <<control, cleaning, gone>>
    BY DEF Destroy
  <1>2. SoundLand(land)
    BY InvIsSound
  <1>3. Extended(land, Marked(land, {h})) /\ SoundLand(Marked(land, {h})) /\ Grows(land, Marked(land, {h}))
        /\ \A x \in AnyHandle : Finds(Marked(land, {h}), x) <=> Finds(land, x)
    BY <1>2, MarkedExtended
  <1> QED
    BY <1>1, <1>3, CalmStep

LEMMA InsertedStep ==
  ASSUME WorldsInv, Calm, NEW STATE w, w \in Lands, Len(land[w].free) >= 1, NEW STATE of, of \in SUBSET AnyHandle,
         NEW STATE kind, kind \in EntityKinds,
         Bond(Inserted(land, w, kind, of), {}, NoLand, NewHandle(land, w)),
         Keep(Inserted(land, w, kind, of)), UNCHANGED <<control, cleaning, gone>>
  PROVE  StepIsSound
  <1>1. SoundLand(land)
    BY InvIsSound
  <1> DEFINE m == Inserted(land, w, kind, of)
  <1>2. SoundLand(m) /\ Grows(land, m) /\ \A h \in AnyHandle : Finds(m, h) <=> Finds(land, h) \/ h = NewHandle(land, w)
    BY <1>1, InsertedIs
  <1>3. Extended(land, m)
    BY <1>1, InsertedExtended
  <1>4. Bond(m, {}, NoLand, NewHandle(land, w)) /\ Keep(m) /\ UNCHANGED <<control, cleaning, gone>>
    OBVIOUS
  <1> HIDE DEF m
  <1> QED
    BY <1>2, <1>3, <1>4, CalmStep

\* A mob with a body: each finds the other.
LEMMA AssembledIs ==
  ASSUME NEW l, SoundLand(l), NEW w \in Lands, Len(l[w].free) >= 2
  PROVE  /\ SoundLand(Assembled(l, w)) /\ Grows(l, Assembled(l, w)) /\ Extended(l, Assembled(l, w))
         /\ \A h \in AnyHandle : Finds(Assembled(l, w), h) /\ ~Finds(l, h) => Bond(Assembled(l, w), {}, NoLand, h)
  <1> DEFINE r == NewHandle(l, w)
             k == Inserted(l, w, "mob", {})
             b == NewHandle(k, w)
             n == Inserted(k, w, "body", {r})
             e == [At(n, r) EXCEPT !.parts = {b}]
             m == Rewritten(n, r, e)
  <1>0. {} \in SUBSET AnyHandle /\ "mob" \in EntityKinds /\ "body" \in EntityKinds /\ Len(l[w].free) \in Nat
    BY SoundSlots, LenProperties DEF EntityKinds, SoundLand
  <1>1. /\ SoundLand(k) /\ Grows(l, k) /\ Extended(l, k) /\ r \in AnyHandle /\ ~Finds(l, r)
        /\ \A h \in AnyHandle : Finds(k, h) <=> Finds(l, h) \/ h = r
        /\ At(k, r) = NewEntity(l, w, "mob", {})
        /\ Len(k[w].free) = Len(l[w].free) - 1
    <2>1. Len(l[w].free) >= 1
      BY <1>0
    <2> QED
      BY <1>0, <2>1, InsertedIs, InsertedExtended
  <1> HIDE DEF k, r
  <1>2. /\ SoundLand(n) /\ Grows(k, n) /\ Extended(k, n) /\ b \in AnyHandle /\ ~Finds(k, b)
        /\ \A h \in AnyHandle : Finds(n, h) <=> Finds(k, h) \/ h = b
        /\ \A h \in AnyHandle : Finds(k, h) => At(n, h) = At(k, h)
        /\ At(n, b) = NewEntity(k, w, "body", {r})
    <2>1. Len(k[w].free) >= 1 /\ {r} \in SUBSET AnyHandle
      BY <1>0, <1>1
    <2> QED
      BY <1>0, <1>1, <2>1, InsertedIs, InsertedExtended
  <1>3. b[1] = w /\ r[1] = w /\ b # r
    <2>1. b[1] = w
      BY DEF NewHandle
    <2>2. r[1] = w
      BY DEF NewHandle, r
    <2> QED
      BY <1>1, <1>2, <2>1, <2>2
  <1> HIDE DEF n, b
  <1>4. At(n, r) \in Entity /\ At(n, r).gen = r[3] /\ Finds(n, r)
    BY <1>1, <1>2, FoundAreEntities DEF SoundLand
  <1>5. At(n, r).kind = "mob" /\ At(n, r).of = {} /\ At(n, r).parts = {}
    <2>1. At(n, r) = NewEntity(l, w, "mob", {})
      BY <1>1, <1>2
    <2> QED
      BY <2>1 DEF NewEntity
  <1>6. At(n, b).kind = "body" /\ At(n, b).of = {r} /\ At(n, b).parts = {}
    BY <1>2 DEF NewEntity
  <1>7. e \in Entity /\ e.gen = r[3] /\ e.kind = "mob" /\ e.of = {} /\ e.parts = {b}
    <2> DEFINE y == At(n, r)
    <2>1. y \in Entity /\ y.gen = r[3] /\ y.kind = "mob" /\ y.of = {}
      BY <1>4, <1>5
    <2> HIDE DEF y
    <2>2. [y EXCEPT !.parts = {b}] \in Entity /\ [y EXCEPT !.parts = {b}].gen = y.gen /\ [y EXCEPT !.parts = {b}].kind = y.kind
          /\ [y EXCEPT !.parts = {b}].of = y.of /\ [y EXCEPT !.parts = {b}].parts = {b}
      BY <1>2, <2>1 DEF Entity
    <2> QED
      BY <2>1, <2>2 DEF y
  <1> HIDE DEF e
  <1>8. /\ SameNames(n, m) /\ At(m, r) = e
        /\ \A x \in AnyHandle : Finds(n, x) /\ x # r => At(m, x) = At(n, x)
    BY <1>1, <1>2, <1>4, <1>7, RewrittenNames
  <1>9. SoundLand(m) /\ Grows(n, m) /\ \A x \in AnyHandle : Finds(m, x) <=> Finds(n, x)
    BY <1>2, <1>8, SameNamesSound
  <1>10. Assembled(l, w) = m
    <2>1. Assembled(l, w) = [n EXCEPT ![w].at[NewId(l, w)].parts = {b}]
      BY DEF Assembled, n, k, r, b, NewHandle
    <2>2. r[1] = w /\ r[2] = NewId(l, w)
      BY DEF NewHandle, r
    <2> QED
      BY <2>1, <2>2 DEF Rewritten, e, At
  <1> HIDE DEF m
  <1>11. Grows(l, m)
    BY <1>1, <1>2, <1>9, GrowsTransitive DEF SoundLand
  <1>12. Extended(l, m)
    <2>1. Extended(l, n)
      BY <1>1, <1>2, ExtendedTransitive
    <2>2. \A x \in AnyHandle : Finds(l, x) => x # r /\ Finds(n, x) /\ At(m, x) = At(n, x) /\ Finds(m, x)
      BY <1>1, <1>8, <1>9, <2>1 DEF Extended
    <2> QED
      BY <2>1, <2>2 DEF Extended
  <1>13. Finds(m, r) /\ Finds(m, b) /\ At(m, b) = At(n, b)
    <2>1. b \in AnyHandle /\ r \in AnyHandle /\ Finds(n, b) /\ Finds(n, r)
      BY <1>1, <1>2, <1>4
    <2> QED
      BY <1>3, <1>8, <1>9, <2>1
  <1>14. Bond(m, {}, NoLand, r)
    <2>1. At(m, r).kind = "mob" /\ At(m, r).of = {} /\ At(m, r).parts = {b}
      BY <1>7, <1>8
    <2>2. StaysHome(m, r) /\ OwnsItself(m, r)
      BY <1>3, <2>1 DEF StaysHome, OwnsItself
    <2>3. HasPart(m, r, b)
      BY <1>6, <1>13 DEF HasPart
    <2>4. Attached(m, {}, NoLand, r)
      BY <2>1, <2>3 DEF Attached, Needy
    <2> QED
      BY <2>2, <2>4 DEF Bond
  <1>15. Bond(m, {}, NoLand, b)
    <2>1. At(m, b).kind = "body" /\ At(m, b).of = {r} /\ At(m, b).parts = {}
      BY <1>6, <1>13
    <2>2. StaysHome(m, b) /\ OwnsItself(m, b)
      BY <1>3, <2>1 DEF StaysHome, OwnsItself
    <2>3. TiedTo(m, b, r)
      BY <1>7, <1>8, <2>1 DEF TiedTo
    <2>4. Attached(m, {}, NoLand, b)
      BY <1>13, <2>1, <2>3 DEF Attached
    <2> QED
      BY <2>2, <2>4 DEF Bond
  <1>16. ASSUME NEW h \in AnyHandle, Finds(m, h), ~Finds(l, h)
         PROVE  h = r \/ h = b
    BY <1>1, <1>2, <1>9, <1>16
  <1> QED
    BY <1>9, <1>10, <1>11, <1>12, <1>14, <1>15, <1>16

LEMMA SpawnMobSound ==
  ASSUME WorldsInv, NEW w \in Homes, SpawnMob(w)
  PROVE  StepIsSound
  <1>1. Calm /\ UNCHANGED <<control, cleaning, gone>> /\ w \in Lands /\ SoundLand(land)
    BY WorldsAssumption, InvIsSound DEF SpawnMob
  <1>2. CASE HasRoom(w, 1) /\ Keep(Inserted(land, w, "mob", {}))
    <2>1. Len(land[w].free) >= 1 /\ {} \in SUBSET AnyHandle /\ "mob" \in EntityKinds
      BY <1>2 DEF HasRoom, EntityKinds
    <2>2. Bond(Inserted(land, w, "mob", {}), {}, NoLand, NewHandle(land, w))
      BY <1>1, <2>1, InsertedBond
    <2> QED
      BY <1>1, <1>2, <2>1, <2>2, InsertedStep
  <1>3. CASE HasRoom(w, 2) /\ Keep(Assembled(land, w))
    <2>1. Len(land[w].free) >= 2
      BY <1>3 DEF HasRoom
    <2>2. /\ SoundLand(Assembled(land, w)) /\ Grows(land, Assembled(land, w)) /\ Extended(land, Assembled(land, w))
          /\ \A h \in AnyHandle : Finds(Assembled(land, w), h) /\ ~Finds(land, h) => Bond(Assembled(land, w), {}, NoLand, h)
      BY <1>1, <2>1, AssembledIs
    <2> QED
      BY <1>1, <1>3, <2>2, CalmStep
  <1> QED
    BY <1>2, <1>3 DEF SpawnMob

-----------------------------------------------------------------------------
\* SpawnOwned and LinkChain.

\* A shot, a petal or a summon of something that stands.
LEMMA SpawnOwnedSound ==
  ASSUME WorldsInv, NEW h \in AnyHandle, NEW kind \in {"shot", "petal", "summon"}, SpawnOwned(h, kind)
  PROVE  StepIsSound
  <1> DEFINE w == h[1]
             n == Inserted(land, w, kind, {h})
             b == NewHandle(land, w)
             e == [At(n, h) EXCEPT !.tags = @ \cup {"owned"}]
             m == Rewritten(n, h, e)
  <1>1. /\ Calm /\ UNCHANGED <<control, cleaning, gone>> /\ SoundLand(land)
        /\ Fit(land, h) /\ Len(land[w].free) >= 1
        /\ At(land, h).kind \in IF kind = "shot" THEN {"flower", "mob", "body"} ELSE {"flower"}
        /\ Keep(IF kind = "summon" THEN n
                ELSE [n EXCEPT ![w].at[h[2]].tags = @ \cup {"owned"}])
    BY InvIsSound DEF SpawnOwned, HasRoom
  <1>2. /\ w \in Lands /\ {h} \in SUBSET AnyHandle /\ kind \in EntityKinds /\ Finds(land, h)
        /\ land \in LandType
    BY <1>1, HandleParts DEF EntityKinds, Fit, SoundLand
  <1> HIDE DEF w
  <1>3. /\ SoundLand(n) /\ Grows(land, n) /\ b \in AnyHandle /\ ~Finds(land, b)
        /\ \A x \in AnyHandle : Finds(n, x) <=> Finds(land, x) \/ x = b
        /\ \A x \in AnyHandle : Finds(land, x) => At(n, x) = At(land, x)
        /\ At(n, b) = NewEntity(land, w, kind, {h})
    BY <1>1, <1>2, InsertedIs
  <1>4. Extended(land, n)
    BY <1>1, <1>2, InsertedExtended
  <1>5. CASE kind = "summon"
    <2>1. OwnsItself(land, h)
      BY <1>1, <1>2, CalmHasNoKeys DEF Bonds, Bond
    <2>2. "summons" \in At(land, h).tags
      BY <1>1, <1>5, <2>1 DEF OwnsItself
    <2>3. \A r \in {h} : Finds(land, r) /\ r[1] = w /\ "summons" \in At(land, r).tags
      BY <1>2, <2>2 DEF w
    <2>4. Bond(n, {}, NoLand, b)
      BY <1>1, <1>2, <1>5, <2>3, InsertedBond
    <2>5. Keep(n)
      BY <1>1, <1>5
    <2> QED
      BY <1>1, <1>2, <2>4, <2>5, InsertedStep
  <1>6. CASE kind # "summon"
    <2> HIDE DEF n, b
    <2>1. Finds(n, h) /\ At(n, h) = At(land, h) /\ h # b /\ Finds(n, b)
      BY <1>2, <1>3
    <2>2. At(n, h) \in Entity /\ At(n, h).gen = h[3]
      BY <1>3, <2>1, FoundAreEntities DEF SoundLand
    <2>3. /\ e \in Entity /\ e.gen = h[3] /\ e.kind = At(n, h).kind /\ e.of = At(n, h).of /\ e.parts = At(n, h).parts
          /\ At(n, h).tags \subseteq e.tags /\ "owned" \in e.tags
          /\ ~e.marked => ~At(n, h).marked
      <3> DEFINE y == At(n, h)
      <3>1. y \in Entity /\ y.gen = h[3]
        BY <2>2
      <3> HIDE DEF y
      <3>2. [y EXCEPT !.tags = y.tags \cup {"owned"}] \in Entity
        BY <3>1 DEF Entity
      <3>3. /\ [y EXCEPT !.tags = y.tags \cup {"owned"}].gen = y.gen
            /\ [y EXCEPT !.tags = y.tags \cup {"owned"}].kind = y.kind
            /\ [y EXCEPT !.tags = y.tags \cup {"owned"}].of = y.of
            /\ [y EXCEPT !.tags = y.tags \cup {"owned"}].parts = y.parts
            /\ [y EXCEPT !.tags = y.tags \cup {"owned"}].tags = y.tags \cup {"owned"}
            /\ [y EXCEPT !.tags = y.tags \cup {"owned"}].marked = y.marked
        BY <3>1 DEF Entity
      <3> QED
        BY <3>1, <3>2, <3>3 DEF y
    <2> HIDE DEF e
    <2>4. /\ SameNames(n, m) /\ At(m, h) = e
          /\ \A x \in AnyHandle : Finds(n, x) /\ x # h => At(m, x) = At(n, x)
      BY <1>3, <2>1, <2>3, RewrittenNames
    <2>5. SoundLand(m) /\ Grows(n, m) /\ \A x \in AnyHandle : Finds(m, x) <=> Finds(n, x)
      BY <1>3, <2>4, SameNamesSound
    <2>6. Keep(m)
      <3>1. [n EXCEPT ![w].at[h[2]].tags = @ \cup {"owned"}] = m
        BY DEF Rewritten, e, w, At
      <3> QED
        BY <1>1, <1>6, <3>1
    <2> HIDE DEF m
    <2>7. Grows(land, m)
      BY <1>1, <1>3, <2>5, GrowsTransitive DEF SoundLand
    <2>8. Extended(n, m)
      <3> SUFFICES ASSUME NEW x \in AnyHandle, Finds(n, x)
                   PROVE  /\ Finds(m, x) /\ At(m, x).kind = At(n, x).kind /\ At(m, x).of = At(n, x).of
                          /\ At(m, x).parts = At(n, x).parts /\ At(n, x).tags \subseteq At(m, x).tags
                          /\ ~At(m, x).marked => ~At(n, x).marked
        BY DEF Extended
      <3>1. CASE x = h
        BY <2>3, <2>4, <2>5, <3>1
      <3>2. CASE x # h
        BY <2>4, <2>5, <3>2
      <3> QED
        BY <3>1, <3>2
    <2>9. Extended(land, m)
      BY <1>4, <2>8, ExtendedTransitive
    <2>10. Bond(m, {}, NoLand, b)
      <3>1. At(m, b) = NewEntity(land, w, kind, {h})
        BY <1>3, <2>1, <2>4
      <3>2. At(m, b).kind = kind /\ At(m, b).of = {h} /\ At(m, b).parts = {}
        BY <3>1 DEF NewEntity
      <3>3. b[1] = w
        BY DEF b, NewHandle
      <3>4. kind \in {"shot", "petal"}
        BY <1>6
      <3>5. StaysHome(m, b) /\ OwnsItself(m, b)
        BY <3>2, <3>3, <3>4 DEF StaysHome, OwnsItself, w
      <3>6. TiedTo(m, b, h)
        BY <2>3, <2>4, <3>2, <3>4 DEF TiedTo
      <3>7. Finds(m, h)
        BY <2>1, <2>5
      <3>8. Attached(m, {}, NoLand, b)
        BY <3>2, <3>6, <3>7 DEF Attached
      <3> QED
        BY <3>5, <3>8 DEF Bond
    <2>11. \A x \in AnyHandle : Finds(m, x) /\ ~Finds(land, x) => Bond(m, {}, NoLand, x)
      BY <1>3, <2>5, <2>10
    <2> QED
      BY <1>1, <2>5, <2>6, <2>7, <2>9, <2>11, CalmStep
  <1> QED
    BY <1>5, <1>6

LEMMA LinkChainSound ==
  ASSUME WorldsInv, NEW petal \in AnyHandle, NEW h \in AnyHandle, LinkChain(petal, h)
  PROVE  StepIsSound
  <1> DEFINE w == h[1]  of == {petal, h}
  <1>1. /\ Calm /\ UNCHANGED <<control, cleaning, gone>> /\ SoundLand(land)
        /\ Finds(land, petal) /\ Finds(land, h) /\ petal[1] = w
        /\ Len(land[w].free) >= 1 /\ Keep(Inserted(land, w, "chain", of))
    BY InvIsSound DEF LinkChain, HasRoom, Fit
  <1>2. w \in Lands /\ of \in SUBSET AnyHandle /\ of # {} /\ \A r \in of : Finds(land, r) /\ r[1] = w
    BY <1>1, HandleParts
  <1>3. "chain" \in EntityKinds
    BY DEF EntityKinds
  <1> HIDE DEF w, of
  <1>4. Bond(Inserted(land, w, "chain", of), {}, NoLand, NewHandle(land, w))
    BY <1>1, <1>2, <1>3, InsertedBond
  <1> QED
    BY <1>1, <1>2, <1>3, <1>4, InsertedStep

-----------------------------------------------------------------------------
\* SpawnPlayer.

\* What a step has to show.
LEMMA StepParts ==
  ASSUME NEW STATE m, WorldsInv, SoundLand(m), Grows(land, m), Keep(m),
         control' \in [Pilots -> AnyHandle \cup {NoHandle}],
         ControlsDiffer(control', m, given \cup Handles(m)), ControlKept(control, control', land, m),
         cleaning' \in Lands \cup {NoLand}, gone' \subseteq AnyHandle \X {"owned", "summons"},
         \A x \in gone' : x[1][1] = cleaning', Bonds(m, gone', cleaning')
  PROVE  StepIsSound
  <1>1. /\ SoundLand(land) /\ given \subseteq AnyHandle /\ NamesGiven(land, given)
    BY InvIsSound
  <1>2. land' = m /\ given' = given \cup Handles(m)
    BY DEF Keep
  <1>3. land \in LandType /\ m \in LandType
    BY <1>1 DEF SoundLand
  <1>5. given \cup Handles(m) \subseteq AnyHandle /\ NamesGiven(m, given \cup Handles(m)) /\ NamesNew(land, m, given)
    BY <1>1, <1>3, NamesStayGiven
  <1>7. /\ SoundLand(land') /\ control' \in [Pilots -> AnyHandle \cup {NoHandle}] /\ cleaning' \in Lands \cup {NoLand}
        /\ gone' \subseteq AnyHandle \X {"owned", "summons"} /\ given' \subseteq AnyHandle
        /\ NamesGiven(land', given') /\ ControlsDiffer(control', land', given') /\ KeysWait'
        /\ Bonds(land', gone', cleaning')
    BY <1>1, <1>2, <1>5 DEF KeysWait
  <1>8. WorldsInv'
    BY <1>7 DEF WorldsInv, WorldsTypeOK, SlotsAreAccounted, SoundLand, SlotsOK, LandType
  <1> QED
    BY <1>2, <1>5, <1>8 DEF StepIsSound

\* A player who gets a new name to control.
LEMMA ControlsMoved ==
  ASSUME NEW l \in LandType, NEW m \in LandType, Grows(l, m), NEW g \in SUBSET AnyHandle, NamesGiven(l, g),
         NEW c \in [Pilots -> AnyHandle \cup {NoHandle}], ControlsDiffer(c, l, g),
         \A h \in AnyHandle : Finds(l, h) /\ Finds(m, h) /\ At(l, h).kind \in {"flower", "mob", "body"}
                             => At(m, h).kind \in {"flower", "mob", "body"},
         NEW p \in Pilots, NEW h0 \in AnyHandle, h0 \notin g, Finds(m, h0), At(m, h0).kind \in {"flower", "mob", "body"},
         \A q \in Pilots \ {p} : Fit(l, c[q]) => Finds(m, c[q])
  PROVE  /\ [c EXCEPT ![p] = h0] \in [Pilots -> AnyHandle \cup {NoHandle}]
         /\ ControlsDiffer([c EXCEPT ![p] = h0], m, g \cup Handles(m))
         /\ ControlKept(c, [c EXCEPT ![p] = h0], l, m)
  <1> DEFINE d == [c EXCEPT ![p] = h0]
  <1>1. d \in [Pilots -> AnyHandle \cup {NoHandle}] /\ d[p] = h0 /\ \A q \in Pilots \ {p} : d[q] = c[q]
    OBVIOUS
  <1> HIDE DEF d
  <1>2. \A h \in AnyHandle : h \in g /\ Finds(m, h) => Finds(l, h)
    BY NamesStayGiven
  <1>3. \A q \in Pilots : c[q] \in g \cup {NoHandle}
    BY DEF ControlsDiffer
  <1>4. ASSUME NEW q \in Pilots \ {p}
        PROVE  d[q] # h0 /\ (d[q] \in AnyHandle => d[q] \in g)
    BY <1>1, <1>3, HandleParts
  <1>5. ASSUME NEW q \in Pilots, Finds(m, d[q])
        PROVE  At(m, d[q]).kind \in {"flower", "mob", "body"} /\ \A r \in Pilots : r # q => d[r] # d[q]
    <2>1. CASE q = p
      BY <1>1, <1>4, <2>1
    <2>2. CASE q # p
      <3>1. d[q] = c[q] /\ c[q] \in AnyHandle /\ c[q] \in g
        BY <1>1, <1>3, <1>5, <2>2 DEF Finds
      <3>2. Finds(l, c[q])
        BY <1>2, <1>5, <3>1
      <3>3. At(m, c[q]).kind \in {"flower", "mob", "body"}
        BY <1>5, <3>1, <3>2 DEF ControlsDiffer
      <3>4. ASSUME NEW r \in Pilots, r # q PROVE d[r] # d[q]
        <4>1. CASE r = p
          BY <1>1, <1>4, <2>2, <4>1
        <4>2. CASE r # p
          BY <1>1, <3>1, <3>2, <3>4, <4>2 DEF ControlsDiffer
        <4> QED
          BY <4>1, <4>2
      <3> QED
        BY <3>1, <3>3, <3>4
    <2> QED
      BY <2>1, <2>2
  <1>6. Handles(m) = {h \in AnyHandle : Finds(m, h)}
    BY HandlesAreFound
  <1>7. \A q \in Pilots : d[q] \in g \cup Handles(m) \cup {NoHandle}
    BY <1>1, <1>3, <1>6
  <1>8. ControlsDiffer(d, m, g \cup Handles(m))
    BY <1>5, <1>7 DEF ControlsDiffer
  <1>9. \A q \in Pilots : Fit(l, c[q]) /\ d[q] = c[q] => Finds(m, c[q])
    BY <1>1
  <1>10. ControlKept(c, d, l, m)
    BY <1>5, <1>9 DEF ControlKept
  <1> QED
    BY <1>1, <1>8, <1>10 DEF d

LEMMA SpawnPlayerSound ==
  ASSUME WorldsInv, NEW p \in Pilots, NEW w \in Homes, SpawnPlayer(p, w)
  PROVE  StepIsSound
  <1> DEFINE old == control[p]
             hs == {old} \cup OwnedBy(land, {old}, {"summon", "petal"})
             left == IF Finds(land, old) /\ At(land, old).kind = "flower" THEN Marked(land, hs) ELSE land
             h0 == NewHandle(land, w)
             m == Inserted(left, w, "flower", {})
  <1>1. /\ Calm /\ w \in Lands /\ Len(land[w].free) >= 1 /\ Keep(m)
        /\ control' = [control EXCEPT ![p] = h0] /\ cleaning' = cleaning /\ gone' = gone
    BY WorldsAssumption DEF SpawnPlayer, HasRoom, NewHandle
  <1>2. /\ SoundLand(land) /\ control \in [Pilots -> AnyHandle \cup {NoHandle}] /\ cleaning \in Lands \cup {NoLand}
        /\ gone \subseteq AnyHandle \X {"owned", "summons"} /\ given \subseteq AnyHandle
        /\ NamesGiven(land, given) /\ ControlsDiffer(control, land, given) /\ KeysWait
        /\ gone = {} /\ cleaning = NoLand /\ Bonds(land, {}, NoLand)
    BY <1>1, InvIsSound, CalmHasNoKeys
  <1> HIDE DEF old, hs
  <1>3. /\ SoundLand(left) /\ Grows(land, left) /\ Extended(land, left)
        /\ \A h \in AnyHandle : Finds(left, h) <=> Finds(land, h)
        /\ NewId(left, w) = NewId(land, w) /\ left[w].gen = land[w].gen /\ left[w].free = land[w].free
    <2>1. CASE left = Marked(land, hs)
      <3>1. SameNames(land, Marked(land, hs))
        BY <1>2, MarkedIs
      <3>2. left[w].gen = land[w].gen /\ left[w].free = land[w].free
        BY <1>1, <2>1, <3>1 DEF SameNames
      <3>3. Extended(land, Marked(land, hs)) /\ SoundLand(Marked(land, hs)) /\ Grows(land, Marked(land, hs))
            /\ \A h \in AnyHandle : Finds(Marked(land, hs), h) <=> Finds(land, h)
        BY <1>2, MarkedExtended
      <3> HIDE DEF left
      <3> QED
        BY <2>1, <3>2, <3>3 DEF NewId
    <2>2. CASE left = land
      <3>1. Grows(land, land)
        <4>1. \A v \in Lands : land[v].gen \in Nat
          BY <1>2, SoundSlots DEF SoundLand
        <4> QED
          BY <4>1 DEF Grows
      <3> HIDE DEF left
      <3> QED
        BY <1>2, <2>2, <3>1 DEF Extended
    <2> QED
      BY <2>1, <2>2
  <1> HIDE DEF left
  <1>4. NewHandle(left, w) = h0
    BY <1>3 DEF NewHandle
  <1>5. {} \in SUBSET AnyHandle /\ "flower" \in EntityKinds
    BY DEF EntityKinds
  <1>6. /\ SoundLand(m) /\ Grows(left, m) /\ h0 \in AnyHandle /\ ~Finds(left, h0)
        /\ \A h \in AnyHandle : Finds(m, h) <=> Finds(left, h) \/ h = h0
        /\ At(m, h0) = NewEntity(left, w, "flower", {})
    <2> DEFINE i == NewHandle(left, w)
    <2>1. Len(left[w].free) >= 1
      BY <1>1, <1>3
    <2>2. /\ SoundLand(m) /\ Grows(left, m) /\ i \in AnyHandle /\ ~Finds(left, i)
          /\ \A h \in AnyHandle : Finds(m, h) <=> Finds(left, h) \/ h = i
          /\ At(m, i) = NewEntity(left, w, "flower", {})
      <3> HIDE DEF h0
      <3> QED
        BY <1>1, <1>3, <1>5, <2>1, InsertedIs
    <2>3. i = h0
      BY <1>4
    <2> HIDE DEF i, h0, m
    <2> QED
      BY <2>2, <2>3
  <1>7. Extended(left, m)
    BY <1>1, <1>3, <1>5, InsertedExtended
  <1>8. Bond(m, {}, NoLand, h0)
    BY <1>1, <1>3, <1>4, <1>5, InsertedBond
  <1> HIDE DEF m, h0
  <1>9. Grows(land, m) /\ Extended(land, m) /\ land \in LandType /\ m \in LandType
    BY <1>2, <1>3, <1>6, <1>7, GrowsTransitive, ExtendedTransitive DEF SoundLand
  <1>10. Bonds(m, {}, NoLand)
    BY <1>2, <1>3, <1>6, <1>8, <1>9, BondsExtended
  <1>11. h0 \notin given
    <2>1. NamesNew(land, m, given)
      BY <1>2, <1>9, NamesStayGiven
    <2>2. h0 \in Handles(m) /\ h0 \notin Handles(land)
      BY <1>3, <1>6, <1>9, HandlesAreFound
    <2> QED
      BY <2>1, <2>2 DEF NamesNew
  <1>12. Finds(m, h0) /\ At(m, h0).kind \in {"flower", "mob", "body"}
    <2>1. At(m, h0).kind = "flower"
      BY <1>6 DEF NewEntity
    <2> QED
      BY <1>6, <2>1
  <1>13. \A h \in AnyHandle : Finds(land, h) => Finds(m, h) /\ At(m, h).kind = At(land, h).kind
    BY <1>9 DEF Extended
  <1>14. \A q \in Pilots \ {p} : Fit(land, control[q]) => Finds(m, control[q])
    <2> SUFFICES ASSUME NEW q \in Pilots \ {p}, Fit(land, control[q]) PROVE Finds(m, control[q])
      OBVIOUS
    <2>1. control[q] \in AnyHandle /\ Finds(land, control[q])
      BY <1>2 DEF Fit, Finds
    <2> QED
      BY <1>13, <2>1
  <1>15. /\ control' \in [Pilots -> AnyHandle \cup {NoHandle}]
         /\ ControlsDiffer(control', m, given \cup Handles(m))
         /\ ControlKept(control, control', land, m)
    <2>1. \A h \in AnyHandle : Finds(land, h) /\ Finds(m, h) /\ At(land, h).kind \in {"flower", "mob", "body"}
                             => At(m, h).kind \in {"flower", "mob", "body"}
      BY <1>13
    <2> QED
      BY <1>1, <1>2, <1>6, <1>9, <1>11, <1>12, <1>14, <2>1, ControlsMoved
  <1>16. Keep(m) /\ cleaning' = NoLand /\ gone' = {}
    BY <1>1, <1>2
  <1> QED
    BY <1>2, <1>6, <1>9, <1>10, <1>15, <1>16, StepParts

-----------------------------------------------------------------------------
\* Possess.

\* A summon that a player controls is a mob of its own; it was nobody's root.
LEMMA PossessSound ==
  ASSUME WorldsInv, NEW p \in Pilots, NEW h \in AnyHandle, Possess(p, h)
  PROVE  StepIsSound
  <1> DEFINE e == [At(land, h) EXCEPT !.kind = "mob", !.of = {}]
             m == IF At(land, h).kind = "summon" THEN Rewritten(land, h, e) ELSE land
  <1>1. /\ Calm /\ Fit(land, h) /\ At(land, h).kind \in {"flower", "mob", "body", "summon"}
        /\ ~Occupied(control, p, h)
        /\ control' = [control EXCEPT ![p] = h] /\ cleaning' = cleaning /\ gone' = gone
        /\ Keep(IF At(land, h).kind = "summon"
            THEN [land EXCEPT ![h[1]].at[h[2]] = [@ EXCEPT !.kind = "mob", !.of = {}]] ELSE land)
    BY DEF Possess
  <1>2. /\ SoundLand(land) /\ control \in [Pilots -> AnyHandle \cup {NoHandle}] /\ cleaning \in Lands \cup {NoLand}
        /\ gone \subseteq AnyHandle \X {"owned", "summons"} /\ given \subseteq AnyHandle
        /\ NamesGiven(land, given) /\ ControlsDiffer(control, land, given) /\ KeysWait
        /\ gone = {} /\ cleaning = NoLand /\ Bonds(land, {}, NoLand)
    BY <1>1, InvIsSound, CalmHasNoKeys
  <1>3. Finds(land, h) /\ land \in LandType /\ h[1] \in Lands /\ h[2] \in Ids
    BY <1>1, <1>2, HandleParts DEF Fit, SoundLand
  <1>4. At(land, h) \in Entity /\ At(land, h).gen = h[3]
    BY <1>3, FoundAreEntities
  <1>5. /\ e \in Entity /\ e.gen = h[3] /\ e.kind = "mob" /\ e.of = {} /\ e.parts = At(land, h).parts
        /\ e.tags = At(land, h).tags /\ (~e.marked => ~At(land, h).marked)
    <2> DEFINE y == At(land, h)
    <2>1. y \in Entity /\ y.gen = h[3]
      BY <1>4
    <2> HIDE DEF y
    <2> DEFINE z == [y EXCEPT !.kind = "mob"]
    <2>2. z \in Entity /\ z.gen = y.gen /\ z.kind = "mob" /\ z.of = y.of /\ z.parts = y.parts /\ z.tags = y.tags /\ z.marked = y.marked
      BY <2>1 DEF Entity
    <2>3. [y EXCEPT !.kind = "mob", !.of = {}] = [z EXCEPT !.of = {}]
      BY <2>1 DEF Entity
    <2> HIDE DEF z
    <2> DEFINE x == [z EXCEPT !.of = {}]
    <2>4. x \in Entity /\ x.gen = z.gen /\ x.kind = z.kind /\ x.of = {} /\ x.parts = z.parts /\ x.tags = z.tags /\ x.marked = z.marked
      BY <2>2 DEF Entity
    <2> HIDE DEF x
    <2>5. e = x
      BY <2>3 DEF y, x
    <2> QED
      BY <2>1, <2>2, <2>4, <2>5 DEF y
  <1>6. Keep(m)
    <2>1. [land EXCEPT ![h[1]].at[h[2]] = [@ EXCEPT !.kind = "mob", !.of = {}]] = Rewritten(land, h, e)
      BY <1>3, SoundSlots DEF Rewritten, At
    <2> QED
      BY <1>1, <2>1
  <1> HIDE DEF e
  <1>7. /\ SoundLand(m) /\ Grows(land, m)
        /\ \A x \in AnyHandle : Finds(m, x) <=> Finds(land, x)
        /\ \A x \in AnyHandle : Finds(land, x) /\ x # h => At(m, x) = At(land, x)
        /\ At(m, h).kind \in {"flower", "mob", "body"}
        /\ At(m, h) = At(land, h) \/ (At(land, h).kind = "summon" /\ At(m, h) = e)
    <2>1. CASE At(land, h).kind = "summon"
      <3>1. m = Rewritten(land, h, e)
        BY <2>1
      <3> HIDE DEF m
      <3>2. /\ SameNames(land, m) /\ At(m, h) = e
            /\ \A x \in AnyHandle : Finds(land, x) /\ x # h => At(m, x) = At(land, x)
        BY <1>2, <1>3, <1>5, <3>1, RewrittenNames
      <3>3. SoundLand(m) /\ Grows(land, m) /\ \A x \in AnyHandle : Finds(m, x) <=> Finds(land, x)
        BY <1>2, <3>2, SameNamesSound
      <3> QED
        BY <1>5, <2>1, <3>2, <3>3
    <2>2. CASE At(land, h).kind # "summon"
      <3>1. m = land
        BY <2>2
      <3>2. \A v \in Lands : land[v].gen \in Nat
        BY <1>3, SoundSlots
      <3> HIDE DEF m
      <3> QED
        BY <1>1, <1>2, <2>2, <3>1, <3>2 DEF Grows
    <2> QED
      BY <2>1, <2>2
  <1> HIDE DEF m
  <1>8. m \in LandType /\ \A x \in AnyHandle : Finds(land, x) =>
          /\ At(m, x).parts = At(land, x).parts /\ At(m, x).tags = At(land, x).tags
          /\ ~At(m, x).marked => ~At(land, x).marked
          /\ At(land, x).kind # "summon" => At(m, x).kind = At(land, x).kind /\ At(m, x).of = At(land, x).of
          /\ x # h => At(m, x).kind = At(land, x).kind /\ At(m, x).of = At(land, x).of
          /\ \/ At(m, x).kind = At(land, x).kind /\ At(m, x).of = At(land, x).of
             \/ At(m, x).kind = "mob" /\ At(m, x).of = {}
    BY <1>5, <1>7 DEF SoundLand
  <1>9. Bonds(m, {}, NoLand)
    <2> SUFFICES ASSUME NEW x \in AnyHandle, Finds(land, x) PROVE Bond(m, {}, NoLand, x)
      BY <1>7 DEF Bonds
    <2>1. StaysHome(land, x) /\ OwnsItself(land, x) /\ (~At(land, x).marked => Attached(land, {}, NoLand, x))
      BY <1>2 DEF Bonds, Bond
    <2>2. At(land, x).of \subseteq AnyHandle /\ At(land, x).parts \subseteq AnyHandle /\ NoLand # x[1]
      BY <1>3, RelatedAreHandles, HandleParts, WorldsAssumption
    <2>3. /\ At(m, x).parts = At(land, x).parts /\ At(m, x).tags = At(land, x).tags
          /\ ~At(m, x).marked => ~At(land, x).marked
          /\ \/ At(m, x).kind = At(land, x).kind /\ At(m, x).of = At(land, x).of
             \/ At(m, x).kind = "mob" /\ At(m, x).of = {}
      BY <1>8
    <2>4. StaysHome(m, x) /\ OwnsItself(m, x)
      BY <2>1, <2>3 DEF StaysHome, OwnsItself
    <2>5. ASSUME ~At(m, x).marked PROVE Attached(m, {}, NoLand, x)
      <3>1. Attached(land, {}, NoLand, x)
        BY <2>1, <2>3, <2>5
      <3>2. At(m, x).kind \in Needy => At(m, x).of # {}
        BY <2>3, <3>1 DEF Attached, Needy
      <3>3. ASSUME NEW r \in At(m, x).of PROVE Finds(m, r) /\ TiedTo(m, x, r)
        <4>1. At(m, x).kind = At(land, x).kind /\ r \in At(land, x).of /\ r \in AnyHandle
          BY <2>2, <2>3, <3>3
        <4>2. ~Awaited(land, {}, NoLand, x, r)
          BY <2>2 DEF Awaited
        <4>3. Finds(land, r) /\ TiedTo(land, x, r)
          BY <3>1, <4>1, <4>2 DEF Attached
        <4>4. /\ Finds(m, r) /\ At(m, r).parts = At(land, r).parts /\ At(m, r).tags = At(land, r).tags
              /\ At(land, r).kind = "mob" => At(m, r).kind = "mob"
          BY <1>7, <1>8, <4>1, <4>3
        <4> QED
          BY <4>1, <4>3, <4>4 DEF TiedTo
      <3>4. ASSUME NEW b \in At(m, x).parts PROVE HasPart(m, x, b)
        <4>1. b \in AnyHandle /\ HasPart(land, x, b)
          BY <2>2, <2>3, <3>1, <3>4 DEF Attached
        <4>2. Finds(land, b) /\ At(land, b).of = {x} /\ At(land, b).kind = "body"
          BY <4>1 DEF HasPart
        <4>3. Finds(m, b) /\ At(m, b).of = At(land, b).of /\ At(m, b).kind = At(land, b).kind
          BY <1>7, <1>8, <4>1, <4>2
        <4> QED
          BY <4>2, <4>3 DEF HasPart
      <3> QED
        BY <3>2, <3>3, <3>4 DEF Attached
    <2> QED
      BY <2>4, <2>5 DEF Bond
  <1>10. h \in given
    <2>1. h \in Handles(land)
      BY <1>3, HandlesAreFound
    <2> QED
      BY <1>2, <2>1 DEF NamesGiven
  <1> DEFINE d == [control EXCEPT ![p] = h]
  <1>11. d \in [Pilots -> AnyHandle \cup {NoHandle}] /\ d[p] = h /\ \A q \in Pilots \ {p} : d[q] = control[q]
    BY <1>2
  <1>12. control' = d
    BY <1>1
  <1> HIDE DEF d
  <1>13. \A q \in Pilots \ {p} : d[q] # h
    BY <1>1, <1>11 DEF Occupied
  <1>14. ASSUME NEW q \in Pilots, Finds(m, d[q])
         PROVE  At(m, d[q]).kind \in {"flower", "mob", "body"} /\ \A r \in Pilots : r # q => d[r] # d[q]
    <2>1. CASE q = p
      BY <1>7, <1>11, <1>13, <2>1
    <2>2. CASE q # p
      <3>1. d[q] = control[q] /\ control[q] \in AnyHandle /\ d[q] # h
        BY <1>2, <1>11, <1>13, <1>14, <2>2 DEF Finds
      <3>2. Finds(land, control[q])
        BY <1>7, <1>14, <3>1
      <3>3. At(m, d[q]).kind \in {"flower", "mob", "body"}
        <4>1. At(land, control[q]).kind \in {"flower", "mob", "body"}
          BY <1>2, <3>2 DEF ControlsDiffer
        <4> QED
          BY <1>8, <3>1, <3>2, <4>1
      <3>4. ASSUME NEW r \in Pilots, r # q PROVE d[r] # d[q]
        <4>1. CASE r = p
          BY <1>11, <3>1, <4>1
        <4>2. CASE r # p
          BY <1>2, <1>11, <3>1, <3>2, <3>4, <4>2 DEF ControlsDiffer
        <4> QED
          BY <4>1, <4>2
      <3> QED
        BY <3>3, <3>4
    <2> QED
      BY <2>1, <2>2
  <1>15. \A q \in Pilots : d[q] \in given \cup Handles(m) \cup {NoHandle}
    BY <1>2, <1>10, <1>11 DEF ControlsDiffer
  <1>16. ControlsDiffer(d, m, given \cup Handles(m))
    BY <1>14, <1>15 DEF ControlsDiffer
  <1>17. ASSUME NEW q \in Pilots, Fit(land, control[q]) PROVE Finds(m, control[q])
    <2>1. control[q] \in AnyHandle /\ Finds(land, control[q])
      BY <1>2, <1>17 DEF Fit, Finds
    <2> QED
      BY <1>7, <2>1
  <1>18. ControlKept(control, d, land, m)
    BY <1>14, <1>17 DEF ControlKept
  <1>19. /\ \A x \in {} : x[1][1] = NoLand
         /\ {} \subseteq AnyHandle \X {"owned", "summons"}
         /\ cleaning' = NoLand /\ gone' = {}
    BY <1>1, <1>2
  <1> QED
    BY <1>6, <1>7, <1>9, <1>11, <1>12, <1>16, <1>18, <1>19, StepParts

-----------------------------------------------------------------------------
\* BeginCleanup and SweepOwned.

LEMMA DetachedIs ==
  ASSUME NEW l, SoundLand(l), NEW h, NEW roots
  PROVE  /\ SameNames(l, Detached(l, h, roots))
         /\ \A x \in AnyHandle : Finds(l, x) =>
              /\ At(Detached(l, h, roots), x).kind = At(l, x).kind
              /\ At(Detached(l, h, roots), x).of = At(l, x).of
              /\ At(Detached(l, h, roots), x).tags = At(l, x).tags
              /\ ~At(Detached(l, h, roots), x).marked <=> ~At(l, x).marked
              /\ At(Detached(l, h, roots), x).parts = IF x \in roots THEN At(l, x).parts \ {h} ELSE At(l, x).parts
  <1> DEFINE New(w, i) == IF roots # {} /\ l[w].at[i] # NoEntity /\ <<w, i, l[w].at[i].gen>> \in roots
                            THEN [l[w].at[i] EXCEPT !.parts = l[w].at[i].parts \ {h}] ELSE l[w].at[i]
             m == Detached(l, h, roots)
             X == [at : [Ids -> Entity \cup {NoEntity}], free : Seq(Ids), gen : Nat \ {0}]
  <1>0. l \in LandType
    BY DEF SoundLand
  <1>1. \A w \in Lands : [l[w] EXCEPT !.at = [i \in Ids |-> New(w, i)]]
                           = [at |-> [i \in Ids |-> New(w, i)], free |-> l[w].free, gen |-> l[w].gen]
    <2> TAKE w \in Lands
    <2>1. l[w] = [at |-> l[w].at, free |-> l[w].free, gen |-> l[w].gen]
      BY <1>0, SoundSlots
    <2> HIDE DEF New
    <2> QED
      BY <2>1
  <1>2. \A w \in Lands, i \in Ids : l[w].at[i] # NoEntity =>
          /\ New(w, i) \in Entity /\ New(w, i).gen = l[w].at[i].gen
          /\ New(w, i).kind = l[w].at[i].kind /\ New(w, i).of = l[w].at[i].of /\ New(w, i).tags = l[w].at[i].tags
          /\ ~New(w, i).marked <=> ~l[w].at[i].marked
          /\ New(w, i).parts = IF <<w, i, l[w].at[i].gen>> \in roots THEN l[w].at[i].parts \ {h} ELSE l[w].at[i].parts
    <2> SUFFICES ASSUME NEW w \in Lands, NEW i \in Ids, l[w].at[i] # NoEntity
                 PROVE  /\ New(w, i) \in Entity /\ New(w, i).gen = l[w].at[i].gen
                        /\ New(w, i).kind = l[w].at[i].kind /\ New(w, i).of = l[w].at[i].of /\ New(w, i).tags = l[w].at[i].tags
                        /\ ~New(w, i).marked <=> ~l[w].at[i].marked
                        /\ New(w, i).parts = IF <<w, i, l[w].at[i].gen>> \in roots THEN l[w].at[i].parts \ {h} ELSE l[w].at[i].parts
      OBVIOUS
    <2> DEFINE e == l[w].at[i]  n == <<w, i, e.gen>>
    <2>1. e \in Entity
      BY <1>0, SoundSlots
    <2> HIDE DEF e
    <2>2. LET z == [e EXCEPT !.parts = e.parts \ {h}]
          IN  /\ z \in Entity /\ z.gen = e.gen /\ z.kind = e.kind /\ z.of = e.of /\ z.tags = e.tags
              /\ z.marked = e.marked /\ z.parts = e.parts \ {h}
      BY <2>1 DEF Entity
    <2>3. New(w, i) = IF n \in roots THEN [e EXCEPT !.parts = e.parts \ {h}] ELSE e
      BY DEF e
    <2> HIDE DEF New, n
    <2>4. /\ New(w, i) \in Entity /\ New(w, i).gen = e.gen
          /\ New(w, i).kind = e.kind /\ New(w, i).of = e.of /\ New(w, i).tags = e.tags
          /\ ~New(w, i).marked <=> ~e.marked
          /\ New(w, i).parts = IF n \in roots THEN e.parts \ {h} ELSE e.parts
      BY <2>1, <2>2, <2>3
    <2> QED
      BY <2>4 DEF e, n
  <1>3. \A w \in Lands, i \in Ids : New(w, i) \in Entity \cup {NoEntity} /\ (l[w].at[i] = NoEntity => New(w, i) = NoEntity)
    <2>1. \A w \in Lands, i \in Ids : l[w].at[i] = NoEntity => New(w, i) = NoEntity
      OBVIOUS
    <2> HIDE DEF New
    <2> QED
      BY <1>0, <1>2, <2>1, SoundSlots
  <1>4. m = [w \in Lands |-> [at |-> [i \in Ids |-> New(w, i)], free |-> l[w].free, gen |-> l[w].gen]]
    <2>1. m = [w \in Lands |-> [l[w] EXCEPT !.at = [i \in Ids |-> New(w, i)]]]
      BY DEF Detached
    <2> HIDE DEF m, New
    <2> QED
      BY <1>1, <2>1
  <1> HIDE DEF m, New
  <1>5. \A w \in Lands : m[w] = [at |-> [i \in Ids |-> New(w, i)], free |-> l[w].free, gen |-> l[w].gen]
    BY <1>4
  <1>6. \A w \in Lands : /\ m[w].free = l[w].free /\ m[w].gen = l[w].gen
                         /\ \A i \in Ids : m[w].at[i] = New(w, i)
    <2> SUFFICES ASSUME NEW w \in Lands
                 PROVE  m[w].free = l[w].free /\ m[w].gen = l[w].gen /\ m[w].at = [i \in Ids |-> New(w, i)]
      OBVIOUS
    <2> DEFINE a == [i \in Ids |-> New(w, i)]
    <2>1. m[w] = [at |-> a, free |-> l[w].free, gen |-> l[w].gen]
      BY <1>5
    <2> HIDE DEF a
    <2>2. m[w].free = l[w].free /\ m[w].gen = l[w].gen /\ m[w].at = a
      BY <2>1
    <2> QED
      BY <2>2 DEF a
  <1>7. \A w \in Lands : [at |-> [i \in Ids |-> New(w, i)], free |-> l[w].free, gen |-> l[w].gen] \in X
    BY <1>0, <1>3, SoundSlots
  <1>8. m \in LandType
    <2> HIDE DEF X
    <2>1. m \in [Lands -> X]
      BY <1>4, <1>7
    <2> QED
      BY <2>1 DEF X, LandType
  <1>9. SameNames(l, m)
    <2>1. \A w \in Lands, i \in Ids : New(w, i) = NoEntity <=> l[w].at[i] = NoEntity
      <3>1. \A w \in Lands, i \in Ids : l[w].at[i] # NoEntity => New(w, i) \in Entity
        BY <1>2
      <3> QED
        BY <1>3, <3>1, WorldsAssumption
    <2>2. \A w \in Lands, i \in Ids : l[w].at[i] # NoEntity => New(w, i).gen = l[w].at[i].gen
      BY <1>2
    <2> QED
      BY <1>6, <1>8, <2>1, <2>2 DEF SameNames
  <1>10. ASSUME NEW x \in AnyHandle, Finds(l, x)
         PROVE  /\ At(m, x).kind = At(l, x).kind
                /\ At(m, x).of = At(l, x).of
                /\ At(m, x).tags = At(l, x).tags
                /\ ~At(m, x).marked <=> ~At(l, x).marked
                /\ At(m, x).parts = IF x \in roots THEN At(l, x).parts \ {h} ELSE At(l, x).parts
    <2>1. l[x[1]].at[x[2]] # NoEntity /\ l[x[1]].at[x[2]].gen = x[3] /\ x[1] \in Lands /\ x[2] \in Ids
          /\ x = <<x[1], x[2], x[3]>>
      BY <1>0, <1>10, FindsSlot, HandleParts
    <2>2. <<x[1], x[2], l[x[1]].at[x[2]].gen>> = x
      BY <2>1
    <2>3. At(m, x) = New(x[1], x[2]) /\ At(l, x) = l[x[1]].at[x[2]]
      BY <1>6, <2>1 DEF At
    <2> QED
      BY <1>2, <2>1, <2>2, <2>3
  <1> QED
    BY <1>9, <1>10 DEF m

LEMMA BeginCleanupSound ==
  ASSUME WorldsInv, NEW w \in Lands, BeginCleanup(w)
  PROVE  StepIsSound
  <1>1. Calm /\ cleaning' = w /\ land' = land /\ control' = control /\ gone' = gone /\ given' = given
    BY DEF BeginCleanup
  <1>2. /\ SoundLand(land) /\ control \in [Pilots -> AnyHandle \cup {NoHandle}] /\ cleaning \in Lands \cup {NoLand}
        /\ gone \subseteq AnyHandle \X {"owned", "summons"} /\ given \subseteq AnyHandle
        /\ NamesGiven(land, given) /\ ControlsDiffer(control, land, given) /\ KeysWait
        /\ gone = {} /\ cleaning = NoLand /\ Bonds(land, {}, NoLand)
    BY <1>1, InvIsSound, CalmHasNoKeys
  <1>3. land \in LandType /\ \A v \in Lands : land[v].gen \in Nat
    BY <1>2, SoundSlots DEF SoundLand
  <1>4. Grows(land, land)
    BY <1>3 DEF Grows
  <1>5. Handles(land) \subseteq given /\ given \cup Handles(land) = given
    BY <1>2 DEF NamesGiven
  <1>6. ControlsDiffer(control, land, given) /\ ControlKept(control, control, land, land)
    <2>1. \A h \in AnyHandle : Fit(land, h) => Finds(land, h)
      BY DEF Fit
    <2> QED
      BY <1>2, <1>3, <1>4, <2>1, ControlsStay
  <1>7. Bonds(land, {}, w)
    <2> SUFFICES ASSUME NEW h \in AnyHandle, Finds(land, h) PROVE Bond(land, {}, w, h)
      BY DEF Bonds
    <2>1. Bond(land, {}, NoLand, h) /\ h[1] # NoLand
      BY <1>2, HandleParts, WorldsAssumption DEF Bonds
    <2> QED
      BY <2>1 DEF Bond, Attached, Awaited
  <1>8. /\ Keep(land) /\ control' \in [Pilots -> AnyHandle \cup {NoHandle}]
        /\ ControlsDiffer(control', land, given \cup Handles(land)) /\ ControlKept(control, control', land, land)
        /\ cleaning' \in Lands \cup {NoLand} /\ gone' \subseteq AnyHandle \X {"owned", "summons"}
        /\ \A x \in gone' : x[1][1] = cleaning'
        /\ Bonds(land, gone', cleaning')
    BY <1>1, <1>2, <1>5, <1>6, <1>7 DEF Keep
  <1> QED
    BY <1>2, <1>4, <1>8, StepParts

\* The sweep marks whatever waited for it.
LEMMA SweepOwnedSound ==
  ASSUME WorldsInv, SweepOwned
  PROVE  StepIsSound
  <1> DEFINE w == cleaning  hs == Orphans(land, w, gone)  m == Marked(land, hs)
             after == IF hs = {} THEN NoLand ELSE w
  <1>1. /\ ~Calm /\ Keep(m) /\ gone' = {} /\ control' = control
        /\ cleaning' = after
    BY DEF SweepOwned
  <1>2. /\ SoundLand(land) /\ control \in [Pilots -> AnyHandle \cup {NoHandle}] /\ cleaning \in Lands \cup {NoLand}
        /\ gone \subseteq AnyHandle \X {"owned", "summons"} /\ given \subseteq AnyHandle
        /\ NamesGiven(land, given) /\ ControlsDiffer(control, land, given) /\ KeysWait
        /\ Bonds(land, gone, cleaning)
    BY <1>1, InvIsSound
  <1>3. w \in Lands
    BY <1>1, <1>2 DEF Calm
  <1>4. Extended(land, m) /\ SoundLand(m) /\ Grows(land, m) /\ \A h \in AnyHandle : Finds(m, h) <=> Finds(land, h)
    BY <1>2, MarkedExtended
  <1>5. land \in LandType /\ m \in LandType
    BY <1>2, <1>4 DEF SoundLand
  <1>6. \A h \in AnyHandle : h \in hs <=>
           Finds(land, h) /\ h[1] = w /\ ~At(land, h).marked /\
             (\/ At(land, h).kind \in {"shot", "petal"} /\ \E r \in At(land, h).of : <<r, "owned">> \in gone
              \/ At(land, h).kind = "summon" /\ \E r \in At(land, h).of : <<r, "summons">> \in gone
              \/ At(land, h).kind = "chain" /\ \E r \in At(land, h).of : ~Fit(land, r))
    <2>1. HandlesIn(land, w) = {h \in AnyHandle : Finds(land, h) /\ h[1] = w}
      BY <1>3, <1>5, HandlesAreFound
    <2> QED
      BY <2>1 DEF Orphans
  <1>7. ASSUME NEW h \in AnyHandle, Finds(land, h)
        PROVE  Bond(m, {}, after, h)
    <2> HIDE DEF w, hs, after
    <2>1. StaysHome(land, h) /\ OwnsItself(land, h) /\ (~At(land, h).marked => Attached(land, gone, w, h))
      BY <1>2, <1>7 DEF Bonds, Bond, w
    <2>2. /\ At(m, h).kind = At(land, h).kind /\ At(m, h).of = At(land, h).of
          /\ At(m, h).parts = At(land, h).parts /\ At(m, h).tags = At(land, h).tags
          /\ ~At(m, h).marked <=> (~At(land, h).marked /\ h \notin hs)
      BY <1>2, <1>7, MarkedFields
    <2>3. At(land, h).of \subseteq AnyHandle /\ At(land, h).parts \subseteq AnyHandle
      BY <1>5, <1>7, RelatedAreHandles
    <2> HIDE DEF m
    <2>4. StaysHome(m, h) /\ OwnsItself(m, h)
      BY <2>1, <2>2 DEF StaysHome, OwnsItself
    <2>5. ASSUME ~At(m, h).marked PROVE Attached(m, {}, after, h)
      <3>1. Attached(land, gone, w, h) /\ h \notin hs /\ ~At(land, h).marked
        BY <2>1, <2>2, <2>5
      <3>2. At(m, h).kind \in Needy => At(m, h).of # {}
        BY <2>2, <3>1 DEF Attached
      <3>3. ASSUME NEW r \in At(m, h).of PROVE Finds(m, r) /\ TiedTo(m, h, r)
        <4>1. r \in AnyHandle /\ r \in At(land, h).of
          BY <2>2, <2>3, <3>3
        <4>2. r[1] = h[1]
          BY <2>1, <4>1 DEF StaysHome
        <4>3. Finds(land, r)
          <5> SUFFICES ASSUME ~Finds(land, r) PROVE FALSE
            OBVIOUS
          <5>1. Awaited(land, gone, w, h, r)
            BY <3>1, <4>1 DEF Attached
          <5>2. \A k \in {"owned", "summons"} : <<r, k>> \in gone => r[1] = w
            BY <1>2 DEF KeysWait, w
          <5>3. CASE At(land, h).kind \in {"shot", "petal"} /\ <<r, "owned">> \in gone
            BY <1>6, <1>7, <3>1, <4>1, <4>2, <5>2, <5>3
          <5>4. CASE At(land, h).kind = "summon" /\ <<r, "summons">> \in gone
            BY <1>6, <1>7, <3>1, <4>1, <4>2, <5>2, <5>4
          <5>5. CASE At(land, h).kind = "chain" /\ w = h[1]
            <6>1. ~Fit(land, r)
              BY DEF Fit
            <6> QED
              BY <1>6, <1>7, <3>1, <4>1, <5>5, <6>1
          <5> QED
            BY <5>1, <5>3, <5>4, <5>5 DEF Awaited
        <4>4. TiedTo(land, h, r)
          BY <3>1, <4>1, <4>3 DEF Attached
        <4>5. /\ Finds(m, r) /\ At(m, r).kind = At(land, r).kind /\ At(m, r).parts = At(land, r).parts
              /\ At(land, r).tags \subseteq At(m, r).tags
          BY <1>4, <4>1, <4>3 DEF Extended
        <4> QED
          BY <2>2, <4>4, <4>5 DEF TiedTo
      <3>4. ASSUME NEW b \in At(m, h).parts PROVE HasPart(m, h, b)
        <4>1. b \in AnyHandle /\ b \in At(land, h).parts
          BY <2>2, <2>3, <3>4
        <4>2. HasPart(land, h, b)
          BY <3>1, <4>1 DEF Attached
        <4> QED
          BY <1>4, <4>1, <4>2 DEF HasPart, Extended
      <3> QED
        BY <3>2, <3>3, <3>4 DEF Attached
    <2> QED
      BY <2>4, <2>5 DEF Bond
  <1>8. Bonds(m, {}, after)
    BY <1>4, <1>7 DEF Bonds
  <1> HIDE DEF m, after, hs
  <1>9. ControlsDiffer(control, m, given \cup Handles(m)) /\ ControlKept(control, control, land, m)
    <2>1. \A h \in AnyHandle : Finds(land, h) => Finds(m, h) /\ At(m, h).kind = At(land, h).kind
      BY <1>4 DEF Extended
    <2>2. \A h \in AnyHandle : Fit(land, h) => Finds(m, h)
      BY <2>1 DEF Fit
    <2>3. \A h \in AnyHandle : Finds(land, h) /\ Finds(m, h) /\ At(land, h).kind \in {"flower", "mob", "body"}
                             => At(m, h).kind \in {"flower", "mob", "body"}
      BY <2>1
    <2> QED
      BY <1>2, <1>4, <1>5, <2>2, <2>3, ControlsStay
  <1>10. after \in Lands \cup {NoLand}
    BY <1>3 DEF after
  <1>11. /\ control' \in [Pilots -> AnyHandle \cup {NoHandle}]
         /\ ControlsDiffer(control', m, given \cup Handles(m)) /\ ControlKept(control, control', land, m)
         /\ cleaning' \in Lands \cup {NoLand} /\ gone' \subseteq AnyHandle \X {"owned", "summons"}
         /\ \A x \in gone' : x[1][1] = cleaning'
         /\ Bonds(m, gone', cleaning')
    BY <1>1, <1>2, <1>8, <1>9, <1>10
  <1> QED
    BY <1>1, <1>4, <1>11, StepParts

-----------------------------------------------------------------------------
\* RemoveEntity.

RemoveRoots(l, h) == {r \in At(l, h).of : At(l, h).kind = "body" /\ Finds(l, r)}
RemoveBodies(l, h) == {b \in At(l, h).parts : Finds(l, b) /\ h \in At(l, b).of}

\* What is left when an entity is removed.
LEMMA RemovedIs ==
  ASSUME NEW l, SoundLand(l), NEW h \in AnyHandle, Finds(l, h), NEW hard
  PROVE  /\ SoundLand(Freed(LettingGo(l, h, hard), h)) /\ Grows(l, Freed(LettingGo(l, h, hard), h))
         /\ \A x \in AnyHandle : Finds(Freed(LettingGo(l, h, hard), h), x) <=> Finds(l, x) /\ x # h
         /\ \A x \in AnyHandle : Finds(l, x) /\ x # h =>
              /\ At(Freed(LettingGo(l, h, hard), h), x).kind = At(l, x).kind
              /\ At(Freed(LettingGo(l, h, hard), h), x).of = At(l, x).of
              /\ At(Freed(LettingGo(l, h, hard), h), x).tags = At(l, x).tags
              /\ At(Freed(LettingGo(l, h, hard), h), x).parts \subseteq At(l, x).parts
              /\ At(l, x).parts \ {h} \subseteq At(Freed(LettingGo(l, h, hard), h), x).parts
              /\ x \in RemoveRoots(l, h) => h \notin At(Freed(LettingGo(l, h, hard), h), x).parts
              /\ ~At(Freed(LettingGo(l, h, hard), h), x).marked => ~At(l, x).marked /\ x \notin RemoveBodies(l, h)
  <1> DEFINE roots == RemoveRoots(l, h)
             hs == RemoveBodies(l, h) \cup IF hard THEN roots ELSE {}
             d == Detached(l, h, roots)
             n == Marked(d, hs)
             m == Freed(n, h)
  <1>1. LettingGo(l, h, hard) = n
    BY DEF LettingGo, RemoveRoots, RemoveBodies
  <1>2. RemoveBodies(l, h) \subseteq hs
    OBVIOUS
  <1> HIDE DEF roots, hs
  <1>3. SameNames(l, d) /\ \A x \in AnyHandle : Finds(l, x) =>
              /\ At(d, x).kind = At(l, x).kind
              /\ At(d, x).of = At(l, x).of
              /\ At(d, x).tags = At(l, x).tags
              /\ ~At(d, x).marked <=> ~At(l, x).marked
              /\ At(d, x).parts = IF x \in roots THEN At(l, x).parts \ {h} ELSE At(l, x).parts
    BY DetachedIs
  <1> HIDE DEF d
  <1>4. SoundLand(d) /\ Grows(l, d) /\ \A x \in AnyHandle : Finds(d, x) <=> Finds(l, x)
    BY <1>3, SameNamesSound
  <1>5. SoundLand(n) /\ Grows(d, n) /\ \A x \in AnyHandle : Finds(n, x) <=> Finds(d, x)
    BY <1>4, MarkedExtended
  <1>6. \A x \in AnyHandle : Finds(d, x) =>
          /\ At(n, x).kind = At(d, x).kind /\ At(n, x).of = At(d, x).of
          /\ At(n, x).parts = At(d, x).parts /\ At(n, x).tags = At(d, x).tags
          /\ ~At(n, x).marked <=> (~At(d, x).marked /\ x \notin hs)
    BY <1>4, MarkedFields
  <1> HIDE DEF n
  <1>7. /\ SoundLand(m) /\ Grows(n, m)
        /\ \A x \in AnyHandle : Finds(m, x) <=> Finds(n, x) /\ x # h
        /\ \A x \in AnyHandle : Finds(n, x) /\ x # h => At(m, x) = At(n, x)
    <2>1. Finds(n, h)
      BY <1>4, <1>5
    <2> QED
      BY <1>5, <2>1, FreedIs
  <1>8. Grows(l, m)
    <2>1. l \in LandType /\ d \in LandType /\ n \in LandType /\ m \in LandType
      BY <1>4, <1>5, <1>7 DEF SoundLand
    <2>2. Grows(l, n)
      BY <1>4, <1>5, <2>1, GrowsTransitive
    <2> QED
      BY <1>7, <2>1, <2>2, GrowsTransitive
  <1>9. m = Freed(LettingGo(l, h, hard), h)
    BY <1>1
  <1> HIDE DEF m
  <1>10. ASSUME NEW x \in AnyHandle, Finds(l, x), x # h
         PROVE  /\ At(m, x).kind = At(l, x).kind
                /\ At(m, x).of = At(l, x).of
                /\ At(m, x).tags = At(l, x).tags
                /\ At(m, x).parts \subseteq At(l, x).parts
                /\ At(l, x).parts \ {h} \subseteq At(m, x).parts
                /\ x \in roots => h \notin At(m, x).parts
                /\ ~At(m, x).marked => ~At(l, x).marked /\ x \notin RemoveBodies(l, h)
    <2>1. Finds(d, x) /\ Finds(n, x) /\ At(m, x) = At(n, x)
      BY <1>4, <1>5, <1>7, <1>10
    <2>2. /\ At(n, x).kind = At(d, x).kind /\ At(n, x).of = At(d, x).of
          /\ At(n, x).parts = At(d, x).parts /\ At(n, x).tags = At(d, x).tags
          /\ ~At(n, x).marked <=> (~At(d, x).marked /\ x \notin hs)
      BY <1>6, <2>1
    <2>3. /\ At(d, x).kind = At(l, x).kind
          /\ At(d, x).of = At(l, x).of
          /\ At(d, x).tags = At(l, x).tags
          /\ ~At(d, x).marked <=> ~At(l, x).marked
          /\ At(d, x).parts = IF x \in roots THEN At(l, x).parts \ {h} ELSE At(l, x).parts
      BY <1>3, <1>10
    <2>4. At(m, x).parts = IF x \in roots THEN At(l, x).parts \ {h} ELSE At(l, x).parts
      BY <2>1, <2>2, <2>3
    <2>5. ~At(m, x).marked => ~At(l, x).marked /\ x \notin RemoveBodies(l, h)
      BY <1>2, <2>1, <2>2, <2>3
    <2> QED
      BY <2>1, <2>2, <2>3, <2>4, <2>5
  <1>11. \A x \in AnyHandle : Finds(m, x) <=> Finds(l, x) /\ x # h
    BY <1>4, <1>5, <1>7
  <1> USE DEF roots
  <1> QED
    BY <1>7, <1>8, <1>9, <1>10, <1>11

\* What belonged to the removed one goes with it or waits for the sweep.
LEMMA RemoveEntitySound ==
  ASSUME WorldsInv, NEW h \in AnyHandle, NEW hard \in BOOLEAN, RemoveEntity(h, hard)
  PROVE  StepIsSound
  <1> DEFINE m == Freed(LettingGo(land, h, hard), h)
             w == cleaning
             keys == gone \cup ({h} \X At(land, h).tags)
  <1>1. /\ w = h[1] /\ Finds(land, h) /\ At(land, h).marked
        /\ Keep(m) /\ gone' = keys /\ cleaning' = w /\ control' = control
    BY DEF RemoveEntity
  <1>2. /\ SoundLand(land) /\ control \in [Pilots -> AnyHandle \cup {NoHandle}] /\ cleaning \in Lands \cup {NoLand}
        /\ gone \subseteq AnyHandle \X {"owned", "summons"} /\ given \subseteq AnyHandle
        /\ NamesGiven(land, given) /\ ControlsDiffer(control, land, given) /\ KeysWait
        /\ Bonds(land, gone, w)
    BY InvIsSound
  <1> HIDE DEF w
  <1>3. /\ SoundLand(m) /\ Grows(land, m)
        /\ \A x \in AnyHandle : Finds(m, x) <=> Finds(land, x) /\ x # h
        /\ \A x \in AnyHandle : Finds(land, x) /\ x # h =>
              /\ At(m, x).kind = At(land, x).kind
              /\ At(m, x).of = At(land, x).of
              /\ At(m, x).tags = At(land, x).tags
              /\ At(m, x).parts \subseteq At(land, x).parts
              /\ At(land, x).parts \ {h} \subseteq At(m, x).parts
              /\ x \in RemoveRoots(land, h) => h \notin At(m, x).parts
              /\ ~At(m, x).marked => ~At(land, x).marked /\ x \notin RemoveBodies(land, h)
    BY <1>1, <1>2, RemovedIs
  <1> HIDE DEF m
  <1>4. land \in LandType /\ m \in LandType
    BY <1>2, <1>3 DEF SoundLand
  <1>5. At(land, h).tags \subseteq {"owned", "summons"}
    BY <1>1, <1>4, FoundAreEntities, EntityFields
  <1>6. keys \subseteq AnyHandle \X {"owned", "summons"} /\ \A x \in keys : x[1][1] = w
    BY <1>1, <1>2, <1>5 DEF KeysWait, w
  <1>7. gone \subseteq keys /\ \A k \in At(land, h).tags : <<h, k>> \in keys
    OBVIOUS
  <1> HIDE DEF keys
  <1>8. ASSUME NEW x \in AnyHandle, Finds(land, x), x # h
        PROVE  Bond(m, keys, w, x)
    <2>1. StaysHome(land, x) /\ OwnsItself(land, x) /\ (~At(land, x).marked => Attached(land, gone, w, x))
      BY <1>2, <1>8 DEF Bonds, Bond
    <2>2. /\ At(m, x).kind = At(land, x).kind
          /\ At(m, x).of = At(land, x).of
          /\ At(m, x).tags = At(land, x).tags
          /\ At(m, x).parts \subseteq At(land, x).parts
          /\ x \in RemoveRoots(land, h) => h \notin At(m, x).parts
          /\ ~At(m, x).marked => ~At(land, x).marked /\ x \notin RemoveBodies(land, h)
      BY <1>3, <1>8
    <2>3. At(land, x).of \subseteq AnyHandle /\ At(land, x).parts \subseteq AnyHandle
      BY <1>4, <1>8, RelatedAreHandles
    <2>4. StaysHome(m, x) /\ OwnsItself(m, x)
      BY <2>1, <2>2 DEF StaysHome, OwnsItself
    <2>5. ASSUME ~At(m, x).marked PROVE Attached(m, keys, w, x)
      <3>1. Attached(land, gone, w, x) /\ x \notin RemoveBodies(land, h)
        BY <2>1, <2>2, <2>5
      <3>2. At(m, x).kind \in Needy => At(m, x).of # {}
        BY <2>2, <3>1 DEF Attached
      <3>3. ASSUME NEW r \in At(m, x).of PROVE Finds(m, r) \/ Awaited(m, keys, w, x, r)
        <4>1. r \in AnyHandle /\ r \in At(land, x).of
          BY <2>2, <2>3, <3>3
        <4>2. CASE ~Finds(land, r)
          <5>1. Awaited(land, gone, w, x, r)
            BY <3>1, <4>1, <4>2 DEF Attached
          <5> QED
            BY <1>7, <2>2, <5>1 DEF Awaited
        <4>3. CASE Finds(land, r) /\ r # h
          BY <1>3, <4>1, <4>3
        <4>4. CASE r = h
          <5>1. TiedTo(land, x, h)
            BY <1>1, <3>1, <4>1, <4>4 DEF Attached
          <5>2. h[1] = x[1]
            BY <2>1, <4>1, <4>4 DEF StaysHome
          <5>3. At(land, x) \in Entity
            BY <1>4, <1>8, FoundAreEntities
          <5>4. At(land, x).kind \in {"flower", "mob", "body", "petal", "shot", "summon", "chain"}
            BY <5>3, EntityFields
          <5>5. CASE At(land, x).kind \in {"shot", "petal"}
            BY <1>7, <2>2, <4>4, <5>1, <5>5 DEF TiedTo, Awaited
          <5>6. CASE At(land, x).kind = "summon"
            BY <1>7, <2>2, <4>4, <5>1, <5>6 DEF TiedTo, Awaited
          <5>7. CASE At(land, x).kind = "chain"
            BY <1>1, <2>2, <5>2, <5>7 DEF Awaited
          <5>8. CASE At(land, x).kind = "body"
            <6>1. x \in At(land, h).parts
              BY <5>1, <5>8 DEF TiedTo
            <6>2. x \in RemoveBodies(land, h)
              BY <1>8, <4>1, <4>4, <6>1 DEF RemoveBodies
            <6> QED
              BY <3>1, <6>2
          <5>9. CASE At(land, x).kind \in {"flower", "mob"}
            BY <2>1, <4>1, <5>9 DEF OwnsItself
          <5> QED
            BY <5>4, <5>5, <5>6, <5>7, <5>8, <5>9
        <4> QED
          BY <4>2, <4>3, <4>4
      <3>4. ASSUME NEW r \in At(m, x).of, Finds(m, r) PROVE TiedTo(m, x, r)
        <4>1. r \in AnyHandle /\ r \in At(land, x).of /\ Finds(land, r) /\ r # h
          BY <1>3, <2>2, <2>3, <3>4
        <4>2. TiedTo(land, x, r)
          BY <3>1, <4>1 DEF Attached
        <4>3. /\ At(m, r).kind = At(land, r).kind /\ At(m, r).tags = At(land, r).tags
              /\ At(land, r).parts \ {h} \subseteq At(m, r).parts
          BY <1>3, <4>1
        <4>4. x \in At(land, r).parts => x \in At(m, r).parts
          BY <1>8, <4>3
        <4> QED
          BY <2>2, <4>2, <4>3, <4>4 DEF TiedTo
      <3>5. ASSUME NEW b \in At(m, x).parts PROVE HasPart(m, x, b)
        <4>1. b \in AnyHandle /\ b \in At(land, x).parts
          BY <2>2, <2>3, <3>5
        <4>2. Finds(land, b) /\ At(land, b).of = {x} /\ At(land, b).kind = "body"
          BY <3>1, <4>1 DEF Attached, HasPart
        <4>3. b # h
          <5> SUFFICES ASSUME b = h PROVE FALSE
            OBVIOUS
          <5>1. x \in RemoveRoots(land, h)
            BY <1>8, <4>2 DEF RemoveRoots
          <5> QED
            BY <2>2, <3>5, <5>1
        <4> QED
          BY <1>3, <4>1, <4>2, <4>3 DEF HasPart
      <3> QED
        BY <3>2, <3>3, <3>4, <3>5 DEF Attached
    <2> QED
      BY <2>4, <2>5 DEF Bond
  <1>9. Bonds(m, keys, w)
    BY <1>3, <1>8 DEF Bonds
  <1>10. ControlsDiffer(control, m, given \cup Handles(m)) /\ ControlKept(control, control, land, m)
    <2>1. \A x \in AnyHandle : Fit(land, x) => Finds(m, x)
      BY <1>1, <1>3 DEF Fit
    <2>2. \A x \in AnyHandle : Finds(land, x) /\ Finds(m, x) /\ At(land, x).kind \in {"flower", "mob", "body"}
                             => At(m, x).kind \in {"flower", "mob", "body"}
      BY <1>3
    <2> QED
      BY <1>2, <1>3, <1>4, <2>1, <2>2, ControlsStay
  <1>11. /\ control' \in [Pilots -> AnyHandle \cup {NoHandle}]
         /\ ControlsDiffer(control', m, given \cup Handles(m)) /\ ControlKept(control, control', land, m)
         /\ cleaning' \in Lands \cup {NoLand} /\ gone' \subseteq AnyHandle \X {"owned", "summons"}
         /\ \A x \in gone' : x[1][1] = cleaning'
         /\ Bonds(m, gone', cleaning')
    BY <1>1, <1>2, <1>6, <1>9, <1>10 DEF w
  <1> QED
    BY <1>1, <1>3, <1>11, StepParts

-----------------------------------------------------------------------------
\* Transfer: the names, the slots and the entities that arrive.

\* A list of entities of one world that may go to another.
Leaving(l, w, s, n, f) ==
  /\ SoundLand(l) /\ w \in Lands /\ s \in Lands /\ s # w /\ n \in Nat \ {0} /\ n <= Len(l[w].free)
  /\ f \in [1..n -> AnyHandle] /\ \A i, j \in 1..n : f[i] = f[j] => i = j
  /\ \A i \in 1..n : Finds(l, f[i]) /\ f[i][1] = s
NextNames(l, w, k) == <<w, l[w].free[Len(l[w].free) + 1 - k], l[w].gen + k - 1>>

LEMMA LeavingIs ==
  ASSUME NEW l, NEW w, NEW s, NEW n, NEW f, Leaving(l, w, s, n, f)
  PROVE  /\ l \in LandType /\ Len(l[w].free) \in Nat /\ l[w].gen \in Nat \ {0} /\ l[s].gen \in Nat \ {0}
         /\ l[w].free \in Seq(Ids) /\ l[s].free \in Seq(Ids) /\ IsInjective(l[w].free) /\ IsInjective(l[s].free)
         /\ DOMAIN f = 1..n /\ Len(f) = n /\ f \in Seq(AnyHandle)
         /\ \A x : x \in Range(f) <=> \E k \in 1..n : f[k] = x
         /\ Range(f) \subseteq AnyHandle
  <1>1. l \in LandType /\ w \in Lands /\ s \in Lands /\ f \in [1..n -> AnyHandle] /\ n \in Nat /\ SlotsOK(l)
    BY DEF Leaving, SoundLand
  <1>2. l[w].free \in Seq(Ids) /\ l[s].free \in Seq(Ids) /\ l[w].gen \in Nat \ {0} /\ l[s].gen \in Nat \ {0}
    BY <1>1, SoundSlots
  <1>3. IsInjective(l[w].free) /\ IsInjective(l[s].free)
    BY <1>1 DEF SlotsOK
  <1>4. Len(l[w].free) \in Nat
    BY <1>2, LenProperties
  <1>5. f \in Seq(AnyHandle)
    BY <1>1, SeqDef
  <1>6. DOMAIN f = 1..n /\ DOMAIN f = 1..Len(f) /\ Len(f) \in Nat
    BY <1>1, <1>5, LenProperties
  <1>7. Len(f) = n
    <2>1. 1..n = 1..Len(f)
      BY <1>6
    <2> HIDE DEF Leaving
    <2> QED
      BY <1>1, <1>6, <2>1
  <1>8. \A x : x \in Range(f) <=> \E k \in 1..n : f[k] = x
    BY <1>6 DEF Range
  <1>9. Range(f) \subseteq AnyHandle
    BY <1>1, <1>8
  <1> QED
    BY <1>1, <1>2, <1>3, <1>4, <1>5, <1>6, <1>7, <1>8, <1>9

LEMMA AfterIs ==
  ASSUME NEW l, NEW w, NEW s, NEW n, NEW f, Leaving(l, w, s, n, f)
  PROVE  /\ \A k \in 1..n : /\ After(l, w, f, f[k]) = NextNames(l, w, k)
                            /\ NextNames(l, w, k) \in AnyHandle
                            /\ NextNames(l, w, k)[1] = w
                            /\ NextNames(l, w, k)[2] \in Range(l[w].free)
                            /\ NextNames(l, w, k)[2] = l[w].free[Len(l[w].free) + 1 - k]
                            /\ l[w].gen <= NextNames(l, w, k)[3] /\ NextNames(l, w, k)[3] < l[w].gen + n
                            /\ ~Finds(l, NextNames(l, w, k))
         /\ \A j, k \in 1..n : NextNames(l, w, j)[2] = NextNames(l, w, k)[2] => j = k
  <1> DEFINE z == Len(l[w].free)  g == l[w].gen  fr == l[w].free
  <1>1. /\ l \in LandType /\ SlotsOK(l) /\ w \in Lands /\ n \in Nat \ {0} /\ n <= z /\ z \in Nat /\ g \in Nat \ {0}
        /\ fr \in Seq(Ids) /\ IsInjective(fr) /\ DOMAIN f = 1..n
        /\ \A i, j \in 1..n : f[i] = f[j] => i = j
    <2>1. SlotsOK(l) /\ w \in Lands /\ n \in Nat \ {0} /\ n <= z /\ \A i, j \in 1..n : f[i] = f[j] => i = j
      BY DEF Leaving, SoundLand
    <2>2. l \in LandType /\ z \in Nat /\ g \in Nat \ {0} /\ fr \in Seq(Ids) /\ IsInjective(fr) /\ DOMAIN f = 1..n
      BY LeavingIs
    <2> QED
      BY <2>1, <2>2
  <1>2. \A i, j \in 1..z : fr[i] = fr[j] => i = j
    BY <1>1, InjectiveIs
  <1>a. \A x : x \in Range(fr) <=> x \in Ids /\ l[w].at[x] = NoEntity
    BY <1>1 DEF SlotsOK
  <1> HIDE DEF z, g, fr
  <1>3. ASSUME NEW k \in 1..n
        PROVE  /\ After(l, w, f, f[k]) = NextNames(l, w, k)
               /\ NextNames(l, w, k) \in AnyHandle
               /\ NextNames(l, w, k)[1] = w
               /\ NextNames(l, w, k)[2] \in Range(fr)
               /\ NextNames(l, w, k)[2] = fr[z + 1 - k]
               /\ g <= NextNames(l, w, k)[3] /\ NextNames(l, w, k)[3] < g + n
               /\ ~Finds(l, NextNames(l, w, k))
    <2>1. (CHOOSE i \in DOMAIN f : f[i] = f[k]) = k
      <3> DEFINE i == CHOOSE i \in DOMAIN f : f[i] = f[k]
      <3>1. i \in DOMAIN f /\ f[i] = f[k]
        BY <1>1
      <3> HIDE DEF i
      <3>2. i = k
        BY <1>1, <3>1
      <3> QED
        BY <3>2 DEF i
    <2>2. After(l, w, f, f[k]) = <<w, fr[z + 1 - k], g + k - 1>>
      BY <2>1 DEF After, fr, z, g
    <2>3. z + 1 - k \in 1..z
      BY <1>1
    <2>4. fr[z + 1 - k] \in Range(fr) /\ fr[z + 1 - k] \in Ids
      <3>1. z = Len(fr)
        BY DEF z, fr
      <3> QED
        BY <1>1, <2>3, <3>1, RangeIs, ElementOfSeq
    <2>5. g + k - 1 \in Nat \ {0} /\ g <= g + k - 1 /\ g + k - 1 < g + n
      BY <1>1
    <2>6. NextNames(l, w, k) = <<w, fr[z + 1 - k], g + k - 1>>
      BY DEF NextNames, fr, z, g
    <2>7. NextNames(l, w, k) \in AnyHandle /\ NextNames(l, w, k)[1] = w
          /\ NextNames(l, w, k)[2] = fr[z + 1 - k] /\ NextNames(l, w, k)[3] = g + k - 1
      BY <1>1, <2>4, <2>5, <2>6 DEF AnyHandle
    <2>8. ~Finds(l, NextNames(l, w, k))
      <3> DEFINE x == NextNames(l, w, k)
      <3>1. x \in AnyHandle /\ x[1] = w /\ l[w].at[x[2]] = NoEntity
        BY <1>a, <2>4, <2>7
      <3> HIDE DEF x
      <3>2. ~Finds(l, x)
        BY <1>1, <3>1, FindsSlot
      <3> QED
        BY <3>2 DEF x
    <2> QED
      BY <2>2, <2>4, <2>5, <2>6, <2>7, <2>8
  <1>4. ASSUME NEW j \in 1..n, NEW k \in 1..n, NextNames(l, w, j)[2] = NextNames(l, w, k)[2]
        PROVE  j = k
    <2>1. z + 1 - j \in 1..z /\ z + 1 - k \in 1..z
      BY <1>1
    <2>2. fr[z + 1 - j] = fr[z + 1 - k]
      BY <1>3, <1>4
    <2>3. z + 1 - j = z + 1 - k
      BY <1>2, <2>1, <2>2
    <2> QED
      BY <1>1, <2>3
  <1> QED
    BY <1>3, <1>4 DEF z, g, fr

\* What an entity is like when it has moved.
LEMMA ArrivingIs ==
  ASSUME NEW l, NEW w, NEW s, NEW n, NEW f, Leaving(l, w, s, n, f), NEW k \in 1..n
  PROVE  /\ Arriving(l, w, f, f[k]) \in Entity
         /\ Arriving(l, w, f, f[k]).gen = NextNames(l, w, k)[3]
         /\ Arriving(l, w, f, f[k]).kind = At(l, f[k]).kind
         /\ Arriving(l, w, f, f[k]).of = Remapped(l, w, f, At(l, f[k]).of)
         /\ Arriving(l, w, f, f[k]).parts = Remapped(l, w, f, At(l, f[k]).parts)
         /\ Arriving(l, w, f, f[k]).tags = At(l, f[k]).tags
         /\ ~Arriving(l, w, f, f[k]).marked <=> At(l, f[k]).kind # "petal"
  <1> DEFINE e == At(l, f[k])  g == After(l, w, f, f[k])[3]
             o == Remapped(l, w, f, e.of)  q == Remapped(l, w, f, e.parts)
  <1>1. e \in Entity
    <2>1. l \in LandType /\ f[k] \in AnyHandle /\ Finds(l, f[k])
      BY LeavingIs DEF Leaving
    <2> QED
      BY <2>1, FoundAreEntities
  <1>2. \A hs : Remapped(l, w, f, hs) \in SUBSET AnyHandle
    <2>1. \A x \in Range(f) : \E j \in 1..n : x = f[j]
      BY LeavingIs
    <2>2. \A x \in Range(f) : After(l, w, f, x) \in AnyHandle
      BY <2>1, AfterIs
    <2> QED
      BY <2>2 DEF Remapped
  <1>3. g = NextNames(l, w, k)[3] /\ g \in Nat \ {0}
    BY AfterIs, HandleParts
  <1>4. o \in SUBSET AnyHandle /\ q \in SUBSET AnyHandle
    BY <1>2
  <1> DEFINE b == e.kind = "petal"
             a == [gen |-> g, kind |-> e.kind, of |-> o, parts |-> q, tags |-> e.tags, marked |-> b]
  <1>5. Arriving(l, w, f, f[k]) = a
    BY DEF Arriving
  <1> HIDE DEF e, g, o, q
  <1>7. e.kind \in {"flower", "mob", "body", "petal", "shot", "summon", "chain"} /\ e.tags \in SUBSET {"owned", "summons"}
    BY <1>1, EntityFields
  <1>8. a \in Entity
    <2>1. b \in BOOLEAN
      OBVIOUS
    <2> HIDE DEF b
    <2> QED
      BY <1>3, <1>4, <1>7, <2>1 DEF Entity
  <1>9. a.gen = g /\ a.kind = e.kind /\ a.of = o /\ a.parts = q /\ a.tags = e.tags /\ (~a.marked <=> e.kind # "petal")
    OBVIOUS
  <1>10. Arriving(l, w, f, f[k]) = a
    BY <1>5
  <1> HIDE DEF a
  <1> QED
    BY <1>3, <1>8, <1>9, <1>10 DEF e, o, q

LEMMA OneNamePerSlot ==
  ASSUME NEW l \in LandType, NEW x \in AnyHandle, NEW y \in AnyHandle, Finds(l, x), Finds(l, y), x[1] = y[1], x[2] = y[2]
  PROVE  x = y
  <1>1. x[3] = y[3]
    BY FindsSlot
  <1> QED
    BY <1>1, HandleParts

TakenSlots(f) == [j \in DOMAIN f |-> f[j][2]]
LEMMA TakenSlotsIs ==
  ASSUME NEW l, NEW w, NEW s, NEW n, NEW f, Leaving(l, w, s, n, f)
  PROVE  /\ TakenSlots(f) \in Seq(Ids) /\ IsInjective(TakenSlots(f))
         /\ \A i : i \in Range(TakenSlots(f)) <=> \E k \in 1..n : f[k][2] = i
  <1>1. /\ l \in LandType /\ DOMAIN f = 1..n /\ n \in Nat /\ \A k \in 1..n : f[k] \in AnyHandle /\ Finds(l, f[k]) /\ f[k][1] = s
        /\ \A i, j \in 1..n : f[i] = f[j] => i = j
    <2>1. l \in LandType /\ DOMAIN f = 1..n
      BY LeavingIs
    <2> QED
      BY <2>1 DEF Leaving
  <1>2. \A k \in 1..n : f[k][2] \in Ids
    BY <1>1, HandleParts
  <1>3. TakenSlots(f) \in [1..n -> Ids] /\ \A k \in 1..n : TakenSlots(f)[k] = f[k][2]
    BY <1>1, <1>2 DEF TakenSlots
  <1>4. TakenSlots(f) \in Seq(Ids) /\ DOMAIN TakenSlots(f) = 1..n
    BY <1>1, <1>3, SeqDef
  <1>5. \A i, j \in 1..n : TakenSlots(f)[i] = TakenSlots(f)[j] => i = j
    BY <1>1, <1>3, OneNamePerSlot
  <1>6. IsInjective(TakenSlots(f))
    BY <1>4, <1>5 DEF IsInjective
  <1>7. \A i : i \in Range(TakenSlots(f)) <=> \E k \in 1..n : f[k][2] = i
    BY <1>3, <1>4 DEF Range
  <1> QED
    BY <1>4, <1>6, <1>7

Left(l, w, s, n, f) ==
  [at |-> [i \in Ids |-> IF \E h \in Range(f) : h[2] = i THEN NoEntity ELSE l[s].at[i]],
   free |-> l[s].free \o TakenSlots(f), gen |-> l[s].gen]
Reached(l, w, s, n, f) ==
  [at |-> [i \in Ids |-> IF \E h \in Range(f) : After(l, w, f, h)[2] = i
                           THEN Arriving(l, w, f, CHOOSE h \in Range(f) : After(l, w, f, h)[2] = i)
                           ELSE l[w].at[i]],
   free |-> Kept(l[w].free, n), gen |-> l[w].gen + n]

\* The world that is left: the slots are free.
LEMMA LeftIs ==
  ASSUME NEW l, NEW w, NEW s, NEW n, NEW f, Leaving(l, w, s, n, f)
  PROVE  /\ Left(l, w, s, n, f) \in [at : [Ids -> Entity \cup {NoEntity}], free : Seq(Ids), gen : Nat \ {0}]
         /\ Left(l, w, s, n, f).gen = l[s].gen
         /\ \A k \in 1..n : Left(l, w, s, n, f).at[f[k][2]] = NoEntity
         /\ \A i \in Ids : (\A k \in 1..n : f[k][2] # i) => Left(l, w, s, n, f).at[i] = l[s].at[i]
         /\ IsInjective(Left(l, w, s, n, f).free)
         /\ \A i : i \in Range(Left(l, w, s, n, f).free) <=> i \in Ids /\ Left(l, w, s, n, f).at[i] = NoEntity
  <1> DEFINE a == [i \in Ids |-> IF \E h \in Range(f) : h[2] = i THEN NoEntity ELSE l[s].at[i]]
             fr == l[s].free \o TakenSlots(f)
             L == Left(l, w, s, n, f)
  <1>1. /\ l \in LandType /\ SlotsOK(l) /\ s \in Lands /\ l[s].gen \in Nat \ {0}
        /\ l[s].free \in Seq(Ids) /\ IsInjective(l[s].free)
        /\ \A x : x \in Range(f) <=> \E k \in 1..n : f[k] = x
    <2>1. SlotsOK(l) /\ s \in Lands
      BY DEF Leaving, SoundLand
    <2>2. /\ l \in LandType /\ l[s].gen \in Nat \ {0}
          /\ l[s].free \in Seq(Ids) /\ IsInjective(l[s].free)
      BY LeavingIs
    <2>3. \A x : x \in Range(f) <=> \E k \in 1..n : f[k] = x
      BY LeavingIs
    <2> QED
      BY <2>1, <2>2, <2>3
  <1>2. /\ TakenSlots(f) \in Seq(Ids) /\ IsInjective(TakenSlots(f))
        /\ \A i : i \in Range(TakenSlots(f)) <=> \E k \in 1..n : f[k][2] = i
    BY TakenSlotsIs
  <1>3. \A k \in 1..n : f[k] \in AnyHandle /\ f[k][2] \in Ids /\ l[s].at[f[k][2]] # NoEntity
    <2>1. \A k \in 1..n : f[k] \in AnyHandle /\ Finds(l, f[k]) /\ f[k][1] = s
      BY DEF Leaving
    <2> QED
      BY <1>1, <2>1, HandleParts, FindsSlot
  <1>4. \A i : i \in Range(l[s].free) <=> i \in Ids /\ l[s].at[i] = NoEntity
    BY <1>1 DEF SlotsOK
  <1>5. \A i \in Range(l[s].free) : i \notin Range(TakenSlots(f))
    BY <1>2, <1>3, <1>4
  <1>6. fr \in Seq(Ids) /\ IsInjective(fr) /\ Range(fr) = Range(l[s].free) \cup Range(TakenSlots(f))
    BY <1>1, <1>2, <1>5, ConcatInjective
  <1>7. \A i \in Ids : (\E h \in Range(f) : h[2] = i) <=> \E k \in 1..n : f[k][2] = i
    BY <1>1
  <1>8. \A i \in Ids : l[s].at[i] \in Entity \cup {NoEntity}
    BY <1>1, SoundSlots
  <1>9. /\ a \in [Ids -> Entity \cup {NoEntity}]
        /\ \A i \in Ids : a[i] = IF \E k \in 1..n : f[k][2] = i THEN NoEntity ELSE l[s].at[i]
    BY <1>7, <1>8
  <1>10. L = [at |-> a, free |-> fr, gen |-> l[s].gen]
    BY DEF Left
  <1> HIDE DEF a, fr, L
  <1>11. L \in [at : [Ids -> Entity \cup {NoEntity}], free : Seq(Ids), gen : Nat \ {0}] /\ L.at = a /\ L.free = fr /\ L.gen = l[s].gen
    BY <1>1, <1>6, <1>9, <1>10
  <1>12. \A k \in 1..n : a[f[k][2]] = NoEntity
    BY <1>3, <1>9
  <1>13. \A i \in Ids : (\A k \in 1..n : f[k][2] # i) => a[i] = l[s].at[i]
    BY <1>9
  <1>14. \A i : i \in Range(fr) <=> i \in Ids /\ a[i] = NoEntity
    <2> SUFFICES ASSUME NEW i PROVE i \in Range(fr) <=> i \in Ids /\ a[i] = NoEntity
      OBVIOUS
    <2>1. i \in Range(fr) <=> (i \in Ids /\ l[s].at[i] = NoEntity) \/ \E k \in 1..n : f[k][2] = i
      BY <1>2, <1>4, <1>6
    <2>2. CASE \E k \in 1..n : f[k][2] = i
      BY <1>3, <1>12, <2>1, <2>2
    <2>3. CASE ~\E k \in 1..n : f[k][2] = i
      BY <1>13, <2>1, <2>3
    <2> QED
      BY <2>2, <2>3
  <1> QED
    BY <1>6, <1>11, <1>12, <1>13, <1>14 DEF L

\* The world that is reached: the list stands in the slots that were next.
LEMMA ReachedIs ==
  ASSUME NEW l, NEW w, NEW s, NEW n, NEW f, Leaving(l, w, s, n, f)
  PROVE  /\ Reached(l, w, s, n, f) \in [at : [Ids -> Entity \cup {NoEntity}], free : Seq(Ids), gen : Nat \ {0}]
         /\ Reached(l, w, s, n, f).gen = l[w].gen + n
         /\ \A k \in 1..n : Reached(l, w, s, n, f).at[NextNames(l, w, k)[2]] = Arriving(l, w, f, f[k])
         /\ \A i \in Ids : (\A k \in 1..n : NextNames(l, w, k)[2] # i) => Reached(l, w, s, n, f).at[i] = l[w].at[i]
         /\ IsInjective(Reached(l, w, s, n, f).free)
         /\ \A i : i \in Range(Reached(l, w, s, n, f).free) <=> i \in Ids /\ Reached(l, w, s, n, f).at[i] = NoEntity
  <1> DEFINE To(i) == \E h \in Range(f) : After(l, w, f, h)[2] = i
             Who(i) == CHOOSE h \in Range(f) : After(l, w, f, h)[2] = i
             a == [i \in Ids |-> IF To(i) THEN Arriving(l, w, f, Who(i)) ELSE l[w].at[i]]
             fr == Kept(l[w].free, n)
             L == Reached(l, w, s, n, f)
  <1>1. /\ l \in LandType /\ SlotsOK(l) /\ w \in Lands /\ l[w].gen \in Nat \ {0} /\ n \in Nat \ {0} /\ n <= Len(l[w].free)
        /\ l[w].free \in Seq(Ids) /\ IsInjective(l[w].free) /\ Len(l[w].free) \in Nat
        /\ \A x : x \in Range(f) <=> \E k \in 1..n : f[k] = x
    <2>1. SlotsOK(l) /\ w \in Lands /\ n \in Nat \ {0} /\ n <= Len(l[w].free)
      BY DEF Leaving, SoundLand
    <2>2. /\ l \in LandType /\ l[w].gen \in Nat \ {0} /\ Len(l[w].free) \in Nat
          /\ l[w].free \in Seq(Ids) /\ IsInjective(l[w].free)
      BY LeavingIs
    <2>3. \A x : x \in Range(f) <=> \E k \in 1..n : f[k] = x
      BY LeavingIs
    <2> QED
      BY <2>1, <2>2, <2>3
  <1>2. \A k \in 1..n : /\ After(l, w, f, f[k]) = NextNames(l, w, k)
                        /\ NextNames(l, w, k)[2] \in Range(l[w].free)
                        /\ NextNames(l, w, k)[2] = l[w].free[Len(l[w].free) + 1 - k]
    BY AfterIs
  <1>3. \A j, k \in 1..n : NextNames(l, w, j)[2] = NextNames(l, w, k)[2] => j = k
    BY AfterIs
  <1>4. \A i : i \in Range(l[w].free) <=> i \in Ids /\ l[w].at[i] = NoEntity
    BY <1>1 DEF SlotsOK
  <1>5. \A i : To(i) <=> \E k \in 1..n : NextNames(l, w, k)[2] = i
    BY <1>1, <1>2
  <1>6. ASSUME NEW k \in 1..n PROVE Who(NextNames(l, w, k)[2]) = f[k]
    <2> DEFINE i == NextNames(l, w, k)[2]  h == Who(i)
    <2>1. f[k] \in Range(f) /\ After(l, w, f, f[k])[2] = i
      BY <1>1, <1>2
    <2>2. h \in Range(f) /\ After(l, w, f, h)[2] = i
      BY <2>1
    <2> HIDE DEF h, Who
    <2>3. PICK j \in 1..n : f[j] = h
      BY <1>1, <2>2
    <2>4. NextNames(l, w, j)[2] = NextNames(l, w, k)[2]
      BY <1>2, <2>2, <2>3
    <2> QED
      BY <1>3, <2>3, <2>4 DEF h
  <1>7. \A k \in 1..n : Arriving(l, w, f, f[k]) \in Entity
    BY ArrivingIs
  <1>8. \A i \in Ids : l[w].at[i] \in Entity \cup {NoEntity}
    BY <1>1, SoundSlots
  <1>9. L = [at |-> a, free |-> fr, gen |-> l[w].gen + n]
    BY DEF Reached
  <1> HIDE DEF To, Who, L
  <1>10. \A i \in Ids : a[i] = IF To(i) THEN Arriving(l, w, f, Who(i)) ELSE l[w].at[i]
    OBVIOUS
  <1>11. \A k \in 1..n : NextNames(l, w, k)[2] \in Ids /\ a[NextNames(l, w, k)[2]] = Arriving(l, w, f, f[k])
    <2> HIDE DEF a
    <2> SUFFICES ASSUME NEW k \in 1..n
                 PROVE  NextNames(l, w, k)[2] \in Ids /\ a[NextNames(l, w, k)[2]] = Arriving(l, w, f, f[k])
      OBVIOUS
    <2> DEFINE i == NextNames(l, w, k)[2]
    <2>1. i \in Ids /\ To(i) /\ Who(i) = f[k]
      BY <1>2, <1>4, <1>5, <1>6
    <2> HIDE DEF i
    <2>2. a[i] = Arriving(l, w, f, f[k])
      BY <1>10, <2>1
    <2> QED
      BY <2>1, <2>2 DEF i
  <1>12. \A i \in Ids : (\A k \in 1..n : NextNames(l, w, k)[2] # i) => a[i] = l[w].at[i]
    BY <1>5, <1>10
  <1>13. a \in [Ids -> Entity \cup {NoEntity}]
    <2>1. \A i \in Ids : a[i] \in Entity \cup {NoEntity}
      <3> HIDE DEF a
      <3> QED
        BY <1>7, <1>8, <1>11, <1>12
    <2>2. a = [i \in Ids |-> a[i]]
      OBVIOUS
    <2> HIDE DEF a
    <2> QED
      BY <2>1, <2>2
  <1>14. fr \in Seq(Ids) /\ IsInjective(fr) /\ Range(fr) = Range(l[w].free) \ Tops(l[w].free, n)
    <2>1. n \in 0..Len(l[w].free)
      BY <1>1
    <2> QED
      BY <1>1, <2>1, PrefixIs
  <1> HIDE DEF a, fr
  <1>15. /\ L \in [at : [Ids -> Entity \cup {NoEntity}], free : Seq(Ids), gen : Nat \ {0}]
         /\ L.at = a /\ L.free = fr /\ L.gen = l[w].gen + n
    <2>1. l[w].gen + n \in Nat \ {0}
      BY <1>1
    <2> QED
      BY <1>9, <1>13, <1>14, <2>1
  <1>16. \A i : i \in Tops(l[w].free, n) <=> \E k \in 1..n : NextNames(l, w, k)[2] = i
    BY <1>2 DEF Tops
  <1>17. \A i : i \in Range(fr) <=> i \in Ids /\ a[i] = NoEntity
    <2> SUFFICES ASSUME NEW i PROVE i \in Range(fr) <=> i \in Ids /\ a[i] = NoEntity
      OBVIOUS
    <2>1. i \in Range(fr) <=> i \in Ids /\ l[w].at[i] = NoEntity /\ ~\E k \in 1..n : NextNames(l, w, k)[2] = i
      BY <1>4, <1>14, <1>16
    <2>2. CASE \E k \in 1..n : NextNames(l, w, k)[2] = i
      <3>1. PICK k \in 1..n : NextNames(l, w, k)[2] = i
        BY <2>2
      <3>2. a[i] \in Entity
        BY <1>7, <1>11, <3>1
      <3>3. a[i] # NoEntity
        BY <3>2, WorldsAssumption
      <3> QED
        BY <2>1, <2>2, <3>3
    <2>3. CASE ~\E k \in 1..n : NextNames(l, w, k)[2] = i
      BY <1>12, <2>1, <2>3
    <2> QED
      BY <2>2, <2>3
  <1> QED
    BY <1>11, <1>12, <1>14, <1>15, <1>17 DEF L

LEMMA TransferredWorlds ==
  ASSUME NEW l, NEW w, NEW s, NEW n, NEW f, Leaving(l, w, s, n, f)
  PROVE  /\ TransferredTo(l, w, f)[w] = Reached(l, w, s, n, f)
         /\ TransferredTo(l, w, f)[s] = Left(l, w, s, n, f)
         /\ \A x \in Lands \ {w, s} : TransferredTo(l, w, f)[x] = l[x]
         /\ TransferredTo(l, w, f) = [x \in Lands |-> TransferredTo(l, w, f)[x]]
  <1> DEFINE R == [at |-> [i \in Ids |-> IF \E h \in Range(f) : After(l, w, f, h)[2] = i
                                THEN Arriving(l, w, f, CHOOSE h \in Range(f) : After(l, w, f, h)[2] = i)
                                ELSE l[w].at[i]],
                   free |-> SubSeq(l[w].free, 1, Len(l[w].free) - Len(f)),
                   gen |-> l[w].gen + Len(f)]
             G(x) == [at |-> [i \in Ids |-> IF \E h \in Range(f) : h[2] = i THEN NoEntity ELSE l[x].at[i]],
                      free |-> l[x].free \o [j \in DOMAIN f |-> f[j][2]],
                      gen |-> l[x].gen]
             m == TransferredTo(l, w, f)
  <1>1. Len(f) = n /\ f[1][1] = s /\ w \in Lands /\ s \in Lands /\ s # w
    <2>1. Len(f) = n
      BY LeavingIs
    <2>2. n \in Nat \ {0} /\ w \in Lands /\ s \in Lands /\ s # w /\ \A i \in 1..n : f[i][1] = s
      BY DEF Leaving
    <2>3. 1 \in 1..n
      BY <2>2
    <2> QED
      BY <2>1, <2>2, <2>3
  <1>2. R = Reached(l, w, s, n, f)
    BY <1>1 DEF Reached, Kept
  <1>3. G(s) = Left(l, w, s, n, f)
    BY DEF Left, TakenSlots
  <1>4. m = [x \in Lands |-> IF x = w THEN R ELSE IF x = s THEN G(x) ELSE l[x]]
    BY <1>1 DEF TransferredTo
  <1> HIDE DEF m, R, G
  <1>5. m[w] = R /\ m[s] = G(s) /\ \A x \in Lands \ {w, s} : m[x] = l[x]
    BY <1>1, <1>4
  <1>6. m = [x \in Lands |-> m[x]]
    BY <1>4
  <1> QED
    BY <1>2, <1>3, <1>5, <1>6 DEF m

LEMMA TransferredSound ==
  ASSUME NEW l, NEW w, NEW s, NEW n, NEW f, Leaving(l, w, s, n, f)
  PROVE  SoundLand(TransferredTo(l, w, f))
  <1> DEFINE m == TransferredTo(l, w, f)
             X == [at : [Ids -> Entity \cup {NoEntity}], free : Seq(Ids), gen : Nat \ {0}]
  <1>1. m[w] = Reached(l, w, s, n, f) /\ m[s] = Left(l, w, s, n, f) /\ (\A x \in Lands \ {w, s} : m[x] = l[x])
        /\ m = [x \in Lands |-> m[x]]
    BY TransferredWorlds
  <1>2. l \in [Lands -> X] /\ SlotsOK(l)
    BY DEF Leaving, SoundLand, LandType
  <1>3. /\ Reached(l, w, s, n, f) \in X /\ IsInjective(Reached(l, w, s, n, f).free)
        /\ \A i : i \in Range(Reached(l, w, s, n, f).free) <=> i \in Ids /\ Reached(l, w, s, n, f).at[i] = NoEntity
    BY ReachedIs
  <1>4. /\ Left(l, w, s, n, f) \in X /\ IsInjective(Left(l, w, s, n, f).free)
        /\ \A i : i \in Range(Left(l, w, s, n, f).free) <=> i \in Ids /\ Left(l, w, s, n, f).at[i] = NoEntity
    BY LeftIs
  <1> HIDE DEF m, X
  <1>5. ASSUME NEW x \in Lands
        PROVE  /\ m[x] \in X /\ IsInjective(m[x].free)
               /\ Range(m[x].free) = {i \in Ids : m[x].at[i] = NoEntity}
    <2>1. CASE x = w
      BY <1>1, <1>3, <2>1
    <2>2. CASE x = s
      BY <1>1, <1>4, <2>2
    <2>3. CASE x \notin {w, s}
      BY <1>1, <1>2, <2>3 DEF SlotsOK
    <2> QED
      BY <2>1, <2>2, <2>3
  <1>6. m \in [Lands -> X]
    BY <1>1, <1>5
  <1> QED
    BY <1>5, <1>6 DEF SoundLand, SlotsOK, LandType, m, X

\* Where the handles of a transfer lead.
MovedAlong(f, x) == \E k \in DOMAIN f : f[k] = x
Renamed(l, w, f, x) == \E k \in DOMAIN f : NextNames(l, w, k) = x

LEMMA TransferredFinds ==
  ASSUME NEW l, NEW w, NEW s, NEW n, NEW f, Leaving(l, w, s, n, f), NEW x \in AnyHandle
  PROVE  /\ Finds(TransferredTo(l, w, f), x) <=> (Finds(l, x) /\ ~MovedAlong(f, x)) \/ Renamed(l, w, f, x)
         /\ Finds(l, x) /\ ~MovedAlong(f, x) => At(TransferredTo(l, w, f), x) = At(l, x)
  <1> DEFINE m == TransferredTo(l, w, f)  R == Reached(l, w, s, n, f)  L == Left(l, w, s, n, f)
  <1>1. m[w] = R /\ m[s] = L /\ (\A y \in Lands \ {w, s} : m[y] = l[y])
    BY TransferredWorlds
  <1>2. l \in LandType /\ m \in LandType /\ DOMAIN f = 1..n /\ n \in Nat
        /\ \A k \in 1..n : f[k] \in AnyHandle /\ Finds(l, f[k]) /\ f[k][1] = s
    <2>1. SoundLand(m) /\ SoundLand(l) /\ n \in Nat /\ \A k \in 1..n : f[k] \in AnyHandle /\ Finds(l, f[k]) /\ f[k][1] = s
      BY TransferredSound DEF Leaving
    <2>2. DOMAIN f = 1..n
      BY LeavingIs
    <2> QED
      BY <2>1, <2>2 DEF SoundLand
  <1>3. /\ \A k \in 1..n : R.at[NextNames(l, w, k)[2]] = Arriving(l, w, f, f[k])
        /\ \A i \in Ids : (\A k \in 1..n : NextNames(l, w, k)[2] # i) => R.at[i] = l[w].at[i]
    BY ReachedIs
  <1>4. /\ \A k \in 1..n : L.at[f[k][2]] = NoEntity
        /\ \A i \in Ids : (\A k \in 1..n : f[k][2] # i) => L.at[i] = l[s].at[i]
    BY LeftIs
  <1>5. \A k \in 1..n : /\ NextNames(l, w, k) \in AnyHandle /\ NextNames(l, w, k)[1] = w
                        /\ ~Finds(l, NextNames(l, w, k))
    BY AfterIs
  <1>6. \A k \in 1..n : /\ Arriving(l, w, f, f[k]) # NoEntity
                        /\ Arriving(l, w, f, f[k]).gen = NextNames(l, w, k)[3]
    BY ArrivingIs, WorldsAssumption
  <1>7. s # w /\ w \in Lands /\ s \in Lands
    BY DEF Leaving
  <1>8. x[1] \in Lands /\ x[2] \in Ids /\ x = <<x[1], x[2], x[3]>>
    BY HandleParts
  <1>9. /\ MovedAlong(f, x) <=> \E k \in 1..n : f[k] = x
        /\ Renamed(l, w, f, x) <=> \E k \in 1..n : NextNames(l, w, k) = x
    BY <1>2 DEF MovedAlong, Renamed
  <1>10. /\ Finds(l, x) <=> (l[x[1]].at[x[2]] # NoEntity /\ l[x[1]].at[x[2]].gen = x[3])
         /\ Finds(m, x) <=> (m[x[1]].at[x[2]] # NoEntity /\ m[x[1]].at[x[2]].gen = x[3])
    <2> HIDE DEF m
    <2> QED
      BY <1>2, FindsSlot
  <1> HIDE DEF m, R, L
  <1>11. CASE x[1] = w
    <2>1. ~MovedAlong(f, x)
      BY <1>2, <1>7, <1>9, <1>11
    <2>2. m[w].at[x[2]] = R.at[x[2]]
      BY <1>1
    <2>3. CASE \E k \in 1..n : NextNames(l, w, k)[2] = x[2]
      <3>1. PICK k \in 1..n : NextNames(l, w, k)[2] = x[2]
        BY <2>3
      <3>2. R.at[x[2]] = Arriving(l, w, f, f[k])
        BY <1>3, <3>1
      <3>3. Finds(m, x) <=> NextNames(l, w, k)[3] = x[3]
        BY <1>6, <1>10, <1>11, <2>2, <3>2
      <3>4. NextNames(l, w, k) = <<w, x[2], NextNames(l, w, k)[3]>>
        BY <1>5, <3>1, HandleParts
      <3>5. Finds(m, x) => Renamed(l, w, f, x)
        BY <1>8, <1>9, <1>11, <3>3, <3>4
      <3>6. ~Finds(l, x)
        <4>0. NextNames(l, w, k)[2] \in Range(l[w].free)
          BY AfterIs
        <4>1. NextNames(l, w, k)[2] \in Range(l[w].free) /\ SlotsOK(l)
          BY <4>0 DEF Leaving, SoundLand
        <4>2. l[w].at[x[2]] = NoEntity
          BY <1>7, <3>1, <4>1 DEF SlotsOK
        <4> QED
          BY <1>10, <1>11, <4>2
      <3>7. Renamed(l, w, f, x) => Finds(m, x)
        <4> SUFFICES ASSUME NEW j \in 1..n, NextNames(l, w, j) = x PROVE Finds(m, x)
          BY <1>9
        <4>1. j = k
          <5>1. \A a, b \in 1..n : NextNames(l, w, a)[2] = NextNames(l, w, b)[2] => a = b
            BY AfterIs
          <5> QED
            BY <3>1, <5>1
        <4> QED
          BY <3>3, <4>1
      <3> QED
        BY <2>1, <3>5, <3>6, <3>7 DEF m
    <2>4. CASE ~\E k \in 1..n : NextNames(l, w, k)[2] = x[2]
      <3>1. m[x[1]].at[x[2]] = l[x[1]].at[x[2]]
        BY <1>3, <1>8, <1>11, <2>2, <2>4
      <3>2. ~Renamed(l, w, f, x)
        BY <1>9, <2>4
      <3>3. At(m, x) = At(l, x)
        BY <3>1 DEF At
      <3> QED
        BY <1>10, <2>1, <3>1, <3>2, <3>3 DEF m
    <2> QED
      BY <2>3, <2>4
  <1>12. CASE x[1] = s
    <2>1. ~Renamed(l, w, f, x)
      BY <1>5, <1>7, <1>9, <1>12
    <2>2. m[s].at[x[2]] = L.at[x[2]]
      BY <1>1
    <2>3. CASE \E k \in 1..n : f[k][2] = x[2]
      <3>1. PICK k \in 1..n : f[k][2] = x[2]
        BY <2>3
      <3>2. ~Finds(m, x)
        BY <1>4, <1>10, <1>12, <2>2, <3>1
      <3>3. ASSUME Finds(l, x) PROVE MovedAlong(f, x)
        <4>1. f[k] \in AnyHandle /\ Finds(l, f[k]) /\ f[k][1] = x[1]
          BY <1>2, <1>12
        <4>2. f[k] = x
          BY <1>2, <3>1, <3>3, <4>1, OneNamePerSlot
        <4> QED
          BY <1>9, <4>2
      <3> QED
        BY <2>1, <3>2, <3>3 DEF m
    <2>4. CASE ~\E k \in 1..n : f[k][2] = x[2]
      <3>1. m[x[1]].at[x[2]] = l[x[1]].at[x[2]]
        BY <1>4, <1>8, <1>12, <2>2, <2>4
      <3>2. ~MovedAlong(f, x)
        BY <1>9, <2>4
      <3>3. At(m, x) = At(l, x)
        BY <3>1 DEF At
      <3> QED
        BY <1>10, <2>1, <3>1, <3>2, <3>3 DEF m
    <2> QED
      BY <2>3, <2>4
  <1>13. CASE x[1] \notin {w, s}
    <2>1. ~MovedAlong(f, x) /\ ~Renamed(l, w, f, x)
      BY <1>2, <1>5, <1>9, <1>13
    <2>2. m[x[1]] = l[x[1]]
      BY <1>1, <1>8, <1>13
    <2>3. At(m, x) = At(l, x)
      BY <2>2 DEF At
    <2> QED
      BY <1>10, <2>1, <2>2, <2>3 DEF m
  <1> QED
    BY <1>11, <1>12, <1>13

LEMMA TransferredIs ==
  ASSUME NEW l, NEW w, NEW s, NEW n, NEW f, Leaving(l, w, s, n, f)
  PROVE  /\ Grows(l, TransferredTo(l, w, f))
         /\ \A k \in 1..n : /\ Finds(TransferredTo(l, w, f), NextNames(l, w, k))
                            /\ At(TransferredTo(l, w, f), NextNames(l, w, k)) = Arriving(l, w, f, f[k])
  <1> DEFINE m == TransferredTo(l, w, f)  R == Reached(l, w, s, n, f)  L == Left(l, w, s, n, f)
  <1>1. m[w] = R /\ m[s] = L /\ (\A y \in Lands \ {w, s} : m[y] = l[y])
    BY TransferredWorlds
  <1>2. R.gen = l[w].gen + n /\ L.gen = l[s].gen /\ \A k \in 1..n : R.at[NextNames(l, w, k)[2]] = Arriving(l, w, f, f[k])
    BY ReachedIs, LeftIs
  <1>3. l \in LandType /\ n \in Nat \ {0} /\ w \in Lands /\ DOMAIN f = 1..n
    <2>1. DOMAIN f = 1..n
      BY LeavingIs
    <2> QED
      BY <2>1 DEF Leaving, SoundLand
  <1>4. \A k \in 1..n : /\ NextNames(l, w, k) \in AnyHandle /\ NextNames(l, w, k)[1] = w
                        /\ l[w].gen <= NextNames(l, w, k)[3] /\ NextNames(l, w, k)[3] < l[w].gen + n
    BY AfterIs
  <1>5. \A x \in AnyHandle : Finds(m, x) <=> (Finds(l, x) /\ ~MovedAlong(f, x)) \/ Renamed(l, w, f, x)
    BY TransferredFinds
  <1> HIDE DEF m, R, L
  <1>6. \A v \in Lands : l[v].gen \in Nat
    BY <1>3, SoundSlots
  <1>7. m[w].gen = l[w].gen + n
    BY <1>1, <1>2
  <1>8. \A v \in Lands : l[v].gen <= m[v].gen
    BY <1>1, <1>2, <1>3, <1>6
  <1>9. ASSUME NEW x \in AnyHandle, Finds(m, x), ~Finds(l, x)
        PROVE  l[x[1]].gen <= x[3] /\ x[3] < m[x[1]].gen
    <2>1. PICK k \in 1..n : NextNames(l, w, k) = x
      BY <1>3, <1>5, <1>9 DEF Renamed
    <2> QED
      BY <1>4, <1>7, <2>1
  <1>10. Grows(l, m)
    BY <1>8, <1>9 DEF Grows
  <1>11. \A k \in 1..n : At(m, NextNames(l, w, k)) = Arriving(l, w, f, f[k])
    BY <1>1, <1>2, <1>4 DEF At
  <1>12. \A k \in 1..n : Finds(m, NextNames(l, w, k))
    BY <1>3, <1>4, <1>5 DEF Renamed
  <1> QED
    BY <1>10, <1>11, <1>12 DEF m

-----------------------------------------------------------------------------
\* Transfer: what moves together.

LEMMA FitBond ==
  ASSUME NEW l \in LandType, Bonds(l, {}, NoLand), NEW h \in AnyHandle, Fit(l, h)
  PROVE  /\ At(l, h).of \subseteq AnyHandle /\ At(l, h).parts \subseteq AnyHandle
         /\ At(l, h).kind \in {"flower", "mob"} => At(l, h).of = {}
         /\ At(l, h).kind = "flower" => "summons" \in At(l, h).tags
         /\ At(l, h).kind \in Needy => At(l, h).of # {}
         /\ \A r \in At(l, h).of : Finds(l, r) /\ TiedTo(l, h, r) /\ r[1] = h[1]
         /\ \A b \in At(l, h).parts : HasPart(l, h, b) /\ b[1] = h[1]
  <1>1. StaysHome(l, h) /\ OwnsItself(l, h) /\ Attached(l, {}, NoLand, h) /\ Finds(l, h)
    BY DEF Bonds, Bond, Fit
  <1>2. At(l, h).of \subseteq AnyHandle /\ At(l, h).parts \subseteq AnyHandle
    BY <1>1, RelatedAreHandles
  <1>3. ASSUME NEW r \in At(l, h).of PROVE Finds(l, r) /\ TiedTo(l, h, r) /\ r[1] = h[1]
    <2>1. ~Awaited(l, {}, NoLand, h, r)
      BY HandleParts, WorldsAssumption DEF Awaited
    <2> QED
      BY <1>1, <1>3, <2>1 DEF Attached, StaysHome
  <1>4. \A b \in At(l, h).parts : HasPart(l, h, b) /\ b[1] = h[1]
    BY <1>1 DEF Attached, StaysHome
  <1> QED
    BY <1>1, <1>2, <1>3, <1>4 DEF OwnsItself, Attached

Roots(l, h) == IF At(l, h).kind = "body" THEN At(l, h).of ELSE {h}
Bodies(l, h) == UNION {At(l, r).parts : r \in {r \in Roots(l, h) : Finds(l, r)}}
Flown(l, h) == {q \in Handles(l) : At(l, q).kind = "petal" /\ ~At(l, q).marked /\ h \in At(l, q).of}

LEMMA CompoundKinds ==
  ASSUME NEW l \in LandType, Bonds(l, {}, NoLand), NEW h \in AnyHandle, Fit(l, h),
         At(l, h).kind \in {"flower", "mob", "body"},
         \A g \in Compound(l, h) : Fit(l, g)
  PROVE  /\ Compound(l, h) = {h} \cup Roots(l, h) \cup Bodies(l, h) \cup Flown(l, h)
         /\ \A r \in Roots(l, h) : /\ r \in AnyHandle /\ Fit(l, r) /\ r[1] = h[1] /\ At(l, r).kind \in {"flower", "mob"}
                                   /\ \A b \in At(l, r).parts : b \in Bodies(l, h)
         /\ \A b \in Bodies(l, h) : /\ b \in AnyHandle /\ Fit(l, b) /\ b[1] = h[1] /\ At(l, b).kind = "body"
                                    /\ \E r \in Roots(l, h) : b \in At(l, r).parts /\ At(l, b).of = {r}
         /\ \A q \in Flown(l, h) : q \in AnyHandle /\ Fit(l, q) /\ q[1] = h[1] /\ At(l, q).kind = "petal"
  <1>1. Compound(l, h) = {h} \cup Roots(l, h) \cup Bodies(l, h) \cup Flown(l, h)
    BY DEF Compound, Roots, Bodies, Flown
  <1>2. ASSUME NEW r \in Roots(l, h)
        PROVE  /\ r \in AnyHandle /\ Fit(l, r) /\ Finds(l, r) /\ r[1] = h[1] /\ At(l, r).kind \in {"flower", "mob"}
               /\ \A b \in At(l, r).parts : b \in Bodies(l, h)
    <2>1. Fit(l, r) /\ Finds(l, r)
      BY <1>1 DEF Fit
    <2>2. r \in AnyHandle /\ r[1] = h[1] /\ At(l, r).kind \in {"flower", "mob"}
      <3>1. CASE At(l, h).kind = "body"
        <4>1. r \in At(l, h).of
          BY <1>2, <3>1 DEF Roots
        <4>2. r \in AnyHandle /\ TiedTo(l, h, r) /\ r[1] = h[1]
          BY <4>1, FitBond
        <4> QED
          BY <3>1, <4>2 DEF TiedTo
      <3>2. CASE At(l, h).kind # "body"
        BY <1>2, <3>2 DEF Roots
      <3> QED
        BY <3>1, <3>2
    <2>3. \A b \in At(l, r).parts : b \in Bodies(l, h)
      BY <2>1 DEF Bodies
    <2> QED
      BY <2>1, <2>2, <2>3
  <1>3. ASSUME NEW b \in Bodies(l, h)
        PROVE  /\ b \in AnyHandle /\ Fit(l, b) /\ b[1] = h[1] /\ At(l, b).kind = "body"
               /\ \E r \in Roots(l, h) : b \in At(l, r).parts /\ At(l, b).of = {r}
    <2>1. PICK r \in Roots(l, h) : b \in At(l, r).parts
      BY DEF Bodies
    <2>2. r \in AnyHandle /\ Fit(l, r) /\ r[1] = h[1]
      BY <1>2
    <2>3. b \in AnyHandle /\ HasPart(l, r, b) /\ b[1] = r[1]
      BY <2>1, <2>2, FitBond
    <2>4. Fit(l, b)
      BY <1>1
    <2> QED
      BY <2>1, <2>2, <2>3, <2>4 DEF HasPart
  <1>4. ASSUME NEW q \in Flown(l, h)
        PROVE  q \in AnyHandle /\ Fit(l, q) /\ q[1] = h[1] /\ At(l, q).kind = "petal"
    <2>1. q \in AnyHandle /\ Finds(l, q) /\ At(l, q).kind = "petal" /\ h \in At(l, q).of
      BY <1>4, HandlesAreFound DEF Flown
    <2>2. Fit(l, q)
      BY <1>1
    <2>3. h[1] = q[1]
      BY <2>1, <2>2, FitBond
    <2> QED
      BY <2>1, <2>2, <2>3
  <1> QED
    BY <1>1, <1>2, <1>3, <1>4

\* What is attached to a part is a part, if it is not a projectile or a chain.
LEMMA CompoundIs ==
  ASSUME NEW l \in LandType, Bonds(l, {}, NoLand), NEW h \in AnyHandle, Fit(l, h),
         At(l, h).kind \in {"flower", "mob", "body"},
         \A g \in Compound(l, h) : Fit(l, g), NEW g \in Compound(l, h)
  PROVE  /\ g \in AnyHandle /\ Fit(l, g) /\ Finds(l, g) /\ g[1] = h[1]
         /\ At(l, g).kind \in {"flower", "mob", "body", "petal"}
         /\ At(l, g).kind = "body" => At(l, g).of \subseteq Compound(l, h)
         /\ \A x \in AnyHandle : Fit(l, x) /\ At(l, x).kind = "body" /\ g \in At(l, x).of => x \in Compound(l, h)
         /\ \A x \in AnyHandle : Fit(l, x) /\ g \in At(l, x).parts => x \in Compound(l, h)
  <1>1. Compound(l, h) = {h} \cup Roots(l, h) \cup Bodies(l, h) \cup Flown(l, h)
    BY CompoundKinds
  <1>2. \A r \in Roots(l, h) : /\ r \in AnyHandle /\ Fit(l, r) /\ r[1] = h[1] /\ At(l, r).kind \in {"flower", "mob"}
                               /\ \A b \in At(l, r).parts : b \in Bodies(l, h)
    BY CompoundKinds
  <1>3. \A b \in Bodies(l, h) : /\ b \in AnyHandle /\ Fit(l, b) /\ b[1] = h[1] /\ At(l, b).kind = "body"
                                /\ \E r \in Roots(l, h) : b \in At(l, r).parts /\ At(l, b).of = {r}
    BY CompoundKinds
  <1>4. \A q \in Flown(l, h) : q \in AnyHandle /\ Fit(l, q) /\ q[1] = h[1] /\ At(l, q).kind = "petal"
    BY CompoundKinds
  <1>5. Roots(l, h) = IF At(l, h).kind = "body" THEN At(l, h).of ELSE {h}
    BY DEF Roots
  <1>6. g \in AnyHandle /\ Fit(l, g) /\ Finds(l, g) /\ g[1] = h[1] /\ At(l, g).kind \in {"flower", "mob", "body", "petal"}
    <2>1. CASE g = h
      BY <2>1 DEF Fit
    <2>2. CASE g \in Roots(l, h)
      BY <1>2, <2>2 DEF Fit
    <2>3. CASE g \in Bodies(l, h)
      BY <1>3, <2>3 DEF Fit
    <2>4. CASE g \in Flown(l, h)
      BY <1>4, <2>4 DEF Fit
    <2> QED
      BY <1>1, <2>1, <2>2, <2>3, <2>4
  <1>7. ASSUME At(l, g).kind = "body" PROVE \A r \in At(l, g).of : r \in Roots(l, h)
    <2>1. CASE g = h
      BY <1>5, <1>7, <2>1
    <2>2. CASE g \in Bodies(l, h)
      BY <1>3, <2>2
    <2>3. g \notin Roots(l, h) /\ g \notin Flown(l, h)
      BY <1>2, <1>4, <1>7
    <2> QED
      BY <1>1, <2>1, <2>2, <2>3
  <1>8. ASSUME NEW x \in AnyHandle, Fit(l, x), At(l, x).kind = "body", g \in At(l, x).of
        PROVE  x \in Compound(l, h)
    <2>1. x \in At(l, g).parts /\ At(l, g).kind = "mob"
      BY <1>8, FitBond DEF TiedTo
    <2>2. g \in Roots(l, h)
      <3>1. g \notin Bodies(l, h) /\ g \notin Flown(l, h)
        BY <1>3, <1>4, <2>1
      <3>2. g = h => g \in Roots(l, h)
        BY <1>5, <2>1
      <3> QED
        BY <1>1, <3>1, <3>2
    <2> QED
      BY <1>1, <1>2, <2>1, <2>2
  <1>9. ASSUME NEW x \in AnyHandle, Fit(l, x), g \in At(l, x).parts
        PROVE  x \in Compound(l, h)
    <2>1. At(l, g).of = {x} /\ At(l, g).kind = "body"
      BY <1>9, FitBond DEF HasPart
    <2>2. x \in Roots(l, h)
      BY <1>7, <2>1
    <2> QED
      BY <1>1, <2>2
  <1>10. At(l, g).kind = "body" => At(l, g).of \subseteq Compound(l, h)
    BY <1>1, <1>7
  <1> QED
    BY <1>6, <1>8, <1>9, <1>10

LEMMA OneWorldIsFinite ==
  ASSUME NEW l \in LandType, NEW s \in Lands, NEW S \in SUBSET AnyHandle,
         \A h \in S : Finds(l, h) /\ h[1] = s
  PROVE  IsFiniteSet(S)
  <1> DEFINE g == [h \in S |-> h[2]]
  <1>1. IsFiniteSet(Ids)
    BY FS_Interval, WorldsAssumption DEF Ids
  <1>2. g \in [S -> Ids]
    BY HandleParts
  <1>3. \A x, y \in S : g[x] = g[y] => x = y
    BY OneNamePerSlot
  <1> HIDE DEF g
  <1>4. g \in Injection(S, Ids)
    BY <1>2, <1>3 DEF Injection, IsInjective
  <1> QED
    BY <1>1, <1>4, FS_Injection

LEMMA ListedOnce ==
  ASSUME NEW S, IsFiniteSet(S), NEW h \in S, NEW f \in SetToSeqs(S)
  PROVE  /\ Cardinality(S) \in Nat \ {0} /\ f \in [1..Cardinality(S) -> S]
         /\ \A i, j \in 1..Cardinality(S) : f[i] = f[j] => i = j
         /\ Range(f) = S
  <1> DEFINE n == Cardinality(S)
  <1>1. n \in Nat /\ n # 0
    BY FS_CardinalityType, FS_EmptySet
  <1>2. f \in [1..n -> S] /\ \A i, j \in 1..n : f[i] = f[j] => i = j
    BY DEF SetToSeqs
  <1>3. IsFiniteSet(1..n) /\ Cardinality(1..n) = n
    <2> HIDE DEF n
    <2>1. 1 \in Int /\ n \in Int
      BY <1>1
    <2> QED
      BY <1>1, <2>1, FS_Interval
  <1>4. f \in Injection(1..n, S)
    BY <1>2 DEF Injection, IsInjective
  <1>5. f \in Surjection(1..n, S)
    BY <1>3, <1>4, FS_Injection
  <1>6. Range(f) = S
    <2>1. \A x \in S : \E i \in 1..n : f[i] = x
      BY <1>5 DEF Surjection
    <2> HIDE DEF n
    <2> QED
      BY <1>2, <2>1 DEF Range
  <1> QED
    BY <1>1, <1>2, <1>6

LEMMA LeftOverIs ==
  ASSUME NEW l, SoundLand(l), NEW w, NEW f, NEW x \in AnyHandle
  PROVE  x \in LeftOver(l, w, f) <=> (Finds(l, x) /\ At(l, x).kind \in {"shot", "petal", "summon", "chain"}
                                       /\ \E r \in At(l, x).of : r \in Range(f))
  <1>1. Handles(l) = {h \in AnyHandle : Finds(l, h)}
    BY HandlesAreFound DEF SoundLand
  <1>2. \A kinds : x \in OwnedBy(l, Range(f), kinds) <=>
          (Finds(l, x) /\ At(l, x).kind \in kinds /\ \E r \in At(l, x).of : r \in Range(f))
    BY <1>1 DEF OwnedBy
  <1> QED
    BY <1>2 DEF LeftOver, ChainsOf

\* The setting of a transfer, and what it lists.
Sails(l, w, s, n, f, h) ==
  /\ SoundLand(l) /\ Bonds(l, {}, NoLand) /\ h \in AnyHandle /\ Fit(l, h) /\ At(l, h).kind \in {"flower", "mob", "body"}
  /\ h[1] = s /\ w # s /\ w \in Lands
  /\ \A g \in Compound(l, h) : Fit(l, g)
  /\ n = Cardinality(Compound(l, h)) /\ n <= Len(l[w].free)
  /\ f \in SetToSeqs(Compound(l, h)) /\ f[1] = h
Behind(l, w, f) == Marked(l, LeftOver(l, w, f))

LEMMA SailsIs ==
  ASSUME NEW l, NEW w, NEW s, NEW n, NEW f, NEW h, Sails(l, w, s, n, f, h)
  PROVE  /\ Leaving(Behind(l, w, f), w, s, n, f) /\ 1 \in 1..n
         /\ DOMAIN f = 1..n /\ \A x : x \in Compound(l, h) <=> \E k \in 1..n : f[k] = x
         /\ \A x : x \in Range(f) <=> x \in Compound(l, h)
         /\ After(l, w, f, h) = NextNames(Behind(l, w, f), w, 1)
  <1> DEFINE S == Compound(l, h)  m == Behind(l, w, f)
  <1>1. /\ SoundLand(l) /\ l \in LandType /\ Bonds(l, {}, NoLand) /\ h \in AnyHandle /\ Fit(l, h)
        /\ At(l, h).kind \in {"flower", "mob", "body"} /\ h[1] = s /\ w # s /\ w \in Lands
        /\ (\A g \in S : Fit(l, g)) /\ n = Cardinality(S) /\ n <= Len(l[w].free)
        /\ f \in SetToSeqs(S) /\ f[1] = h
    BY DEF Sails, SoundLand
  <1>2. s \in Lands
    BY <1>1, HandleParts
  <1>3. \A g \in S : g \in AnyHandle /\ Finds(l, g) /\ g[1] = s
    BY <1>1, CompoundIs
  <1>4. h \in S
    BY DEF Compound
  <1> HIDE DEF S, m
  <1>5. IsFiniteSet(S)
    BY <1>1, <1>2, <1>3, OneWorldIsFinite
  <1>6. /\ n \in Nat \ {0} /\ f \in [1..n -> S] /\ (\A i, j \in 1..n : f[i] = f[j] => i = j)
        /\ Range(f) = S
    BY <1>1, <1>4, <1>5, ListedOnce
  <1>7. /\ SoundLand(m) /\ (\A x \in AnyHandle : Finds(m, x) <=> Finds(l, x))
        /\ m[w].free = l[w].free /\ m[w].gen = l[w].gen
    <2>1. SoundLand(m) /\ (\A x \in AnyHandle : Finds(m, x) <=> Finds(l, x))
      BY <1>1, MarkedExtended DEF m, Behind
    <2>2. SameNames(l, m)
      BY <1>1, MarkedIs DEF m, Behind
    <2> QED
      BY <1>1, <2>1, <2>2 DEF SameNames
  <1>8. \A k \in 1..n : f[k] \in AnyHandle /\ Finds(m, f[k]) /\ f[k][1] = s
    BY <1>3, <1>6, <1>7
  <1>9. f \in [1..n -> AnyHandle]
    BY <1>6, <1>8
  <1>10. Leaving(m, w, s, n, f)
    BY <1>1, <1>2, <1>6, <1>7, <1>8, <1>9 DEF Leaving
  <1>11. DOMAIN f = 1..n /\ 1 \in 1..n
    BY <1>6
  <1>12. \A x : x \in S <=> \E k \in 1..n : f[k] = x
    BY <1>6, <1>11 DEF Range
  <1>13. After(l, w, f, h) = After(m, w, f, h)
    BY <1>7 DEF After
  <1>14. After(m, w, f, f[1]) = NextNames(m, w, 1)
    <2>1. \A k \in 1..n : After(m, w, f, f[k]) = NextNames(m, w, k)
      BY <1>10, AfterIs
    <2> QED
      BY <1>11, <2>1
  <1> QED
    BY <1>1, <1>6, <1>10, <1>11, <1>12, <1>13, <1>14 DEF S, m

Landed(l, w, f) == TransferredTo(Behind(l, w, f), w, f)

LEMMA BehindIs ==
  ASSUME NEW l, SoundLand(l), NEW w, NEW f, NEW x \in AnyHandle, Finds(l, x)
  PROVE  /\ Finds(Behind(l, w, f), x)
         /\ At(Behind(l, w, f), x).kind = At(l, x).kind
         /\ At(Behind(l, w, f), x).of = At(l, x).of
         /\ At(Behind(l, w, f), x).parts = At(l, x).parts
         /\ At(Behind(l, w, f), x).tags = At(l, x).tags
         /\ ~At(Behind(l, w, f), x).marked <=> (~At(l, x).marked /\ x \notin LeftOver(l, w, f))
  <1> DEFINE hs == LeftOver(l, w, f)
  <1>1. \A y \in AnyHandle : Finds(Marked(l, hs), y) <=> Finds(l, y)
    BY MarkedExtended
  <1>2. /\ At(Marked(l, hs), x).kind = At(l, x).kind
        /\ At(Marked(l, hs), x).of = At(l, x).of
        /\ At(Marked(l, hs), x).parts = At(l, x).parts
        /\ At(Marked(l, hs), x).tags = At(l, x).tags
        /\ ~At(Marked(l, hs), x).marked <=> (~At(l, x).marked /\ x \notin hs)
    BY MarkedFields
  <1> QED
    BY <1>1, <1>2 DEF Behind

\* Where everything is after a transfer.
LEMMA LandedIs ==
  ASSUME NEW l, NEW w, NEW s, NEW n, NEW f, NEW h, Sails(l, w, s, n, f, h)
  PROVE  /\ SoundLand(Landed(l, w, f)) /\ Grows(l, Landed(l, w, f))
         /\ \A x \in AnyHandle : Finds(Landed(l, w, f), x) <=>
              (Finds(l, x) /\ x \notin Compound(l, h)) \/ Renamed(Behind(l, w, f), w, f, x)
         /\ \A x \in AnyHandle : Finds(l, x) /\ x \notin Compound(l, h) =>
              At(Landed(l, w, f), x) = At(Behind(l, w, f), x)
         /\ \A k \in 1..n : /\ Finds(Landed(l, w, f), NextNames(Behind(l, w, f), w, k))
                            /\ At(Landed(l, w, f), NextNames(Behind(l, w, f), w, k))
                                 = Arriving(Behind(l, w, f), w, f, f[k])
  <1> DEFINE b == Behind(l, w, f)  m == Landed(l, w, f)
  <1>1. /\ Leaving(b, w, s, n, f) /\ DOMAIN f = 1..n
        /\ \A x : x \in Compound(l, h) <=> \E k \in 1..n : f[k] = x
    BY SailsIs
  <1>2. /\ SoundLand(l) /\ SoundLand(b) /\ Grows(l, b)
        /\ \A x \in AnyHandle : Finds(b, x) <=> Finds(l, x)
    <2>1. SoundLand(l)
      BY DEF Sails
    <2> QED
      BY <2>1, MarkedExtended DEF Behind
  <1>3. m = TransferredTo(b, w, f)
    BY DEF Landed
  <1> HIDE DEF b, m
  <1>4. SoundLand(m)
    BY <1>1, <1>3, TransferredSound
  <1>5. /\ Grows(b, m)
        /\ \A k \in 1..n : /\ Finds(m, NextNames(b, w, k))
                           /\ At(m, NextNames(b, w, k)) = Arriving(b, w, f, f[k])
    <2>1. Grows(b, TransferredTo(b, w, f))
      BY <1>1, TransferredIs
    <2>2. ASSUME NEW k \in 1..n
          PROVE  /\ Finds(TransferredTo(b, w, f), NextNames(b, w, k))
                 /\ At(TransferredTo(b, w, f), NextNames(b, w, k)) = Arriving(b, w, f, f[k])
      <3>1. Leaving(b, w, s, n, f)
        BY <1>1
      <3> QED
        BY <3>1, TransferredIs, Zenon
    <2> QED
      BY <1>3, <2>1, <2>2
  <1>6. Grows(l, m)
    BY <1>2, <1>4, <1>5, GrowsTransitive DEF SoundLand
  <1>7. ASSUME NEW x \in AnyHandle
        PROVE  /\ Finds(m, x) <=> (Finds(b, x) /\ ~MovedAlong(f, x)) \/ Renamed(b, w, f, x)
               /\ Finds(b, x) /\ ~MovedAlong(f, x) => At(m, x) = At(b, x)
    <2>1. /\ Finds(TransferredTo(b, w, f), x) <=> (Finds(b, x) /\ ~MovedAlong(f, x)) \/ Renamed(b, w, f, x)
          /\ Finds(b, x) /\ ~MovedAlong(f, x) => At(TransferredTo(b, w, f), x) = At(b, x)
      BY <1>1, TransferredFinds
    <2> QED
      BY <1>3, <2>1
  <1>8. \A x : MovedAlong(f, x) <=> x \in Compound(l, h)
    BY <1>1 DEF MovedAlong
  <1>9. \A x \in AnyHandle : Finds(m, x) <=> (Finds(l, x) /\ x \notin Compound(l, h)) \/ Renamed(b, w, f, x)
    BY <1>2, <1>7, <1>8
  <1>10. \A x \in AnyHandle : Finds(l, x) /\ x \notin Compound(l, h) => At(m, x) = At(b, x)
    BY <1>2, <1>7, <1>8
  <1> QED
    BY <1>4, <1>5, <1>6, <1>9, <1>10 DEF b, m

\* Who stays keeps its bonds: nothing it is tied to has gone.
LEMMA StayedBond ==
  ASSUME NEW l, NEW w, NEW s, NEW n, NEW f, NEW h, Sails(l, w, s, n, f, h),
         NEW x \in AnyHandle, Finds(l, x), x \notin Compound(l, h)
  PROVE  Bond(Landed(l, w, f), {}, NoLand, x)
  <1> DEFINE m == Landed(l, w, f)  S == Compound(l, h)
  <1>1. SoundLand(l) /\ l \in LandType /\ Bonds(l, {}, NoLand) /\ h \in AnyHandle /\ Fit(l, h)
        /\ At(l, h).kind \in {"flower", "mob", "body"} /\ \A g \in S : Fit(l, g)
    BY DEF Sails, SoundLand
  <1>2. ASSUME NEW y \in AnyHandle, Finds(l, y), y \notin S
        PROVE  /\ Finds(m, y) /\ At(m, y).kind = At(l, y).kind /\ At(m, y).of = At(l, y).of
               /\ At(m, y).parts = At(l, y).parts /\ At(m, y).tags = At(l, y).tags
               /\ ~At(m, y).marked <=> (~At(l, y).marked /\ y \notin LeftOver(l, w, f))
    <2>1. At(m, y) = At(Behind(l, w, f), y) /\ Finds(m, y)
      BY <1>2, LandedIs
    <2>2. /\ At(Behind(l, w, f), y).kind = At(l, y).kind
          /\ At(Behind(l, w, f), y).of = At(l, y).of
          /\ At(Behind(l, w, f), y).parts = At(l, y).parts
          /\ At(Behind(l, w, f), y).tags = At(l, y).tags
          /\ ~At(Behind(l, w, f), y).marked <=> (~At(l, y).marked /\ y \notin LeftOver(l, w, f))
      BY <1>1, <1>2, BehindIs
    <2> QED
      BY <2>1, <2>2
  <1>3. \A g \in S : /\ \A y \in AnyHandle : Fit(l, y) /\ At(l, y).kind = "body" /\ g \in At(l, y).of => y \in S
                     /\ \A y \in AnyHandle : Fit(l, y) /\ g \in At(l, y).parts => y \in S
    BY <1>1, CompoundIs
  <1>4. \A y : y \in Range(f) <=> y \in S
    BY SailsIs
  <1> HIDE DEF m, S
  <1>5. StaysHome(l, x) /\ OwnsItself(l, x)
    BY <1>1 DEF Bonds, Bond
  <1>6. StaysHome(m, x) /\ OwnsItself(m, x)
    BY <1>2, <1>5 DEF StaysHome, OwnsItself, S
  <1>7. /\ At(m, x).kind = At(l, x).kind /\ At(m, x).of = At(l, x).of /\ At(m, x).parts = At(l, x).parts
        /\ ~At(m, x).marked <=> (~At(l, x).marked /\ x \notin LeftOver(l, w, f))
    BY <1>2 DEF S
  <1>8. ASSUME ~At(m, x).marked PROVE Attached(m, {}, NoLand, x)
    <2>1. Fit(l, x) /\ x \notin LeftOver(l, w, f)
      BY <1>7, <1>8 DEF Fit
    <2>2. /\ At(l, x).of \subseteq AnyHandle /\ At(l, x).parts \subseteq AnyHandle
          /\ At(l, x).kind \in {"flower", "mob"} => At(l, x).of = {}
          /\ At(l, x).kind \in Needy => At(l, x).of # {}
          /\ \A r \in At(l, x).of : Finds(l, r) /\ TiedTo(l, x, r)
          /\ \A b \in At(l, x).parts : HasPart(l, x, b)
      BY <1>1, <2>1, FitBond
    <2>3. At(l, x).kind \in {"flower", "mob", "body", "petal", "shot", "summon", "chain"}
      <3>1. At(l, x) \in Entity
        BY <1>1, FoundAreEntities
      <3> QED
        BY <3>1, EntityFields
    <2>4. At(l, x).kind \in {"shot", "petal", "summon", "chain"} => \A r \in At(l, x).of : r \notin S
      BY <1>1, <1>4, <2>1, LeftOverIs
    <2>5. \A r \in At(l, x).of : r \notin S
      BY <1>3, <2>1, <2>2, <2>3, <2>4 DEF S
    <2>6. \A b \in At(l, x).parts : b \notin S
      BY <1>3, <2>1 DEF S
    <2>7. ASSUME NEW r \in At(l, x).of PROVE Finds(m, r) /\ TiedTo(m, x, r)
      <3>1. r \in AnyHandle /\ Finds(l, r) /\ TiedTo(l, x, r) /\ r \notin S
        BY <2>2, <2>5
      <3>2. Finds(m, r) /\ At(m, r).kind = At(l, r).kind /\ At(m, r).parts = At(l, r).parts /\ At(m, r).tags = At(l, r).tags
        BY <1>2, <3>1
      <3> QED
        BY <1>7, <3>1, <3>2 DEF TiedTo
    <2>8. ASSUME NEW b \in At(l, x).parts PROVE HasPart(m, x, b)
      <3>1. b \in AnyHandle /\ HasPart(l, x, b) /\ b \notin S
        BY <2>2, <2>6
      <3>2. Finds(m, b) /\ At(m, b).kind = At(l, b).kind /\ At(m, b).of = At(l, b).of
        BY <1>2, <3>1 DEF HasPart
      <3> QED
        BY <3>1, <3>2 DEF HasPart
    <2> QED
      BY <1>7, <2>2, <2>7, <2>8 DEF Attached
  <1> QED
    BY <1>6, <1>8 DEF Bond, m

LEMMA RemappedIs ==
  ASSUME NEW l, NEW w, NEW s, NEW n, NEW f, Leaving(l, w, s, n, f), NEW hs, NEW x
  PROVE  x \in Remapped(l, w, f, hs) <=> \E k \in 1..n : f[k] \in hs /\ x = NextNames(l, w, k)
  <1>1. \A y : y \in Range(f) <=> \E k \in 1..n : f[k] = y
    BY LeavingIs
  <1>2. \A k \in 1..n : After(l, w, f, f[k]) = NextNames(l, w, k)
    BY AfterIs
  <1> QED
    BY <1>1, <1>2 DEF Remapped

\* Who moves is tied to what moves with it, by the new names.
LEMMA MovedBond ==
  ASSUME NEW l, NEW w, NEW s, NEW n, NEW f, NEW h, Sails(l, w, s, n, f, h), NEW k \in 1..n
  PROVE  /\ Bond(Landed(l, w, f), {}, NoLand, NextNames(Behind(l, w, f), w, k))
         /\ At(Landed(l, w, f), NextNames(Behind(l, w, f), w, k)).kind = At(l, f[k]).kind
  <1> DEFINE b == Behind(l, w, f)  m == Landed(l, w, f)  S == Compound(l, h)  N(j) == NextNames(b, w, j)
  <1>1. SoundLand(l) /\ l \in LandType /\ Bonds(l, {}, NoLand) /\ h \in AnyHandle /\ Fit(l, h)
        /\ At(l, h).kind \in {"flower", "mob", "body"} /\ \A g \in S : Fit(l, g)
    BY DEF Sails, SoundLand
  <1>2. Leaving(b, w, s, n, f) /\ \A x : x \in S <=> \E j \in 1..n : f[j] = x
    BY SailsIs
  <1>3. \A g \in S : /\ g \in AnyHandle /\ Fit(l, g) /\ Finds(l, g)
                     /\ At(l, g).kind \in {"flower", "mob", "body", "petal"}
                     /\ At(l, g).kind = "body" => At(l, g).of \subseteq S
    BY <1>1, CompoundIs
  <1>4. \A j \in 1..n : N(j)[1] = w /\ N(j) \in AnyHandle
    BY <1>2, AfterIs
  <1>5. \A j \in 1..n : Finds(m, N(j)) /\ At(m, N(j)) = Arriving(b, w, f, f[j])
    BY LandedIs
  <1>6. ASSUME NEW j \in 1..n
        PROVE  /\ f[j] \in S /\ At(m, N(j)).kind = At(l, f[j]).kind
               /\ At(m, N(j)).of = Remapped(b, w, f, At(l, f[j]).of)
               /\ At(m, N(j)).parts = Remapped(b, w, f, At(l, f[j]).parts)
               /\ At(m, N(j)).tags = At(l, f[j]).tags
               /\ ~At(m, N(j)).marked <=> At(l, f[j]).kind # "petal"
    <2>1. f[j] \in S /\ f[j] \in AnyHandle /\ Finds(l, f[j])
      BY <1>2, <1>3
    <2>2. /\ Arriving(b, w, f, f[j]).kind = At(b, f[j]).kind
          /\ Arriving(b, w, f, f[j]).of = Remapped(b, w, f, At(b, f[j]).of)
          /\ Arriving(b, w, f, f[j]).parts = Remapped(b, w, f, At(b, f[j]).parts)
          /\ Arriving(b, w, f, f[j]).tags = At(b, f[j]).tags
          /\ ~Arriving(b, w, f, f[j]).marked <=> At(b, f[j]).kind # "petal"
      BY <1>2, ArrivingIs
    <2>3. /\ At(b, f[j]).kind = At(l, f[j]).kind /\ At(b, f[j]).of = At(l, f[j]).of
          /\ At(b, f[j]).parts = At(l, f[j]).parts /\ At(b, f[j]).tags = At(l, f[j]).tags
      BY <1>1, <2>1, BehindIs
    <2>4. At(m, N(j)) = Arriving(b, w, f, f[j])
      BY <1>5
    <2> HIDE DEF b, m, N, S
    <2> QED
      BY <2>1, <2>2, <2>3, <2>4
  <1>7. \A hs, x : x \in Remapped(b, w, f, hs) <=> \E j \in 1..n : f[j] \in hs /\ x = N(j)
    BY <1>2, RemappedIs
  <1> HIDE DEF b, m, S, N
  <1>8. /\ At(l, f[k]).kind \in {"flower", "mob"} => At(l, f[k]).of = {}
        /\ At(l, f[k]).kind = "flower" => "summons" \in At(l, f[k]).tags
        /\ At(l, f[k]).kind \in Needy => At(l, f[k]).of # {}
        /\ \A r \in At(l, f[k]).of : Finds(l, r) /\ TiedTo(l, f[k], r)
        /\ \A y \in At(l, f[k]).parts : HasPart(l, f[k], y)
    BY <1>1, <1>3, <1>6, FitBond
  <1>9. /\ At(m, N(k)).kind = At(l, f[k]).kind
        /\ At(m, N(k)).of = Remapped(b, w, f, At(l, f[k]).of)
        /\ At(m, N(k)).parts = Remapped(b, w, f, At(l, f[k]).parts)
        /\ At(m, N(k)).tags = At(l, f[k]).tags
        /\ ~At(m, N(k)).marked <=> At(l, f[k]).kind # "petal"
    BY <1>6
  <1>10. StaysHome(m, N(k))
    BY <1>4, <1>7, <1>9 DEF StaysHome
  <1>11. OwnsItself(m, N(k))
    BY <1>7, <1>8, <1>9 DEF OwnsItself
  <1>12. ASSUME ~At(m, N(k)).marked PROVE Attached(m, {}, NoLand, N(k))
    <2>1. At(l, f[k]).kind \in {"flower", "mob", "body"} /\ At(m, N(k)).kind \in {"flower", "mob", "body"}
      BY <1>3, <1>6, <1>9, <1>12
    <2>2. At(m, N(k)).kind \in Needy => At(m, N(k)).of # {}
      <3> SUFFICES ASSUME At(l, f[k]).kind = "body" PROVE \E x : x \in At(m, N(k)).of
        BY <1>9, <2>1 DEF Needy
      <3>1. PICK r : r \in At(l, f[k]).of
        BY <1>8 DEF Needy
      <3>2. PICK j \in 1..n : f[j] = r
        BY <1>2, <1>3, <1>6, <3>1 DEF S
      <3>3. N(j) \in At(m, N(k)).of
        BY <1>7, <1>9, <3>1, <3>2
      <3> QED
        BY <3>3
    <2>3. ASSUME NEW x \in At(m, N(k)).of PROVE Finds(m, x) /\ TiedTo(m, N(k), x)
      <3>1. PICK j \in 1..n : f[j] \in At(l, f[k]).of /\ x = N(j)
        BY <1>7, <1>9, <2>3
      <3>2. At(l, f[k]).kind = "body"
        BY <1>8, <2>1, <3>1
      <3>3. f[k] \in At(l, f[j]).parts /\ At(l, f[j]).kind = "mob"
        BY <1>8, <3>1, <3>2 DEF TiedTo
      <3>4. N(k) \in At(m, N(j)).parts /\ At(m, N(j)).kind = "mob"
        BY <1>6, <1>7, <3>3
      <3> QED
        BY <1>5, <2>1, <3>1, <3>4 DEF TiedTo
    <2>4. ASSUME NEW x \in At(m, N(k)).parts PROVE HasPart(m, N(k), x)
      <3>1. PICK j \in 1..n : f[j] \in At(l, f[k]).parts /\ x = N(j)
        BY <1>7, <1>9, <2>4
      <3>2. At(l, f[j]).of = {f[k]} /\ At(l, f[j]).kind = "body"
        BY <1>8, <3>1 DEF HasPart
      <3>3. \A i \in 1..n : f[i] = f[k] => i = k
        BY <1>2 DEF Leaving
      <3>4. At(m, N(j)).of = {N(k)}
        <4>1. At(m, N(j)).of = Remapped(b, w, f, {f[k]})
          BY <1>6, <3>2
        <4>2. \A y : y \in Remapped(b, w, f, {f[k]}) <=> y = N(k)
          BY <1>7, <3>3
        <4> QED
          BY <4>1, <4>2
      <3> QED
        BY <1>5, <1>6, <3>1, <3>2, <3>4 DEF HasPart
    <2> QED
      BY <2>2, <2>3, <2>4 DEF Attached
  <1> QED
    BY <1>9, <1>10, <1>11, <1>12 DEF Bond, b, m, N

LEMMA TransferSound ==
  ASSUME WorldsInv, NEW p \in Pilots, NEW w \in Lands, Transfer(p, w)
  PROVE  StepIsSound
  <1> DEFINE h == control[p]  S == Compound(land, h)  n == Cardinality(S)  s == h[1]
  <1>1. /\ SoundLand(land) /\ land \in LandType /\ control \in [Pilots -> AnyHandle \cup {NoHandle}] /\ cleaning \in Lands \cup {NoLand}
        /\ given \in SUBSET AnyHandle /\ NamesGiven(land, given) /\ ControlsDiffer(control, land, given)
        /\ gone = {} /\ cleaning = NoLand /\ Bonds(land, {}, NoLand)
    <2>1. Calm
      BY DEF Transfer
    <2> QED
      BY <2>1, InvIsSound, CalmHasNoKeys DEF SoundLand
  <1>2. PICK f \in SetToSeqs(S) :
          /\ Fit(land, h) /\ s # w /\ MayMove(land, control, p, S) /\ n <= Len(land[w].free)
          /\ f[1] = h /\ Keep(Landed(land, w, f)) /\ control' = [control EXCEPT ![p] = After(land, w, f, h)]
          /\ cleaning' = cleaning /\ gone' = gone
    <2>1. Len(land[w].free) \in Nat
      BY <1>1, SoundSlots, LenProperties
    <2> QED
      BY <2>1 DEF Transfer, HasRoom, Landed, Behind
  <1> DEFINE b == Behind(land, w, f)  m == Landed(land, w, f)  h0 == NextNames(b, w, 1)
  <1>3. h \in AnyHandle /\ Finds(land, h) /\ At(land, h).kind \in {"flower", "mob", "body"}
    BY <1>1, <1>2 DEF Fit, Finds, ControlsDiffer
  <1>4. Sails(land, w, s, n, f, h)
    BY <1>1, <1>2, <1>3 DEF Sails, MayMove
  <1>5. /\ Leaving(b, w, s, n, f) /\ 1 \in 1..n /\ DOMAIN f = 1..n
        /\ (\A x : x \in S <=> \E k \in 1..n : f[k] = x) /\ After(land, w, f, h) = h0
    BY <1>4, SailsIs
  <1>6. /\ SoundLand(m) /\ m \in LandType /\ Grows(land, m)
        /\ \A x \in AnyHandle : Finds(m, x) <=> (Finds(land, x) /\ x \notin S) \/ Renamed(b, w, f, x)
        /\ \A x \in AnyHandle : Finds(land, x) /\ x \notin S => At(m, x) = At(b, x)
    BY <1>4, LandedIs DEF SoundLand
  <1>7. \A k \in 1..n : /\ Bond(m, {}, NoLand, NextNames(b, w, k))
                        /\ At(m, NextNames(b, w, k)).kind = At(land, f[k]).kind
    BY <1>4, MovedBond
  <1>8. \A x \in AnyHandle : Finds(land, x) /\ x \notin S => Bond(m, {}, NoLand, x)
    BY <1>4, StayedBond
  <1>9. \A k \in 1..n : NextNames(b, w, k) \in AnyHandle /\ ~Finds(b, NextNames(b, w, k))
    BY <1>5, AfterIs
  <1>10. \A x \in AnyHandle : Finds(land, x) => Finds(b, x) /\ At(b, x).kind = At(land, x).kind
    BY <1>1, BehindIs
  <1>11. \A x \in S : ~Occupied(control, p, x)
    BY <1>2 DEF MayMove
  <1>12. \A x : Renamed(b, w, f, x) <=> \E k \in 1..n : NextNames(b, w, k) = x
    BY <1>5 DEF Renamed
  <1> HIDE DEF S, n, s, b, m
  <1>13. Bonds(m, {}, NoLand)
    BY <1>6, <1>7, <1>8, <1>12 DEF Bonds
  <1>14. h0 \in AnyHandle /\ Finds(m, h0) /\ ~Finds(land, h0) /\ At(m, h0).kind \in {"flower", "mob", "body"}
    <2>1. h0 \in AnyHandle /\ ~Finds(b, h0)
      BY <1>5, <1>9
    <2>2. At(m, h0).kind = At(land, f[1]).kind
      BY <1>5, <1>7
    <2>3. Renamed(b, w, f, h0)
      BY <1>5, <1>12
    <2> QED
      BY <1>2, <1>3, <1>6, <1>10, <2>1, <2>2, <2>3
  <1> HIDE DEF h0
  <1>15. h0 \notin given
    <2>1. NamesNew(land, m, given)
      BY <1>1, <1>6, NamesStayGiven
    <2>2. h0 \in Handles(m) /\ h0 \notin Handles(land)
      BY <1>1, <1>6, <1>14, HandlesAreFound
    <2> QED
      BY <2>1, <2>2 DEF NamesNew
  <1>16. ASSUME NEW x \in AnyHandle, Finds(land, x), Finds(m, x)
         PROVE  At(m, x).kind = At(land, x).kind
    <2>1. ~Renamed(b, w, f, x)
      BY <1>9, <1>10, <1>12, <1>16
    <2> QED
      BY <1>6, <1>10, <1>16, <2>1
  <1>17. ASSUME NEW q \in Pilots \ {p}, Fit(land, control[q]) PROVE Finds(m, control[q])
    <2>1. control[q] \in AnyHandle /\ Finds(land, control[q])
      BY <1>1, <1>17 DEF Fit, Finds
    <2>2. control[q] \notin S
      BY <1>11 DEF Occupied
    <2> QED
      BY <1>6, <2>1, <2>2
  <1>18. control' = [control EXCEPT ![p] = h0]
    BY <1>2, <1>5
  <1> HIDE DEF h
  <1>19. /\ control' \in [Pilots -> AnyHandle \cup {NoHandle}]
         /\ ControlsDiffer(control', m, given \cup Handles(m))
         /\ ControlKept(control, control', land, m)
    <2>1. \A x \in AnyHandle : Finds(land, x) /\ Finds(m, x) /\ At(land, x).kind \in {"flower", "mob", "body"}
                             => At(m, x).kind \in {"flower", "mob", "body"}
      BY <1>16
    <2>2. \A q \in Pilots \ {p} : Fit(land, control[q]) => Finds(m, control[q])
      BY <1>17
    <2> QED
      BY <1>1, <1>6, <1>14, <1>15, <1>18, <2>1, <2>2, ControlsMoved
  <1>20. Keep(m) /\ cleaning' = NoLand /\ gone' = {}
    BY <1>1, <1>2 DEF m
  <1> QED
    BY <1>1, <1>6, <1>13, <1>19, <1>20, StepParts

-----------------------------------------------------------------------------
\* Hot reload: numbers in order.

\* Max of a nonempty set of numbers with a bound is in it.
LEMMA GreatestIsIn ==
  ASSUME NEW T \in SUBSET Int, T # {}, NEW N \in Int, \A t \in T : t <= N
  PROVE  Max(T) \in T /\ \A t \in T : t <= Max(T)
  <1> DEFINE S == {x \in Nat : N - x \in T}
  <1>1. \A t \in T : N - t \in S
    <2> TAKE t \in T
    <2>1. t \in Int /\ t <= N
      OBVIOUS
    <2>2. N - t \in Nat /\ N - (N - t) = t
      BY <2>1
    <2> QED
      BY <2>2
  <1>2. PICK x \in S : \A y \in S : ~ (<<y, x>> \in OpToRel(<, Nat))
    <2>1. S # {} /\ S \subseteq Nat
      BY <1>1
    <2> HIDE DEF S
    <2> QED
      BY <2>1, NatLessThanWellFounded, WFMin
  <1>3. \A y \in S : ~ (y < x)
    BY <1>2 DEF OpToRel
  <1>4. N - x \in T /\ \A t \in T : t <= N - x
    <2>1. x \in Nat /\ N - x \in T
      OBVIOUS
    <2> HIDE DEF S
    <2>2. ASSUME NEW t \in T PROVE t <= N - x
      <3>1. ~ (N - t < x) /\ t \in Int
        BY <1>1, <1>3
      <3> QED
        BY <2>1, <3>1
    <2> QED
      BY <2>1, <2>2
  <1>5. \E m \in T : \A t \in T : m >= t
    <2>1. N - x \in T /\ \A t \in T : N - x >= t
      BY <1>4
    <2> QED
      BY <2>1
  <1> QED
    BY <1>5 DEF Max

\* How many of a set are smaller numbers it without gaps.
Smaller(S, s) == {r \in S : r < s}
LEMMA RanksAreDense ==
  ASSUME NEW S \in SUBSET Nat, IsFiniteSet(S)
  PROVE  /\ Cardinality(S) \in Nat
         /\ \A s \in S : Cardinality(Smaller(S, s)) \in 0..(Cardinality(S) - 1)
         /\ \A r, s \in S : Cardinality(Smaller(S, r)) = Cardinality(Smaller(S, s)) => r = s
         /\ \A t \in 0..(Cardinality(S) - 1) : \E s \in S : Cardinality(Smaller(S, s)) = t
  <1> DEFINE rank == [s \in S |-> Cardinality(Smaller(S, s))]
             T == 0..(Cardinality(S) - 1)
  <1>n. Cardinality(S) \in Nat
    BY FS_CardinalityType
  <1>1. \A s \in S : IsFiniteSet(Smaller(S, s)) /\ Cardinality(Smaller(S, s)) \in Nat
                     /\ Cardinality(Smaller(S, s)) < Cardinality(S)
    <2> SUFFICES ASSUME NEW s \in S
                 PROVE  IsFiniteSet(Smaller(S, s)) /\ Cardinality(Smaller(S, s)) \in Nat
                        /\ Cardinality(Smaller(S, s)) < Cardinality(S)
      OBVIOUS
    <2> DEFINE B == Smaller(S, s)
    <2>1. B \in SUBSET S /\ B # S
      BY DEF Smaller
    <2> HIDE DEF B
    <2>2. IsFiniteSet(B) /\ Cardinality(B) <= Cardinality(S) /\ Cardinality(S) # Cardinality(B)
      BY <2>1, FS_Subset
    <2>3. Cardinality(B) \in Nat
      BY <2>2, FS_CardinalityType
    <2>4. Cardinality(B) < Cardinality(S)
      BY <1>n, <2>2, <2>3
    <2> QED
      BY <2>2, <2>3, <2>4 DEF B
  <1>2. \A r, s \in S : r < s => Cardinality(Smaller(S, r)) < Cardinality(Smaller(S, s))
    <2> SUFFICES ASSUME NEW r \in S, NEW s \in S, r < s
                 PROVE  Cardinality(Smaller(S, r)) < Cardinality(Smaller(S, s))
      OBVIOUS
    <2> DEFINE A == Smaller(S, r)  B == Smaller(S, s)
    <2>1. A \in SUBSET B /\ B # A
      <3>1. r \in B /\ r \notin A
        BY DEF Smaller
      <3>2. \A x \in Nat : x < r => x < s
        OBVIOUS
      <3>3. A \in SUBSET B
        BY <3>2 DEF Smaller
      <3> QED
        BY <3>1, <3>3
    <2>2. IsFiniteSet(B) /\ Cardinality(B) \in Nat /\ Cardinality(A) \in Nat
      BY <1>1
    <2> HIDE DEF A, B
    <2>3. Cardinality(A) <= Cardinality(B) /\ Cardinality(B) # Cardinality(A)
      BY <2>1, <2>2, FS_Subset
    <2>4. Cardinality(A) < Cardinality(B)
      BY <2>2, <2>3
    <2> QED
      BY <2>4 DEF A, B
  <1>3. \A s \in S : Cardinality(Smaller(S, s)) \in T
    BY <1>n, <1>1
  <1>4. ASSUME NEW r \in S, NEW s \in S, r # s
        PROVE  Cardinality(Smaller(S, r)) # Cardinality(Smaller(S, s))
    <2>1. r < s \/ s < r
      BY <1>4
    <2>2. /\ Cardinality(Smaller(S, r)) \in Nat /\ Cardinality(Smaller(S, s)) \in Nat
          /\ Cardinality(Smaller(S, r)) < Cardinality(Smaller(S, s)) \/ Cardinality(Smaller(S, s)) < Cardinality(Smaller(S, r))
      BY <1>1, <1>2, <2>1
    <2> QED
      BY <2>2
  <1>5. IsFiniteSet(T) /\ Cardinality(T) = Cardinality(S)
    <2>1. 0 \in Int /\ Cardinality(S) - 1 \in Int
      BY <1>n
    <2>2. IsFiniteSet(T) /\ Cardinality(T) = IF 0 > Cardinality(S) - 1 THEN 0 ELSE (Cardinality(S) - 1) - 0 + 1
      BY <2>1, FS_Interval
    <2> HIDE DEF T
    <2> QED
      BY <1>n, <2>2
  <1> HIDE DEF T
  <1>6. rank \in Injection(S, T)
    <2>1. rank \in [S -> T]
      BY <1>3
    <2>2. \A r, s \in S : rank[r] = rank[s] => r = s
      BY <1>4
    <2> HIDE DEF rank
    <2> QED
      BY <2>1, <2>2 DEF Injection, IsInjective
  <1>7. rank \in Surjection(S, T)
    <2> HIDE DEF rank
    <2> QED
      BY <1>5, <1>6, FS_Injection
  <1>8. \A t \in T : \E s \in S : rank[s] = t
    <2> HIDE DEF rank
    <2> QED
      BY <1>7 DEF Surjection
  <1>9. \A t \in T : \E s \in S : Cardinality(Smaller(S, s)) = t
    BY <1>8
  <1> QED
    BY <1>n, <1>3, <1>4, <1>9 DEF T

LEMMA AscendingIs ==
  ASSUME NEW S \in SUBSET Nat, IsFiniteSet(S)
  PROVE  /\ Ascending(S) \in Seq(S) /\ IsInjective(Ascending(S))
         /\ \A x : x \in Range(Ascending(S)) <=> x \in S
  <1> DEFINE c == Cardinality(S)  Nth(n) == CHOOSE i \in S : Cardinality({j \in S : j < i}) = n - 1
             s == Ascending(S)
  <1>1. /\ c \in Nat
        /\ \A x \in S : Cardinality(Smaller(S, x)) \in 0..(c - 1)
        /\ \A t \in 0..(c - 1) : \E x \in S : Cardinality(Smaller(S, x)) = t
        /\ \A x, y \in S : Cardinality(Smaller(S, x)) = Cardinality(Smaller(S, y)) => x = y
    BY RanksAreDense
  <1>2. s = [n \in 1..c |-> Nth(n)]
    BY DEF Ascending
  <1> HIDE DEF c, s
  <1>3. ASSUME NEW n \in 1..c PROVE Nth(n) \in S /\ Cardinality(Smaller(S, Nth(n))) = n - 1
    <2>1. n - 1 \in 0..(c - 1)
      BY <1>1
    <2>2. \E i \in S : Cardinality({j \in S : j < i}) = n - 1
      BY <1>1, <2>1 DEF Smaller
    <2> QED
      BY <2>2 DEF Smaller
  <1> HIDE DEF Nth
  <1>4. s \in [1..c -> S] /\ DOMAIN s = 1..c /\ \A n \in 1..c : s[n] \in S /\ Cardinality(Smaller(S, s[n])) = n - 1
    BY <1>2, <1>3
  <1>5. s \in Seq(S)
    BY <1>1, <1>4, SeqDef
  <1>6. IsInjective(s)
    <2> SUFFICES ASSUME NEW a \in 1..c, NEW b \in 1..c, s[a] = s[b] PROVE a = b
      BY <1>4 DEF IsInjective
    <2>1. a - 1 = b - 1
      BY <1>4
    <2> QED
      BY <1>1, <2>1
  <1>7. ASSUME NEW x \in S PROVE \E n \in 1..c : s[n] = x
    <2> DEFINE t == Cardinality(Smaller(S, x))
    <2>1. t \in 0..(c - 1)
      BY <1>1
    <2>2. t + 1 \in 1..c /\ (t + 1) - 1 = t
      BY <1>1, <2>1
    <2>3. s[t + 1] \in S /\ Cardinality(Smaller(S, s[t + 1])) = t
      BY <1>4, <2>2
    <2> QED
      BY <1>1, <2>2, <2>3
  <1>8. \A x : x \in Range(s) <=> x \in S
    BY <1>4, <1>7 DEF Range
  <1> QED
    BY <1>5, <1>6, <1>8 DEF s

LEMMA CountingDown ==
  ASSUME NEW N \in Nat, NEW next \in 0..(N + 1)
  PROVE  /\ [n \in 1..(N + 1 - next) |-> N + 1 - n] \in Seq(0..N)
         /\ IsInjective([n \in 1..(N + 1 - next) |-> N + 1 - n])
         /\ \A x : x \in Range([n \in 1..(N + 1 - next) |-> N + 1 - n]) <=> x \in next..N
  <1> DEFINE k == N + 1 - next  s == [n \in 1..k |-> N + 1 - n]
  <1>1. k \in Nat /\ \A n \in 1..k : N + 1 - n \in next..N
    OBVIOUS
  <1>2. s \in [1..k -> 0..N] /\ DOMAIN s = 1..k /\ \A n \in 1..k : s[n] = N + 1 - n
    BY <1>1
  <1>a. \A x \in next..N : N + 1 - x \in 1..k /\ N + 1 - (N + 1 - x) = x
    OBVIOUS
  <1> HIDE DEF k, s
  <1>3. s \in Seq(0..N)
    BY <1>1, <1>2, SeqDef
  <1>4. IsInjective(s)
    <2>1. \A a, b \in 1..k : s[a] = s[b] => a = b
      BY <1>1, <1>2
    <2> QED
      BY <1>2, <2>1 DEF IsInjective
  <1>5. \A x : x \in Range(s) <=> x \in next..N
    <2>1. \A x \in next..N : \E n \in 1..k : s[n] = x
      BY <1>2, <1>a
    <2> QED
      BY <1>1, <1>2, <2>1 DEF Range
  <1> QED
    BY <1>3, <1>4, <1>5 DEF k, s

LEMMA RestoredFreeIs ==
  ASSUME NEW l \in LandType, NEW w \in Lands
  PROVE  /\ RestoredFree(l, w) \in Seq(Ids) /\ IsInjective(RestoredFree(l, w))
         /\ Range(RestoredFree(l, w)) = {i \in Ids : l[w].at[i] = NoEntity}
  <1> DEFINE T == {-1} \cup {h[2] : h \in HandlesIn(l, w)}
             next == 1 + Max(T)
             top == [n \in 1..(MaxId + 1 - next) |-> MaxId + 1 - n]
             S == {i \in 0..(next - 1) : l[w].at[i] = NoEntity}
  <1>0. MaxId \in Nat /\ MaxId \in Int /\ Ids = 0..MaxId
    BY WorldsAssumption DEF Ids
  <1>1. \A h \in HandlesIn(l, w) : h[2] \in Ids
    BY HandlesAreFound, HandleParts
  <1>2. T \in SUBSET Int /\ T # {} /\ \A t \in T : t <= MaxId /\ -1 <= t
    BY <1>0, <1>1
  <1>3. \A i \in Ids : l[w].at[i] # NoEntity => i \in T
    <2> SUFFICES ASSUME NEW i \in Ids, l[w].at[i] # NoEntity PROVE \E h \in HandlesIn(l, w) : h[2] = i
      OBVIOUS
    <2>1. GetHandle(l, w, i) \in HandlesIn(l, w)
      BY DEF HandlesIn
    <2>2. GetHandle(l, w, i)[2] = i
      BY DEF GetHandle
    <2> QED
      BY <2>1, <2>2
  <1>4. RestoredFree(l, w) = top \o Ascending(S)
    BY DEF RestoredFree
  <1> HIDE DEF T
  <1>5. Max(T) \in T /\ \A t \in T : t <= Max(T)
    BY <1>0, <1>2, GreatestIsIn
  <1>a. Max(T) \in Int /\ -1 <= Max(T) /\ Max(T) <= MaxId
    BY <1>2, <1>5
  <1>6. next \in 0..(MaxId + 1) /\ \A i \in Ids : l[w].at[i] # NoEntity => i \in 0..(next - 1)
    <2>1. next \in 0..(MaxId + 1)
      BY <1>0, <1>a
    <2>2. ASSUME NEW i \in Ids, l[w].at[i] # NoEntity PROVE i \in 0..(next - 1)
      <3>1. i \in T /\ i \in Nat /\ Max(T) \in Int
        BY <1>0, <1>3, <1>a, <2>2
      <3>2. i <= Max(T)
        BY <1>5, <3>1
      <3>3. next - 1 = Max(T)
        BY <3>1
      <3> QED
        BY <3>1, <3>2, <3>3
    <2> QED
      BY <2>1, <2>2
  <1> HIDE DEF next
  <1>7. top \in Seq(Ids) /\ IsInjective(top) /\ \A x : x \in Range(top) <=> x \in next..MaxId
    BY <1>0, <1>6, CountingDown
  <1>8. S \in SUBSET Nat /\ S \in SUBSET Ids /\ IsFiniteSet(S)
    <2>1. IsFiniteSet(Ids)
      <3>1. 0 \in Int
        OBVIOUS
      <3> QED
        BY <1>0, <3>1, FS_Interval
    <2>2. S \in SUBSET Nat /\ S \in SUBSET Ids
      BY <1>0, <1>6
    <2> HIDE DEF S
    <2> QED
      BY <2>1, <2>2, FS_Subset
  <1>9. \A x : x \in S <=> x \in Ids /\ x < next /\ l[w].at[x] = NoEntity
    BY <1>0, <1>6
  <1> HIDE DEF top, S
  <1>10. Ascending(S) \in Seq(S) /\ IsInjective(Ascending(S)) /\ \A x : x \in Range(Ascending(S)) <=> x \in S
    BY <1>8, AscendingIs
  <1>11. Ascending(S) \in Seq(Ids)
    <2>1. Len(Ascending(S)) \in Nat /\ Ascending(S) \in [1..Len(Ascending(S)) -> S]
      BY <1>10, LenProperties
    <2>2. Ascending(S) \in [1..Len(Ascending(S)) -> Ids]
      BY <1>8, <2>1
    <2> QED
      BY <2>1, <2>2, SeqDef
  <1>12. \A x \in Range(top) : x \notin Range(Ascending(S))
    BY <1>0, <1>6, <1>7, <1>9, <1>10
  <1>13. /\ top \o Ascending(S) \in Seq(Ids) /\ IsInjective(top \o Ascending(S))
         /\ Range(top \o Ascending(S)) = Range(top) \cup Range(Ascending(S))
    BY <1>7, <1>10, <1>11, <1>12, ConcatInjective
  <1>14. \A x : x \in Range(top) \cup Range(Ascending(S)) <=> x \in Ids /\ l[w].at[x] = NoEntity
    <2>1. \A x \in next..MaxId : x \in Ids /\ l[w].at[x] = NoEntity
      BY <1>0, <1>6
    <2>2. \A x \in Ids : x < next \/ x \in next..MaxId
      BY <1>0, <1>6
    <2> QED
      BY <1>7, <1>9, <1>10, <2>1, <2>2
  <1>15. Range(top) \cup Range(Ascending(S)) = {i \in Ids : l[w].at[i] = NoEntity}
    BY <1>14
  <1> QED
    BY <1>4, <1>13, <1>15

LEMMA RestoredNextIs ==
  ASSUME NEW l \in LandType, NEW w \in Lands, NEW g \in SUBSET AnyHandle, NamesGiven(l, g)
  PROVE  RestoredNext(l, w) = l[w].gen
  <1> DEFINE T == {0} \cup {h[3] : h \in HandlesIn(l, w)}  gen == l[w].gen  next == NextOfLiving(l, w)
  <1>1. gen \in Nat \ {0}
    BY SoundSlots
  <1>2. ASSUME NEW h \in HandlesIn(l, w) PROVE h[3] \in Nat /\ h[3] <= gen - 1
    <2>1. h \in AnyHandle /\ h[1] = w /\ h \in Handles(l)
      BY <1>2, HandlesAreFound
    <2>2. h[3] \in Nat /\ h[3] < l[w].gen
      BY <2>1, HandleParts DEF NamesGiven
    <2> QED
      BY <1>1, <2>2
  <1>3. T \in SUBSET Int /\ T # {} /\ gen - 1 \in Int /\ \A t \in T : t <= gen - 1
    BY <1>1, <1>2
  <1>4. next = 1 + Max(T)
    BY DEF NextOfLiving
  <1> HIDE DEF T, gen, next
  <1>5. Max(T) \in Int /\ Max(T) <= gen - 1
    BY <1>3, GreatestIsIn
  <1>6. next \in Int /\ next <= gen
    BY <1>1, <1>4, <1>5
  <1>7. {next, gen} \in SUBSET Int /\ {next, gen} # {} /\ gen \in Int /\ \A t \in {next, gen} : t <= gen
    BY <1>1, <1>6
  <1>8. Max({next, gen}) \in {next, gen} /\ \A t \in {next, gen} : t <= Max({next, gen})
    BY <1>7, GreatestIsIn
  <1>9. Max({next, gen}) = gen
    BY <1>1, <1>6, <1>8
  <1> QED
    BY <1>9 DEF RestoredNext, next, gen

LEMMA ReloadSound ==
  ASSUME WorldsInv, ReloadWorlds
  PROVE  StepIsSound
  <1> DEFINE m == [w \in Lands |-> [at |-> land[w].at, free |-> RestoredFree(land, w), gen |-> RestoredNext(land, w)]]
             X == [at : [Ids -> Entity \cup {NoEntity}], free : Seq(Ids), gen : Nat \ {0}]
  <1>1. /\ SoundLand(land) /\ land \in LandType /\ given \in SUBSET AnyHandle /\ NamesGiven(land, given)
    BY InvIsSound DEF SoundLand
  <1>2. /\ Calm /\ land' = m /\ control' = control /\ cleaning' = cleaning /\ gone' = gone /\ given' = given
    BY DEF ReloadWorlds
  <1>3. ASSUME NEW w \in Lands
        PROVE  /\ m[w].at = land[w].at /\ m[w].free = RestoredFree(land, w) /\ m[w].gen = land[w].gen
               /\ m[w] \in X
    <2> DEFINE fr == RestoredFree(land, w)  gn == RestoredNext(land, w)
    <2>1. gn = land[w].gen
      BY <1>1, RestoredNextIs
    <2>2. land[w].at \in [Ids -> Entity \cup {NoEntity}] /\ land[w].gen \in Nat \ {0}
      BY <1>1, SoundSlots
    <2>3. fr \in Seq(Ids)
      BY <1>1, RestoredFreeIs
    <2>4. m[w] = [at |-> land[w].at, free |-> fr, gen |-> gn]
      OBVIOUS
    <2> HIDE DEF fr, gn, m
    <2> QED
      BY <2>1, <2>2, <2>3, <2>4 DEF fr
  <1>4. m = [w \in Lands |-> m[w]]
    OBVIOUS
  <1> HIDE DEF m, X
  <1>5. m \in LandType
    BY <1>3, <1>4 DEF LandType, X
  <1>6. SoundLand(m)
    <2>1. \A w \in Lands : /\ IsInjective(RestoredFree(land, w))
                           /\ Range(RestoredFree(land, w)) = {i \in Ids : land[w].at[i] = NoEntity}
      BY <1>1, RestoredFreeIs
    <2> QED
      BY <1>3, <1>5, <2>1 DEF SoundLand, SlotsOK
  <1>7. ASSUME NEW h \in AnyHandle PROVE At(m, h) = At(land, h) /\ (Finds(m, h) <=> Finds(land, h))
    BY <1>3, HandleParts DEF At, Finds
  <1>8. Grows(land, m)
    <2>1. \A w \in Lands : land[w].gen \in Nat
      BY <1>1, SoundSlots
    <2> QED
      BY <1>3, <1>7, <2>1 DEF Grows
  <1>9. Extended(land, m)
    BY <1>7 DEF Extended
  <1>10. Keep(m)
    <2>1. Handles(m) = Handles(land)
      BY <1>1, <1>5, <1>7, HandlesAreFound
    <2>2. given = given \cup Handles(m)
      BY <1>1, <2>1 DEF NamesGiven
    <2> QED
      BY <1>2, <2>2 DEF Keep
  <1>11. UNCHANGED <<control, cleaning, gone>>
    BY <1>2
  <1>12. \A h \in AnyHandle : Finds(m, h) /\ ~Finds(land, h) => Bond(m, {}, NoLand, h)
    BY <1>7
  <1> QED
    BY <1>2, <1>6, <1>8, <1>9, <1>10, <1>11, <1>12, CalmStep

-----------------------------------------------------------------------------
\* The theorems.

LEMMA WorldsInvInit == WorldsInit => WorldsInv
  <1> SUFFICES ASSUME WorldsInit PROVE WorldsInv
    OBVIOUS
  <1> DEFINE a == [i \in Ids |-> NoEntity]  fr == [n \in 1..(MaxId + 1) |-> MaxId + 1 - n]
             X == [at : [Ids -> Entity \cup {NoEntity}], free : Seq(Ids), gen : Nat \ {0}]
             e == [at |-> a, free |-> fr, gen |-> 1]
  <1>1. /\ land = [w \in Lands |-> e] /\ control = [p \in Pilots |-> NoHandle] /\ cleaning = NoLand /\ gone = {} /\ given = {}
    BY DEF WorldsInit
  <1>2. fr \in Seq(Ids) /\ IsInjective(fr) /\ \A x : x \in Range(fr) <=> x \in Ids
    <2>1. MaxId \in Nat /\ Ids = 0..MaxId
      BY WorldsAssumption DEF Ids
    <2> DEFINE next == 0
    <2>2. next \in 0..(MaxId + 1)
      BY <2>1
    <2> HIDE DEF next
    <2> DEFINE s == [n \in 1..(MaxId + 1 - next) |-> MaxId + 1 - n]
    <2>3. s \in Seq(0..MaxId) /\ IsInjective(s) /\ \A x : x \in Range(s) <=> x \in next..MaxId
      BY <2>1, <2>2, CountingDown
    <2>4. s = fr
      BY <2>1 DEF next
    <2> HIDE DEF s, fr
    <2> QED
      BY <2>1, <2>3, <2>4 DEF next
  <1>3. a \in [Ids -> Entity \cup {NoEntity}] /\ \A i \in Ids : a[i] = NoEntity
    OBVIOUS
  <1> HIDE DEF a, fr
  <1>4. e \in X /\ e.at = a /\ e.free = fr
    BY <1>2, <1>3
  <1> HIDE DEF e, X
  <1>5. land \in [Lands -> X] /\ \A w \in Lands : land[w] = e
    BY <1>1, <1>4
  <1>6. land \in LandType
    BY <1>5 DEF LandType, X
  <1>7. SlotsAreAccounted
    <2>1. Range(fr) = {i \in Ids : a[i] = NoEntity}
      BY <1>2, <1>3
    <2> QED
      BY <1>2, <1>4, <1>5, <2>1 DEF SlotsAreAccounted
  <1>8. \A h \in AnyHandle : ~Finds(land, h)
    BY <1>3, <1>4, <1>5, <1>6, FindsSlot, HandleParts
  <1>9. Handles(land) = {}
    BY <1>6, <1>8, HandlesAreFound
  <1>10. NamesGiven(land, given)
    BY <1>1, <1>9 DEF NamesGiven
  <1>11. ControlsDiffer(control, land, given)
    BY <1>1 DEF ControlsDiffer, Finds
  <1>12. Bonds(land, gone, cleaning)
    BY <1>8 DEF Bonds
  <1>13. WorldsTypeOK
    BY <1>1, <1>6 DEF WorldsTypeOK, LandType
  <1>14. KeysWait
    BY <1>1 DEF KeysWait
  <1> QED
    BY <1>7, <1>10, <1>11, <1>12, <1>13, <1>14 DEF WorldsInv

LEMMA WorldsNextSound ==
  ASSUME WorldsInv, WorldsNext
  PROVE  StepIsSound
  <1>1. Handles(land) \subseteq AnyHandle
    BY InvIsSound, HandlesAreFound DEF SoundLand
  <1>2. ASSUME NEW w \in Homes, SpawnMob(w) PROVE StepIsSound
    BY <1>2, SpawnMobSound
  <1>3. ASSUME NEW w \in Lands, BeginCleanup(w) PROVE StepIsSound
    BY <1>3, BeginCleanupSound
  <1>4. ASSUME NEW h \in Handles(land), NEW kind \in {"shot", "petal", "summon"}, SpawnOwned(h, kind) PROVE StepIsSound
    BY <1>1, <1>4, SpawnOwnedSound
  <1>5. ASSUME NEW h \in Handles(land), NEW q \in Handles(land), LinkChain(q, h) PROVE StepIsSound
    BY <1>1, <1>5, LinkChainSound
  <1>6. ASSUME NEW h \in Handles(land), Destroy(h) PROVE StepIsSound
    BY <1>1, <1>6, DestroySound
  <1>7. ASSUME NEW h \in Handles(land), NEW hard \in BOOLEAN, RemoveEntity(h, hard) PROVE StepIsSound
    BY <1>1, <1>7, RemoveEntitySound
  <1>8. ASSUME NEW h \in Handles(land), NEW p \in Pilots, Possess(p, h) PROVE StepIsSound
    BY <1>1, <1>8, PossessSound
  <1>9. ASSUME SweepOwned PROVE StepIsSound
    BY <1>9, SweepOwnedSound
  <1>10. ASSUME NEW p \in Travellers, NEW w \in Homes, SpawnPlayer(p, w) PROVE StepIsSound
    BY <1>10, WorldsAssumption, SpawnPlayerSound
  <1>11. ASSUME NEW p \in Travellers, NEW w \in Lands, Transfer(p, w) PROVE StepIsSound
    BY <1>11, WorldsAssumption, TransferSound
  <1>12. ASSUME ReloadWorlds PROVE StepIsSound
    BY <1>12, ReloadSound
  <1> QED
    BY <1>2, <1>3, <1>4, <1>5, <1>6, <1>7, <1>8, <1>9, <1>10, <1>11, <1>12 DEF WorldsNext

LEMMA WorldsInvStep == WorldsInv /\ [WorldsNext]_worldsVars => WorldsInv'
  <1> SUFFICES ASSUME WorldsInv, [WorldsNext]_worldsVars PROVE WorldsInv'
    OBVIOUS
  <1>1. CASE WorldsNext
    BY <1>1, WorldsNextSound DEF StepIsSound
  <1>2. CASE UNCHANGED worldsVars
    <2>1. land' = land /\ control' = control /\ cleaning' = cleaning /\ gone' = gone /\ given' = given
      BY <1>2 DEF worldsVars
    <2> QED
      BY <2>1 DEF WorldsInv, WorldsTypeOK, SlotsAreAccounted, KeysWait
  <1> QED
    BY <1>1, <1>2

\* Worlds, players and key lists are what they are declared to be, for any
\* number of worlds, slots and players.
THEOREM WorldsTypeCorrect == WorldsSpec => []WorldsTypeOK
  <1>1. WorldsInv => WorldsTypeOK
    BY DEF WorldsInv
  <1> QED
    BY <1>1, WorldsInvInit, WorldsInvStep, PTL DEF WorldsSpec

LEMMA RelationsFollow == WorldsInv => RelationsResolve
  <1> SUFFICES ASSUME WorldsInv, Calm, NEW h \in Handles(land), ~At(land, h).marked
               PROVE  /\ At(land, h).kind \in {"petal", "shot", "summon", "body", "chain"} => At(land, h).of # {}
                      /\ \A r \in At(land, h).of : Finds(land, r) /\ r[1] = h[1]
                      /\ \A b \in At(land, h).parts : Finds(land, b) /\ At(land, b).of = {h}
                      /\ At(land, h).kind = "body" => \A r \in At(land, h).of : h \in At(land, r).parts
    BY DEF RelationsResolve
  <1>1. land \in LandType /\ Bonds(land, {}, NoLand)
    BY InvIsSound, CalmHasNoKeys DEF SoundLand
  <1>2. h \in AnyHandle /\ Fit(land, h)
    BY <1>1, HandlesAreFound DEF Fit
  <1>3. /\ At(land, h).kind \in Needy => At(land, h).of # {}
        /\ \A r \in At(land, h).of : Finds(land, r) /\ TiedTo(land, h, r) /\ r[1] = h[1]
        /\ \A b \in At(land, h).parts : HasPart(land, h, b) /\ b[1] = h[1]
    BY <1>1, <1>2, FitBond
  <1> QED
    BY <1>3 DEF Needy, TiedTo, HasPart

\* No slot is lost, free twice or free while in use, and between two ticks
\* whatever belongs to something still has it, whatever was spawned, possessed,
\* removed, moved to another world or reloaded (CGameWorld, MoveCompound).
THEOREM WorldsStaySound == WorldsSpec => []WorldsAreSound
  <1>1. WorldsInv => WorldsAreSound
    BY RelationsFollow DEF WorldsInv, WorldsAreSound
  <1> QED
    BY <1>1, WorldsInvInit, WorldsInvStep, PTL DEF WorldsSpec

\* A handle that named an entity never names another: not when its slot is used
\* again, not in another world, not after a hot reload (InsertEntity,
\* SetNextEntityGeneration).
THEOREM HandlesStayNameOne == WorldsSpec => HandlesNameOne
  <1>1. WorldsInv /\ [WorldsNext]_worldsVars =>
          [land' # land => \A h \in Handles(land') \ Handles(land) : h \notin given]_worldsVars
    BY WorldsNextSound DEF StepIsSound, NamesNew
  <1> QED
    BY <1>1, WorldsInvInit, WorldsInvStep, PTL DEF WorldsSpec, HandlesNameOne

\* Nobody's move takes along what another player controls, and no two players
\* ever control the same entity (CanMoveCompound, Possess).
THEOREM ControlStaysKept == WorldsSpec => ControlIsKept
  <1>1. WorldsInv /\ [WorldsNext]_worldsVars =>
          [<<land, control>>' # <<land, control>> => \A p \in Pilots :
             /\ Fit(land, control[p]) /\ control'[p] = control[p] => Finds(land', control[p])
             /\ \A q \in Pilots \ {p} : Finds(land', control'[p]) => control'[q] # control'[p]]_worldsVars
    BY WorldsNextSound DEF StepIsSound, ControlKept
  <1> QED
    BY <1>1, WorldsInvInit, WorldsInvStep, PTL DEF WorldsSpec, ControlIsKept

=============================================================================
