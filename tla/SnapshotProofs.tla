-------------------------- MODULE SnapshotProofs --------------------------
(* Proofs about what the network module does with snapshots: the pool that   *)
(* builds them, for any finite set of workers, and the protocol that keeps a *)
(* client's scene in step with the server's, for any limits of histories,    *)
(* buffers and channels.                                                     *)
EXTENDS SnapshotPool, SnapshotSync, FiniteSetTheorems, SequenceTheorems, TLAPS

-----------------------------------------------------------------------------
(* Subsequences.                                                             *)

Rising(f, n) == \A i, j \in 1..n : i < j => f[i] < f[j]
Hits(f, n) == {f[i] : i \in 1..n}
Along(s, f, n) == [i \in 1..n |-> s[f[i]]]

\* Positions in rising order are the ones picked, and in that order.
LEMMA PickedAre ==
  ASSUME NEW m \in Nat, NEW n \in Nat, NEW s, NEW f \in [1..n -> 1..m], Rising(f, n)
  PROVE  /\ Hits(f, n) \subseteq 1..m /\ Cardinality(Hits(f, n)) = n
         /\ Picked(s, Hits(f, n)) = Along(s, f, n)
  <1> DEFINE at == Hits(f, n)
  <1>0. at = {f[i] : i \in 1..n}
    BY DEF Hits
  <1> HIDE DEF at
  <1> DEFINE Upto(k) == {j \in at : j <= k}
             Rank(k) == Cardinality(Upto(k))
  <1>1. \A i, j \in 1..n : f[i] = f[j] => i = j
    <2> SUFFICES ASSUME NEW i \in 1..n, NEW j \in 1..n, f[i] = f[j] PROVE i = j
      OBVIOUS
    <2>1. f[i] \in Nat /\ f[j] \in Nat
      OBVIOUS
    <2>2. ~(i < j) /\ ~(j < i)
      BY <2>1 DEF Rising
    <2> QED
      BY <2>2
  <1>2. at \subseteq 1..m
    BY <1>0
  <1>3. ASSUME NEW i \in 1..n
        PROVE  Upto(f[i]) = {f[j] : j \in 1..i} /\ Rank(f[i]) = i
    <2>1. \A j \in 1..n : f[j] <= f[i] <=> j <= i
      <3> SUFFICES ASSUME NEW j \in 1..n PROVE f[j] <= f[i] <=> j <= i
        OBVIOUS
      <3>1. f[i] \in Nat /\ f[j] \in Nat
        OBVIOUS
      <3>2. i < j => f[i] < f[j]
        BY DEF Rising
      <3>3. j < i => f[j] < f[i]
        BY DEF Rising
      <3> QED
        BY <3>1, <3>2, <3>3
    <2>2. Upto(f[i]) = {f[j] : j \in 1..i}
      BY <2>1, <1>0
    <2> DEFINE g == [j \in 1..i |-> f[j]]
    <2>3. g \in Bijection(1..i, Upto(f[i]))
      <3>1. g \in [1..i -> Upto(f[i])]
        BY <2>2
      <3>2. \A a, b \in 1..i : g[a] = g[b] => a = b
        BY <1>1
      <3>3. \A t \in Upto(f[i]) : \E a \in 1..i : g[a] = t
        BY <2>2
      <3> QED
        BY <3>1, <3>2, <3>3 DEF Bijection, Injection, Surjection, IsInjective
    <2>4. IsFiniteSet(1..i) /\ Cardinality(1..i) = i
      BY FS_Interval
    <2>5. Rank(f[i]) = i
      <3> HIDE DEF Upto, g
      <3>1. ExistsBijection(1..i, Upto(f[i]))
        BY <2>3 DEF ExistsBijection
      <3> QED
        BY <2>4, <3>1, FS_Bijection
    <2> QED
      BY <2>2, <2>5
  <1>4. Cardinality(at) = n
    <2>1. CASE n = 0
      <3>1. at = {}
        BY <2>1, <1>0
      <3> QED
        BY <2>1, <3>1, FS_EmptySet
    <2>2. CASE n # 0
      <3>1. n \in 1..n
        BY <2>2
      <3>2. Upto(f[n]) = at
        BY <1>0, <1>3, <3>1
      <3> QED
        BY <1>3, <3>1, <3>2
    <2> QED
      BY <2>1, <2>2
  <1>5. ASSUME NEW i \in 1..n PROVE (CHOOSE k \in at : Rank(k) = i) = f[i]
    <2>1. f[i] \in at /\ Rank(f[i]) = i
      BY <1>0, <1>3
    <2>2. \A k \in at : Rank(k) = i => k = f[i]
      BY <1>0, <1>3
    <2> HIDE DEF Rank
    <2> QED
      BY <2>1, <2>2
  <1>6. Picked(s, at) = [i \in 1..Cardinality(at) |-> s[CHOOSE k \in at : Rank(k) = i]]
    BY DEF Picked
  <1> HIDE DEF Rank
  <1> QED
    BY <1>2, <1>4, <1>5, <1>6 DEF Along, at

\* Every set of positions can be put in rising order.
LEMMA RisingOrder ==
  ASSUME NEW m \in Nat, NEW at \in SUBSET (1..m)
  PROVE  \E n \in Nat : \E f \in [1..n -> 1..m] : Rising(f, n) /\ at = Hits(f, n)
  <1> DEFINE Upto(k) == {j \in at : j <= k}
             Rank(k) == Cardinality(Upto(k))
             rank == [k \in at |-> Rank(k)]
             n == Cardinality(at)
  <1>1. IsFiniteSet(at) /\ n \in Nat
    <2>1. IsFiniteSet(1..m)
      BY FS_Interval
    <2>2. IsFiniteSet(at)
      BY <2>1, FS_Subset
    <2> QED
      BY <2>2, FS_CardinalityType
  <1>2. ASSUME NEW k \in at
        PROVE  /\ IsFiniteSet(Upto(k)) /\ Rank(k) \in 1..n
               /\ \A j \in at : j < k => Rank(j) < Rank(k)
    <2>1. IsFiniteSet(Upto(k)) /\ Cardinality(Upto(k)) <= n
      BY <1>1, FS_Subset
    <2>2. k \in Upto(k)
      <3>1. k \in Nat
        OBVIOUS
      <3> QED
        BY <3>1
    <2>3. Cardinality(Upto(k)) \in Nat /\ Cardinality(Upto(k)) # 0
      BY <2>1, <2>2, FS_CardinalityType, FS_EmptySet
    <2>4. ASSUME NEW j \in at, j < k PROVE Rank(j) < Rank(k)
      <3>0. j \in Nat /\ k \in Nat /\ \A l \in at : l \in Nat
        OBVIOUS
      <3>1. Upto(j) \subseteq Upto(k) /\ Upto(j) # Upto(k)
        <4>1. Upto(j) \subseteq Upto(k)
          <5> SUFFICES ASSUME NEW l \in at, l <= j PROVE l <= k
            OBVIOUS
          <5>1. l \in Nat /\ j \in Nat /\ k \in Nat
            BY <3>0
          <5> QED
            BY <2>4, <5>1
        <4>2. k \notin Upto(j)
          BY <2>4, <3>0
        <4> HIDE DEF Upto
        <4> QED
          BY <4>1, <4>2, <2>2
      <3>2. Cardinality(Upto(j)) <= Cardinality(Upto(k)) /\ Cardinality(Upto(j)) # Cardinality(Upto(k))
        BY <3>1, <2>1, FS_Subset
      <3>3. Cardinality(Upto(j)) \in Nat
        BY <3>1, <2>1, FS_Subset, FS_CardinalityType
      <3> QED
        BY <3>2, <3>3, <2>3
    <2> QED
      BY <2>1, <2>3, <2>4, <1>1
  <1>3. rank \in Injection(at, 1..n)
    <2>1. ASSUME NEW j \in at, NEW k \in at, j # k PROVE rank[j] # rank[k]
      <3>1. j < k \/ k < j
        BY <2>1
      <3>2. Rank(j) < Rank(k) \/ Rank(k) < Rank(j)
        BY <3>1, <1>2
      <3>3. Rank(j) \in 1..n /\ Rank(k) \in 1..n
        BY <1>2
      <3> HIDE DEF Rank, n
      <3> QED
        BY <3>2, <3>3
    <2> QED
      BY <2>1, <1>2 DEF Injection, IsInjective
  <1>4. IsFiniteSet(1..n) /\ Cardinality(1..n) = n
    BY <1>1, FS_Interval
  <1>5. rank \in Surjection(at, 1..n)
    BY <1>3, <1>4, <1>1, FS_Injection
  <1>6. \A i \in 1..n : \E k \in at : Rank(k) = i
    BY <1>5 DEF Surjection
  <1> DEFINE f == [i \in 1..n |-> CHOOSE k \in at : Rank(k) = i]
  <1>7. ASSUME NEW i \in 1..n PROVE f[i] \in at /\ Rank(f[i]) = i
    <2>1. \E k \in at : Rank(k) = i
      BY <1>6
    <2> HIDE DEF Rank, n
    <2> QED
      BY <2>1
  <1>8. f \in [1..n -> 1..m]
    <2> HIDE DEF Rank, n
    <2> QED
      BY <1>7
  <1>9. Rising(f, n)
    <2> SUFFICES ASSUME NEW i \in 1..n, NEW j \in 1..n, i < j PROVE f[i] < f[j]
      BY DEF Rising
    <2>1. f[i] \in at /\ f[j] \in at /\ Rank(f[i]) = i /\ Rank(f[j]) = j
      BY <1>7
    <2>5. \A k \in at : k \in Nat
      OBVIOUS
    <2>2. f[j] < f[i] => Rank(f[j]) < Rank(f[i])
      BY <2>1, <1>2
    <2> HIDE DEF f, Rank, n
    <2>3. f[i] # f[j]
      BY <2>1
    <2>4. f[i] \in Nat /\ f[j] \in Nat
      BY <2>1, <2>5
    <2> QED
      BY <2>1, <2>2, <2>3, <2>4
  <1>10. at = {f[i] : i \in 1..n}
    <2>1. \A k \in at : Rank(k) \in 1..n /\ f[Rank(k)] = k
      <3> SUFFICES ASSUME NEW k \in at PROVE Rank(k) \in 1..n /\ f[Rank(k)] = k
        OBVIOUS
      <3>1. Rank(k) \in 1..n
        BY <1>2
      <3>2. f[Rank(k)] \in at /\ Rank(f[Rank(k)]) = Rank(k)
        BY <3>1, <1>7
      <3>3. rank[f[Rank(k)]] = rank[k]
        BY <3>2
      <3> QED
        BY <3>1, <3>2, <3>3, <1>3 DEF Injection, IsInjective
    <2> HIDE DEF f, Rank, n
    <2> QED
      BY <2>1, <1>7
  <1> HIDE DEF f, n
  <1> QED
    BY <1>1, <1>8, <1>9, <1>10 DEF Hits

\* What is picked is a sequence of entries at rising positions.
LEMMA PickedIn ==
  ASSUME NEW S, NEW s \in Seq(S), NEW at \in SUBSET DOMAIN s
  PROVE  \E n, f :
           /\ n \in Nat /\ f \in [1..n -> 1..Len(s)]
           /\ Rising(f, n) /\ at = Hits(f, n) /\ Cardinality(at) = n
           /\ Picked(s, at) = Along(s, f, n)
           /\ Picked(s, at) \in Seq(S) /\ Len(Picked(s, at)) = n
  <1>1. Len(s) \in Nat /\ at \in SUBSET (1..Len(s))
    OBVIOUS
  <1>2. PICK n \in Nat : \E f \in [1..n -> 1..Len(s)] : Rising(f, n) /\ at = Hits(f, n)
    BY <1>1, RisingOrder
  <1>3. PICK f \in [1..n -> 1..Len(s)] : Rising(f, n) /\ at = Hits(f, n)
    BY <1>2
  <1>4. Cardinality(at) = n /\ Picked(s, at) = Along(s, f, n)
    BY <1>1, <1>3, PickedAre, Zenon
  <1>5. Along(s, f, n) \in Seq(S) /\ Len(Along(s, f, n)) = n
    <2>1. \A i \in 1..n : s[f[i]] \in S
      OBVIOUS
    <2> QED
      BY <2>1 DEF Along
  <1> QED
    BY <1>3, <1>4, <1>5

\* The snapshots of a stream, in order.
SnapsAt(s) == {k \in DOMAIN s : IsSnapshot(s[k])}
Snaps(s) == Picked(s, SnapsAt(s))

LEMMA SnapsAre ==
  ASSUME NEW m \in Nat, NEW n \in Nat, NEW s \in Seq(Packets), Len(s) = m,
         NEW f \in [1..n -> 1..m], Rising(f, n), SnapsAt(s) = Hits(f, n)
  PROVE  Snaps(s) = Along(s, f, n)
  <1>1. m \in Nat /\ n \in Nat /\ f \in [1..n -> 1..m] /\ Rising(f, n)
    OBVIOUS
  <1>2. Picked(s, Hits(f, n)) = Along(s, f, n)
    BY ONLY <1>1, PickedAre
  <1> QED
    BY <1>2 DEF Snaps

LEMMA SnapsIn ==
  ASSUME NEW s \in Seq(Packets)
  PROVE  \E n, f :
           /\ n \in Nat /\ f \in [1..n -> 1..Len(s)]
           /\ Rising(f, n) /\ SnapsAt(s) = Hits(f, n) /\ Snaps(s) = Along(s, f, n)
  <1>1. SnapsAt(s) \in SUBSET DOMAIN s
    BY DEF SnapsAt
  <1>2. \E n, f :
           /\ n \in Nat /\ f \in [1..n -> 1..Len(s)]
           /\ Rising(f, n) /\ SnapsAt(s) = Hits(f, n) /\ Picked(s, SnapsAt(s)) = Along(s, f, n)
    <2>1. s \in Seq(Packets)
      OBVIOUS
    <2>2. PICK at : at = SnapsAt(s)
      OBVIOUS
    <2>3. at \in SUBSET DOMAIN s
      BY <1>1, <2>2
    <2>4. \E n, f :
           /\ n \in Nat /\ f \in [1..n -> 1..Len(s)]
           /\ Rising(f, n) /\ at = Hits(f, n) /\ Cardinality(at) = n
           /\ Picked(s, at) = Along(s, f, n)
           /\ Picked(s, at) \in Seq(Packets) /\ Len(Picked(s, at)) = n
      BY ONLY <2>1, <2>3, PickedIn, Zenon
    <2> QED
      BY <2>4, <2>2
  <1> QED
    BY <1>2 DEF Snaps

\* Packets of different types have different fields.
LEMMA PacketTypes ==
  ASSUME NEW p \in Packets
  PROVE  /\ IsSnapshot(p) => p \in Snapshots
         /\ p.type = "welcome" => p = [type |-> "welcome", place |-> p.place] /\ p.place \in Place
         /\ ~IsSnapshot(p) /\ p.type # "welcome" => p = Other
  BY DEF Packets, Snapshots, IsSnapshot, Other

LEMMA SnapsType ==
  ASSUME NEW s \in Seq(Packets)
  PROVE  /\ Snaps(s) \in Seq(Snapshots)
         /\ \A q \in DOMAIN Snaps(s) : \E k \in DOMAIN s : IsSnapshot(s[k]) /\ Snaps(s)[q] = s[k]
  <1>2. PICK n, f :
           /\ n \in Nat /\ f \in [1..n -> 1..Len(s)]
           /\ SnapsAt(s) = Hits(f, n) /\ Snaps(s) = Along(s, f, n)
    BY SnapsIn
  <1>3. \A i \in 1..n : f[i] \in DOMAIN s /\ IsSnapshot(s[f[i]])
    BY <1>2 DEF SnapsAt, Hits
  <1>4. \A i \in 1..n : s[f[i]] \in Snapshots
    <2>1. \A i \in 1..n : s[f[i]] \in Packets
      BY <1>2
    <2> QED
      BY <2>1, <1>3, PacketTypes
  <1>5. Along(s, f, n) \in Seq(Snapshots)
    BY <1>2, <1>4 DEF Along
  <1> QED
    BY <1>2, <1>3, <1>5 DEF Along

LEMMA SnapsConcat ==
  ASSUME NEW s \in Seq(Packets), NEW t \in Seq(Packets)
  PROVE  Snaps(s \o t) = Snaps(s) \o Snaps(t)
  <1>2. PICK n1, f1 :
           /\ n1 \in Nat /\ f1 \in [1..n1 -> 1..Len(s)]
           /\ Rising(f1, n1) /\ SnapsAt(s) = Hits(f1, n1)
           /\ Snaps(s) = Along(s, f1, n1)
    BY SnapsIn
  <1>3. PICK n2, f2 :
           /\ n2 \in Nat /\ f2 \in [1..n2 -> 1..Len(t)]
           /\ Rising(f2, n2) /\ SnapsAt(t) = Hits(f2, n2)
           /\ Snaps(t) = Along(t, f2, n2)
    BY SnapsIn
  <1>0. n1 \in Nat /\ n2 \in Nat
    BY <1>2, <1>3
  <1> DEFINE l == Len(s)
             u == s \o t
             n == n1 + n2
             f == [i \in 1..n |-> IF i <= n1 THEN f1[i] ELSE l + f2[i - n1]]
  <1>4. /\ u \in Seq(Packets) /\ l \in Nat /\ Len(t) \in Nat /\ Len(u) = l + Len(t) /\ n \in Nat
        /\ \A i \in 1..l : u[i] = s[i]
        /\ \A i \in 1..Len(t) : u[l + i] = t[i]
    BY <1>0
  <1>5. /\ \A i \in 1..n1 : f[i] = f1[i] /\ f[i] \in 1..l
        /\ \A i \in 1..n2 : f[n1 + i] = l + f2[i] /\ f2[i] \in 1..Len(t)
        /\ \A i \in 1..n : i \in 1..n1 \/ (i - n1 \in 1..n2 /\ i = n1 + (i - n1))
    <2>2. \A i \in 1..n1 : f1[i] \in 1..l
      BY <1>2
    <2>3. \A i \in 1..n2 : f2[i] \in 1..Len(t)
      BY <1>3
    <2> QED
      BY <1>0, <2>2, <2>3
  <1> HIDE DEF f, u, l
  <1>6. f \in [1..n -> 1..Len(u)]
    <2>1. \A i \in 1..n1 : f[i] \in 1..Len(u)
      BY <1>0, <1>4, <1>5
    <2>2. ASSUME NEW i \in 1..n2 PROVE f[n1 + i] \in 1..Len(u)
      <3>1. f[n1 + i] = l + f2[i] /\ f2[i] \in 1..Len(t)
        BY <1>5
      <3> QED
        BY <3>1, <1>4
    <2>3. \A i \in 1..n : f[i] \in 1..Len(u)
      BY <1>0, <2>1, <2>2, <1>5
    <2> QED
      BY <2>3 DEF f
  <1>7. Rising(f, n)
    <2> SUFFICES ASSUME NEW i \in 1..n, NEW j \in 1..n, i < j PROVE f[i] < f[j]
      BY DEF Rising
    <2>1. CASE i \in 1..n1 /\ j \in 1..n1
      BY <2>1, <1>2, <1>5 DEF Rising
    <2>2. CASE i \in 1..n1 /\ j - n1 \in 1..n2
      <3>1. f[n1 + (j - n1)] = l + f2[j - n1] /\ f2[j - n1] \in 1..Len(t) /\ n1 + (j - n1) = j
        BY <2>2, <1>0, <1>5
      <3>2. f[i] \in 1..l
        BY <2>2, <1>5
      <3> QED
        BY <3>1, <3>2, <1>4
    <2>3. CASE i - n1 \in 1..n2 /\ j - n1 \in 1..n2
      <3>1. f2[i - n1] < f2[j - n1]
        BY <2>3, <1>0, <1>3 DEF Rising
      <3>2. f[i] = l + f2[i - n1] /\ f[j] = l + f2[j - n1]
        BY <2>3, <1>0, <1>5
      <3>3. f2[i - n1] \in Nat /\ f2[j - n1] \in Nat
        BY <2>3, <1>5
      <3> QED
        BY <3>1, <3>2, <3>3, <1>4
    <2> QED
      <3>1. ~(i - n1 \in 1..n2 /\ j \in 1..n1)
        BY <1>0
      <3> QED
        BY <2>1, <2>2, <2>3, <3>1, <1>5
  <1>8. SnapsAt(u) = Hits(f, n)
    <2>1. ASSUME NEW k \in SnapsAt(u) PROVE k \in Hits(f, n)
      <3>1. k \in 1..Len(u) /\ IsSnapshot(u[k])
        BY <1>4 DEF SnapsAt
      <3>2. CASE k \in 1..l
        <4>1. k \in SnapsAt(s)
          BY <3>1, <3>2, <1>4 DEF SnapsAt, l
        <4>2. PICK i \in 1..n1 : k = f1[i]
          BY <4>1, <1>2 DEF Hits
        <4>3. i \in 1..n /\ f[i] = k
          BY <4>2, <1>0, <1>5
        <4> QED
          BY <4>3 DEF Hits
      <3>3. CASE k \notin 1..l
        <4>1. k - l \in 1..Len(t) /\ u[k] = t[k - l]
          <5>1. k - l \in 1..Len(t) /\ l + (k - l) = k
            BY <3>1, <3>3, <1>4
          <5> QED
            BY <5>1, <1>4
        <4>2. k - l \in SnapsAt(t)
          BY <4>1, <3>1 DEF SnapsAt
        <4>3. PICK i \in 1..n2 : k - l = f2[i]
          BY <4>2, <1>3 DEF Hits
        <4>4. f[n1 + i] = k /\ n1 + i \in 1..n
          BY <4>3, <1>0, <1>5, <1>4, <3>1
        <4> QED
          BY <4>4 DEF Hits
      <3> QED
        BY <3>2, <3>3
    <2>2. ASSUME NEW i \in 1..n PROVE f[i] \in SnapsAt(u)
      <3>1. CASE i \in 1..n1
        <4>1. f1[i] \in SnapsAt(s) /\ f[i] = f1[i] /\ f[i] \in 1..l
          BY <3>1, <1>2, <1>5 DEF Hits
        <4>2. u[f[i]] = s[f[i]] /\ f[i] \in 1..Len(u)
          BY <4>1, <1>4
        <4> QED
          BY <4>1, <4>2, <1>4 DEF SnapsAt
      <3>2. CASE i - n1 \in 1..n2
        <4>1. f2[i - n1] \in SnapsAt(t) /\ f[i] = l + f2[i - n1] /\ f2[i - n1] \in 1..Len(t)
          <5>1. f2[i - n1] \in SnapsAt(t)
            BY <3>2, <1>3 DEF Hits
          <5>2. f[n1 + (i - n1)] = l + f2[i - n1] /\ f2[i - n1] \in 1..Len(t) /\ n1 + (i - n1) = i
            BY <3>2, <1>0, <1>5
          <5> QED
            BY <5>1, <5>2
        <4>2. u[f[i]] = t[f2[i - n1]] /\ f[i] \in 1..Len(u)
          BY <4>1, <1>4
        <4> QED
          BY <4>1, <4>2, <1>4 DEF SnapsAt
      <3> QED
        BY <3>1, <3>2, <1>5
    <2> QED
      BY <2>1, <2>2 DEF Hits
  <1>9. Snaps(u) = Along(u, f, n)
    <2>1. u \in Seq(Packets) /\ Len(u) \in Nat /\ n \in Nat
      BY <1>4
    <2> QED
      BY ONLY <2>1, <1>6, <1>7, <1>8, SnapsAre, Zenon
  <1>10. /\ \A i \in 1..n1 : u[f[i]] = Snaps(s)[i]
         /\ \A i \in 1..n2 : u[f[n1 + i]] = Snaps(t)[i]
    <2>1. ASSUME NEW i \in 1..n1 PROVE u[f[i]] = Snaps(s)[i]
      BY <1>2, <1>4, <1>5 DEF Along
    <2>2. ASSUME NEW i \in 1..n2 PROVE u[f[n1 + i]] = Snaps(t)[i]
      BY <1>3, <1>4, <1>5 DEF Along
    <2> QED
      BY <2>1, <2>2
  <1>11. /\ Snaps(s) \in Seq(Snapshots) /\ Len(Snaps(s)) = n1
         /\ Snaps(t) \in Seq(Snapshots) /\ Len(Snaps(t)) = n2
    <2>1. Snaps(s) \in Seq(Snapshots) /\ Snaps(t) \in Seq(Snapshots)
      BY SnapsType
    <2>2. DOMAIN Snaps(s) = 1..n1 /\ DOMAIN Snaps(t) = 1..n2
      BY <1>2, <1>3 DEF Along
    <2>3. \A a : a \in Seq(Snapshots) => DOMAIN a = 1..Len(a) /\ Len(a) \in Nat
      BY LenProperties
    <2> QED
      BY <2>1, <2>2, <2>3, <1>0
  <1>12. Snaps(u) \in Seq(Snapshots) /\ Len(Snaps(u)) = n1 + n2
    <2>1. Snaps(u) \in Seq(Snapshots)
      BY <1>4, SnapsType
    <2>2. DOMAIN Snaps(u) = 1..n
      BY <1>9 DEF Along
    <2>3. \A a : a \in Seq(Snapshots) => DOMAIN a = 1..Len(a) /\ Len(a) \in Nat
      BY LenProperties
    <2> QED
      BY <2>1, <2>2, <2>3, <1>4, <1>0
  <1>13. \A i \in 1..(n1 + n2) : Snaps(u)[i] = (Snaps(s) \o Snaps(t))[i]
    <2> SUFFICES ASSUME NEW i \in 1..n PROVE Snaps(u)[i] = (Snaps(s) \o Snaps(t))[i]
      OBVIOUS
    <2>1. CASE i \in 1..n1
      <3>1. Snaps(u)[i] = Snaps(s)[i]
        BY <2>1, <1>9, <1>10 DEF Along
      <3> QED
        BY <3>1, <2>1, <1>11
    <2>2. CASE i - n1 \in 1..n2
      <3>1. Snaps(u)[i] = Snaps(t)[i - n1]
        <4>1. u[f[n1 + (i - n1)]] = Snaps(t)[i - n1] /\ n1 + (i - n1) = i
          BY <2>2, <1>0, <1>10
        <4> QED
          BY <4>1, <1>9 DEF Along
      <3> QED
        <4>1. i \in Nat /\ ~(i <= n1) /\ i <= n1 + n2 /\ i >= 1
          BY <2>2, <1>0
        <4>2. (Snaps(s) \o Snaps(t))[i] = Snaps(t)[i - n1]
          BY ONLY <4>1, <1>0, <1>11
        <4> QED
          BY <3>1, <4>2
    <2> QED
      BY <2>1, <2>2, <1>5
  <1>14. Snaps(s) \o Snaps(t) \in Seq(Snapshots) /\ Len(Snaps(s) \o Snaps(t)) = n1 + n2
    BY <1>0, <1>11
  <1>15. Snaps(u) = Snaps(s) \o Snaps(t)
    BY <1>12, <1>13, <1>14, SeqEqual
  <1> QED
    BY <1>15 DEF u

LEMMA SnapsOne ==
  ASSUME NEW p \in Packets
  PROVE  Snaps(<<p>>) = IF IsSnapshot(p) THEN <<p>> ELSE <<>>
  <1> DEFINE f == [i \in 1..1 |-> 1]
             g == [i \in 1..0 |-> 1]
  <1>1. <<p>> \in Seq(Packets) /\ Len(<<p>>) = 1 /\ <<p>>[1] = p /\ DOMAIN <<p>> = 1..1
    OBVIOUS
  <1>2. CASE IsSnapshot(p)
    <2>1. SnapsAt(<<p>>) = Hits(f, 1) /\ Rising(f, 1) /\ f \in [1..1 -> 1..1]
      BY <1>1, <1>2 DEF SnapsAt, Rising, Hits
    <2> HIDE DEF f
    <2>2. Snaps(<<p>>) = Along(<<p>>, f, 1)
      BY <1>1, <2>1, SnapsAre, Zenon
    <2>3. \A i \in 1..1 : <<p>>[f[i]] = p
      BY <1>1 DEF f
    <2>4. Snaps(<<p>>) = [i \in 1..1 |-> p]
      BY <2>2, <2>3 DEF Along
    <2> QED
      BY <2>4, <1>2
  <1>3. CASE ~IsSnapshot(p)
    <2>1. SnapsAt(<<p>>) = Hits(g, 0) /\ Rising(g, 0) /\ g \in [1..0 -> 1..1]
      BY <1>1, <1>3 DEF SnapsAt, Rising, Hits
    <2> HIDE DEF g
    <2>2. Snaps(<<p>>) = Along(<<p>>, g, 0)
      BY <1>1, <2>1, SnapsAre, Zenon
    <2>3. Snaps(<<p>>) = <<>>
      BY <2>2 DEF Along
    <2> QED
      BY <2>3, <1>3
  <1> QED
    BY <1>2, <1>3

LEMMA SnapsNone == Snaps(<<>>) = <<>>
  <1> DEFINE g == [i \in 1..0 |-> 1]
  <1>1. <<>> \in Seq(Packets) /\ Len(<<>>) = 0 /\ 1..0 = {}
    OBVIOUS
  <1>2. SnapsAt(<<>>) = Hits(g, 0) /\ Rising(g, 0) /\ g \in [1..0 -> 1..0]
    BY DEF SnapsAt, Rising, Hits
  <1> HIDE DEF g
  <1>3. Snaps(<<>>) = Along(<<>>, g, 0)
    BY <1>1, <1>2, SnapsAre, Zenon
  <1> QED
    BY <1>3 DEF Along

LEMMA SnapsOfOthers ==
  ASSUME NEW s \in Seq(Packets), \A k \in DOMAIN s : ~IsSnapshot(s[k])
  PROVE  Snaps(s) = <<>>
  <1>1. PICK n, f :
           /\ n \in Nat /\ f \in [1..n -> 1..Len(s)]
           /\ Rising(f, n) /\ SnapsAt(s) = Hits(f, n) /\ Snaps(s) = Along(s, f, n)
    BY SnapsIn
  <1>2. SnapsAt(s) = {}
    BY DEF SnapsAt
  <1>3. ~(1 \in 1..n)
    <2> SUFFICES ASSUME 1 \in 1..n PROVE FALSE
      OBVIOUS
    <2>1. f[1] \in Hits(f, n)
      BY DEF Hits
    <2> QED
      BY <2>1, <1>1, <1>2
  <1>4. n = 0
    BY <1>1, <1>3
  <1> QED
    BY <1>1, <1>4 DEF Along

LEMMA SnapsOfHead ==
  ASSUME NEW s \in Seq(Packets), s # <<>>
  PROVE  /\ IsSnapshot(s[1]) => Snaps(s) = <<s[1]>> \o Snaps(Tail(s))
         /\ ~IsSnapshot(s[1]) => Snaps(s) = Snaps(Tail(s))
  <1>1. s[1] \in Packets /\ <<s[1]>> \in Seq(Packets) /\ Tail(s) \in Seq(Packets)
    OBVIOUS
  <1>2. s = <<s[1]>> \o Tail(s)
    OBVIOUS
  <1>3. Snaps(<<s[1]>> \o Tail(s)) = Snaps(<<s[1]>>) \o Snaps(Tail(s))
    BY ONLY <1>1, SnapsConcat
  <1>4. Snaps(s) = Snaps(<<s[1]>>) \o Snaps(Tail(s))
    BY <1>2, <1>3
  <1>5. Snaps(<<s[1]>>) = IF IsSnapshot(s[1]) THEN <<s[1]>> ELSE <<>>
    BY <1>1, SnapsOne
  <1>6. Snaps(Tail(s)) \in Seq(Snapshots)
    BY <1>1, SnapsType
  <1>7. <<>> \o Snaps(Tail(s)) = Snaps(Tail(s))
    BY <1>6
  <1> QED
    BY <1>4, <1>5, <1>7

LEMMA SnapsOfAppend ==
  ASSUME NEW s \in Seq(Packets), NEW p \in Packets
  PROVE  /\ IsSnapshot(p) => Snaps(Append(s, p)) = Append(Snaps(s), p)
         /\ ~IsSnapshot(p) => Snaps(Append(s, p)) = Snaps(s)
  <1>1. <<p>> \in Seq(Packets) /\ Append(s, p) = s \o <<p>>
    OBVIOUS
  <1>2. Snaps(s \o <<p>>) = Snaps(s) \o Snaps(<<p>>)
    BY <1>1, SnapsConcat
  <1>3. Snaps(<<p>>) = IF IsSnapshot(p) THEN <<p>> ELSE <<>>
    BY SnapsOne
  <1>4. Snaps(s) \in Seq(Snapshots)
    BY SnapsType
  <1>5. Snaps(s) \o <<>> = Snaps(s)
    BY <1>4
  <1>6. Snaps(s) \o <<p>> = Append(Snaps(s), p)
    BY <1>4
  <1> QED
    BY <1>1, <1>2, <1>3, <1>5, <1>6

\* m is s without some of its snapshots: a snapshot that is left has all that
\* was before it still before it.
Thinner(s, m) ==
  /\ m \in Seq(Packets)
  /\ \E f \in [1..Len(m) -> 1..Len(s)] :
       /\ Rising(f, Len(m))
       /\ \A i \in 1..Len(m) : m[i] = s[f[i]]
       /\ \A j \in 1..Len(s) : ~IsSnapshot(s[j]) => \E i \in 1..Len(m) : f[i] = j
       /\ \A i \in 1..Len(m) : IsSnapshot(m[i]) => \A j \in 1..i : f[j] = j
  /\ \E n \in 0..Len(Snaps(s)) : Snaps(m) = SubSeq(Snaps(s), 1, n)

LEMMA DropIs ==
  ASSUME NEW b \in Seq(Packets), NEW begun \in BOOLEAN,
         NEW kept, kept = WithoutSnapshots(b, begun)
  PROVE  /\ kept \in Seq(Packets) /\ Len(kept) <= Len(b)
         /\ begun /\ b # <<>> => kept # <<>> /\ kept[1] = b[1]
         /\ \A i \in 1..Len(kept) : IsSnapshot(kept[i]) => i = 1
         /\ Thinner(b, kept)
  <1> DEFINE at == {k \in DOMAIN b : IsSnapshot(b[k]) => begun /\ k = 1}
  <1>1. PICK n, f :
           /\ n \in Nat /\ f \in [1..n -> 1..Len(b)]
           /\ Rising(f, n) /\ at = Hits(f, n) /\ kept = Along(b, f, n)
           /\ kept \in Seq(Packets) /\ Len(kept) = n
    <2>1. PICK a : a = at
      OBVIOUS
    <2>2. a \in SUBSET DOMAIN b /\ kept = Picked(b, a)
      BY <2>1 DEF WithoutSnapshots
    <2>3. b \in Seq(Packets)
      OBVIOUS
    <2>4. \E n, f :
           /\ n \in Nat /\ f \in [1..n -> 1..Len(b)]
           /\ Rising(f, n) /\ a = Hits(f, n) /\ Cardinality(a) = n
           /\ Picked(b, a) = Along(b, f, n)
           /\ Picked(b, a) \in Seq(Packets) /\ Len(Picked(b, a)) = n
      BY ONLY <2>2, <2>3, PickedIn, Zenon
    <2> HIDE DEF at
    <2> QED
      BY <2>1, <2>2, <2>4
  <1>2. /\ \A i \in 1..n : kept[i] = b[f[i]] /\ f[i] \in 1..Len(b) /\ f[i] \in at
        /\ \A j \in at : \E i \in 1..n : f[i] = j
        /\ \A i, j \in 1..n : i < j => f[i] < f[j]
    BY <1>1 DEF Along, Hits, Rising
  <1>3. \A j \in 1..Len(b) : ~IsSnapshot(b[j]) => j \in at
    OBVIOUS
  <1>4. \A j \in at : j \in 1..Len(b) /\ (IsSnapshot(b[j]) => begun /\ j = 1)
    OBVIOUS
  <1>5. begun /\ b # <<>> => 1 \in at
    OBVIOUS
  <1> HIDE DEF at
  <1>6. ASSUME NEW i \in 1..n, f[i] = 1 PROVE i = 1
    <2> SUFFICES ASSUME i # 1 PROVE FALSE
      OBVIOUS
    <2>1. 1 \in 1..n /\ 1 < i
      BY <1>1
    <2>2. f[1] < f[i] /\ f[1] \in 1..Len(b)
      BY <2>1, <1>2
    <2> QED
      BY <2>2, <1>6
  <1>7. \A i \in 1..n : IsSnapshot(kept[i]) => i = 1 /\ f[1] = 1 /\ begun
    BY <1>2, <1>4, <1>6
  <1>8. begun /\ b # <<>> => 1 \in 1..n /\ f[1] = 1 /\ kept[1] = b[1]
    <2> SUFFICES ASSUME begun, b # <<>> PROVE 1 \in 1..n /\ f[1] = 1 /\ kept[1] = b[1]
      OBVIOUS
    <2>1. PICK i \in 1..n : f[i] = 1
      BY <1>2, <1>5
    <2>2. i = 1
      BY <2>1, <1>6
    <2> QED
      BY <2>1, <2>2, <1>2
  <1>9. Len(kept) <= Len(b)
    <2>1. Cardinality(at) = n
      <3>1. Len(b) \in Nat /\ n \in Nat /\ f \in [1..n -> 1..Len(b)] /\ Rising(f, n)
        BY <1>1
      <3>2. Cardinality(Hits(f, n)) = n
        BY ONLY <3>1, PickedAre
      <3> QED
        BY <3>2, <1>1
    <2>2. at \subseteq 1..Len(b)
      BY <1>4
    <2>3. IsFiniteSet(1..Len(b)) /\ Cardinality(1..Len(b)) = Len(b)
      <3>1. Len(b) \in Nat
        OBVIOUS
      <3> QED
        BY <3>1, FS_Interval
    <2>4. Cardinality(at) <= Cardinality(1..Len(b))
      BY <2>2, <2>3, FS_Subset
    <2> QED
      BY <2>1, <2>3, <2>4, <1>1
  <1>10. \E g \in [1..Len(kept) -> 1..Len(b)] :
           /\ Rising(g, Len(kept))
           /\ \A i \in 1..Len(kept) : kept[i] = b[g[i]]
           /\ \A j \in 1..Len(b) : ~IsSnapshot(b[j]) => \E i \in 1..Len(kept) : g[i] = j
           /\ \A i \in 1..Len(kept) : IsSnapshot(kept[i]) => \A j \in 1..i : g[j] = j
    <2>1. \A i \in 1..n : IsSnapshot(kept[i]) => \A j \in 1..i : f[j] = j
      <3> SUFFICES ASSUME NEW i \in 1..n, IsSnapshot(kept[i]), NEW j \in 1..i PROVE f[j] = j
        OBVIOUS
      <3>1. i = 1 /\ f[1] = 1
        BY <1>7
      <3> QED
        BY <3>1
    <2>2. \A j \in 1..Len(b) : ~IsSnapshot(b[j]) => \E i \in 1..n : f[i] = j
      BY <1>2, <1>3
    <2> QED
      BY <1>1, <1>2, <2>1, <2>2
  <1>11. \E k \in 0..Len(Snaps(b)) : Snaps(kept) = SubSeq(Snaps(b), 1, k)
    <2>1. Snaps(b) \in Seq(Snapshots)
      BY SnapsType
    <2>2. CASE kept # <<>> /\ IsSnapshot(kept[1])
      <3>1. 1 \in 1..n
        BY <2>2, <1>1
      <3>2. begun /\ kept[1] = b[1] /\ b # <<>>
        BY <3>1, <2>2, <1>7, <1>2
      <3>3. Tail(kept) \in Seq(Packets) /\ \A i \in DOMAIN Tail(kept) : ~IsSnapshot(Tail(kept)[i])
        <4>1. Tail(kept) \in Seq(Packets) /\ \A i \in DOMAIN Tail(kept) : Tail(kept)[i] = kept[i + 1] /\ i + 1 \in 1..n /\ i + 1 # 1
          BY <2>2, <1>1
        <4> QED
          BY <4>1, <1>7
      <3>4. Snaps(Tail(kept)) = <<>>
        BY ONLY <3>3, SnapsOfOthers
      <3>5. Snaps(kept) = <<kept[1]>> \o Snaps(Tail(kept))
        BY <2>2, <1>1, SnapsOfHead
      <3>6. Snaps(b) = <<b[1]>> \o Snaps(Tail(b))
        BY <3>2, <2>2, SnapsOfHead
      <3>7. Snaps(Tail(b)) \in Seq(Snapshots)
        <4>1. Tail(b) \in Seq(Packets)
          BY <3>2
        <4> QED
          BY <4>1, SnapsType
      <3>8. b[1] \in Snapshots
        <4>1. b[1] \in Packets
          BY <3>2
        <4> QED
          BY <4>1, <3>2, <2>2, PacketTypes
      <3>9. Snaps(kept) = <<b[1]>>
        <4>1. <<b[1]>> \o <<>> = <<b[1]>>
          OBVIOUS
        <4> QED
          BY <4>1, <3>2, <3>4, <3>5
      <3>10. Len(Snaps(b)) >= 1 /\ Snaps(b)[1] = b[1] /\ Len(Snaps(b)) \in Nat
        BY <3>6, <3>7, <3>8
      <3>11. SubSeq(Snaps(b), 1, 1) = <<b[1]>>
        <4>1. SubSeq(Snaps(b), 1, 1) \in Seq(Snapshots) /\ Len(SubSeq(Snaps(b), 1, 1)) = 1
              /\ SubSeq(Snaps(b), 1, 1)[1] = b[1]
          BY <3>10, <2>1
        <4>2. <<b[1]>> \in Seq(Snapshots) /\ Len(<<b[1]>>) = 1 /\ <<b[1]>>[1] = b[1]
          BY <3>8
        <4>3. \A i \in 1..1 : i = 1
          OBVIOUS
        <4> HIDE DEF Snaps
        <4>4. \A i \in 1..Len(SubSeq(Snaps(b), 1, 1)) : SubSeq(Snaps(b), 1, 1)[i] = <<b[1]>>[i]
          BY <4>1, <4>2, <4>3
        <4> QED
          BY ONLY <4>1, <4>2, <4>4, SeqEqual
      <3> QED
        BY <3>9, <3>10, <3>11
    <2>3. CASE ~(kept # <<>> /\ IsSnapshot(kept[1]))
      <3>1. \A i \in DOMAIN kept : ~IsSnapshot(kept[i])
        BY <2>3, <1>1, <1>7
      <3>2. Snaps(kept) = <<>>
        <4>1. kept \in Seq(Packets)
          BY <1>1
        <4> QED
          BY ONLY <3>1, <4>1, SnapsOfOthers
      <3>3. SubSeq(Snaps(b), 1, 0) = <<>>
        BY <2>1
      <3> QED
        BY <3>2, <3>3, <2>1
    <2> QED
      BY <2>2, <2>3
  <1>12. Thinner(b, kept)
    BY <1>1, <1>10, <1>11 DEF Thinner
  <1> QED
    BY <1>1, <1>7, <1>8, <1>9, <1>12

LEMMA ThinnerAfter ==
  ASSUME NEW a \in Seq(Packets), NEW b \in Seq(Packets), NEW m, Thinner(b, m)
  PROVE  Thinner(a \o b, a \o m)
  <1>1. PICK f \in [1..Len(m) -> 1..Len(b)] :
          /\ Rising(f, Len(m))
          /\ \A i \in 1..Len(m) : m[i] = b[f[i]]
          /\ \A j \in 1..Len(b) : ~IsSnapshot(b[j]) => \E i \in 1..Len(m) : f[i] = j
          /\ \A i \in 1..Len(m) : IsSnapshot(m[i]) => \A j \in 1..i : f[j] = j
    BY DEF Thinner
  <1>2. PICK n \in 0..Len(Snaps(b)) : Snaps(m) = SubSeq(Snaps(b), 1, n)
    BY DEF Thinner
  <1>3. m \in Seq(Packets)
    BY DEF Thinner
  <1> DEFINE l == Len(a)
             s == a \o b
             t == a \o m
             g == [i \in 1..Len(t) |-> IF i <= l THEN i ELSE l + f[i - l]]
  <1>4. /\ s \in Seq(Packets) /\ t \in Seq(Packets) /\ l \in Nat /\ Len(m) \in Nat /\ Len(b) \in Nat
        /\ Len(s) = l + Len(b) /\ Len(t) = l + Len(m)
        /\ \A i \in 1..l : s[i] = a[i] /\ t[i] = a[i]
        /\ \A i \in 1..Len(b) : s[l + i] = b[i]
        /\ \A i \in 1..Len(m) : t[l + i] = m[i]
    BY <1>3
  <1>5. /\ \A i \in 1..Len(t) : i \in 1..l \/ (i - l \in 1..Len(m) /\ i = l + (i - l))
        /\ \A i \in 1..Len(s) : i \in 1..l \/ (i - l \in 1..Len(b) /\ i = l + (i - l))
    BY <1>4
  <1>6. \A i \in 1..Len(m) : f[i] \in 1..Len(b)
    OBVIOUS
  <1>7. /\ \A i \in 1..l : g[i] = i
        /\ \A i \in 1..Len(m) : g[l + i] = l + f[i]
    BY <1>4, <1>6
  <1> HIDE DEF s, t, l
  <1>8. g \in [1..Len(t) -> 1..Len(s)]
    <2>1. \A i \in 1..l : g[i] \in 1..Len(s)
      <3> HIDE DEF g
      <3> QED
        BY <1>4, <1>7
    <2>2. ASSUME NEW i \in 1..Len(m) PROVE g[l + i] \in 1..Len(s)
      <3> HIDE DEF g
      <3>1. g[l + i] = l + f[i] /\ f[i] \in 1..Len(b)
        BY <1>6, <1>7
      <3> QED
        BY <3>1, <1>4
    <2>3. \A i \in 1..Len(t) : g[i] \in 1..Len(s)
      <3> HIDE DEF g
      <3> QED
        BY <2>1, <2>2, <1>5
    <2> QED
      BY <2>3
  <1> HIDE DEF g
  <1>9. Rising(g, Len(t))
    <2> SUFFICES ASSUME NEW i \in 1..Len(t), NEW j \in 1..Len(t), i < j PROVE g[i] < g[j]
      BY DEF Rising
    <2>1. CASE i \in 1..l /\ j \in 1..l
      BY <2>1, <1>7
    <2>2. CASE i \in 1..l /\ j - l \in 1..Len(m)
      <3>1. g[l + (j - l)] = l + f[j - l] /\ f[j - l] \in 1..Len(b) /\ l + (j - l) = j
        BY <2>2, <1>4, <1>6, <1>7
      <3>2. g[i] = i /\ i \in 1..l
        BY <2>2, <1>7
      <3> QED
        BY <3>1, <3>2, <1>4
    <2>3. CASE i - l \in 1..Len(m) /\ j - l \in 1..Len(m)
      <3>0. l + (j - l) = j
        BY <1>4
      <3>1. g[l + (j - l)] = l + f[j - l] /\ f[j - l] \in 1..Len(b) /\ l + (j - l) = j
        BY <2>3, <3>0, <1>6, <1>7
      <3>2. g[l + (i - l)] = l + f[i - l] /\ f[i - l] \in 1..Len(b) /\ l + (i - l) = i
        BY <2>3, <1>4, <1>6, <1>7
      <3>3. i - l < j - l
        BY <1>4
      <3>4. f[i - l] < f[j - l]
        BY <3>3, <2>3, <1>1 DEF Rising
      <3> QED
        BY <3>1, <3>2, <3>4, <1>4
    <2> QED
      <3>1. ~(i - l \in 1..Len(m) /\ j \in 1..l)
        BY <1>4
      <3> QED
        BY <2>1, <2>2, <2>3, <3>1, <1>5
  <1>10. ASSUME NEW i \in 1..Len(t) PROVE t[i] = s[g[i]]
    <2>1. CASE i \in 1..l
      <3>1. g[i] = i /\ s[i] = a[i] /\ t[i] = a[i]
        BY <2>1, <1>4, <1>7
      <3> QED
        BY <3>1
    <2>2. CASE i - l \in 1..Len(m)
      <3>1. g[l + (i - l)] = l + f[i - l] /\ f[i - l] \in 1..Len(b) /\ l + (i - l) = i
        BY <2>2, <1>4, <1>6, <1>7
      <3>2. t[l + (i - l)] = m[i - l] /\ m[i - l] = b[f[i - l]] /\ s[l + f[i - l]] = b[f[i - l]]
        BY <2>2, <3>1, <1>4, <1>1
      <3> QED
        BY <3>1, <3>2
    <2> QED
      BY <2>1, <2>2, <1>5
  <1>11. ASSUME NEW j \in 1..Len(s), ~IsSnapshot(s[j]) PROVE \E i \in 1..Len(t) : g[i] = j
    <2>1. CASE j \in 1..l
      <3>1. j \in 1..Len(t) /\ g[j] = j
        BY <2>1, <1>4, <1>7
      <3> QED
        BY <3>1
    <2>2. CASE j - l \in 1..Len(b)
      <3>1. s[l + (j - l)] = b[j - l] /\ l + (j - l) = j
        BY <2>2, <1>4
      <3>2. PICK i \in 1..Len(m) : f[i] = j - l
        BY <3>1, <1>11, <2>2, <1>1
      <3>3. l + i \in 1..Len(t) /\ g[l + i] = j
        BY <3>2, <3>1, <1>4, <1>7
      <3> QED
        BY <3>3
    <2> QED
      BY <2>1, <2>2, <1>5
  <1>12. ASSUME NEW i \in 1..Len(t), IsSnapshot(t[i]), NEW j \in 1..i PROVE g[j] = j
    <2>1. CASE j \in 1..l
      BY <2>1, <1>7
    <2>2. CASE ~(j \in 1..l)
      <3>1. /\ i - l \in 1..Len(m) /\ l + (i - l) = i
            /\ j - l \in 1..(i - l) /\ l + (j - l) = j /\ j - l \in 1..Len(m)
        BY <2>2, <1>4
      <3>2. IsSnapshot(m[i - l])
        BY <3>1, <1>4, <1>12
      <3>3. f[j - l] = j - l
        BY <3>1, <3>2, <1>1
      <3>4. g[l + (j - l)] = l + f[j - l]
        BY <3>1, <1>7
      <3> QED
        BY <3>1, <3>3, <3>4
    <2> QED
      BY <2>1, <2>2
  <1>13. \E k \in 0..Len(Snaps(s)) : Snaps(t) = SubSeq(Snaps(s), 1, k)
    <2>1. Snaps(a) \in Seq(Snapshots) /\ Snaps(b) \in Seq(Snapshots) /\ Snaps(m) \in Seq(Snapshots)
      BY <1>3, SnapsType
    <2>2. Snaps(s) = Snaps(a) \o Snaps(b) /\ Snaps(t) = Snaps(a) \o Snaps(m)
      BY <1>3, SnapsConcat DEF s, t
    <2> DEFINE x == Snaps(a)
               y == Snaps(b)
               k == Len(x) + n
    <2> HIDE DEF x, y
    <2>3. x \in Seq(Snapshots) /\ y \in Seq(Snapshots) /\ n \in 0..Len(y)
      BY <2>1 DEF x, y
    <2>4. k \in 0..Len(x \o y) /\ x \o SubSeq(y, 1, n) = SubSeq(x \o y, 1, k)
      <3>1. k \in 0..Len(x \o y)
        BY <2>3
      <3>2. x \o SubSeq(y, 1, n) \in Seq(Snapshots) /\ Len(x \o SubSeq(y, 1, n)) = k
        BY <2>3
      <3>3. SubSeq(x \o y, 1, k) \in Seq(Snapshots) /\ Len(SubSeq(x \o y, 1, k)) = k
        BY <2>3
      <3>4. \A i \in 1..k : (x \o SubSeq(y, 1, n))[i] = SubSeq(x \o y, 1, k)[i]
        BY <2>3
      <3> HIDE DEF k
      <3>5. \A i \in 1..Len(x \o SubSeq(y, 1, n)) : (x \o SubSeq(y, 1, n))[i] = SubSeq(x \o y, 1, k)[i]
        BY <3>2, <3>4
      <3>6. x \o SubSeq(y, 1, n) = SubSeq(x \o y, 1, k)
        BY ONLY <3>2, <3>3, <3>5, SeqEqual
      <3> QED
        BY <3>1, <3>6
    <2>5. Snaps(t) = x \o SubSeq(y, 1, n) /\ Snaps(s) = x \o y
      BY <2>2, <1>2 DEF x, y
    <2> QED
      BY <2>4, <2>5
  <1>14. Thinner(s, t)
    BY <1>4, <1>8, <1>9, <1>10, <1>11, <1>12, <1>13 DEF Thinner
  <1> QED
    BY <1>14 DEF s, t

-----------------------------------------------------------------------------
(* What the client knows and what it is going to.                            *)

\* The entries that the client will make of the snapshots of a stream, and the
\* line of those it has and those it will make.
EntriesOf(s) == [k \in DOMAIN Snaps(s) |-> [id |-> Snaps(s)[k].id, entities |-> Snaps(s)[k].scene.entities]]
Line(c, s) == c \o EntriesOf(s)

\* No id twice.
NoIdTwice(l) == \A i, j \in 1..Len(l) : l[i].id = l[j].id => i = j

\* What has the same id on the line and in the server's history is the same
\* and is followed by no more on the line than in the history.
InStep(l, h) ==
  \A i \in 1..Len(l), k \in 1..Len(h) : l[i].id = h[k].id =>
    l[i].entities = h[k].entities /\ Len(l) - i <= Len(h) - k

LEMMA LineIs ==
  ASSUME NEW c \in Seq(Entry), NEW s \in Seq(Packets)
  PROVE  /\ Snaps(s) \in Seq(Snapshots) /\ Len(Snaps(s)) \in Nat /\ Len(c) \in Nat
         /\ EntriesOf(s) \in Seq(Entry) /\ Len(EntriesOf(s)) = Len(Snaps(s))
         /\ Line(c, s) \in Seq(Entry) /\ Len(Line(c, s)) = Len(c) + Len(Snaps(s))
         /\ \A i \in 1..Len(c) : Line(c, s)[i] = c[i]
         /\ \A i \in 1..Len(Snaps(s)) :
              /\ Line(c, s)[Len(c) + i] = [id |-> Snaps(s)[i].id, entities |-> Snaps(s)[i].scene.entities]
              /\ Line(c, s)[Len(c) + i] = EntriesOf(s)[i]
  <1>1. Snaps(s) \in Seq(Snapshots)
    BY SnapsType
  <1> DEFINE q == Snaps(s)
  <1>2. EntriesOf(s) = [k \in DOMAIN q |-> [id |-> q[k].id, entities |-> q[k].scene.entities]]
    BY DEF EntriesOf
  <1> HIDE DEF q
  <1>3. q \in Seq(Snapshots) /\ DOMAIN q = 1..Len(q) /\ Len(q) \in Nat
    BY <1>1 DEF q
  <1>4. ASSUME NEW k \in 1..Len(q) PROVE [id |-> q[k].id, entities |-> q[k].scene.entities] \in Entry
    <2>1. q[k] \in Snapshots
      BY <1>3
    <2>2. q[k].id \in Id /\ q[k].scene \in Scene
      BY <2>1 DEF Snapshots
    <2>3. q[k].scene.entities \in Entities
      BY <2>2 DEF Scene
    <2> QED
      BY <2>2, <2>3 DEF Entry
  <1>5. EntriesOf(s) = [k \in 1..Len(q) |-> [id |-> q[k].id, entities |-> q[k].scene.entities]]
    BY <1>2, <1>3
  <1>6. /\ EntriesOf(s) \in Seq(Entry) /\ Len(EntriesOf(s)) = Len(q)
        /\ \A i \in 1..Len(q) : EntriesOf(s)[i] = [id |-> q[i].id, entities |-> q[i].scene.entities]
    BY <1>3, <1>4, <1>5
  <1>7. /\ c \o EntriesOf(s) \in Seq(Entry) /\ Len(c \o EntriesOf(s)) = Len(c) + Len(q)
        /\ \A i \in 1..Len(c) : (c \o EntriesOf(s))[i] = c[i]
        /\ \A i \in 1..Len(q) : (c \o EntriesOf(s))[Len(c) + i] = EntriesOf(s)[i]
    <2> DEFINE e == EntriesOf(s)
    <2> HIDE DEF e
    <2>1. e \in Seq(Entry) /\ Len(e) = Len(q) /\ c \in Seq(Entry)
      BY <1>6 DEF e
    <2>2. /\ c \o e \in Seq(Entry) /\ Len(c \o e) = Len(c) + Len(e) /\ Len(e) \in Nat /\ Len(c) \in Nat
          /\ \A i \in 1..Len(c) : (c \o e)[i] = c[i]
          /\ \A i \in 1..Len(e) : (c \o e)[Len(c) + i] = e[i]
      BY ONLY <2>1
    <2> QED
      BY <2>1, <2>2 DEF e
  <1> QED
    BY <1>3, <1>6, <1>7 DEF q, Line

\* Dropping snapshots that have not left drops the end of the line.
LEMMA LineThinner ==
  ASSUME NEW c \in Seq(Entry), NEW s \in Seq(Packets), NEW m, Thinner(s, m)
  PROVE  \E n \in 0..Len(Line(c, s)) : Line(c, m) = SubSeq(Line(c, s), 1, n)
  <1>1. m \in Seq(Packets)
    BY DEF Thinner
  <1>2. PICK n \in 0..Len(Snaps(s)) : Snaps(m) = SubSeq(Snaps(s), 1, n)
    BY DEF Thinner
  <1> DEFINE a == Line(c, s)
             b == Line(c, m)
             l == Len(c)
  <1>3. /\ a \in Seq(Entry) /\ Len(a) = l + Len(Snaps(s)) /\ l \in Nat
        /\ \A i \in 1..l : a[i] = c[i]
        /\ \A i \in 1..Len(Snaps(s)) : a[l + i] = [id |-> Snaps(s)[i].id, entities |-> Snaps(s)[i].scene.entities]
    BY LineIs
  <1>4. /\ b \in Seq(Entry) /\ Len(b) = l + Len(Snaps(m))
        /\ \A i \in 1..l : b[i] = c[i]
        /\ \A i \in 1..Len(Snaps(m)) : b[l + i] = [id |-> Snaps(m)[i].id, entities |-> Snaps(m)[i].scene.entities]
    BY <1>1, LineIs
  <1>5. Len(Snaps(m)) = n /\ (\A i \in 1..n : Snaps(m)[i] = Snaps(s)[i]) /\ Len(Snaps(s)) \in Nat
    <2>1. Snaps(s) \in Seq(Snapshots)
      BY SnapsType
    <2> QED
      BY <2>1, <1>2
  <1> HIDE DEF a, b, l
  <1>6. \A i \in 1..(l + n) : b[i] = a[i]
    <2> SUFFICES ASSUME NEW i \in 1..(l + n) PROVE b[i] = a[i]
      OBVIOUS
    <2>1. CASE i \in 1..l
      BY <2>1, <1>3, <1>4
    <2>2. CASE i \notin 1..l
      <3>1. i - l \in 1..n /\ l + (i - l) = i /\ i - l \in 1..Len(Snaps(s))
        BY <2>2, <1>3, <1>5
      <3>2. b[l + (i - l)] = a[l + (i - l)]
        <4>1. i - l \in 1..Len(Snaps(m)) /\ Snaps(m)[i - l] = Snaps(s)[i - l]
          BY <3>1, <1>5
        <4> QED
          BY <4>1, <3>1, <1>3, <1>4
      <3> QED
        BY <3>1, <3>2
    <2> QED
      BY <2>1, <2>2
  <1>7. l + n \in 0..Len(a) /\ Len(b) = l + n
    BY <1>3, <1>4, <1>5
  <1>8. b = SubSeq(a, 1, l + n)
    <2>1. SubSeq(a, 1, l + n) \in Seq(Entry) /\ Len(SubSeq(a, 1, l + n)) = l + n
          /\ \A i \in 1..(l + n) : SubSeq(a, 1, l + n)[i] = a[i]
      BY <1>3, <1>7
    <2>2. \A i \in 1..Len(b) : b[i] = SubSeq(a, 1, l + n)[i]
      BY <2>1, <1>6, <1>7
    <2>3. b \in Seq(Entry)
      BY <1>4
    <2>4. Len(b) = Len(SubSeq(a, 1, l + n))
      BY <2>1, <1>7
    <2> QED
      BY ONLY <2>1, <2>2, <2>3, <2>4, SeqEqual
  <1> QED
    BY <1>7, <1>8 DEF a, b

LEMMA OrderOfPrefix ==
  ASSUME NEW l \in Seq(Entry), NEW h \in Seq(Entry), NEW n \in 0..Len(l)
  PROVE  /\ NoIdTwice(l) => NoIdTwice(SubSeq(l, 1, n))
         /\ InStep(l, h) => InStep(SubSeq(l, 1, n), h)
  <1>1. Len(SubSeq(l, 1, n)) = n /\ (\A i \in 1..n : SubSeq(l, 1, n)[i] = l[i] /\ i \in 1..Len(l)) /\ Len(l) \in Nat /\ n <= Len(l) /\ n \in Nat
    OBVIOUS
  <1>2. Len(h) \in Nat
    OBVIOUS
  <1> QED
    BY <1>1, <1>2 DEF NoIdTwice, InStep

LEMMA OrderOfTail ==
  ASSUME NEW l \in Seq(Entry), NEW h \in Seq(Entry), l # <<>>
  PROVE  /\ NoIdTwice(l) => NoIdTwice(Tail(l))
         /\ InStep(l, h) => InStep(Tail(l), h)
  <1>1. Len(Tail(l)) = Len(l) - 1 /\ (\A i \in 1..(Len(l) - 1) : Tail(l)[i] = l[i + 1] /\ i + 1 \in 1..Len(l)) /\ Len(l) \in Nat
    OBVIOUS
  <1>2. Len(h) \in Nat
    OBVIOUS
  <1>3. NoIdTwice(l) => NoIdTwice(Tail(l))
    BY <1>1 DEF NoIdTwice
  <1>4. InStep(l, h) => InStep(Tail(l), h)
    <2> SUFFICES ASSUME InStep(l, h), NEW i \in 1..Len(Tail(l)), NEW k \in 1..Len(h), Tail(l)[i].id = h[k].id
                 PROVE  Tail(l)[i].entities = h[k].entities /\ Len(Tail(l)) - i <= Len(h) - k
      BY DEF InStep
    <2>1. i + 1 \in 1..Len(l) /\ Tail(l)[i] = l[i + 1]
      BY <1>1
    <2>2. l[i + 1].entities = h[k].entities /\ Len(l) - (i + 1) <= Len(h) - k
      BY <2>1 DEF InStep
    <2> QED
      BY <2>1, <2>2, <1>1
  <1> QED
    BY <1>3, <1>4

LEMMA OrderOfSuffix ==
  ASSUME NEW l \in Seq(Entry), NEW h \in Seq(Entry), NEW n \in 1..(Len(h) + 1)
  PROVE  /\ SubSeq(h, n, Len(h)) \in Seq(Entry) /\ Len(SubSeq(h, n, Len(h))) <= Len(h)
         /\ \A k \in 1..Len(SubSeq(h, n, Len(h))) : n + k - 1 \in 1..Len(h) /\ SubSeq(h, n, Len(h))[k] = h[n + k - 1]
         /\ NoIdTwice(h) => NoIdTwice(SubSeq(h, n, Len(h)))
         /\ InStep(l, h) => InStep(l, SubSeq(h, n, Len(h)))
  <1> DEFINE g == SubSeq(h, n, Len(h))
  <1>1. /\ g \in Seq(Entry) /\ Len(g) = Len(h) - n + 1 /\ Len(h) \in Nat
        /\ \A k \in 1..Len(g) : n + k - 1 \in 1..Len(h) /\ g[k] = h[n + k - 1]
    OBVIOUS
  <1> HIDE DEF g
  <1>2. NoIdTwice(h) => NoIdTwice(g)
    <2> SUFFICES ASSUME NoIdTwice(h), NEW i \in 1..Len(g), NEW j \in 1..Len(g), g[i].id = g[j].id PROVE i = j
      BY DEF NoIdTwice
    <2>1. /\ n + i - 1 \in 1..Len(h) /\ g[i] = h[n + i - 1]
          /\ n + j - 1 \in 1..Len(h) /\ g[j] = h[n + j - 1]
      BY <1>1
    <2>2. n + i - 1 = n + j - 1
      BY <2>1 DEF NoIdTwice
    <2>3. n \in Nat
      OBVIOUS
    <2> QED
      BY <2>2, <2>3, <1>1
  <1>3. InStep(l, h) => InStep(l, g)
    <2> SUFFICES ASSUME InStep(l, h), NEW i \in 1..Len(l), NEW k \in 1..Len(g), l[i].id = g[k].id
                 PROVE  l[i].entities = g[k].entities /\ Len(l) - i <= Len(g) - k
      BY DEF InStep
    <2>1. n + k - 1 \in 1..Len(h) /\ g[k] = h[n + k - 1]
      BY <1>1
    <2>2. l[i].entities = h[n + k - 1].entities /\ Len(l) - i <= Len(h) - (n + k - 1)
      BY <2>1 DEF InStep
    <2>3. Len(l) \in Nat
      OBVIOUS
    <2> QED
      BY <2>1, <2>2, <2>3, <1>1
  <1>4. Len(g) <= Len(h)
    BY <1>1
  <1> QED
    BY <1>1, <1>2, <1>3, <1>4 DEF g

LEMMA OrderOfAppend ==
  ASSUME NEW l \in Seq(Entry), NEW h \in Seq(Entry), NEW e \in Entry,
         \A i \in 1..Len(l) : l[i].id # e.id,
         \A k \in 1..Len(h) : h[k].id # e.id
  PROVE  /\ NoIdTwice(l) => NoIdTwice(Append(l, e))
         /\ NoIdTwice(h) => NoIdTwice(Append(h, e))
         /\ InStep(l, h) => InStep(Append(l, e), Append(h, e))
  <1>1. /\ Len(l) \in Nat /\ Len(Append(l, e)) = Len(l) + 1
        /\ \A i \in 1..(Len(l) + 1) : IF i = Len(l) + 1 THEN Append(l, e)[i] = e ELSE i \in 1..Len(l) /\ Append(l, e)[i] = l[i]
    OBVIOUS
  <1>2. /\ Len(h) \in Nat /\ Len(Append(h, e)) = Len(h) + 1
        /\ \A i \in 1..(Len(h) + 1) : IF i = Len(h) + 1 THEN Append(h, e)[i] = e ELSE i \in 1..Len(h) /\ Append(h, e)[i] = h[i]
    OBVIOUS
  <1>3. NoIdTwice(l) => NoIdTwice(Append(l, e))
    BY <1>1 DEF NoIdTwice
  <1>4. NoIdTwice(h) => NoIdTwice(Append(h, e))
    BY <1>2 DEF NoIdTwice
  <1> DEFINE la == Append(l, e)
             ha == Append(h, e)
  <1>5. InStep(l, h) => InStep(la, ha)
    <2> SUFFICES ASSUME InStep(l, h), NEW i \in 1..Len(la), NEW k \in 1..Len(ha), la[i].id = ha[k].id
                 PROVE  la[i].entities = ha[k].entities /\ Len(la) - i <= Len(ha) - k
      BY DEF InStep
    <2> HIDE DEF la, ha
    <2>1. CASE i = Len(l) + 1 /\ k = Len(h) + 1
      BY <2>1, <1>1, <1>2 DEF la, ha
    <2>2. CASE i # Len(l) + 1 /\ k # Len(h) + 1
      <3>1. i \in 1..Len(l) /\ la[i] = l[i] /\ k \in 1..Len(h) /\ ha[k] = h[k]
        BY <2>2, <1>1, <1>2 DEF la, ha
      <3>2. l[i].entities = h[k].entities /\ Len(l) - i <= Len(h) - k
        BY <3>1 DEF InStep
      <3> QED
        BY <3>1, <3>2, <1>1, <1>2 DEF la, ha
    <2>3. CASE i = Len(l) + 1 /\ k # Len(h) + 1
      <3>1. la[i] = e /\ k \in 1..Len(h) /\ ha[k] = h[k]
        BY <2>3, <1>1, <1>2 DEF la, ha
      <3> QED
        BY <3>1
    <2>4. CASE i # Len(l) + 1 /\ k = Len(h) + 1
      <3>1. ha[k] = e /\ i \in 1..Len(l) /\ la[i] = l[i]
        BY <2>4, <1>1, <1>2 DEF la, ha
      <3> QED
        BY <3>1
    <2> QED
      BY <2>1, <2>2, <2>3, <2>4
  <1> QED
    BY <1>3, <1>4, <1>5

-----------------------------------------------------------------------------
(* The part of the invariant about c, what the client remembers, s, the      *)
(* stream on its way to it, h, what the server recorded, and back, the ids   *)
(* the server has from the client or is going to have.                       *)

Welcome(p) == p.type = "welcome"

\* The q-th snapshot of the stream gives what was captured, and its base is
\* among the last Limit entries when it arrives.
Rebuilt(c, q, p) ==
  IF p.base = FullBase THEN p.changed = p.scene.entities
  ELSE \E k \in 1..Len(c) :
         /\ c[k].id = p.base
         /\ Patched(c[k].entities, p.changed, p.removed) = p.scene.entities
         /\ Len(c) - k + q <= Limit

Bases(c, s) == \A q \in 1..Len(Snaps(s)) : Rebuilt(c, q, Snaps(s)[q])

\* After a Welcome the client remembers nothing, so what comes has no base.
NoBaseAfterWelcome(s) ==
  \A w, j \in 1..Len(s) : w < j /\ Welcome(s[w]) /\ IsSnapshot(s[j]) => s[j].base = FullBase

\* What the server recorded before a Welcome is forgotten: nothing that the
\* client has, tells or gets before it arrives carries an id recorded since.
Apart(h, back, c, s) ==
  \A w \in 1..Len(s), k \in 1..Len(h) : Welcome(s[w]) =>
    /\ h[k].id \notin back
    /\ ~Recorded(c, h[k].id)
    /\ \A j \in 1..w : IsSnapshot(s[j]) => s[j].id # h[k].id

\* The client still has what it told the server it has.
StillThere(h, back, c) ==
  \A k \in 1..Len(h) : h[k].id \in back => Recorded(c, h[k].id)

Good(h, back, c, s) ==
  /\ NoIdTwice(h) /\ NoIdTwice(Line(c, s)) /\ InStep(Line(c, s), h)
  /\ Bases(c, s) /\ NoBaseAfterWelcome(s)
  /\ Apart(h, back, c, s) /\ StillThere(h, back, c)

LEMMA GoodThinner ==
  ASSUME NEW h \in Seq(Entry), NEW back, NEW c \in Seq(Entry), NEW s \in Seq(Packets), NEW m,
         Good(h, back, c, s), Thinner(s, m)
  PROVE  Good(h, back, c, m)
  <1>1. PICK n \in 0..Len(Line(c, s)) : Line(c, m) = SubSeq(Line(c, s), 1, n)
    BY LineThinner
  <1>2. Line(c, s) \in Seq(Entry)
    BY LineIs
  <1>3. NoIdTwice(Line(c, m)) /\ InStep(Line(c, m), h)
    <2>1. NoIdTwice(Line(c, s)) /\ InStep(Line(c, s), h)
      BY DEF Good
    <2> QED
      BY <1>1, <1>2, <2>1, OrderOfPrefix
  <1>4. PICK f \in [1..Len(m) -> 1..Len(s)] :
          /\ Rising(f, Len(m))
          /\ \A i \in 1..Len(m) : m[i] = s[f[i]]
          /\ \A i \in 1..Len(m) : IsSnapshot(m[i]) => \A j \in 1..i : f[j] = j
    BY DEF Thinner
  <1>5. m \in Seq(Packets) /\ Len(m) \in Nat /\ Len(s) \in Nat
    BY DEF Thinner
  <1>6. \A i \in 1..Len(m) : f[i] \in 1..Len(s)
    OBVIOUS
  <1>7. Bases(c, m)
    <2>1. PICK k \in 0..Len(Snaps(s)) : Snaps(m) = SubSeq(Snaps(s), 1, k)
      BY DEF Thinner
    <2>2. Snaps(s) \in Seq(Snapshots)
      BY SnapsType
    <2>3. Len(Snaps(m)) = k /\ \A q \in 1..k : Snaps(m)[q] = Snaps(s)[q] /\ q \in 1..Len(Snaps(s))
      BY <2>1, <2>2
    <2>4. Bases(c, s)
      BY DEF Good
    <2> QED
      BY <2>3, <2>4 DEF Bases
  <1>8. NoBaseAfterWelcome(m)
    <2> SUFFICES ASSUME NEW w \in 1..Len(m), NEW j \in 1..Len(m), w < j, Welcome(m[w]), IsSnapshot(m[j])
                 PROVE  m[j].base = FullBase
      BY DEF NoBaseAfterWelcome
    <2>1. f[w] = w /\ f[j] = j
      <3>1. w \in 1..j /\ j \in 1..j
        BY <1>5
      <3> QED
        BY <3>1, <1>4
    <2>2. w \in 1..Len(s) /\ j \in 1..Len(s) /\ m[w] = s[w] /\ m[j] = s[j]
      BY <2>1, <1>4, <1>6
    <2>3. NoBaseAfterWelcome(s)
      BY DEF Good
    <2> QED
      BY <2>2, <2>3 DEF NoBaseAfterWelcome
  <1>9. Apart(h, back, c, m)
    <2> SUFFICES ASSUME NEW w \in 1..Len(m), NEW k \in 1..Len(h), Welcome(m[w])
                 PROVE  /\ h[k].id \notin back
                        /\ ~Recorded(c, h[k].id)
                        /\ \A j \in 1..w : IsSnapshot(m[j]) => m[j].id # h[k].id
      BY DEF Apart
    <2>1. f[w] \in 1..Len(s) /\ Welcome(s[f[w]])
      BY <1>4, <1>6
    <2>2. Apart(h, back, c, s)
      BY DEF Good
    <2>3. /\ h[k].id \notin back
          /\ ~Recorded(c, h[k].id)
          /\ \A j \in 1..f[w] : IsSnapshot(s[j]) => s[j].id # h[k].id
      BY ONLY <2>1, <2>2, k \in 1..Len(h) DEF Apart
    <2>4. ASSUME NEW j \in 1..w, IsSnapshot(m[j]) PROVE m[j].id # h[k].id
      <3>1. j \in 1..Len(m) /\ j \in Nat /\ w \in Nat /\ (j = w \/ j < w)
        BY <1>5
      <3>2. j = w \/ f[j] < f[w]
        BY <3>1, <1>4 DEF Rising
      <3>3. f[j] \in 1..Len(s) /\ m[j] = s[f[j]]
        BY <3>1, <1>4, <1>6
      <3>4. f[j] \in 1..f[w]
        BY <3>2, <3>3, <2>1, <1>5
      <3> QED
        BY <3>3, <3>4, <2>3, <2>4
    <2> QED
      BY <2>3, <2>4
  <1> QED
    BY <1>3, <1>7, <1>8, <1>9 DEF Good

\* The server may forget its oldest entries, and some ids may be lost.
LEMMA GoodSuffix ==
  ASSUME NEW h \in Seq(Entry), NEW back, NEW c \in Seq(Entry), NEW s \in Seq(Packets),
         Good(h, back, c, s), NEW n \in 1..(Len(h) + 1), NEW less, less \subseteq back
  PROVE  Good(SubSeq(h, n, Len(h)), less, c, s)
  <1> DEFINE g == SubSeq(h, n, Len(h))
  <1>1. Line(c, s) \in Seq(Entry)
    BY LineIs
  <1>2. NoIdTwice(h) /\ NoIdTwice(Line(c, s)) /\ InStep(Line(c, s), h)
    BY DEF Good
  <1>3. NoIdTwice(g) /\ InStep(Line(c, s), g)
    BY <1>1, <1>2, OrderOfSuffix
  <1>4. \A k \in 1..Len(g) : n + k - 1 \in 1..Len(h) /\ g[k] = h[n + k - 1]
    BY <1>1, OrderOfSuffix
  <1> HIDE DEF g
  <1>5. Apart(g, less, c, s)
    <2> SUFFICES ASSUME NEW w \in 1..Len(s), NEW k \in 1..Len(g), Welcome(s[w])
                 PROVE  /\ g[k].id \notin less
                        /\ ~Recorded(c, g[k].id)
                        /\ \A j \in 1..w : IsSnapshot(s[j]) => s[j].id # g[k].id
      BY DEF Apart
    <2>1. n + k - 1 \in 1..Len(h) /\ g[k] = h[n + k - 1]
      BY <1>4
    <2>2. Apart(h, back, c, s)
      BY DEF Good
    <2>3. /\ h[n + k - 1].id \notin back
          /\ ~Recorded(c, h[n + k - 1].id)
          /\ \A j \in 1..w : IsSnapshot(s[j]) => s[j].id # h[n + k - 1].id
      BY <2>1, <2>2 DEF Apart
    <2> QED
      BY <2>1, <2>3
  <1>6. StillThere(g, less, c)
    <2> SUFFICES ASSUME NEW k \in 1..Len(g), g[k].id \in less PROVE Recorded(c, g[k].id)
      BY DEF StillThere
    <2>1. n + k - 1 \in 1..Len(h) /\ g[k] = h[n + k - 1]
      BY <1>4
    <2>2. StillThere(h, back, c)
      BY DEF Good
    <2>3. h[n + k - 1].id \in back
      BY <2>1
    <2> QED
      BY <2>1, <2>2, <2>3 DEF StillThere
  <1>7. Good(g, less, c, s)
    BY <1>2, <1>3, <1>5, <1>6 DEF Good
  <1> QED
    BY <1>7 DEF g

\* A packet that is no snapshot is queued; if it is a Welcome, the server
\* forgets what it recorded.
LEMMA GoodOther ==
  ASSUME NEW h \in Seq(Entry), NEW back, NEW c \in Seq(Entry), NEW s \in Seq(Packets),
         Good(h, back, c, s), NEW p \in Packets, ~IsSnapshot(p), Welcome(p) => h = <<>>
  PROVE  Good(h, back, c, Append(s, p))
  <1> DEFINE t == Append(s, p)
  <1>1. Snaps(t) = Snaps(s)
    BY SnapsOfAppend
  <1>2. Line(c, t) = Line(c, s)
    BY <1>1 DEF Line, EntriesOf
  <1>3. /\ Len(s) \in Nat /\ Len(t) = Len(s) + 1
        /\ \A i \in 1..(Len(s) + 1) : IF i = Len(s) + 1 THEN t[i] = p ELSE i \in 1..Len(s) /\ t[i] = s[i]
    OBVIOUS
  <1> HIDE DEF t
  <1>4. Bases(c, t)
    BY <1>1 DEF Good, Bases
  <1>5. NoBaseAfterWelcome(t)
    <2> SUFFICES ASSUME NEW w \in 1..Len(t), NEW j \in 1..Len(t), w < j, Welcome(t[w]), IsSnapshot(t[j])
                 PROVE  t[j].base = FullBase
      BY DEF NoBaseAfterWelcome
    <2>1. j # Len(s) + 1 /\ w # Len(s) + 1
      BY <1>3
    <2>2. w \in 1..Len(s) /\ j \in 1..Len(s) /\ t[w] = s[w] /\ t[j] = s[j]
      BY <2>1, <1>3
    <2>3. NoBaseAfterWelcome(s)
      BY DEF Good
    <2> QED
      BY <2>2, <2>3 DEF NoBaseAfterWelcome
  <1>6. Apart(h, back, c, t)
    <2> SUFFICES ASSUME NEW w \in 1..Len(t), NEW k \in 1..Len(h), Welcome(t[w])
                 PROVE  /\ h[k].id \notin back
                        /\ ~Recorded(c, h[k].id)
                        /\ \A j \in 1..w : IsSnapshot(t[j]) => t[j].id # h[k].id
      BY DEF Apart
    <2>1. h # <<>>
      OBVIOUS
    <2>2. w # Len(s) + 1
      BY <2>1, <1>3
    <2>3. w \in 1..Len(s) /\ t[w] = s[w]
      BY <2>2, <1>3
    <2>4. Apart(h, back, c, s)
      BY DEF Good
    <2>5. /\ h[k].id \notin back
          /\ ~Recorded(c, h[k].id)
          /\ \A j \in 1..w : IsSnapshot(s[j]) => s[j].id # h[k].id
      BY <2>3, <2>4 DEF Apart
    <2>6. \A j \in 1..w : t[j] = s[j]
      BY <2>3, <1>3
    <2> QED
      BY <2>5, <2>6
  <1>7. Good(h, back, c, t)
    BY <1>2, <1>4, <1>5, <1>6 DEF Good
  <1> QED
    BY <1>7 DEF t

\* A snapshot with a new id is queued and recorded: a full one, or the
\* difference to an entry that the server knows the client to have.
LEMMA GoodSnapshot ==
  ASSUME NEW h \in Seq(Entry), Len(h) <= Limit, NEW back, NEW c \in Seq(Entry), NEW s \in Seq(Packets),
         Good(h, back, c, s),
         NEW p \in Packets, IsSnapshot(p), NEW e \in Entry,
         e = [id |-> p.id, entities |-> p.scene.entities],
         p.id \notin back, ~Recorded(h, p.id), ~Recorded(c, p.id),
         \A j \in 1..Len(s) : IsSnapshot(s[j]) => s[j].id # p.id,
         \/ p.base = FullBase /\ p.changed = p.scene.entities
         \/ /\ p.base # FullBase
            /\ p.base \in back
            /\ \E k \in 1..Len(h) : /\ h[k].id = p.base
                                    /\ Patched(h[k].entities, p.changed, p.removed) = p.scene.entities
  PROVE  Good(Append(h, e), back, c, Append(s, p))
  <1> DEFINE t == Append(s, p)
             g == Append(h, e)
             l == Line(c, s)
  <1>1. Snaps(t) = Append(Snaps(s), p)
    BY SnapsOfAppend
  <1>2. /\ Snaps(s) \in Seq(Snapshots) /\ Len(Snaps(s)) \in Nat /\ Len(c) \in Nat
        /\ EntriesOf(s) \in Seq(Entry) /\ Len(EntriesOf(s)) = Len(Snaps(s))
        /\ l \in Seq(Entry) /\ Len(l) = Len(c) + Len(Snaps(s))
        /\ \A i \in 1..Len(c) : l[i] = c[i]
        /\ \A i \in 1..Len(Snaps(s)) : l[Len(c) + i] = [id |-> Snaps(s)[i].id, entities |-> Snaps(s)[i].scene.entities]
    BY LineIs
  <1>3. /\ Len(s) \in Nat /\ Len(t) = Len(s) + 1 /\ t \in Seq(Packets)
        /\ \A i \in 1..(Len(s) + 1) : IF i = Len(s) + 1 THEN t[i] = p ELSE i \in 1..Len(s) /\ t[i] = s[i]
    OBVIOUS
  <1>4. /\ Len(h) \in Nat /\ Len(g) = Len(h) + 1 /\ g \in Seq(Entry)
        /\ \A i \in 1..(Len(h) + 1) : IF i = Len(h) + 1 THEN g[i] = e ELSE i \in 1..Len(h) /\ g[i] = h[i]
    OBVIOUS
  <1>5. p \in Snapshots /\ e.id = p.id /\ e.entities = p.scene.entities
    BY PacketTypes
  <1> HIDE DEF t, g
  <1>6. Line(c, t) = Append(l, e)
    <2> DEFINE q == Snaps(s)
    <2>1. EntriesOf(t) = Append(EntriesOf(s), e)
      <3> HIDE DEF q
      <3>1. q \in Seq(Snapshots) /\ Append(q, p) \in Seq(Snapshots) /\ DOMAIN q = 1..Len(q) /\ DOMAIN Append(q, p) = 1..(Len(q) + 1)
            /\ Len(q) \in Nat
        BY <1>2, <1>5 DEF q
      <3>2. EntriesOf(t) = [k \in 1..(Len(q) + 1) |-> [id |-> Append(q, p)[k].id, entities |-> Append(q, p)[k].scene.entities]]
        BY <3>1, <1>1 DEF EntriesOf, q
      <3>3. EntriesOf(s) = [k \in 1..Len(q) |-> [id |-> q[k].id, entities |-> q[k].scene.entities]]
        BY <3>1 DEF EntriesOf, q
      <3>4. EntriesOf(s) \in Seq(Entry) /\ Len(EntriesOf(s)) = Len(q)
        BY <1>2 DEF q
      <3>5. EntriesOf(t) \in Seq(Entry) /\ Len(EntriesOf(t)) = Len(q) + 1
        <4>1. EntriesOf(t) \in Seq(Entry) /\ Len(EntriesOf(t)) = Len(Snaps(t))
          BY <1>3, LineIs
        <4> QED
          BY <4>1, <3>1, <1>1 DEF q
      <3>6. \A k \in 1..(Len(q) + 1) : EntriesOf(t)[k] = Append(EntriesOf(s), e)[k]
        <4> SUFFICES ASSUME NEW k \in 1..(Len(q) + 1) PROVE EntriesOf(t)[k] = Append(EntriesOf(s), e)[k]
          OBVIOUS
        <4>1. CASE k = Len(q) + 1
          <5>1. Append(q, p)[k] = p
            BY <4>1, <3>1
          <5>2. EntriesOf(t)[k] = e
            BY <5>1, <3>2
          <5>3. Append(EntriesOf(s), e)[k] = e
            BY <4>1, <3>4
          <5> QED
            BY <5>2, <5>3
        <4>2. CASE k # Len(q) + 1
          <5>1. k \in 1..Len(q)
            BY <4>2, <3>1
          <5>2. Append(q, p)[k] = q[k]
            BY <5>1, <3>1
          <5>3. EntriesOf(t)[k] = EntriesOf(s)[k]
            BY <5>1, <5>2, <3>2, <3>3
          <5>4. Append(EntriesOf(s), e)[k] = EntriesOf(s)[k]
            BY <5>1, <3>4
          <5> QED
            BY <5>3, <5>4
        <4> QED
          BY <4>1, <4>2
      <3>7. Append(EntriesOf(s), e) \in Seq(Entry) /\ Len(Append(EntriesOf(s), e)) = Len(q) + 1
        BY <3>4
      <3>8. \A k \in 1..Len(EntriesOf(t)) : EntriesOf(t)[k] = Append(EntriesOf(s), e)[k]
        BY <3>5, <3>6
      <3>9. Len(EntriesOf(t)) = Len(Append(EntriesOf(s), e))
        BY <3>5, <3>7
      <3> QED
        BY ONLY <3>5, <3>7, <3>8, <3>9, SeqEqual
    <2>2. c \o Append(EntriesOf(s), e) = Append(c \o EntriesOf(s), e)
      <3> DEFINE x == EntriesOf(s)
      <3> HIDE DEF x
      <3>1. x \in Seq(Entry) /\ c \in Seq(Entry) /\ e \in Entry
        BY <1>2 DEF x
      <3>2. c \o Append(x, e) = Append(c \o x, e)
        BY ONLY <3>1
      <3> QED
        BY <3>2 DEF x
    <2> QED
      BY <2>1, <2>2 DEF Line
  <1>7. \A i \in 1..Len(l) : l[i].id # e.id
    <2> SUFFICES ASSUME NEW i \in 1..Len(l) PROVE l[i].id # e.id
      OBVIOUS
    <2> HIDE DEF l
    <2>1. CASE i \in 1..Len(c)
      <3>1. i \in DOMAIN c
        BY <2>1
      <3>2. c[i].id # p.id
        BY <3>1 DEF Recorded
      <3> QED
        BY <3>2, <2>1, <1>2, <1>5
    <2>2. CASE i \notin 1..Len(c)
      <3>1. i - Len(c) \in 1..Len(Snaps(s)) /\ Len(c) + (i - Len(c)) = i
        BY <2>2, <1>2
      <3>2. l[i].id = Snaps(s)[i - Len(c)].id
        <4>1. l[Len(c) + (i - Len(c))] = [id |-> Snaps(s)[i - Len(c)].id, entities |-> Snaps(s)[i - Len(c)].scene.entities]
          BY <3>1, <1>2
        <4> QED
          BY <4>1, <3>1
      <3>3. PICK j \in DOMAIN s : IsSnapshot(s[j]) /\ Snaps(s)[i - Len(c)] = s[j]
        <4>1. i - Len(c) \in DOMAIN Snaps(s)
          BY <3>1, <1>2
        <4> QED
          BY <4>1, SnapsType
      <3>4. j \in 1..Len(s)
        OBVIOUS
      <3> QED
        BY <3>2, <3>3, <3>4, <1>5
    <2> QED
      BY <2>1, <2>2
  <1>8. \A k \in 1..Len(h) : h[k].id # e.id
    BY <1>5 DEF Recorded
  <1>9. NoIdTwice(g) /\ NoIdTwice(Line(c, t)) /\ InStep(Line(c, t), g)
    <2>1. NoIdTwice(h) /\ NoIdTwice(l) /\ InStep(l, h)
      BY DEF Good
    <2>2. l \in Seq(Entry)
      BY <1>2
    <2> HIDE DEF l
    <2>3. NoIdTwice(Append(l, e)) /\ NoIdTwice(Append(h, e)) /\ InStep(Append(l, e), Append(h, e))
      <3>1. h \in Seq(Entry) /\ e \in Entry
        OBVIOUS
      <3> QED
        BY ONLY <3>1, <1>7, <1>8, <2>1, <2>2, OrderOfAppend
    <2> QED
      BY <2>3, <1>6 DEF g
  <1>10. /\ Apart(h, back, c, s) /\ StillThere(h, back, c) /\ Bases(c, s) /\ NoBaseAfterWelcome(s) /\ InStep(l, h)
    BY DEF Good
  <1>11. ASSUME p.base # FullBase
         PROVE  /\ \A w \in 1..Len(s) : ~Welcome(s[w])
                /\ \E k \in 1..Len(c) :
                     /\ c[k].id = p.base
                     /\ Patched(c[k].entities, p.changed, p.removed) = p.scene.entities
                     /\ Len(c) - k + Len(Snaps(s)) + 1 <= Limit
    <2>1. PICK k \in 1..Len(h) : h[k].id = p.base /\ Patched(h[k].entities, p.changed, p.removed) = p.scene.entities
      BY <1>11
    <2>2. h[k].id \in back
      BY <1>11, <2>1
    <2>3. PICK j \in DOMAIN c : c[j].id = h[k].id
      BY <2>2, <1>10 DEF StillThere, Recorded
    <2>4. \A w \in 1..Len(s) : ~Welcome(s[w])
      BY <2>2, <1>10 DEF Apart
    <2>5. j \in 1..Len(c) /\ j \in 1..Len(l) /\ l[j] = c[j]
      BY <1>2
    <2>6. c[j].entities = h[k].entities /\ Len(l) - j <= Len(h) - k
      BY <2>3, <2>5, <1>10 DEF InStep
    <2>7. Len(c) - j + Len(Snaps(s)) + 1 <= Limit
      <3> HIDE DEF l
      <3> QED
        BY <2>5, <2>6, <1>2, <1>4, LimitAssumption
    <2> QED
      BY <2>1, <2>3, <2>4, <2>5, <2>6, <2>7
  <1>12. Bases(c, t)
    <2>1. Len(Append(Snaps(s), p)) = Len(Snaps(s)) + 1
          /\ \A q \in 1..(Len(Snaps(s)) + 1) :
               IF q = Len(Snaps(s)) + 1 THEN Append(Snaps(s), p)[q] = p
               ELSE q \in 1..Len(Snaps(s)) /\ Append(Snaps(s), p)[q] = Snaps(s)[q]
      BY <1>2, <1>5
    <2>2. Rebuilt(c, Len(Snaps(s)) + 1, p)
      <3>1. CASE p.base = FullBase
        BY <3>1 DEF Rebuilt
      <3>2. CASE p.base # FullBase
        <4>1. PICK k \in 1..Len(c) :
                     /\ c[k].id = p.base
                     /\ Patched(c[k].entities, p.changed, p.removed) = p.scene.entities
                     /\ Len(c) - k + Len(Snaps(s)) + 1 <= Limit
          BY <3>2, <1>11
        <4>2. Len(c) - k + (Len(Snaps(s)) + 1) <= Limit
          BY <4>1, <1>2, LimitAssumption
        <4> QED
          BY <3>2, <4>1, <4>2 DEF Rebuilt
      <3> QED
        BY <3>1, <3>2
    <2>3. \A q \in 1..Len(Snaps(t)) : Rebuilt(c, q, Snaps(t)[q])
      <3> SUFFICES ASSUME NEW q \in 1..(Len(Snaps(s)) + 1) PROVE Rebuilt(c, q, Append(Snaps(s), p)[q])
        BY <1>1, <2>1
      <3>1. CASE q = Len(Snaps(s)) + 1
        BY <3>1, <2>1, <2>2
      <3>2. CASE q # Len(Snaps(s)) + 1
        BY <3>2, <2>1, <1>10 DEF Bases
      <3> QED
        BY <3>1, <3>2
    <2> QED
      BY <2>3 DEF Bases
  <1>13. NoBaseAfterWelcome(t)
    <2> SUFFICES ASSUME NEW w \in 1..Len(t), NEW j \in 1..Len(t), w < j, Welcome(t[w]), IsSnapshot(t[j])
                 PROVE  t[j].base = FullBase
      BY DEF NoBaseAfterWelcome
    <2>1. w \in 1..Len(s) /\ t[w] = s[w]
      BY <1>3
    <2>2. CASE j = Len(s) + 1
      BY <2>1, <2>2, <1>3, <1>11
    <2>3. CASE j # Len(s) + 1
      <3>1. j \in 1..Len(s) /\ t[j] = s[j]
        BY <2>3, <1>3
      <3> QED
        BY <3>1, <2>1, <1>10 DEF NoBaseAfterWelcome
    <2> QED
      BY <2>2, <2>3
  <1>14. Apart(g, back, c, t)
    <2> SUFFICES ASSUME NEW w \in 1..Len(t), NEW k \in 1..Len(g), Welcome(t[w])
                 PROVE  /\ g[k].id \notin back
                        /\ ~Recorded(c, g[k].id)
                        /\ \A j \in 1..w : IsSnapshot(t[j]) => t[j].id # g[k].id
      BY DEF Apart
    <2>1. w # Len(s) + 1
      <3>1. ~Welcome(p)
        BY DEF Welcome, IsSnapshot
      <3> QED
        BY <3>1, <1>3
    <2>2. w \in 1..Len(s) /\ t[w] = s[w]
      BY <2>1, <1>3
    <2>3. \A j \in 1..w : t[j] = s[j] /\ j \in 1..Len(s)
      BY <2>2, <1>3
    <2>4. CASE k = Len(h) + 1
      <3>1. g[k].id = p.id
        BY <2>4, <1>4, <1>5
      <3> QED
        BY <3>1, <2>3
    <2>5. CASE k # Len(h) + 1
      <3>1. k \in 1..Len(h) /\ g[k] = h[k]
        BY <2>5, <1>4
      <3>2. /\ h[k].id \notin back
            /\ ~Recorded(c, h[k].id)
            /\ \A j \in 1..w : IsSnapshot(s[j]) => s[j].id # h[k].id
        BY <3>1, <2>2, <1>10 DEF Apart
      <3> QED
        BY <3>1, <3>2, <2>3
    <2> QED
      BY <2>4, <2>5
  <1>15. StillThere(g, back, c)
    <2> SUFFICES ASSUME NEW k \in 1..Len(g), g[k].id \in back PROVE Recorded(c, g[k].id)
      BY DEF StillThere
    <2>1. k # Len(h) + 1
      BY <1>4, <1>5
    <2>2. k \in 1..Len(h) /\ g[k] = h[k]
      BY <2>1, <1>4
    <2> QED
      BY <2>2, <1>10 DEF StillThere
  <1>16. Good(g, back, c, t)
    BY <1>9, <1>12, <1>13, <1>14, <1>15 DEF Good
  <1> QED
    BY <1>16 DEF g, t

\* The client gets what is no snapshot and no Welcome.
LEMMA GoodReceiveOther ==
  ASSUME NEW h \in Seq(Entry), NEW back, NEW c \in Seq(Entry), NEW s \in Seq(Packets),
         Good(h, back, c, s), s # <<>>, ~IsSnapshot(s[1])
  PROVE  Good(h, back, c, Tail(s))
  <1> DEFINE t == Tail(s)
  <1>1. Snaps(t) = Snaps(s)
    BY SnapsOfHead
  <1>2. Line(c, t) = Line(c, s)
    BY <1>1 DEF Line, EntriesOf
  <1>3. \A i \in 1..Len(t) : t[i] = s[i + 1] /\ i + 1 \in 1..Len(s)
    OBVIOUS
  <1>4. Len(t) \in Nat
    OBVIOUS
  <1> HIDE DEF t
  <1>5. Bases(c, t)
    BY <1>1 DEF Good, Bases
  <1>6. NoBaseAfterWelcome(t)
    <2> SUFFICES ASSUME NEW w \in 1..Len(t), NEW j \in 1..Len(t), w < j, Welcome(t[w]), IsSnapshot(t[j])
                 PROVE  t[j].base = FullBase
      BY DEF NoBaseAfterWelcome
    <2>1. w + 1 \in 1..Len(s) /\ j + 1 \in 1..Len(s) /\ t[w] = s[w + 1] /\ t[j] = s[j + 1] /\ w + 1 < j + 1
      BY <1>3, <1>4
    <2>2. NoBaseAfterWelcome(s)
      BY DEF Good
    <2> QED
      BY <2>1, <2>2 DEF NoBaseAfterWelcome
  <1>7. Apart(h, back, c, t)
    <2> SUFFICES ASSUME NEW w \in 1..Len(t), NEW k \in 1..Len(h), Welcome(t[w])
                 PROVE  /\ h[k].id \notin back
                        /\ ~Recorded(c, h[k].id)
                        /\ \A j \in 1..w : IsSnapshot(t[j]) => t[j].id # h[k].id
      BY DEF Apart
    <2>1. w + 1 \in 1..Len(s) /\ t[w] = s[w + 1]
      BY <1>3
    <2>2. Apart(h, back, c, s)
      BY DEF Good
    <2>3. /\ h[k].id \notin back
          /\ ~Recorded(c, h[k].id)
          /\ \A j \in 1..(w + 1) : IsSnapshot(s[j]) => s[j].id # h[k].id
      BY <2>1, <2>2 DEF Apart
    <2>4. \A j \in 1..w : t[j] = s[j + 1] /\ j + 1 \in 1..(w + 1)
      BY <1>3, <1>4
    <2> QED
      BY <2>3, <2>4
  <1>8. Good(h, back, c, t)
    BY <1>2, <1>5, <1>6, <1>7 DEF Good
  <1> QED
    BY <1>8 DEF t

\* The client gets a Welcome and forgets everything.
LEMMA GoodReceiveWelcome ==
  ASSUME NEW h \in Seq(Entry), NEW back, NEW c \in Seq(Entry), NEW s \in Seq(Packets),
         Good(h, back, c, s), s # <<>>, Welcome(s[1]), ~IsSnapshot(s[1])
  PROVE  Good(h, back, <<>>, Tail(s))
  <1> DEFINE t == Tail(s)
             none == <<>>
  <1>1. Good(h, back, c, t)
    BY GoodReceiveOther
  <1>2. /\ t \in Seq(Packets) /\ Len(t) \in Nat /\ none \in Seq(Entry) /\ Len(none) = 0 /\ Len(s) \in Nat /\ 1 \in 1..Len(s)
        /\ \A i \in 1..Len(t) : t[i] = s[i + 1] /\ i + 1 \in 1..Len(s) /\ 1 < i + 1
    OBVIOUS
  <1> HIDE DEF t, none
  <1>3. \A k \in 1..Len(h) : h[k].id \notin back
    BY <1>2 DEF Good, Apart
  <1>4. \A j \in 1..Len(t) : IsSnapshot(t[j]) => t[j].base = FullBase
    BY <1>2 DEF Good, NoBaseAfterWelcome
  <1>5. /\ Line(c, t) \in Seq(Entry) /\ Len(Line(c, t)) = Len(c) + Len(Snaps(t)) /\ Len(c) \in Nat /\ Len(Snaps(t)) \in Nat
        /\ \A i \in 1..Len(Snaps(t)) : Line(c, t)[Len(c) + i] = EntriesOf(t)[i]
    BY <1>2, LineIs
  <1>6. /\ Line(none, t) \in Seq(Entry) /\ Len(Line(none, t)) = Len(Snaps(t))
        /\ \A i \in 1..Len(Snaps(t)) : Line(none, t)[i] = EntriesOf(t)[i]
    <2>1. /\ Line(none, t) \in Seq(Entry) /\ Len(Line(none, t)) = Len(none) + Len(Snaps(t)) /\ Len(Snaps(t)) \in Nat
          /\ \A i \in 1..Len(Snaps(t)) : Line(none, t)[Len(none) + i] = EntriesOf(t)[i]
      BY <1>2, LineIs
    <2> QED
      BY <2>1, <1>2
  <1> DEFINE a == Line(c, t)
             b == Line(none, t)
             l == Len(c)
  <1>7. /\ Len(a) = l + Len(b) /\ Len(b) \in Nat /\ l \in Nat /\ Len(a) \in Nat
        /\ \A i \in 1..Len(b) : b[i] = a[l + i] /\ l + i \in 1..Len(a)
    BY <1>5, <1>6
  <1>8. NoIdTwice(a) /\ InStep(a, h) /\ NoIdTwice(h) /\ Bases(c, t) /\ NoBaseAfterWelcome(t)
    BY <1>1 DEF Good
  <1> HIDE DEF a, b, l
  <1>9. NoIdTwice(b)
    <2> SUFFICES ASSUME NEW i \in 1..Len(b), NEW j \in 1..Len(b), b[i].id = b[j].id PROVE i = j
      BY DEF NoIdTwice
    <2>1. b[i] = a[l + i] /\ l + i \in 1..Len(a) /\ b[j] = a[l + j] /\ l + j \in 1..Len(a)
      BY <1>7
    <2>2. l + i = l + j
      BY <2>1, <1>8 DEF NoIdTwice
    <2> QED
      BY <2>2, <1>7
  <1>10. InStep(b, h)
    <2> SUFFICES ASSUME NEW i \in 1..Len(b), NEW k \in 1..Len(h), b[i].id = h[k].id
                 PROVE  b[i].entities = h[k].entities /\ Len(b) - i <= Len(h) - k
      BY DEF InStep
    <2>1. b[i] = a[l + i] /\ l + i \in 1..Len(a)
      BY <1>7
    <2>2. a[l + i].entities = h[k].entities /\ Len(a) - (l + i) <= Len(h) - k
      BY <2>1, <1>8 DEF InStep
    <2>3. Len(h) \in Nat
      OBVIOUS
    <2> QED
      BY <2>1, <2>2, <2>3, <1>7
  <1>11. Bases(none, t)
    <2> SUFFICES ASSUME NEW q \in 1..Len(Snaps(t)) PROVE Rebuilt(none, q, Snaps(t)[q])
      BY DEF Bases
    <2>1. PICK j \in DOMAIN t : IsSnapshot(t[j]) /\ Snaps(t)[q] = t[j]
      <3>1. Snaps(t) \in Seq(Snapshots) /\ q \in DOMAIN Snaps(t)
        BY <1>2, SnapsType
      <3> QED
        BY <3>1, <1>2, SnapsType
    <2>2. Snaps(t)[q].base = FullBase
      <3>1. j \in 1..Len(t)
        BY <1>2
      <3> QED
        BY <3>1, <2>1, <1>4
    <2>3. Rebuilt(c, q, Snaps(t)[q])
      BY <1>8 DEF Bases
    <2> QED
      BY <2>2, <2>3 DEF Rebuilt
  <1>12. Apart(h, back, none, t)
    <2> SUFFICES ASSUME NEW w \in 1..Len(t), NEW k \in 1..Len(h), Welcome(t[w])
                 PROVE  /\ h[k].id \notin back
                        /\ ~Recorded(none, h[k].id)
                        /\ \A j \in 1..w : IsSnapshot(t[j]) => t[j].id # h[k].id
      BY DEF Apart
    <2>1. Apart(h, back, c, t)
      BY <1>1 DEF Good
    <2>2. ~Recorded(none, h[k].id)
      BY DEF none, Recorded
    <2> QED
      BY <2>1, <2>2 DEF Apart
  <1>13. StillThere(h, back, none)
    BY <1>3 DEF StillThere
  <1>14. Good(h, back, none, t)
    BY <1>8, <1>9, <1>10, <1>11, <1>12, <1>13 DEF Good, b
  <1> QED
    BY <1>14 DEF t, none

\* The client gets a snapshot, and can rebuild it.
LEMMA GoodReceive ==
  ASSUME NEW h \in Seq(Entry), Len(h) <= Limit, NEW back, NEW c \in Seq(Entry), Len(c) <= Limit,
         NEW s \in Seq(Packets), Good(h, back, c, s), s # <<>>, IsSnapshot(s[1]),
         NEW e, e = [id |-> s[1].id, entities |-> s[1].scene.entities],
         NEW told, told \subseteq back \cup {s[1].id}
  PROVE  Good(h, told, ClientKept(Append(c, e)), Tail(s))
  <1> DEFINE t == Tail(s)
             d == Append(c, e)
             k == ClientKept(d)
             a == Line(c, s)
             b == Line(k, t)
             n == Len(Snaps(t))
             p == s[1]
  <1>1. /\ t \in Seq(Packets) /\ Len(t) \in Nat /\ Len(s) \in Nat /\ 1 \in 1..Len(s)
        /\ \A i \in 1..Len(t) : t[i] = s[i + 1] /\ i + 1 \in 1..Len(s) /\ 1 < i + 1
        /\ \A i \in 1..Len(t) : \A j \in 1..i : j + 1 \in 1..(i + 1)
    OBVIOUS
  <1>2. p \in Snapshots
    <2>1. p \in Packets
      OBVIOUS
    <2> QED
      BY <2>1, PacketTypes
  <1>3. e \in Entry /\ e.id = p.id /\ e.entities = p.scene.entities
    <2>1. p.id \in Id /\ p.scene \in Scene
      BY <1>2 DEF Snapshots
    <2>2. p.scene.entities \in Entities
      BY <2>1 DEF Scene
    <2> QED
      BY <2>1, <2>2 DEF Entry
  <1>4. Snaps(s) = <<p>> \o Snaps(t) /\ Snaps(t) \in Seq(Snapshots) /\ n \in Nat
        /\ Len(Snaps(s)) = n + 1 /\ Snaps(s)[1] = p /\ \A q \in 1..n : Snaps(s)[q + 1] = Snaps(t)[q]
    <2>1. Snaps(s) = <<p>> \o Snaps(t) /\ Snaps(t) \in Seq(Snapshots)
      BY <1>1, SnapsOfHead, SnapsType
    <2> HIDE DEF p, t
    <2>2. Len(<<p>> \o Snaps(t)) = n + 1 /\ (<<p>> \o Snaps(t))[1] = p /\ n \in Nat /\ \A q \in 1..n : (<<p>> \o Snaps(t))[q + 1] = Snaps(t)[q]
      BY <2>1, <1>2
    <2> QED
      BY <2>1, <2>2
  <1>5. /\ d \in Seq(Entry) /\ Len(c) \in Nat /\ Len(d) = Len(c) + 1 /\ d # <<>>
        /\ \A i \in 1..Len(c) : d[i] = c[i]
        /\ d[Len(c) + 1] = e
    BY <1>3
  <1> DEFINE cut == IF Len(d) > Limit THEN 1 ELSE 0
  <1>6. /\ k \in Seq(Entry) /\ cut \in 0..1 /\ Len(k) = Len(c) + 1 - cut /\ Len(k) \in Nat
        /\ \A i \in 1..Len(k) : k[i] = d[i + cut] /\ i + cut \in 1..Len(d)
        /\ cut = 1 => Len(c) = Limit
    <2> HIDE DEF d
    <2>1. CASE Len(d) > Limit
      <3>1. k = Tail(d) /\ cut = 1
        BY <2>1 DEF ClientKept
      <3>2. Len(c) = Limit
        BY <2>1, <1>5, LimitAssumption
      <3>3. /\ Tail(d) \in Seq(Entry) /\ Len(Tail(d)) = Len(d) - 1
            /\ \A i \in 1..Len(Tail(d)) : Tail(d)[i] = d[i + 1] /\ i + 1 \in 1..Len(d)
        BY <1>5
      <3> HIDE DEF k, cut
      <3> QED
        BY <3>1, <3>2, <3>3, <1>5
    <2>2. CASE ~(Len(d) > Limit)
      <3>1. k = d /\ cut = 0
        BY <2>2 DEF ClientKept
      <3> HIDE DEF k, cut
      <3> QED
        BY <3>1, <1>5
    <2> QED
      BY <2>1, <2>2
  <1>7. /\ a \in Seq(Entry) /\ Len(a) = Len(c) + (n + 1)
        /\ \A i \in 1..Len(c) : a[i] = c[i]
        /\ \A q \in 1..(n + 1) : a[Len(c) + q] = [id |-> Snaps(s)[q].id, entities |-> Snaps(s)[q].scene.entities]
    <2>1. /\ Len(a) = Len(c) + Len(Snaps(s)) /\ a \in Seq(Entry)
          /\ \A i \in 1..Len(c) : a[i] = c[i]
          /\ \A q \in 1..Len(Snaps(s)) : a[Len(c) + q] = [id |-> Snaps(s)[q].id, entities |-> Snaps(s)[q].scene.entities]
      BY LineIs
    <2> HIDE DEF a, n
    <2> QED
      BY <2>1, <1>4
  <1>8. /\ b \in Seq(Entry) /\ Len(b) = Len(k) + n
        /\ \A i \in 1..Len(k) : b[i] = k[i]
        /\ \A q \in 1..n : b[Len(k) + q] = [id |-> Snaps(t)[q].id, entities |-> Snaps(t)[q].scene.entities]
    BY <1>1, <1>6, LineIs
  <1> HIDE DEF t, d, k, a, b, n, p, cut
  \* The line only loses what the client forgets.
  <1>9. /\ Len(a) = Len(b) + cut /\ Len(a) \in Nat /\ Len(b) \in Nat /\ cut \in Nat
        /\ \A i \in 1..Len(b) : b[i] = a[i + cut] /\ i + cut \in 1..Len(a)
    <2>1. Len(a) = Len(b) + cut /\ Len(a) \in Nat /\ Len(b) \in Nat /\ cut \in Nat
      BY <1>4, <1>5, <1>6, <1>7, <1>8
    <2>2. ASSUME NEW i \in 1..Len(b) PROVE b[i] = a[i + cut] /\ i + cut \in 1..Len(a)
      <3>1. i + cut \in 1..Len(a)
        BY <2>1
      <3>2. CASE i \in 1..Len(k)
        <4>1. b[i] = d[i + cut] /\ i + cut \in 1..(Len(c) + 1)
          BY <3>2, <1>5, <1>6, <1>8
        <4>2. CASE i + cut = Len(c) + 1
          <5>1. a[Len(c) + 1] = [id |-> Snaps(s)[1].id, entities |-> Snaps(s)[1].scene.entities]
            BY <1>4, <1>7
          <5>2. a[Len(c) + 1] = e
            BY <5>1, <1>4, p = s[1] DEF p
          <5> QED
            BY <5>2, <4>1, <4>2, <3>1, <1>5
        <4>3. CASE i + cut # Len(c) + 1
          <5>1. i + cut \in 1..Len(c)
            BY <4>1, <4>3, <1>5
          <5> QED
            BY <5>1, <4>1, <3>1, <1>5, <1>7
        <4> QED
          BY <4>2, <4>3
      <3>3. CASE i \notin 1..Len(k)
        <4>1. i - Len(k) \in 1..n /\ Len(k) + (i - Len(k)) = i
          BY <3>3, <1>4, <1>6, <1>8
        <4>2. b[Len(k) + (i - Len(k))] = [id |-> Snaps(t)[i - Len(k)].id, entities |-> Snaps(t)[i - Len(k)].scene.entities]
          BY <4>1, <1>8
        <4>3. i - Len(k) + 1 \in 1..(n + 1) /\ Len(c) + (i - Len(k) + 1) = i + cut
          BY <4>1, <1>4, <1>5, <1>6
        <4>4. a[Len(c) + (i - Len(k) + 1)] = [id |-> Snaps(s)[i - Len(k) + 1].id, entities |-> Snaps(s)[i - Len(k) + 1].scene.entities]
          BY <4>3, <1>7
        <4>5. Snaps(s)[i - Len(k) + 1] = Snaps(t)[i - Len(k)]
          BY <4>1, <1>4
        <4> QED
          BY <4>1, <4>2, <4>3, <4>4, <4>5, <3>1
      <3> QED
        BY <3>2, <3>3
    <2> QED
      BY <2>1, <2>2
  <1>10. /\ NoIdTwice(h) /\ NoIdTwice(a) /\ InStep(a, h) /\ Bases(c, s)
         /\ NoBaseAfterWelcome(s) /\ Apart(h, back, c, s) /\ StillThere(h, back, c)
    BY DEF Good, a
  <1>11. NoIdTwice(b)
    <2> SUFFICES ASSUME NEW i \in 1..Len(b), NEW j \in 1..Len(b), b[i].id = b[j].id PROVE i = j
      BY DEF NoIdTwice
    <2>1. b[i] = a[i + cut] /\ i + cut \in 1..Len(a) /\ b[j] = a[j + cut] /\ j + cut \in 1..Len(a)
      BY <1>9
    <2>2. i + cut = j + cut
      BY <2>1, <1>10 DEF NoIdTwice
    <2> QED
      BY <2>2, <1>9
  <1>12. InStep(b, h)
    <2> SUFFICES ASSUME NEW i \in 1..Len(b), NEW j \in 1..Len(h), b[i].id = h[j].id
                 PROVE  b[i].entities = h[j].entities /\ Len(b) - i <= Len(h) - j
      BY DEF InStep
    <2>1. b[i] = a[i + cut] /\ i + cut \in 1..Len(a)
      BY <1>9
    <2>2. a[i + cut].entities = h[j].entities /\ Len(a) - (i + cut) <= Len(h) - j
      BY <2>1, <1>10 DEF InStep
    <2>3. Len(h) \in Nat
      OBVIOUS
    <2> QED
      BY <2>1, <2>2, <2>3, <1>9
  <1>13. Bases(k, t)
    <2> SUFFICES ASSUME NEW q \in 1..n PROVE Rebuilt(k, q, Snaps(t)[q])
      BY DEF Bases, n
    <2>1. Rebuilt(c, q + 1, Snaps(t)[q])
      <3>1. q + 1 \in 1..Len(Snaps(s)) /\ Snaps(s)[q + 1] = Snaps(t)[q]
        BY <1>4
      <3> QED
        BY <3>1, <1>10 DEF Bases
    <2>2. CASE Snaps(t)[q].base = FullBase
      BY <2>1, <2>2 DEF Rebuilt
    <2>3. CASE Snaps(t)[q].base # FullBase
      <3>1. PICK i \in 1..Len(c) :
              /\ c[i].id = Snaps(t)[q].base
              /\ Patched(c[i].entities, Snaps(t)[q].changed, Snaps(t)[q].removed) = Snaps(t)[q].scene.entities
              /\ Len(c) - i + (q + 1) <= Limit
        BY <2>1, <2>3 DEF Rebuilt
      <3>2. i - cut \in 1..Len(k) /\ Len(k) - (i - cut) + q <= Limit /\ (i - cut) + cut = i
        BY <3>1, <1>4, <1>5, <1>6, LimitAssumption
      <3>3. k[i - cut] = c[i]
        BY <3>2, <1>5, <1>6
      <3> QED
        BY <3>1, <3>2, <3>3, <2>3 DEF Rebuilt
    <2> QED
      BY <2>2, <2>3
  <1>14. NoBaseAfterWelcome(t)
    <2> SUFFICES ASSUME NEW w \in 1..Len(t), NEW j \in 1..Len(t), w < j, Welcome(t[w]), IsSnapshot(t[j])
                 PROVE  t[j].base = FullBase
      BY DEF NoBaseAfterWelcome
    <2>1. w + 1 \in 1..Len(s) /\ j + 1 \in 1..Len(s) /\ t[w] = s[w + 1] /\ t[j] = s[j + 1] /\ w + 1 < j + 1
      BY <1>1
    <2> QED
      BY <2>1, <1>10 DEF NoBaseAfterWelcome
  \* What the client remembers now, it remembered or got.
  <1>15. \A id : Recorded(k, id) => Recorded(c, id) \/ id = p.id
    <2> SUFFICES ASSUME NEW id, NEW i \in DOMAIN k, k[i].id = id PROVE Recorded(c, id) \/ id = p.id
      BY DEF Recorded
    <2>1. i \in 1..Len(k)
      BY <1>6
    <2>2. k[i] = d[i + cut] /\ i + cut \in 1..(Len(c) + 1)
      BY <2>1, <1>5, <1>6
    <2>3. CASE i + cut = Len(c) + 1
      BY <2>2, <2>3, <1>3, <1>5
    <2>4. CASE i + cut # Len(c) + 1
      <3>1. i + cut \in 1..Len(c)
        BY <2>2, <2>4, <1>5
      <3>2. i + cut \in DOMAIN c /\ k[i] = c[i + cut]
        BY <3>1, <2>2, <1>5
      <3> QED
        BY <3>2 DEF Recorded
    <2> QED
      BY <2>3, <2>4
  <1>16. Apart(h, told, k, t)
    <2> SUFFICES ASSUME NEW w \in 1..Len(t), NEW j \in 1..Len(h), Welcome(t[w])
                 PROVE  /\ h[j].id \notin told
                        /\ ~Recorded(k, h[j].id)
                        /\ \A i \in 1..w : IsSnapshot(t[i]) => t[i].id # h[j].id
      BY DEF Apart
    <2>1. w + 1 \in 1..Len(s) /\ t[w] = s[w + 1]
      BY <1>1
    <2>2. /\ h[j].id \notin back
          /\ ~Recorded(c, h[j].id)
          /\ \A i \in 1..(w + 1) : IsSnapshot(s[i]) => s[i].id # h[j].id
      BY <2>1, <1>10 DEF Apart
    <2>3. p.id # h[j].id
      <3>1. 1 \in 1..(w + 1)
        BY <1>1
      <3> QED
        BY <3>1, <2>2 DEF p
    <2>4. h[j].id \notin told
      BY <2>2, <2>3 DEF p
    <2>5. \A i \in 1..w : t[i] = s[i + 1] /\ i + 1 \in 1..(w + 1)
      BY <1>1
    <2> QED
      BY <1>15, <2>2, <2>3, <2>4, <2>5
  <1>17. StillThere(h, told, k)
    <2> SUFFICES ASSUME NEW j \in 1..Len(h), h[j].id \in told PROVE Recorded(k, h[j].id)
      BY DEF StillThere
    <2>1. Limit \in Nat /\ Limit >= 1 /\ Len(h) \in Nat
      BY LimitAssumption
    <2>2. CASE h[j].id = p.id
      <3>1. Len(k) \in 1..Len(k) /\ Len(k) + cut = Len(c) + 1
        BY <2>1, <1>5, <1>6
      <3>2. k[Len(k)] = e
        BY <3>1, <1>5, <1>6
      <3>3. Len(k) \in DOMAIN k
        BY <3>1, <1>6
      <3> QED
        BY <3>2, <3>3, <2>2, <1>3 DEF Recorded
    <2>3. CASE h[j].id # p.id
      <3>1. h[j].id \in back
        BY <2>3 DEF p
      <3>2. PICK i \in DOMAIN c : c[i].id = h[j].id
        BY <3>1, <1>10 DEF StillThere, Recorded
      <3>3. i \in 1..Len(c) /\ i \in 1..Len(a) /\ a[i] = c[i]
        <4>1. i \in 1..Len(c)
          OBVIOUS
        <4> QED
          BY <4>1, <1>4, <1>5, <1>7
      <3>4. Len(a) - i <= Len(h) - j
        BY <3>2, <3>3, <1>10 DEF InStep
      <3>5. i - cut \in 1..Len(k) /\ (i - cut) + cut = i
        <4>1. Len(h) <= Limit /\ j >= 1 /\ j \in Nat
          OBVIOUS
        <4>2. cut = 1 => i # 1
          BY <4>1, <3>4, <2>1, <1>4, <1>6, <1>7
        <4> QED
          BY <4>2, <3>3, <1>5, <1>6
      <3>6. k[i - cut] = c[i] /\ i - cut \in DOMAIN k
        BY <3>3, <3>5, <1>5, <1>6
      <3> QED
        BY <3>2, <3>6 DEF Recorded
    <2> QED
      BY <2>2, <2>3
  <1>18. Good(h, told, k, t)
    BY <1>10, <1>11, <1>12, <1>13, <1>14, <1>16, <1>17 DEF Good, b
  <1> QED
    BY <1>18 DEF k, t, d

-----------------------------------------------------------------------------
(* The map that the client is in when it gets a packet.                      *)

\* From the map `from', packet j of the stream s is met in the map q.
PlaceAt(s, j, from, q) ==
  \/ \E w \in 1..(j - 1) : /\ Welcome(s[w]) /\ s[w].place = q
                           /\ \A v \in (w + 1)..(j - 1) : ~Welcome(s[v])
  \/ q = from /\ \A v \in 1..(j - 1) : ~Welcome(s[v])

\* Every snapshot is met in the map it was captured in.
InPlace(s, from) ==
  \A j \in 1..Len(s) : IsSnapshot(s[j]) => PlaceAt(s, j, from, s[j].scene.place)

LEMMA PlaceOfSame ==
  ASSUME NEW s, NEW t, NEW j \in Nat, \A i \in 1..(j - 1) : s[i] = t[i],
         NEW from, NEW q, PlaceAt(s, j, from, q)
  PROVE  PlaceAt(t, j, from, q)
  <1>1. CASE \E w \in 1..(j - 1) : /\ Welcome(s[w]) /\ s[w].place = q
                                  /\ \A v \in (w + 1)..(j - 1) : ~Welcome(s[v])
    <2>1. PICK w \in 1..(j - 1) : /\ Welcome(s[w]) /\ s[w].place = q
                                  /\ \A v \in (w + 1)..(j - 1) : ~Welcome(s[v])
      BY <1>1
    <2>2. \A v \in (w + 1)..(j - 1) : v \in 1..(j - 1)
      OBVIOUS
    <2>3. \A v \in (w + 1)..(j - 1) : ~Welcome(t[v])
      BY <2>1, <2>2
    <2>4. Welcome(t[w]) /\ t[w].place = q
      BY <2>1
    <2> QED
      BY <2>3, <2>4 DEF PlaceAt
  <1>2. CASE q = from /\ \A v \in 1..(j - 1) : ~Welcome(s[v])
    BY <1>2 DEF PlaceAt
  <1> QED
    BY <1>1, <1>2 DEF PlaceAt

LEMMA PlaceThinner ==
  ASSUME NEW s \in Seq(Packets), NEW m, Thinner(s, m), NEW from
  PROVE  /\ InPlace(s, from) => InPlace(m, from)
         /\ \A q : PlaceAt(s, Len(s) + 1, from, q) => PlaceAt(m, Len(m) + 1, from, q)
  <1>1. PICK f \in [1..Len(m) -> 1..Len(s)] :
          /\ Rising(f, Len(m))
          /\ \A i \in 1..Len(m) : m[i] = s[f[i]]
          /\ \A j \in 1..Len(s) : ~IsSnapshot(s[j]) => \E i \in 1..Len(m) : f[i] = j
          /\ \A i \in 1..Len(m) : IsSnapshot(m[i]) => \A j \in 1..i : f[j] = j
    BY DEF Thinner
  <1>2. m \in Seq(Packets) /\ Len(m) \in Nat /\ Len(s) \in Nat
    BY DEF Thinner
  <1>3. \A i \in 1..Len(m) : f[i] \in 1..Len(s)
    OBVIOUS
  <1>4. ASSUME InPlace(s, from), NEW j \in 1..Len(m), IsSnapshot(m[j])
        PROVE  PlaceAt(m, j, from, m[j].scene.place)
    <2>1. \A i \in 1..j : f[i] = i /\ i \in 1..Len(m)
      <3>1. \A i \in 1..j : f[i] = i
        BY <1>1, <1>4
      <3>2. \A i \in 1..j : i \in 1..Len(m)
        BY <1>2
      <3> QED
        BY <3>1, <3>2
    <2>2. \A i \in 1..j : m[i] = s[i]
      BY <2>1, <1>1
    <2>3. j \in 1..j /\ j \in Nat
      BY <1>2
    <2>4. j \in 1..Len(s)
      BY <2>1, <2>3, <1>3
    <2>5. PlaceAt(s, j, from, m[j].scene.place)
      BY <2>2, <2>3, <2>4, <1>4 DEF InPlace
    <2>6. \A i \in 1..(j - 1) : s[i] = m[i]
      BY <2>2, <2>3
    <2> QED
      BY ONLY <2>3, <2>5, <2>6, PlaceOfSame
  <1>5. ASSUME NEW q, PlaceAt(s, Len(s) + 1, from, q)
        PROVE  PlaceAt(m, Len(m) + 1, from, q)
    <2>1. Len(s) + 1 - 1 = Len(s) /\ Len(m) + 1 - 1 = Len(m)
      BY <1>2
    <2>2. CASE \E w \in 1..Len(s) : /\ Welcome(s[w]) /\ s[w].place = q
                                    /\ \A v \in (w + 1)..Len(s) : ~Welcome(s[v])
      <3>1. PICK w \in 1..Len(s) : /\ Welcome(s[w]) /\ s[w].place = q
                                   /\ \A v \in (w + 1)..Len(s) : ~Welcome(s[v])
        BY <2>2
      <3>2. ~IsSnapshot(s[w])
        BY <3>1 DEF Welcome, IsSnapshot
      <3>3. PICK i \in 1..Len(m) : f[i] = w
        BY <3>2, <1>1
      <3>4. Welcome(m[i]) /\ m[i].place = q
        BY <3>1, <3>3, <1>1
      <3>5. ASSUME NEW v \in (i + 1)..Len(m) PROVE ~Welcome(m[v])
        <4>1. v \in 1..Len(m) /\ i < v
          BY <1>2
        <4>2. w < f[v] /\ f[v] \in 1..Len(s)
          BY <4>1, <3>3, <1>1, <1>3 DEF Rising
        <4>3. f[v] \in (w + 1)..Len(s)
          BY <4>2, <1>2
        <4> QED
          BY <4>1, <4>3, <3>1, <1>1
      <3> QED
        BY <2>1, <3>4, <3>5 DEF PlaceAt
    <2>3. CASE q = from /\ \A v \in 1..Len(s) : ~Welcome(s[v])
      BY <2>1, <2>3, <1>1, <1>3 DEF PlaceAt
    <2>4. \/ \E w \in 1..Len(s) : /\ Welcome(s[w]) /\ s[w].place = q
                                  /\ \A v \in (w + 1)..Len(s) : ~Welcome(s[v])
          \/ q = from /\ \A v \in 1..Len(s) : ~Welcome(s[v])
      BY <2>1, <1>5 DEF PlaceAt
    <2> QED
      BY <2>2, <2>3, <2>4
  <1>6. InPlace(s, from) => InPlace(m, from)
    BY <1>4 DEF InPlace
  <1> QED
    BY <1>5, <1>6

LEMMA PlaceAppend ==
  ASSUME NEW s \in Seq(Packets), NEW p \in Packets, NEW from, InPlace(s, from),
         IsSnapshot(p) => PlaceAt(s, Len(s) + 1, from, p.scene.place)
  PROVE  /\ InPlace(Append(s, p), from)
         /\ Welcome(p) => PlaceAt(Append(s, p), Len(Append(s, p)) + 1, from, p.place)
         /\ ~Welcome(p) => \A q : PlaceAt(s, Len(s) + 1, from, q) => PlaceAt(Append(s, p), Len(Append(s, p)) + 1, from, q)
  <1> DEFINE t == Append(s, p)
             l == Len(s)
  <1>1. /\ l \in Nat /\ Len(t) = l + 1 /\ l + 1 - 1 = l /\ l + 1 + 1 - 1 = l + 1
        /\ \A i \in 1..l : t[i] = s[i]
        /\ t[l + 1] = p
        /\ \A i \in 1..(l + 1) : i \in 1..l \/ i = l + 1
    OBVIOUS
  <1> HIDE DEF t, l
  <1>2. InPlace(t, from)
    <2> SUFFICES ASSUME NEW j \in 1..(l + 1), IsSnapshot(t[j]) PROVE PlaceAt(t, j, from, t[j].scene.place)
      BY <1>1 DEF InPlace
    <2>1. j \in Nat /\ \A i \in 1..(j - 1) : s[i] = t[i]
      BY <1>1
    <2>2. PlaceAt(s, j, from, t[j].scene.place)
      <3>1. CASE j = l + 1
        BY <3>1, <1>1 DEF l
      <3>2. CASE j # l + 1
        <4>1. j \in 1..l /\ t[j] = s[j]
          BY <3>2, <1>1
        <4> QED
          BY <4>1 DEF InPlace, l
      <3> QED
        BY <3>1, <3>2
    <2> QED
      BY ONLY <2>1, <2>2, PlaceOfSame
  <1>3. ASSUME Welcome(p) PROVE PlaceAt(t, l + 1 + 1, from, p.place)
    <2>1. l + 1 \in 1..(l + 1) /\ Welcome(t[l + 1]) /\ t[l + 1].place = p.place
      BY <1>1, <1>3
    <2>2. \A v \in (l + 1 + 1)..(l + 1) : ~Welcome(t[v])
      BY <1>1
    <2> QED
      BY <2>1, <2>2, <1>1 DEF PlaceAt
  <1>4. ASSUME ~Welcome(p), NEW q, PlaceAt(s, l + 1, from, q)
        PROVE  PlaceAt(t, l + 1 + 1, from, q)
    <2>1. CASE \E w \in 1..l : /\ Welcome(s[w]) /\ s[w].place = q
                               /\ \A v \in (w + 1)..l : ~Welcome(s[v])
      <3>1. PICK w \in 1..l : /\ Welcome(s[w]) /\ s[w].place = q
                              /\ \A v \in (w + 1)..l : ~Welcome(s[v])
        BY <2>1
      <3>2. ASSUME NEW v \in (w + 1)..(l + 1) PROVE ~Welcome(t[v])
        <4>1. CASE v = l + 1
          BY <4>1, <1>1, <1>4
        <4>2. CASE v # l + 1
          <5>1. v \in (w + 1)..l /\ v \in 1..l
            BY <4>2, <1>1
          <5> QED
            BY <5>1, <3>1, <1>1
        <4> QED
          BY <4>1, <4>2
      <3>3. w \in 1..(l + 1) /\ Welcome(t[w]) /\ t[w].place = q
        BY <3>1, <1>1
      <3> QED
        BY <3>2, <3>3, <1>1 DEF PlaceAt
    <2>2. CASE q = from /\ \A v \in 1..l : ~Welcome(s[v])
      <3>1. \A v \in 1..(l + 1) : ~Welcome(t[v])
        BY <2>2, <1>1, <1>4
      <3> QED
        BY <3>1, <2>2, <1>1 DEF PlaceAt
    <2>3. \/ \E w \in 1..l : /\ Welcome(s[w]) /\ s[w].place = q
                             /\ \A v \in (w + 1)..l : ~Welcome(s[v])
          \/ q = from /\ \A v \in 1..l : ~Welcome(s[v])
      BY <1>1, <1>4 DEF PlaceAt
    <2> QED
      BY <2>1, <2>2, <2>3
  <1>5. ~Welcome(p) => \A q : PlaceAt(s, l + 1, from, q) => PlaceAt(t, l + 1 + 1, from, q)
    BY <1>4
  <1>6. Welcome(p) => PlaceAt(t, l + 1 + 1, from, p.place)
    BY <1>3
  <1>7. /\ InPlace(t, from)
        /\ Welcome(p) => PlaceAt(t, Len(t) + 1, from, p.place)
        /\ ~Welcome(p) => \A q : PlaceAt(s, Len(s) + 1, from, q) => PlaceAt(t, Len(t) + 1, from, q)
    BY <1>1, <1>2, <1>5, <1>6 DEF l
  <1> QED
    BY <1>7 DEF t

\* The client gets the first packet, and is then in the map `next'.
LEMMA PlaceTail ==
  ASSUME NEW s \in Seq(Packets), s # <<>>, NEW from, NEW next,
         next = IF Welcome(s[1]) THEN s[1].place ELSE from
  PROVE  /\ InPlace(s, from) => InPlace(Tail(s), next)
         /\ InPlace(s, from) /\ IsSnapshot(s[1]) => s[1].scene.place = from
         /\ \A q : PlaceAt(s, Len(s) + 1, from, q) => PlaceAt(Tail(s), Len(Tail(s)) + 1, next, q)
  <1> DEFINE t == Tail(s)
             l == Len(t)
  <1>1. /\ l \in Nat /\ Len(s) = l + 1
        /\ \A i \in 1..l : t[i] = s[i + 1]
    OBVIOUS
  <1> HIDE DEF t, l
  <1>2. ASSUME NEW j \in 1..(l + 1), NEW q, PlaceAt(s, j + 1, from, q) PROVE PlaceAt(t, j, next, q)
    <2>1. j + 1 - 1 = j /\ j \in Nat /\ \A i \in 1..(j - 1) : t[i] = s[i + 1] /\ i + 1 \in 1..j
      BY <1>1
    <2>2. CASE \E w \in 1..j : /\ Welcome(s[w]) /\ s[w].place = q
                               /\ \A v \in (w + 1)..j : ~Welcome(s[v])
      <3>1. PICK w \in 1..j : /\ Welcome(s[w]) /\ s[w].place = q
                              /\ \A v \in (w + 1)..j : ~Welcome(s[v])
        BY <2>2
      <3>2. CASE w = 1
        <4>1. \A v \in 1..(j - 1) : v + 1 \in (w + 1)..j
          BY <3>2, <2>1
        <4>2. \A v \in 1..(j - 1) : ~Welcome(t[v])
          BY <4>1, <3>1, <2>1
        <4>3. q = next
          BY <3>1, <3>2
        <4> QED
          BY <4>2, <4>3 DEF PlaceAt
      <3>3. CASE w # 1
        <4>1. w - 1 \in 1..(j - 1) /\ (w - 1) + 1 = w
          BY <3>3, <2>1
        <4>2. t[w - 1] = s[w]
          <5>1. t[w - 1] = s[(w - 1) + 1]
            BY <4>1, <2>1
          <5> QED
            BY <5>1, <4>1
        <4>3. \A v \in (w - 1 + 1)..(j - 1) : v \in 1..(j - 1) /\ v + 1 \in (w + 1)..j
          BY <4>1, <2>1
        <4>4. \A v \in (w - 1 + 1)..(j - 1) : ~Welcome(t[v])
          BY <4>3, <3>1, <2>1
        <4> QED
          BY <4>1, <4>2, <4>4, <3>1 DEF PlaceAt
      <3> QED
        BY <3>2, <3>3
    <2>3. CASE q = from /\ \A v \in 1..j : ~Welcome(s[v])
      <3>1. 1 \in 1..j
        BY <2>1
      <3>2. q = next
        BY <3>1, <2>3
      <3>3. \A v \in 1..(j - 1) : ~Welcome(t[v])
        BY <2>1, <2>3
      <3> QED
        BY <3>2, <3>3 DEF PlaceAt
    <2>4. \/ \E w \in 1..j : /\ Welcome(s[w]) /\ s[w].place = q
                             /\ \A v \in (w + 1)..j : ~Welcome(s[v])
          \/ q = from /\ \A v \in 1..j : ~Welcome(s[v])
      BY <2>1, <1>2 DEF PlaceAt
    <2> QED
      BY <2>2, <2>3, <2>4
  <1>3. ASSUME InPlace(s, from) PROVE InPlace(t, next)
    <2> SUFFICES ASSUME NEW j \in 1..l, IsSnapshot(t[j]) PROVE PlaceAt(t, j, next, t[j].scene.place)
      BY DEF InPlace, l
    <2>1. j + 1 \in 1..Len(s) /\ t[j] = s[j + 1] /\ j \in 1..(l + 1)
      BY <1>1
    <2>2. PlaceAt(s, j + 1, from, t[j].scene.place)
      BY <2>1, <1>3 DEF InPlace
    <2> QED
      BY <2>1, <2>2, <1>2
  <1>4. ASSUME InPlace(s, from), IsSnapshot(s[1]) PROVE s[1].scene.place = from
    <2>1. 1 \in 1..Len(s)
      BY <1>1
    <2>2. PlaceAt(s, 1, from, s[1].scene.place)
      BY <2>1, <1>4 DEF InPlace
    <2>3. 1..(1 - 1) = {}
      OBVIOUS
    <2> QED
      BY <2>2, <2>3 DEF PlaceAt
  <1>5. \A q : PlaceAt(s, Len(s) + 1, from, q) => PlaceAt(t, l + 1, next, q)
    <2>1. l + 1 \in 1..(l + 1) /\ Len(s) + 1 = (l + 1) + 1
      BY <1>1
    <2> QED
      BY <2>1, <1>2
  <1> QED
    BY <1>3, <1>4, <1>5 DEF t, l

-----------------------------------------------------------------------------
(* Ids and contents.                                                         *)

LEMMA NextIdType ==
  ASSUME NEW i \in Id
  PROVE  NextId(i) \in Id
  <1>1. i \in 0..(Ids - 2) /\ Ids \in Nat /\ Ids >= 4
    BY IdsAssumption DEF Id
  <1>2. i + 1 < Ids /\ (i + 1) % Ids = i + 1
    BY <1>1
  <1>3. CASE i + 1 = Ids - 1
    <2>1. i + 2 = Ids
      BY <1>1, <1>3
    <2>2. (i + 2) % Ids = 0
      BY <1>1, <2>1
    <2> QED
      BY <1>1, <1>2, <1>3, <2>2 DEF NextId, FullBase, Id
  <1>4. CASE i + 1 # Ids - 1
    BY <1>1, <1>2, <1>4 DEF NextId, FullBase, Id
  <1> QED
    BY <1>3, <1>4

\* A fresh id is none of those that a side has or is going to have.
LEMMA FreshIsNew ==
  ASSUME NEW id \in Id, Fresh(id), NEW used \in IdsInUse, used \in Id
  PROVE  used # id
  <1> SUFFICES ASSUME used = id PROVE FALSE
    OBVIOUS
  <1>1. (id - used) % Ids \in 1..(Half - 1)
    BY DEF Fresh
  <1>2. id - used = 0 /\ Ids \in Nat /\ Ids >= 4
    BY IdsAssumption DEF Id
  <1>3. 0 % Ids = 0
    BY <1>2
  <1>4. (id - used) % Ids = 0
    BY <1>2, <1>3
  <1> QED
    BY <1>1, <1>4

LEMMA IdsApart == None \notin Id /\ FullBase \notin Id
  BY NoneAssumption, IdsAssumption DEF FullBase, Id

LEMMA EntitiesAre ==
  \A f : f \in Entities <=> DOMAIN f \subseteq Entity /\ f \in [DOMAIN f -> Value]
  BY DEF Entities

LEMMA DifferenceType ==
  ASSUME NEW base \in Entities, NEW now \in Entities
  PROVE  Changed(base, now) \in Entities /\ Removed(base, now) \in SUBSET Entity
  <1> DEFINE different == {e \in DOMAIN now : e \notin DOMAIN base \/ base[e] # now[e]}
  <1>1. DOMAIN now \subseteq Entity /\ now \in [DOMAIN now -> Value] /\ DOMAIN base \subseteq Entity
    BY EntitiesAre
  <1>2. different \subseteq DOMAIN now /\ Changed(base, now) = [e \in different |-> now[e]]
    BY DEF Changed
  <1> HIDE DEF different
  <1>3. Changed(base, now) \in [different -> Value] /\ different \subseteq Entity
    BY <1>1, <1>2
  <1>4. Changed(base, now) \in Entities
    BY <1>3 DEF Entities
  <1> QED
    BY <1>1, <1>4 DEF Removed

LEMMA PatchedType ==
  ASSUME NEW base \in Entities, NEW changed \in Entities, NEW removed
  PROVE  Patched(base, changed, removed) \in Entities
  <1>1. DOMAIN base \subseteq Entity /\ base \in [DOMAIN base -> Value]
        /\ DOMAIN changed \subseteq Entity /\ changed \in [DOMAIN changed -> Value]
    BY EntitiesAre
  <1> DEFINE d == (DOMAIN base \ removed) \cup DOMAIN changed
  <1>2. d \subseteq Entity /\ \A e \in d : (IF e \in DOMAIN changed THEN changed[e] ELSE base[e]) \in Value
    BY <1>1
  <1>3. Patched(base, changed, removed) = [e \in d |-> IF e \in DOMAIN changed THEN changed[e] ELSE base[e]]
    BY DEF Patched
  <1> HIDE DEF d
  <1>4. Patched(base, changed, removed) \in [d -> Value]
    BY <1>2, <1>3
  <1> QED
    BY <1>2, <1>4 DEF Entities

\* What the client makes of a difference is what the server saw.
LEMMA PatchedDifference ==
  ASSUME NEW base \in Entities, NEW now \in Entities
  PROVE  Patched(base, Changed(base, now), Removed(base, now)) = now
  <1> DEFINE different == {e \in DOMAIN now : e \notin DOMAIN base \/ base[e] # now[e]}
             changed == Changed(base, now)
             d == (DOMAIN base \ Removed(base, now)) \cup DOMAIN changed
  <1>1. now = [e \in DOMAIN now |-> now[e]]
    BY EntitiesAre
  <1>2. DOMAIN changed = different /\ \A e \in different : changed[e] = now[e]
    BY DEF Changed
  <1>3. Patched(base, changed, Removed(base, now)) = [e \in d |-> IF e \in DOMAIN changed THEN changed[e] ELSE base[e]]
    BY DEF Patched
  <1> HIDE DEF changed
  <1>4. d = DOMAIN now
    BY <1>2 DEF Removed
  <1>5. \A e \in DOMAIN now : (IF e \in DOMAIN changed THEN changed[e] ELSE base[e]) = now[e]
    BY <1>2
  <1>6. Patched(base, changed, Removed(base, now)) = [e \in DOMAIN now |-> now[e]]
    BY <1>3, <1>4, <1>5
  <1> QED
    BY <1>1, <1>6 DEF changed

LEMMA EntryOfIs ==
  ASSUME NEW entries \in Seq(Entry), NEW id, Recorded(entries, id)
  PROVE  \E k \in 1..Len(entries) : /\ entries[k].id = id
                                    /\ EntryOf(entries, id) = entries[k].entities
                                    /\ entries[k].entities \in Entities
  <1>1. \E k \in DOMAIN entries : entries[k].id = id
    BY DEF Recorded
  <1> DEFINE k == CHOOSE j \in DOMAIN entries : entries[j].id = id
  <1>2. k \in DOMAIN entries /\ entries[k].id = id
    BY <1>1
  <1>3. EntryOf(entries, id) = entries[k].entities
    BY DEF EntryOf
  <1> HIDE DEF k
  <1>4. k \in 1..Len(entries) /\ entries[k] \in Entry
    BY <1>2
  <1> QED
    BY <1>2, <1>3, <1>4 DEF Entry

LEMMA KeptIs ==
  ASSUME NEW entries \in Seq(Entry), Len(entries) <= Limit + 1
  PROVE  /\ Kept(entries) \in Seq(Entry) /\ Len(Kept(entries)) <= Limit
         /\ ClientKept(entries) = Kept(entries)
         /\ \E n \in 1..(Len(entries) + 1) : Kept(entries) = SubSeq(entries, n, Len(entries))
  <1>1. Limit \in Nat /\ Limit >= 1 /\ Len(entries) \in Nat
    BY LimitAssumption
  <1>2. CASE Len(entries) > Limit
    <2>1. entries # <<>> /\ Kept(entries) = Tail(entries)
      BY <1>1, <1>2 DEF Kept
    <2>2. Tail(entries) = SubSeq(entries, 2, Len(entries))
      BY <2>1, TailIsSubSeq
    <2>3. 2 \in 1..(Len(entries) + 1)
      BY <1>1, <1>2
    <2>4. Tail(entries) \in Seq(Entry) /\ Len(Tail(entries)) = Len(entries) - 1
      BY <2>1
    <2>5. Len(Kept(entries)) <= Limit
      BY <2>1, <2>4, <1>1
    <2> QED
      BY <2>1, <2>2, <2>3, <2>4, <2>5, <1>2 DEF ClientKept
  <1>3. CASE ~(Len(entries) > Limit)
    <2>1. entries = SubSeq(entries, 1, Len(entries))
      OBVIOUS
    <2>2. 1 \in 1..(Len(entries) + 1)
      BY <1>1
    <2> QED
      BY <2>1, <2>2, <1>1, <1>3 DEF Kept, ClientKept
  <1> QED
    BY <1>2, <1>3

\* What is sent for a tick: all of the scene, or what differs from an entry.
LEMMA PreparedIs ==
  ASSUME TypeOK, NEW packet \in Prepared
  PROVE  /\ packet \in Snapshots /\ packet \in Packets /\ IsSnapshot(packet)
         /\ packet.id = snapshotId /\ packet.scene = world
         /\ \/ packet.base = FullBase /\ packet.changed = packet.scene.entities
            \/ /\ packet.base # FullBase /\ packet.base = acked
               /\ \E k \in 1..Len(history) :
                    /\ history[k].id = packet.base
                    /\ Patched(history[k].entities, packet.changed, packet.removed) = packet.scene.entities
  <1>1. world \in Scene /\ world.entities \in Entities /\ snapshotId \in Id /\ history \in Seq(Entry) /\ acked \in Id \cup {None}
    BY DEF TypeOK, Scene
  <1>2. CASE packet = FullSnapshot
    <2>1. packet \in Snapshots
      BY <1>1, <1>2 DEF FullSnapshot, Snapshots
    <2>2. packet \in Packets
      BY <2>1 DEF Packets
    <2> QED
      BY <1>2, <2>1, <2>2 DEF FullSnapshot, IsSnapshot
  <1>3. CASE acked # None /\ Recorded(history, acked) /\ packet = DeltaSnapshot
    <2>1. PICK k \in 1..Len(history) : /\ history[k].id = acked
                                       /\ EntryOf(history, acked) = history[k].entities
                                       /\ history[k].entities \in Entities
      BY <1>1, <1>3, EntryOfIs
    <2> DEFINE base == history[k].entities
    <2>2. packet = [type |-> "snapshot", id |-> snapshotId, base |-> acked, scene |-> world,
                    changed |-> Changed(base, world.entities), removed |-> Removed(base, world.entities)]
      BY <1>3, <2>1 DEF DeltaSnapshot
    <2>3. base \in Entities
      BY <2>1
    <2> HIDE DEF base
    <2>4. Changed(base, world.entities) \in Entities /\ Removed(base, world.entities) \in SUBSET Entity
      BY <1>1, <2>3, DifferenceType
    <2>5. acked \in Id /\ acked # FullBase
      BY <1>1, <1>3, IdsApart
    <2>6. packet \in Snapshots
      BY <1>1, <2>2, <2>4, <2>5 DEF Snapshots
    <2>7. packet \in Packets
      BY <2>6 DEF Packets
    <2>8. Patched(base, packet.changed, packet.removed) = packet.scene.entities
      BY <1>1, <2>2, <2>3, PatchedDifference
    <2> QED
      BY <2>1, <2>2, <2>5, <2>6, <2>7, <2>8 DEF IsSnapshot, base
  <1>4. packet = FullSnapshot \/ (acked # None /\ Recorded(history, acked) /\ packet = DeltaSnapshot)
    BY DEF Prepared
  <1> QED
    BY <1>2, <1>3, <1>4

-----------------------------------------------------------------------------
(* Queues.                                                                   *)

\* What the kernel takes stays in the stream.
LEMMA Taken ==
  ASSUME NEW n \in Seq(Packets), NEW p \in Seq(Packets), NEW k \in 0..Len(p)
  PROVE  /\ SubSeq(p, 1, k) \in Seq(Packets) /\ Len(SubSeq(p, 1, k)) = k
         /\ SubSeq(p, k + 1, Len(p)) \in Seq(Packets) /\ Len(SubSeq(p, k + 1, Len(p))) = Len(p) - k
         /\ n \o SubSeq(p, 1, k) \in Seq(Packets) /\ Len(n \o SubSeq(p, 1, k)) = Len(n) + k
         /\ (n \o SubSeq(p, 1, k)) \o SubSeq(p, k + 1, Len(p)) = n \o p
         /\ k # 0 => IsPrefix(Append(n, Head(p)), n \o SubSeq(p, 1, k))
         /\ k = 0 => SubSeq(p, k + 1, Len(p)) = p
  <1> DEFINE a == SubSeq(p, 1, k)
             b == SubSeq(p, k + 1, Len(p))
  <1>1. /\ a \in Seq(Packets) /\ Len(a) = k /\ Len(p) \in Nat /\ k \in Nat
        /\ \A i \in 1..k : a[i] = p[i] /\ i \in 1..Len(p)
    OBVIOUS
  <1>2. /\ b \in Seq(Packets) /\ Len(b) = Len(p) - k
        /\ \A i \in 1..(Len(p) - k) : b[i] = p[k + i] /\ k + i \in 1..Len(p)
    OBVIOUS
  <1> HIDE DEF a, b
  <1>3. n \o a \in Seq(Packets) /\ Len(n \o a) = Len(n) + k
    <2>1. n \in Seq(Packets) /\ a \in Seq(Packets) /\ Len(a) = k
      BY <1>1
    <2> QED
      BY ONLY <2>1, ConcatProperties
  <1>4. (n \o a) \o b = n \o (a \o b)
    <2>1. n \in Seq(Packets) /\ a \in Seq(Packets) /\ b \in Seq(Packets)
      BY <1>1, <1>2
    <2> QED
      BY ONLY <2>1, ConcatAssociative
  <1>5. a \o b = p
    <2>1. a \o b \in Seq(Packets) /\ Len(a \o b) = Len(p) /\ p \in Seq(Packets)
      BY <1>1, <1>2
    <2>2. ASSUME NEW i \in 1..Len(a \o b) PROVE (a \o b)[i] = p[i]
      <3>1. CASE i \in 1..k
        BY <3>1, <1>1, <1>2
      <3>2. CASE i \notin 1..k
        <4>1. i - k \in 1..(Len(p) - k) /\ k + (i - k) = i
          BY <3>2, <2>1, <1>1
        <4>2. (a \o b)[i] = b[i - k]
          BY <3>2, <4>1, <1>1, <1>2
        <4>3. b[i - k] = p[k + (i - k)]
          BY <4>1, <1>2
        <4> QED
          BY <4>1, <4>2, <4>3
      <3> QED
        BY <3>1, <3>2
    <2> QED
      BY ONLY <2>1, <2>2, SeqEqual
  <1>6. ASSUME k # 0 PROVE IsPrefix(Append(n, Head(p)), n \o a)
    <2> DEFINE x == Append(n, Head(p))
               y == n \o a
    <2>1. p # <<>> /\ Head(p) \in Packets /\ a[1] = Head(p) /\ k >= 1
      BY <1>1, <1>6
    <2>2. /\ x \in Seq(Packets) /\ Len(x) = Len(n) + 1 /\ Len(n) \in Nat
          /\ \A i \in 1..Len(n) : x[i] = n[i]
          /\ x[Len(n) + 1] = Head(p)
      BY <2>1
    <2>3. /\ y \in Seq(Packets) /\ Len(y) = Len(n) + k
          /\ \A i \in 1..Len(n) : y[i] = n[i]
          /\ y[Len(n) + 1] = a[1]
      BY <2>1, <1>1
    <2> HIDE DEF x, y
    <2>4. Len(x) <= Len(y)
      BY <2>1, <2>2, <2>3, <1>1
    <2>5. ASSUME NEW i \in 1..Len(x) PROVE x[i] = y[i]
      <3>1. CASE i = Len(n) + 1
        BY <3>1, <2>1, <2>2, <2>3
      <3>2. CASE i # Len(n) + 1
        <4>1. i \in 1..Len(n)
          BY <3>2, <2>2
        <4> QED
          BY <4>1, <2>2, <2>3
      <3> QED
        BY <3>1, <3>2
    <2>6. SubSeq(x, 1, Len(x)) = SubSeq(y, 1, Len(x))
      BY <2>2, <2>3, <2>4, <2>5
    <2> QED
      BY <2>4, <2>6 DEF IsPrefix, x, y
  <1>7. k = 0 => b = p
    <2>1. SubSeq(p, 1, Len(p)) = p
      OBVIOUS
    <2> QED
      BY <2>1 DEF b
  <1> QED
    BY <1>1, <1>2, <1>3, <1>4, <1>5, <1>6, <1>7 DEF a, b

LEMMA FlushedIs ==
  ASSUME TypeOK, NEW packets \in Seq(Packets), NEW begun \in BOOLEAN, Flushed(packets, begun)
  PROVE  /\ net' \in Seq(Packets) /\ Len(net') <= NetLimit
         /\ buffer' \in Seq(Packets) /\ Len(buffer') <= Len(packets)
         /\ partial' \in BOOLEAN /\ (partial' => buffer' # <<>>)
         /\ net' \o buffer' = net \o packets
         /\ begun /\ packets # <<>> =>
              \/ IsPrefix(Append(net, Head(packets)), net')
              \/ buffer' # <<>> /\ Head(buffer') = Head(packets)
  <1>1. PICK k \in 0..Len(packets) :
          /\ Len(net) + k <= NetLimit
          /\ net' = net \o SubSeq(packets, 1, k)
          /\ buffer' = SubSeq(packets, k + 1, Len(packets))
          /\ partial' \in {p \in BOOLEAN : /\ p => buffer' # <<>>
                                           /\ begun /\ k = 0 => p}
    BY DEF Flushed
  <1>2. net \in Seq(Packets)
    BY DEF TypeOK
  <1>3. /\ SubSeq(packets, k + 1, Len(packets)) \in Seq(Packets)
        /\ Len(SubSeq(packets, k + 1, Len(packets))) = Len(packets) - k
        /\ net \o SubSeq(packets, 1, k) \in Seq(Packets) /\ Len(net \o SubSeq(packets, 1, k)) = Len(net) + k
        /\ (net \o SubSeq(packets, 1, k)) \o SubSeq(packets, k + 1, Len(packets)) = net \o packets
        /\ k # 0 => IsPrefix(Append(net, Head(packets)), net \o SubSeq(packets, 1, k))
        /\ k = 0 => SubSeq(packets, k + 1, Len(packets)) = packets
    BY <1>2, Taken
  <1>4. Len(packets) \in Nat /\ k \in Nat
    OBVIOUS
  <1>5. Len(buffer') <= Len(packets)
    BY <1>1, <1>3, <1>4
  <1>6. partial' \in BOOLEAN /\ (partial' => buffer' # <<>>)
    BY <1>1
  <1> QED
    BY <1>1, <1>3, <1>5, <1>6

\* What a scene baseline does to the buffer.
LEMMA BaselineIs ==
  ASSUME NEW kind \in {"state", "full"}, NEW where \in Place,
         NEW packets \in Seq(Packets), Len(packets) <= BufferLimit, NEW begun \in BOOLEAN,
         connected' \in BOOLEAN, pending \in {"none", "state", "full"}, Baseline(kind, where, packets, begun)
  PROVE  \E kept, first :
           /\ kept = WithoutSnapshots(packets, begun)
           /\ first \in Packets /\ ~IsSnapshot(first)
           /\ buffer' \in Seq(Packets) /\ Len(buffer') <= BufferLimit
           /\ Welcome(first) => first.place = where
           /\ (pending = "full" \/ kind = "full") <=> Welcome(first)
           /\ \/ /\ connected' /\ buffer' = Append(kept, first)
                 /\ pending' = "none" /\ history' = <<>> /\ acked' = None
              \/ /\ connected' /\ buffer' = kept
                 /\ pending' = (IF pending = "full" THEN "full" ELSE kind)
                 /\ history' = history /\ acked' = acked
              \/ /\ ~connected' /\ buffer' = packets
                 /\ pending' = (IF pending = "full" THEN "full" ELSE kind)
                 /\ history' = history /\ acked' = acked
  <1> DEFINE needed == IF pending = "full" THEN "full" ELSE kind
             kept == WithoutSnapshots(packets, begun)
             first == IF needed = "full" THEN [type |-> "welcome", place |-> where] ELSE Other
  <1>1. first \in Packets /\ ~IsSnapshot(first) /\ (Welcome(first) => first.place = where)
        /\ ((pending = "full" \/ kind = "full") <=> Welcome(first))
    <2>1. CASE needed = "full"
      <3>1. first = [type |-> "welcome", place |-> where]
        BY <2>1
      <3> HIDE DEF first
      <3>2. first \in Packets /\ first.type = "welcome" /\ first.place = where
        BY <3>1 DEF Packets
      <3> QED
        BY <2>1, <3>2 DEF IsSnapshot, Welcome
    <2>2. CASE needed # "full"
      <3>1. first = [type |-> "other"] /\ first \in [type : {"other"}] /\ first.type = "other"
        BY <2>2 DEF Other
      <3>2. first \in Packets
        BY <3>1 DEF Packets
      <3> HIDE DEF first
      <3> QED
        BY <2>2, <3>1, <3>2 DEF IsSnapshot, Welcome
    <2> QED
      BY <2>1, <2>2
  <1>2. kept \in Seq(Packets) /\ Len(kept) \in Nat /\ Len(kept) <= Len(packets)
    BY DropIs
  <1>3. Len(Append(kept, first)) = Len(kept) + 1 /\ Append(kept, first) \in Seq(Packets)
    BY <1>1, <1>2
  <1>4. IF connected' /\ Len(kept) < BufferLimit
        THEN buffer' = Append(kept, first) /\ pending' = "none" /\ history' = <<>> /\ acked' = None
        ELSE /\ buffer' = IF connected' THEN kept ELSE packets
             /\ pending' = needed /\ history' = history /\ acked' = acked
    BY DEF Baseline, ResetSnapshotState
  <1> HIDE DEF kept, first
  <1>5. buffer' \in Seq(Packets) /\ Len(buffer') <= BufferLimit
    <2>1. CASE connected' /\ Len(kept) < BufferLimit
      BY <2>1, <1>2, <1>3, <1>4, LimitAssumption
    <2>2. CASE connected' /\ ~(Len(kept) < BufferLimit)
      <3>1. buffer' = kept
        BY <2>2, <1>4
      <3>2. Len(packets) \in Nat
        OBVIOUS
      <3> QED
        BY <3>1, <3>2, <1>2, LimitAssumption
    <2>3. CASE ~connected'
      <3>1. buffer' = packets
        BY <2>3, <1>4
      <3> QED
        BY <3>1
    <2> QED
      BY <2>1, <2>2, <2>3
  <1> QED
    BY <1>1, <1>4, <1>5 DEF kept

LEMMA BaselineType ==
  ASSUME TypeOK, NEW kind \in {"state", "full"}, NEW where \in Place,
         NEW packets \in Seq(Packets), Len(packets) <= BufferLimit, NEW begun \in BOOLEAN, begun => packets # <<>>,
         connected' \in BOOLEAN, Baseline(kind, where, packets, begun)
  PROVE  /\ pending' \in {"none", "state", "full"} /\ acked' \in Id \cup {None}
         /\ history' \in Seq(Entry) /\ Len(history') <= Limit
         /\ buffer' \in Seq(Packets) /\ Len(buffer') <= BufferLimit
         /\ begun => buffer' # <<>> /\ Head(buffer') = Head(packets)
  <1>1. pending \in {"none", "state", "full"} /\ acked \in Id \cup {None} /\ history \in Seq(Entry) /\ Len(history) <= Limit
    BY DEF TypeOK
  <1>2. PICK kept, first :
           /\ kept = WithoutSnapshots(packets, begun)
           /\ first \in Packets /\ ~IsSnapshot(first)
           /\ buffer' \in Seq(Packets) /\ Len(buffer') <= BufferLimit
           /\ Welcome(first) => first.place = where
           /\ (pending = "full" \/ kind = "full") <=> Welcome(first)
           /\ \/ /\ connected' /\ buffer' = Append(kept, first)
                 /\ pending' = "none" /\ history' = <<>> /\ acked' = None
              \/ /\ connected' /\ buffer' = kept
                 /\ pending' = (IF pending = "full" THEN "full" ELSE kind)
                 /\ history' = history /\ acked' = acked
              \/ /\ ~connected' /\ buffer' = packets
                 /\ pending' = (IF pending = "full" THEN "full" ELSE kind)
                 /\ history' = history /\ acked' = acked
    BY <1>1, BaselineIs
  <1>3. kept \in Seq(Packets) /\ (begun /\ packets # <<>> => kept # <<>> /\ kept[1] = packets[1])
    <2>1. kept = WithoutSnapshots(packets, begun)
      BY <1>2
    <2> QED
      BY <2>1, DropIs
  <1>4. <<>> \in Seq(Entry) /\ Len(<<>>) <= Limit
    BY LimitAssumption
  <1>5. begun => buffer' # <<>> /\ Head(buffer') = Head(packets)
    <2> SUFFICES ASSUME begun PROVE buffer' # <<>> /\ Head(buffer') = Head(packets)
      OBVIOUS
    <2>1. packets # <<>> /\ kept # <<>> /\ Head(kept) = Head(packets) /\ kept \in Seq(Packets) /\ first \in Packets
      <3>1. packets # <<>> /\ kept # <<>> /\ kept[1] = packets[1] /\ kept \in Seq(Packets)
        BY <1>3
      <3>2. first \in Packets
        BY <1>2
      <3>3. Head(kept) = kept[1] /\ Head(packets) = packets[1]
        BY <3>1
      <3> QED
        BY <3>1, <3>2, <3>3
    <2>2. Append(kept, first) # <<>> /\ Head(Append(kept, first)) = Head(kept)
      BY <2>1
    <2> QED
      BY <2>1, <2>2, <1>2
  <1>6. pending' \in {"none", "state", "full"}
    BY <1>1, <1>2
  <1>7. history' \in Seq(Entry) /\ Len(history') <= Limit /\ acked' \in Id \cup {None}
    <2>1. (history' = <<>> /\ acked' = None) \/ (history' = history /\ acked' = acked)
      BY <1>2
    <2> QED
      BY <2>1, <1>1, <1>4
  <1> QED
    BY <1>2, <1>5, <1>6, <1>7

-----------------------------------------------------------------------------
(* Types.                                                                    *)

LEMMA InitType == Init => TypeOK
  <1> SUFFICES ASSUME Init PROVE TypeOK
    OBVIOUS
  <1>1. Empty \in Entities
    <2>1. Empty \in [{} -> Value]
      BY DEF Empty
    <2> QED
      BY <2>1 DEF Entities
  <1>2. <<>> \in Seq(Entry) /\ <<>> \in Seq(Packets) /\ <<>> \in Seq(Id \cup {FullBase}) /\ Len(<<>>) = 0
    OBVIOUS
  <1>3. view \in [place : Place \cup {None}, entities : Entities]
    BY <1>1 DEF Init
  <1>4. 0 <= Limit /\ 0 <= BufferLimit /\ 0 <= NetLimit
    BY LimitAssumption
  <1>5. /\ history \in Seq(Entry) /\ Len(history) <= Limit
        /\ clientHistory \in Seq(Entry) /\ Len(clientHistory) <= Limit
        /\ buffer \in Seq(Packets) /\ Len(buffer) <= BufferLimit
        /\ net \in Seq(Packets) /\ Len(net) <= NetLimit
        /\ acks \in Seq(Id \cup {FullBase})
    BY <1>2, <1>4 DEF Init
  <1> QED
    BY <1>3, <1>5 DEF Init, TypeOK

LEMMA SendType ==
  ASSUME TypeOK, SendSnapshots
  PROVE  TypeOK'
  <1>1. /\ UNCHANGED <<world, pending, connected, acks, client>> /\ snapshotId' = NextId(snapshotId)
    BY DEF SendSnapshots
  <1>2. snapshotId' \in Id
    BY <1>1, NextIdType DEF TypeOK
  <1>3. /\ buffer \in Seq(Packets) /\ Len(buffer) <= BufferLimit /\ partial \in BOOLEAN
        /\ history \in Seq(Entry) /\ Len(history) <= Limit /\ acked \in Id \cup {None}
        /\ world.entities \in Entities /\ snapshotId \in Id /\ Len(history) \in Nat /\ Len(buffer) \in Nat
    BY DEF TypeOK, Scene
  <1> DEFINE kept == WithoutSnapshots(buffer, partial)
  <1>4. kept \in Seq(Packets) /\ Len(kept) <= Len(buffer) /\ Len(kept) \in Nat
    BY <1>3, DropIs
  <1> HIDE DEF kept
  <1>5. TickSend \/ TickOnly \/ TickBacklog
    BY DEF SendSnapshots
  <1>6. /\ net' \in Seq(Packets) /\ Len(net') <= NetLimit
        /\ buffer' \in Seq(Packets) /\ Len(buffer') <= BufferLimit
        /\ partial' \in BOOLEAN /\ (partial' => buffer' # <<>>)
    <2>1. CASE TickOnly
      BY <2>1 DEF TickOnly, TypeOK
    <2>2. CASE TickBacklog
      <3>1. Flushed(kept, partial)
        BY <2>2 DEF TickBacklog, kept
      <3>2. /\ net' \in Seq(Packets) /\ Len(net') <= NetLimit
            /\ buffer' \in Seq(Packets) /\ Len(buffer') <= Len(kept)
            /\ partial' \in BOOLEAN /\ (partial' => buffer' # <<>>)
        BY <1>3, <1>4, <3>1, FlushedIs
      <3>3. Len(buffer') \in Nat
        BY <3>2
      <3> QED
        BY <3>2, <3>3, <1>3, <1>4, LimitAssumption
    <2>3. CASE TickSend
      <3>1. PICK packet \in Prepared :
              IF Len(kept) < BufferLimit THEN RecordSent /\ Flushed(Append(kept, packet), partial)
              ELSE Flushed(kept, partial)
        BY <2>3 DEF TickSend, kept
      <3>2. packet \in Packets
        BY PreparedIs
      <3>3. Append(kept, packet) \in Seq(Packets) /\ Len(Append(kept, packet)) = Len(kept) + 1
        BY <3>2, <1>4
      <3>4. PICK packets \in Seq(Packets) : Flushed(packets, partial) /\ Len(packets) <= BufferLimit
        <4>1. CASE Len(kept) < BufferLimit
          <5>1. Len(Append(kept, packet)) <= BufferLimit
            BY <4>1, <3>3, <1>4, LimitAssumption
          <5> QED
            BY <4>1, <5>1, <3>1, <3>3
        <4>2. CASE ~(Len(kept) < BufferLimit)
          <5>1. Len(kept) <= BufferLimit
            BY <1>3, <1>4, LimitAssumption
          <5> QED
            BY <4>2, <5>1, <3>1, <1>4
        <4> QED
          BY <4>1, <4>2
      <3>5. /\ net' \in Seq(Packets) /\ Len(net') <= NetLimit
            /\ buffer' \in Seq(Packets) /\ Len(buffer') <= Len(packets)
            /\ partial' \in BOOLEAN /\ (partial' => buffer' # <<>>)
        BY <1>3, <3>4, FlushedIs
      <3>6. Len(buffer') \in Nat /\ Len(packets) \in Nat
        BY <3>5
      <3> QED
        BY <3>4, <3>5, <3>6, LimitAssumption
    <2> QED
      BY <2>1, <2>2, <2>3, <1>5
  <1>7. history' \in Seq(Entry) /\ Len(history') <= Limit /\ acked' \in Id \cup {None}
    <2>1. CASE UNCHANGED history /\ (acked' = acked \/ acked' = None)
      BY <2>1, <1>3
    <2>2. CASE RecordSent
      <3> DEFINE e == [id |-> snapshotId, entities |-> world.entities]
      <3>1. e \in Entry
        BY <1>3 DEF Entry
      <3>2. history' = Kept(Append(history, e)) /\ (acked' = acked \/ acked' = None)
        BY <2>2 DEF RecordSent
      <3> HIDE DEF e
      <3>3. Append(history, e) \in Seq(Entry) /\ Len(Append(history, e)) <= Limit + 1
        BY <3>1, <1>3, LimitAssumption
      <3> QED
        BY <3>2, <3>3, <1>3, KeptIs
    <2>3. RecordSent \/ (UNCHANGED history /\ (acked' = acked \/ acked' = None))
      BY <1>5 DEF TickOnly, TickBacklog, TickSend
    <2> QED
      BY <2>1, <2>2, <2>3
  <1> QED
    BY <1>1, <1>2, <1>6, <1>7 DEF TypeOK, client

LEMMA ServerType ==
  ASSUME TypeOK, ServerNext
  PROVE  TypeOK'
  <1>0. /\ buffer \in Seq(Packets) /\ Len(buffer) <= BufferLimit /\ partial \in BOOLEAN /\ (partial => buffer # <<>>)
        /\ net \in Seq(Packets) /\ Len(net) <= NetLimit /\ Len(net) \in Nat
        /\ history \in Seq(Entry) /\ Len(history) <= Limit /\ acked \in Id \cup {None} /\ Len(history) \in Nat
        /\ acks \in Seq(Id \cup {FullBase}) /\ world \in Scene /\ world.place \in Place /\ connected \in BOOLEAN
        /\ pending \in {"none", "state", "full"} /\ Len(buffer) \in Nat
    BY DEF TypeOK, Scene
  <1>1. CASE SendSnapshots
    BY <1>1, SendType
  <1>2. CASE Flush
    <2>1. Flushed(buffer, partial) /\ UNCHANGED <<world, snapshotId, pending, acked, history, connected, acks, client>>
      BY <1>2 DEF Flush
    <2>2. /\ net' \in Seq(Packets) /\ Len(net') <= NetLimit
          /\ buffer' \in Seq(Packets) /\ Len(buffer') <= Len(buffer)
          /\ partial' \in BOOLEAN /\ (partial' => buffer' # <<>>)
      BY <1>0, <2>1, FlushedIs
    <2>3. Len(buffer') <= BufferLimit
      <3>1. Len(buffer') \in Nat
        BY <2>2
      <3> QED
        BY <2>2, <3>1, <1>0, LimitAssumption
    <2> QED
      BY <2>1, <2>2, <2>3 DEF TypeOK, client
  <1>3. CASE HandleSnapshotAck
    <2>1. acks' = Tail(acks) /\ acks # <<>> /\ UNCHANGED <<world, snapshotId, pending, buffer, partial, connected, net, client>>
      BY <1>3 DEF HandleSnapshotAck
    <2>2. acks' \in Seq(Id \cup {FullBase}) /\ Head(acks) \in Id \cup {FullBase}
      BY <1>0, <2>1
    <2> DEFINE id == Head(acks)
    <2>3. \/ id = FullBase /\ ResetSnapshotState
          \/ UNCHANGED <<acked, history>>
          \/ id # FullBase /\ KnownAck(id)
      BY <1>3 DEF HandleSnapshotAck
    <2> HIDE DEF id
    <2>4. acked' \in Id \cup {None} /\ history' \in Seq(Entry) /\ Len(history') <= Limit
      <3>1. CASE ResetSnapshotState
        BY <3>1, LimitAssumption DEF ResetSnapshotState
      <3>2. CASE UNCHANGED <<acked, history>>
        BY <3>2, <1>0
      <3>3. CASE id # FullBase /\ KnownAck(id)
        <4>1. CASE Recorded(history, id)
          <5> DEFINE k == CHOOSE j \in DOMAIN history : history[j].id = id
          <5>1. k \in DOMAIN history
            BY <4>1 DEF Recorded
          <5>2. acked' = id /\ history' = SubSeq(history, k, Len(history))
            BY <3>3, <4>1 DEF KnownAck
          <5> HIDE DEF k
          <5>3. k \in 1..(Len(history) + 1)
            BY <5>1, <1>0
          <5>4. SubSeq(history, k, Len(history)) \in Seq(Entry) /\ Len(SubSeq(history, k, Len(history))) <= Len(history)
            BY <5>3, <1>0, OrderOfSuffix
          <5>5. Len(history') \in Nat
            BY <5>2, <5>4
          <5> QED
            BY <5>2, <5>4, <5>5, <3>3, <2>2, <1>0, LimitAssumption DEF id
        <4>2. CASE ~Recorded(history, id)
          BY <4>2, <3>3, <1>0 DEF KnownAck
        <4> QED
          BY <4>1, <4>2
      <3> QED
        BY <3>1, <3>2, <3>3, <2>3
    <2> QED
      BY <2>1, <2>2, <2>4 DEF TypeOK, client
  <1>4. CASE RetryPendingSceneSyncs
    <2>1. /\ pending \in {"state", "full"} /\ UNCHANGED <<world, snapshotId, acks, client>>
      BY <1>0, <1>4 DEF RetryPendingSceneSyncs
    <2>2. PICK k \in 0..Len(buffer) :
            /\ Len(net) + k <= NetLimit
            /\ net' = net \o SubSeq(buffer, 1, k)
            /\ partial' \in {p \in BOOLEAN : (p => SubSeq(buffer, k + 1, Len(buffer)) # <<>>) /\ (partial /\ k = 0 => p)}
            /\ UNCHANGED connected
            /\ Baseline(pending, world.place, SubSeq(buffer, k + 1, Len(buffer)), partial')
      BY <1>4 DEF RetryPendingSceneSyncs
    <2> DEFINE left == SubSeq(buffer, k + 1, Len(buffer))
    <2>3. /\ left \in Seq(Packets) /\ Len(left) = Len(buffer) - k
          /\ net \o SubSeq(buffer, 1, k) \in Seq(Packets) /\ Len(net \o SubSeq(buffer, 1, k)) = Len(net) + k
      BY <1>0, Taken
    <2>4. Baseline(pending, world.place, left, partial') /\ partial' \in BOOLEAN /\ (partial' => left # <<>>) /\ connected' \in BOOLEAN
      BY <2>2, <1>0
    <2> HIDE DEF left
    <2>5. Len(left) <= BufferLimit
      BY <2>3, <1>0, LimitAssumption
    <2>6. /\ pending' \in {"none", "state", "full"} /\ acked' \in Id \cup {None}
          /\ history' \in Seq(Entry) /\ Len(history') <= Limit
          /\ buffer' \in Seq(Packets) /\ Len(buffer') <= BufferLimit
          /\ partial' => buffer' # <<>> /\ Head(buffer') = Head(left)
      <3>1. pending \in {"state", "full"} /\ world.place \in Place
        BY <2>1, <1>0
      <3> QED
        BY <2>3, <2>4, <2>5, <3>1, BaselineType
    <2>7. net' \in Seq(Packets) /\ Len(net') <= NetLimit
      BY <2>2, <2>3
    <2> QED
      BY <2>1, <2>4, <2>6, <2>7 DEF TypeOK, client
  <1>5. CASE QueueOther
    <2>1. /\ buffer' = Append(buffer, Other) /\ Len(buffer) < BufferLimit
          /\ UNCHANGED <<world, snapshotId, pending, acked, history, partial, connected, net, acks, client>>
      BY <1>5 DEF QueueOther
    <2>2. Other \in Packets
      BY DEF Other, Packets
    <2>3. buffer' \in Seq(Packets) /\ Len(buffer') = Len(buffer) + 1 /\ buffer' # <<>>
      BY <2>1, <2>2, <1>0
    <2>4. Len(buffer') <= BufferLimit
      BY <2>1, <2>3, <1>0, LimitAssumption
    <2> QED
      BY <2>1, <2>3, <2>4 DEF TypeOK, client
  <1>6. CASE Change
    <2>1. PICK entities \in Entities : world' = [world EXCEPT !.entities = entities]
      BY <1>6 DEF Change
    <2>2. world' \in Scene
      BY <2>1, <1>0 DEF Scene
    <2>3. UNCHANGED <<server, net, acks, client>>
      BY <1>6 DEF Change
    <2> QED
      BY <2>2, <2>3 DEF TypeOK, client, server
  <1>7. CASE EnterWorld
    <2>1. /\ world' \in Scene /\ UNCHANGED <<connected, partial>> /\ Baseline("full", world'.place, buffer, partial)
          /\ UNCHANGED <<snapshotId, net, acks, client>>
      BY <1>7 DEF EnterWorld
    <2>2. world'.place \in Place /\ connected' \in BOOLEAN
      BY <2>1, <1>0 DEF Scene
    <2>3. /\ pending' \in {"none", "state", "full"} /\ acked' \in Id \cup {None}
          /\ history' \in Seq(Entry) /\ Len(history') <= Limit
          /\ buffer' \in Seq(Packets) /\ Len(buffer') <= BufferLimit
          /\ partial => buffer' # <<>> /\ Head(buffer') = Head(buffer)
      BY <2>1, <2>2, <1>0, BaselineType
    <2> QED
      BY <2>1, <2>3 DEF TypeOK, client
  <1>8. CASE RulesChange
    <2>1. /\ UNCHANGED <<connected, partial>> /\ Baseline("state", world.place, buffer, partial)
          /\ UNCHANGED <<world, snapshotId, net, acks, client>>
      BY <1>8 DEF RulesChange
    <2>2. connected' \in BOOLEAN
      BY <2>1, <1>0
    <2>3. /\ pending' \in {"none", "state", "full"} /\ acked' \in Id \cup {None}
          /\ history' \in Seq(Entry) /\ Len(history') <= Limit
          /\ buffer' \in Seq(Packets) /\ Len(buffer') <= BufferLimit
          /\ partial => buffer' # <<>> /\ Head(buffer') = Head(buffer)
      BY <2>1, <2>2, <1>0, BaselineType
    <2> QED
      BY <2>1, <2>3 DEF TypeOK, client
  <1>9. CASE Login
    <2>1. /\ connected' = TRUE /\ partial' = FALSE /\ Baseline("full", world.place, <<Other>>, FALSE)
          /\ UNCHANGED <<world, snapshotId, net, acks, client>>
      BY <1>9 DEF Login
    <2>2. <<Other>> \in Seq(Packets) /\ Len(<<Other>>) <= BufferLimit /\ FALSE \in BOOLEAN /\ connected' \in BOOLEAN
      <3>1. Other \in Packets
        BY DEF Other, Packets
      <3> QED
        BY <3>1, <2>1, LimitAssumption
    <2>3. /\ pending' \in {"none", "state", "full"} /\ acked' \in Id \cup {None}
          /\ history' \in Seq(Entry) /\ Len(history') <= Limit
          /\ buffer' \in Seq(Packets) /\ Len(buffer') <= BufferLimit
      BY <2>1, <2>2, <1>0, BaselineType
    <2> QED
      BY <2>1, <2>3 DEF TypeOK, client
  <1> QED
    BY <1>1, <1>2, <1>3, <1>4, <1>5, <1>6, <1>7, <1>8, <1>9 DEF ServerNext

LEMMA ResetType ==
  ASSUME NEW where \in Place \cup {None}, ResetNetworkScene(where)
  PROVE  /\ clientHistory' \in Seq(Entry) /\ Len(clientHistory') <= Limit
         /\ latest' = None /\ applied' = None
         /\ view' \in [place : Place \cup {None}, entities : Entities] /\ view'.place = where
         /\ resetRequested' \in BOOLEAN
  <1>1. Empty \in Entities
    <2>1. Empty \in [{} -> Value]
      BY DEF Empty
    <2> QED
      BY <2>1 DEF Entities
  <1>2. clientHistory' = <<>> /\ <<>> \in Seq(Entry) /\ Len(<<>>) <= Limit
    BY LimitAssumption DEF ResetNetworkScene
  <1> QED
    BY <1>1, <1>2 DEF ResetNetworkScene

LEMMA ClientType ==
  ASSUME TypeOK, ClientNext \/ LoseConnection
  PROVE  TypeOK'
  <1>0. /\ net \in Seq(Packets) /\ Len(net) <= NetLimit /\ Len(net) \in Nat
        /\ clientHistory \in Seq(Entry) /\ Len(clientHistory) <= Limit /\ Len(clientHistory) \in Nat
        /\ acks \in Seq(Id \cup {FullBase}) /\ resetRequested \in BOOLEAN
        /\ latest = None \/ latest \in [id : Id, entities : Entities, scene : Scene]
        /\ view \in [place : Place \cup {None}, entities : Entities] /\ applied \in Id \cup {None}
    BY DEF TypeOK
  <1>1. net # <<>> => Head(net) \in Packets /\ Tail(net) \in Seq(Packets) /\ Len(Tail(net)) <= NetLimit
    <2>1. net # <<>> => Head(net) \in Packets /\ Tail(net) \in Seq(Packets) /\ Len(Tail(net)) = Len(net) - 1
      BY <1>0
    <2> QED
      BY <2>1, <1>0, LimitAssumption
  <1>2. CASE ReceiveSnapshot
    <2> DEFINE packet == Head(net)
               resolved == [id |-> packet.id, entities |-> Resolved(packet), scene |-> packet.scene]
               e == [id |-> packet.id, entities |-> Resolved(packet)]
    <2>1. net # <<>> /\ IsSnapshot(packet) /\ net' = Tail(net) /\ UNCHANGED <<world, server, applied, view>>
      BY <1>2 DEF ReceiveSnapshot
    <2>2. packet \in Snapshots
      BY <2>1, <1>1, PacketTypes
    <2>3. packet.id \in Id /\ packet.scene \in Scene /\ packet.changed \in Entities
      BY <2>2 DEF Snapshots
    <2>4. CASE Resolvable(packet)
      <3>1. /\ clientHistory' = ClientKept(Append(clientHistory, e))
            /\ latest' = resolved \/ latest' = latest
            /\ resetRequested' = (resetRequested /\ packet.base # FullBase)
            /\ UNCHANGED acks
        BY <1>2, <2>4 DEF ReceiveSnapshot
      <3>2. Resolved(packet) \in Entities
        <4>1. CASE packet.base = FullBase
          BY <4>1, <2>3 DEF Resolved
        <4>2. CASE packet.base # FullBase
          <5>1. Recorded(clientHistory, packet.base)
            BY <2>4, <4>2 DEF Resolvable
          <5>2. EntryOf(clientHistory, packet.base) \in Entities
            BY <5>1, <1>0, EntryOfIs
          <5>3. Resolved(packet) = Patched(EntryOf(clientHistory, packet.base), packet.changed, packet.removed)
            BY <4>2 DEF Resolved
          <5> QED
            BY <5>2, <5>3, <2>3, PatchedType
        <4> QED
          BY <4>1, <4>2
      <3>3. e \in Entry /\ resolved \in [id : Id, entities : Entities, scene : Scene]
        BY <2>3, <3>2 DEF Entry
      <3> HIDE DEF e, resolved, packet
      <3>4. Append(clientHistory, e) \in Seq(Entry) /\ Len(Append(clientHistory, e)) <= Limit + 1
        BY <3>3, <1>0, LimitAssumption
      <3>5. clientHistory' \in Seq(Entry) /\ Len(clientHistory') <= Limit
        BY <3>1, <3>4, KeptIs
      <3>6. latest' = None \/ latest' \in [id : Id, entities : Entities, scene : Scene]
        BY <3>1, <3>3, <1>0
      <3>7. resetRequested' \in BOOLEAN /\ net' \in Seq(Packets) /\ Len(net') <= NetLimit
        BY <3>1, <2>1, <1>0, <1>1
      <3> QED
        BY <2>1, <3>1, <3>5, <3>6, <3>7 DEF TypeOK, server
    <2>5. CASE ~Resolvable(packet)
      <3>1. RequestFullSnapshot /\ UNCHANGED <<clientHistory, latest>>
        BY <1>2, <2>5 DEF ReceiveSnapshot
      <3>2. acks' \in Seq(Id \cup {FullBase}) /\ resetRequested' \in BOOLEAN
        BY <3>1, <1>0 DEF RequestFullSnapshot
      <3>3. net' \in Seq(Packets) /\ Len(net') <= NetLimit
        BY <2>1, <1>1
      <3> QED
        BY <2>1, <3>1, <3>2, <3>3 DEF TypeOK, server
    <2> QED
      BY <2>4, <2>5
  <1>3. CASE ApplySnapshotAndAck
    <2>1. latest # None /\ latest' = None /\ UNCHANGED <<world, server, net, clientHistory, resetRequested>>
      BY <1>3 DEF ApplySnapshotAndAck
    <2>2. latest.id \in Id /\ latest.entities \in Entities
      BY <2>1, <1>0
    <2>3. \/ /\ applied' = latest.id
             /\ view' = [view EXCEPT !.entities = latest.entities]
             /\ acks' = Append(acks, latest.id)
          \/ UNCHANGED <<applied, view, acks>>
      BY <1>3 DEF ApplySnapshotAndAck
    <2>4. /\ applied' \in Id \cup {None} /\ acks' \in Seq(Id \cup {FullBase})
          /\ view' \in [place : Place \cup {None}, entities : Entities]
      <3>1. CASE UNCHANGED <<applied, view, acks>>
        BY <3>1, <1>0
      <3>2. CASE /\ applied' = latest.id
                 /\ view' = [view EXCEPT !.entities = latest.entities]
                 /\ acks' = Append(acks, latest.id)
        <4>1. applied' \in Id \cup {None}
          BY <3>2, <2>2
        <4>2. acks' \in Seq(Id \cup {FullBase})
          BY <3>2, <2>2, <1>0
        <4>3. view' \in [place : Place \cup {None}, entities : Entities]
          BY <3>2, <2>2, <1>0
        <4> QED
          BY <4>1, <4>2, <4>3
      <3> QED
        BY <3>1, <3>2, <2>3
    <2> QED
      BY <2>1, <2>4 DEF TypeOK, server
  <1>4. CASE ReceiveWelcome
    <2>1. /\ net # <<>> /\ Head(net).type = "welcome" /\ ResetNetworkScene(Head(net).place)
          /\ net' = Tail(net) /\ UNCHANGED <<world, server, acks>>
      BY <1>4 DEF ReceiveWelcome
    <2>2. Head(net).place \in Place
      BY <2>1, <1>1, PacketTypes
    <2>3. /\ clientHistory' \in Seq(Entry) /\ Len(clientHistory') <= Limit
          /\ latest' = None /\ applied' = None
          /\ view' \in [place : Place \cup {None}, entities : Entities]
          /\ resetRequested' \in BOOLEAN
      BY <2>1, <2>2, ResetType
    <2> QED
      BY <2>1, <2>3, <1>1 DEF TypeOK, server
  <1>5. CASE ReceiveOther
    <2>1. net # <<>> /\ net' = Tail(net) /\ UNCHANGED <<world, server, acks, client>>
      BY <1>5 DEF ReceiveOther
    <2> QED
      BY <2>1, <1>1 DEF TypeOK, server, client
  <1>6. CASE LoseConnection
    <2>1. /\ connected' = FALSE /\ buffer' = <<>> /\ partial' = FALSE /\ net' = <<>> /\ acks' = <<>>
          /\ ResetNetworkScene(None) /\ UNCHANGED <<world, snapshotId, pending, acked, history>>
      BY <1>6 DEF LoseConnection
    <2>2. /\ clientHistory' \in Seq(Entry) /\ Len(clientHistory') <= Limit
          /\ latest' = None /\ applied' = None
          /\ view' \in [place : Place \cup {None}, entities : Entities]
          /\ resetRequested' \in BOOLEAN
      BY <2>1, ResetType
    <2>3. /\ buffer' \in Seq(Packets) /\ Len(buffer') <= BufferLimit
          /\ net' \in Seq(Packets) /\ Len(net') <= NetLimit /\ acks' \in Seq(Id \cup {FullBase})
      BY <2>1, LimitAssumption
    <2> QED
      BY <2>1, <2>2, <2>3 DEF TypeOK
  <1> QED
    BY <1>2, <1>3, <1>4, <1>5, <1>6 DEF ClientNext

LEMMA TypeStep == TypeOK /\ [Next]_vars => TypeOK'
  <1> SUFFICES ASSUME TypeOK, [Next]_vars PROVE TypeOK'
    OBVIOUS
  <1>1. CASE ServerNext
    BY <1>1, ServerType
  <1>2. CASE ClientNext \/ LoseConnection
    BY <1>2, ClientType
  <1>3. CASE UNCHANGED vars
    BY <1>3 DEF vars, server, client, TypeOK
  <1> QED
    BY <1>1, <1>2, <1>3 DEF Next

\* The variables keep their shapes: queues and histories stay within their
\* limits, and no snapshot has the id that stands for a full one.
THEOREM SyncTypeCorrect == Spec => []TypeOK
  BY InitType, TypeStep, PTL DEF Spec

-----------------------------------------------------------------------------
(* The state of a sync: what is on its way to the client, and the ids that   *)
(* the server takes, or is going to take, for ones the client has.           *)

Stream == net \o buffer

Back ==
  ToSet(acks)
  \cup (IF latest = None THEN {} ELSE {latest.id})
  \cup (IF connected /\ pending = "none" THEN {acked} \ {None} ELSE {})

NothingWithoutSocket ==
  ~connected => /\ net = <<>> /\ buffer = <<>> /\ acks = <<>> /\ clientHistory = <<>>
                /\ latest = None /\ applied = None /\ ~partial

Remembering == Good(history, Back, clientHistory, Stream)

\* The client's map is the one the next snapshot will have been captured in,
\* once it has received all that is on its way; unless a Welcome is owed to it.
Placed ==
  /\ InPlace(Stream, view.place)
  /\ connected /\ pending # "full" => PlaceAt(Stream, Len(Stream) + 1, view.place, world.place)
  /\ latest # None => latest.scene.place = view.place /\ latest.entities = latest.scene.entities

SyncInv == TypeOK /\ NothingWithoutSocket /\ Remembering /\ Placed

LEMMA StreamIs ==
  ASSUME TypeOK
  PROVE  /\ Stream \in Seq(Packets) /\ Len(Stream) = Len(net) + Len(buffer)
         /\ \A i \in 1..Len(net) : Stream[i] = net[i]
         /\ \A i \in 1..Len(buffer) : Stream[Len(net) + i] = buffer[i]
         /\ net # <<>> => /\ Stream # <<>> /\ Stream[1] = Head(net)
                          /\ Tail(Stream) = Tail(net) \o buffer
  <1>1. net \in Seq(Packets) /\ buffer \in Seq(Packets)
    BY DEF TypeOK
  <1>2. /\ Stream \in Seq(Packets) /\ Len(Stream) = Len(net) + Len(buffer)
        /\ \A i \in 1..Len(net) : Stream[i] = net[i]
        /\ \A i \in 1..Len(buffer) : Stream[Len(net) + i] = buffer[i]
    BY <1>1 DEF Stream
  <1>3. ASSUME net # <<>>
        PROVE  Stream # <<>> /\ Stream[1] = Head(net) /\ Tail(Stream) = Tail(net) \o buffer
    <2>1. /\ Len(net) \in Nat /\ Len(buffer) \in Nat /\ Len(net) >= 1
          /\ Head(net) = net[1] /\ Tail(net) \in Seq(Packets) /\ Len(Tail(net)) = Len(net) - 1
          /\ \A i \in 1..Len(Tail(net)) : Tail(net)[i] = net[i + 1]
      BY <1>1, <1>3
    <2>2. Stream # <<>> /\ Stream[1] = Head(net)
      BY <1>2, <2>1
    <2>3. Tail(Stream) \in Seq(Packets) /\ Len(Tail(Stream)) = Len(net) - 1 + Len(buffer)
          /\ \A i \in 1..Len(Tail(Stream)) : Tail(Stream)[i] = Stream[i + 1]
      BY <1>2, <2>1, <2>2
    <2> DEFINE y == Tail(net) \o buffer
    <2>4. /\ y \in Seq(Packets) /\ Len(y) = Len(net) - 1 + Len(buffer)
          /\ \A i \in 1..Len(Tail(net)) : y[i] = Tail(net)[i]
          /\ \A i \in 1..Len(buffer) : y[Len(Tail(net)) + i] = buffer[i]
      BY <1>1, <2>1
    <2> HIDE DEF y
    <2>5. ASSUME NEW i \in 1..Len(Tail(Stream)) PROVE Tail(Stream)[i] = y[i]
      <3>1. CASE i <= Len(net) - 1
        <4>1. i \in 1..Len(Tail(net)) /\ i + 1 \in 1..Len(net)
          BY <3>1, <2>1
        <4> QED
          BY <4>1, <1>2, <2>1, <2>3, <2>4
      <3>2. CASE ~(i <= Len(net) - 1)
        <4>1. /\ i + 1 - Len(net) \in 1..Len(buffer)
              /\ Len(net) + (i + 1 - Len(net)) = i + 1
              /\ Len(Tail(net)) + (i + 1 - Len(net)) = i
          BY <3>2, <2>1, <2>3
        <4>2. Stream[Len(net) + (i + 1 - Len(net))] = buffer[i + 1 - Len(net)]
          BY <4>1, <1>2
        <4>3. y[Len(Tail(net)) + (i + 1 - Len(net))] = buffer[i + 1 - Len(net)]
          BY <4>1, <2>4
        <4> QED
          BY <4>1, <4>2, <4>3, <2>3
      <3> QED
        BY <3>1, <3>2
    <2>6. Tail(Stream) \in Seq(Packets) /\ y \in Seq(Packets) /\ Len(Tail(Stream)) = Len(y)
      BY <2>3, <2>4
    <2>7. Tail(Stream) = y
      BY ONLY <2>5, <2>6, SeqEqual
    <2> QED
      BY <2>2, <2>7 DEF y
  <1> QED
    BY <1>2, <1>3

\* All ids of the invariant are among those a fresh one is compared with.
LEMMA UsedAre ==
  ASSUME TypeOK
  PROVE  /\ \A b \in Back : b \in Id => b \in IdsInUse
         /\ \A j \in 1..Len(Stream) : IsSnapshot(Stream[j]) => Stream[j].id \in IdsInUse /\ Stream[j].id \in Id
  <1> DEFINE InPackets(packets) == {packets[k].id : k \in {j \in DOMAIN packets : IsSnapshot(packets[j])}}
  <1>0. /\ IdsInUse = ({acked, applied} \cup ToSet(acks) \cup InPackets(net) \cup InPackets(buffer)
                       \cup (IF latest = None THEN {} ELSE {latest.id})) \ {None, FullBase}
        /\ net \in Seq(Packets) /\ buffer \in Seq(Packets)
    BY DEF IdsInUse, TypeOK
  <1>1. \A b \in Back : b \in Id => b \in IdsInUse
    BY <1>0, IdsApart DEF Back
  <1>2. ASSUME NEW j \in 1..Len(Stream), IsSnapshot(Stream[j])
        PROVE  Stream[j].id \in IdsInUse /\ Stream[j].id \in Id
    <2>1. Stream[j] \in Packets
      BY StreamIs
    <2>2. Stream[j].id \in Id
      BY <2>1, <1>2, PacketTypes DEF Snapshots
    <2>3. Stream[j].id \in InPackets(net) \cup InPackets(buffer)
      <3>1. CASE j \in 1..Len(net)
        <4>1. Stream[j] = net[j] /\ j \in DOMAIN net
          BY <3>1, <1>0, StreamIs
        <4> QED
          BY <4>1, <1>2
      <3>2. CASE j \notin 1..Len(net)
        <4>1. j - Len(net) \in 1..Len(buffer) /\ Len(net) + (j - Len(net)) = j
          BY <3>2, <1>0, StreamIs
        <4>2. Stream[Len(net) + (j - Len(net))] = buffer[j - Len(net)] /\ j - Len(net) \in DOMAIN buffer
          BY <4>1, <1>0, StreamIs
        <4> QED
          BY <4>1, <4>2, <1>2
      <3> QED
        BY <3>1, <3>2
    <2> HIDE DEF InPackets
    <2> QED
      BY <2>2, <2>3, <1>0, IdsApart
  <1> QED
    BY <1>1, <1>2

LEMMA GoodNothing ==
  ASSUME NEW h \in Seq(Entry), NoIdTwice(h), NEW c, NEW s, c = <<>>, s = <<>>, NEW back, back = {}
  PROVE  Good(h, back, c, s)
  <1>1. Len(c) = 0 /\ Len(s) = 0 /\ c \in Seq(Entry) /\ s \in Seq(Packets) /\ Len(Snaps(s)) = 0
    BY SnapsNone
  <1>2. Len(Line(c, s)) = 0
    <2>1. c \in Seq(Entry) /\ s \in Seq(Packets)
      BY <1>1
    <2>2. Len(Line(c, s)) = Len(c) + Len(Snaps(s))
      BY ONLY <2>1, LineIs
    <2> QED
      BY <1>1, <2>2
  <1>3. NoIdTwice(Line(c, s)) /\ InStep(Line(c, s), h)
    BY <1>2 DEF NoIdTwice, InStep
  <1>4. Bases(c, s) /\ NoBaseAfterWelcome(s) /\ Apart(h, back, c, s) /\ StillThere(h, back, c)
    BY <1>1 DEF Bases, NoBaseAfterWelcome, Apart, StillThere
  <1> QED
    BY <1>3, <1>4 DEF Good

\* The server may forget all it recorded, or its oldest, at any time.
LEMMA GoodLess ==
  ASSUME NEW h \in Seq(Entry), NEW back, NEW c \in Seq(Entry), NEW s \in Seq(Packets),
         Good(h, back, c, s), NEW less, less \subseteq back
  PROVE  Good(h, less, c, s) /\ Good(<<>>, less, c, s)
  <1>1. Len(h) \in Nat /\ 1 \in 1..(Len(h) + 1) /\ Len(h) + 1 \in 1..(Len(h) + 1)
    OBVIOUS
  <1>2. SubSeq(h, 1, Len(h)) = h /\ SubSeq(h, Len(h) + 1, Len(h)) = <<>>
    OBVIOUS
  <1>3. Good(SubSeq(h, 1, Len(h)), less, c, s)
    BY <1>1, GoodSuffix
  <1>4. Good(SubSeq(h, Len(h) + 1, Len(h)), less, c, s)
    BY <1>1, GoodSuffix
  <1> QED
    BY <1>2, <1>3, <1>4

LEMMA PlaceNothing ==
  ASSUME NEW s, s = <<>>, NEW from
  PROVE  InPlace(s, from)
  BY DEF InPlace

\* A scene baseline: what was queued but its snapshots, then what makes the
\* client forget what it has if the map may be another.
LEMMA BaselineKeeps ==
  ASSUME NEW kind \in {"state", "full"}, NEW where \in Place,
         NEW packets \in Seq(Packets), Len(packets) <= BufferLimit, NEW begun \in BOOLEAN,
         connected' \in BOOLEAN, pending \in {"none", "state", "full"},
         Baseline(kind, where, packets, begun),
         NEW n \in Seq(Packets), NEW s, s = n \o packets, NEW t, t = n \o buffer',
         history \in Seq(Entry), clientHistory \in Seq(Entry),
         Good(history, Back, clientHistory, s), InPlace(s, view.place),
         connected' /\ pending # "full" /\ kind # "full" => PlaceAt(s, Len(s) + 1, view.place, where)
  PROVE  /\ history' \in Seq(Entry) /\ t \in Seq(Packets)
         /\ Good(history', Back, clientHistory, t) /\ InPlace(t, view.place)
         /\ connected' /\ pending' # "full" => PlaceAt(t, Len(t) + 1, view.place, where)
  <1>0. PICK back, c, from : back = Back /\ c = clientHistory /\ from = view.place
    OBVIOUS
  <1>14. /\ c \in Seq(Entry) /\ Good(history, back, c, s) /\ InPlace(s, from)
         /\ connected' /\ pending # "full" /\ kind # "full" => PlaceAt(s, Len(s) + 1, from, where)
    BY <1>0
  <1>1. PICK kept, first :
           /\ kept = WithoutSnapshots(packets, begun)
           /\ first \in Packets /\ ~IsSnapshot(first)
           /\ buffer' \in Seq(Packets) /\ Len(buffer') <= BufferLimit
           /\ Welcome(first) => first.place = where
           /\ (pending = "full" \/ kind = "full") <=> Welcome(first)
           /\ \/ /\ connected' /\ buffer' = Append(kept, first)
                 /\ pending' = "none" /\ history' = <<>> /\ acked' = None
              \/ /\ connected' /\ buffer' = kept
                 /\ pending' = (IF pending = "full" THEN "full" ELSE kind)
                 /\ history' = history /\ acked' = acked
              \/ /\ ~connected' /\ buffer' = packets
                 /\ pending' = (IF pending = "full" THEN "full" ELSE kind)
                 /\ history' = history /\ acked' = acked
    BY BaselineIs
  <1>2. kept \in Seq(Packets) /\ Thinner(packets, kept)
    <2>1. kept = WithoutSnapshots(packets, begun)
      BY <1>1
    <2> QED
      BY <2>1, DropIs
  <1>3. s \in Seq(Packets) /\ n \o kept \in Seq(Packets)
    BY <1>2
  <1> DEFINE m == n \o kept
  <1>4. Thinner(s, m)
    <2>1. Thinner(n \o packets, n \o kept)
      BY <1>2, ThinnerAfter
    <2> QED
      BY <2>1
  <1>5. m \in Seq(Packets)
    BY <1>3
  <1>6. m = n \o kept
    OBVIOUS
  <1> HIDE DEF m
  <1>7. Good(history, back, c, m)
    BY <1>3, <1>4, <1>14, GoodThinner
  <1>8. InPlace(m, from) /\ (PlaceAt(s, Len(s) + 1, from, where) => PlaceAt(m, Len(m) + 1, from, where))
    BY <1>3, <1>4, <1>14, PlaceThinner
  <1>9. Good(history, back, c, m) /\ Good(<<>>, back, c, m)
    BY <1>5, <1>7, <1>14, GoodLess
  <1>10. ASSUME connected', buffer' = Append(kept, first),
                pending' = "none", history' = <<>>, acked' = None
         PROVE  /\ Good(history', back, c, t) /\ InPlace(t, from)
                /\ connected' /\ pending' # "full" => PlaceAt(t, Len(t) + 1, from, where)
    <2>1. t = Append(m, first)
      <3>1. n \o Append(kept, first) = Append(n \o kept, first)
        BY <1>1, <1>2
      <3> QED
        BY <3>1, <1>6, <1>10
    <2>2. first \in Packets /\ ~IsSnapshot(first)
      BY <1>1
    <2> DEFINE none == <<>>
    <2>3. none \in Seq(Entry) /\ Good(none, back, c, m) /\ none = <<>>
      BY <1>9
    <2> HIDE DEF none
    <2>4. Good(none, back, c, Append(m, first))
      BY <1>5, <2>2, <2>3, <1>14, GoodOther
    <2>5. Good(history', back, c, t)
      BY <2>1, <2>3, <2>4, <1>10
    <2>6. /\ InPlace(Append(m, first), from)
          /\ Welcome(first) => PlaceAt(Append(m, first), Len(Append(m, first)) + 1, from, first.place)
          /\ ~Welcome(first) => \A q : PlaceAt(m, Len(m) + 1, from, q) => PlaceAt(Append(m, first), Len(Append(m, first)) + 1, from, q)
      BY <1>5, <1>8, <2>2, PlaceAppend
    <2>7. PlaceAt(t, Len(t) + 1, from, where)
      <3>1. CASE Welcome(first)
        BY <3>1, <2>1, <2>6, <1>1
      <3>2. CASE ~Welcome(first)
        <4>1. PlaceAt(m, Len(m) + 1, from, where)
          BY <3>2, <1>1, <1>8, <1>10, <1>14
        <4> QED
          BY <4>1, <3>2, <2>1, <2>6
      <3> QED
        BY <3>1, <3>2
    <2> QED
      BY <2>1, <2>5, <2>6, <2>7
  <1>11. ASSUME connected', buffer' = kept,
                pending' = (IF pending = "full" THEN "full" ELSE kind),
                history' = history, acked' = acked
         PROVE  /\ Good(history', back, c, t) /\ InPlace(t, from)
                /\ connected' /\ pending' # "full" => PlaceAt(t, Len(t) + 1, from, where)
    <2>1. t = m
      BY <1>6, <1>11
    <2>2. pending' # "full" => PlaceAt(m, Len(m) + 1, from, where)
      BY <1>8, <1>11, <1>14
    <2> QED
      BY <2>1, <2>2, <1>8, <1>9, <1>11
  <1>12. ASSUME ~connected', buffer' = packets,
                pending' = (IF pending = "full" THEN "full" ELSE kind),
                history' = history, acked' = acked
         PROVE  /\ Good(history', back, c, t) /\ InPlace(t, from)
                /\ connected' /\ pending' # "full" => PlaceAt(t, Len(t) + 1, from, where)
    <2>1. t = s
      BY <1>12
    <2>2. Good(history, back, c, s)
      BY <1>3, <1>14, GoodLess
    <2> QED
      BY <2>1, <2>2, <1>12, <1>14
  <1>13. /\ Good(history', back, c, t) /\ InPlace(t, from)
         /\ connected' /\ pending' # "full" => PlaceAt(t, Len(t) + 1, from, where)
    BY <1>1, <1>10, <1>11, <1>12
  <1>15. history' \in Seq(Entry)
    <2>1. history \in Seq(Entry) /\ <<>> \in Seq(Entry)
      OBVIOUS
    <2> QED
      BY <1>1, <2>1
  <1>16. t \in Seq(Packets)
    <2>1. n \o buffer' \in Seq(Packets) /\ t = n \o buffer'
      BY <1>1
    <2> QED
      BY <2>1
  <1> QED
    BY <1>0, <1>13, <1>15, <1>16

-----------------------------------------------------------------------------
(* The server's steps.                                                       *)

LEMMA SyncFacts ==
  ASSUME SyncInv
  PROVE  /\ TypeOK
         /\ history \in Seq(Entry) /\ Len(history) <= Limit /\ clientHistory \in Seq(Entry) /\ Len(clientHistory) <= Limit
         /\ net \in Seq(Packets) /\ buffer \in Seq(Packets) /\ Len(buffer) <= BufferLimit /\ partial \in BOOLEAN
         /\ pending \in {"none", "state", "full"} /\ connected \in BOOLEAN
         /\ world.place \in Place /\ world.entities \in Entities /\ snapshotId \in Id
         /\ Stream \in Seq(Packets) /\ Stream = net \o buffer
         /\ Good(history, Back, clientHistory, Stream) /\ InPlace(Stream, view.place)
         /\ connected /\ pending # "full" => PlaceAt(Stream, Len(Stream) + 1, view.place, world.place)
  <1>1. TypeOK
    BY DEF SyncInv
  <1>2. Stream \in Seq(Packets)
    BY <1>1, StreamIs
  <1>3. world.place \in Place /\ world.entities \in Entities
    BY <1>1 DEF TypeOK, Scene
  <1>4. /\ history \in Seq(Entry) /\ Len(history) <= Limit /\ clientHistory \in Seq(Entry) /\ Len(clientHistory) <= Limit
        /\ net \in Seq(Packets) /\ buffer \in Seq(Packets) /\ Len(buffer) <= BufferLimit /\ partial \in BOOLEAN
        /\ pending \in {"none", "state", "full"} /\ connected \in BOOLEAN /\ snapshotId \in Id
    BY <1>1 DEF TypeOK
  <1>5. /\ Good(history, Back, clientHistory, Stream) /\ InPlace(Stream, view.place)
        /\ connected /\ pending # "full" => PlaceAt(Stream, Len(Stream) + 1, view.place, world.place)
    BY DEF SyncInv, Remembering, Placed
  <1> QED
    BY <1>1, <1>2, <1>3, <1>4, <1>5 DEF Stream

LEMMA SendKeeps ==
  ASSUME SyncInv, SendSnapshots
  PROVE  NothingWithoutSocket' /\ Remembering' /\ Placed'
  <1>0. /\ TypeOK
        /\ history \in Seq(Entry) /\ Len(history) <= Limit /\ clientHistory \in Seq(Entry)
        /\ net \in Seq(Packets) /\ buffer \in Seq(Packets) /\ partial \in BOOLEAN
        /\ world.entities \in Entities /\ snapshotId \in Id
        /\ Stream \in Seq(Packets) /\ Stream = net \o buffer
        /\ Good(history, Back, clientHistory, Stream) /\ InPlace(Stream, view.place)
        /\ connected /\ pending # "full" => PlaceAt(Stream, Len(Stream) + 1, view.place, world.place)
    BY SyncFacts
  <1>1. /\ world' = world /\ pending' = pending /\ connected' = connected /\ acks' = acks
        /\ clientHistory' = clientHistory /\ latest' = latest /\ applied' = applied /\ view' = view
    BY DEF SendSnapshots, client
  <1>2. NothingWithoutSocket /\ Remembering /\ Placed
    BY DEF SyncInv
  <1>3. latest # None => latest.scene.place = view.place /\ latest.entities = latest.scene.entities
    BY <1>2 DEF Placed
  <1>4. TickSend \/ TickOnly \/ TickBacklog
    BY DEF SendSnapshots
  <1>5. acked' \in {acked, None} => Back' \subseteq Back
    BY <1>1 DEF Back
  <1>6. Stream' = net' \o buffer'
    BY DEF Stream
  <1>7. CASE TickOnly
    <2>1. /\ history' = history /\ acked' = acked /\ buffer' = buffer /\ partial' = partial /\ net' = net
      BY <1>7 DEF TickOnly
    <2>2. Stream' = Stream /\ Back' = Back
      BY <2>1, <1>1 DEF Stream, Back
    <2> QED
      BY <2>1, <2>2, <1>1, <1>2 DEF NothingWithoutSocket, Remembering, Placed
  <1>8. PICK kept : kept = WithoutSnapshots(buffer, partial)
    OBVIOUS
  <1>9. kept \in Seq(Packets) /\ Thinner(buffer, kept)
    BY <1>0, <1>8, DropIs
  <1>10. PICK m : m = net \o kept
    OBVIOUS
  <1>11. m \in Seq(Packets) /\ Thinner(Stream, m)
    <2>1. Thinner(net \o buffer, net \o kept)
      BY <1>0, <1>9, ThinnerAfter
    <2> QED
      BY <2>1, <1>0, <1>9, <1>10
  <1>12. Good(history, Back, clientHistory, m)
    BY <1>0, <1>11, GoodThinner
  <1>13. InPlace(m, view.place) /\ (connected /\ pending # "full" => PlaceAt(m, Len(m) + 1, view.place, world.place))
    BY <1>0, <1>11, PlaceThinner
  <1>14. CASE /\ connected /\ UNCHANGED history /\ acked' \in {acked, None}
              /\ Flushed(kept, partial)
    <2>1. Stream' = m
      BY <1>0, <1>6, <1>9, <1>10, <1>14, FlushedIs
    <2>2. Good(history, Back', clientHistory, m)
      <3>1. Back' \subseteq Back
        BY <1>5, <1>14
      <3> QED
        BY <3>1, <1>0, <1>11, <1>12, GoodLess
    <2> QED
      BY <2>1, <2>2, <1>1, <1>3, <1>13, <1>14 DEF NothingWithoutSocket, Remembering, Placed
  <1>15. ASSUME NEW packet \in Prepared, connected, pending = "none", Fresh(snapshotId), RecordSent,
                Flushed(Append(kept, packet), partial)
         PROVE  NothingWithoutSocket' /\ Remembering' /\ Placed'
    <2>1. /\ packet \in Packets /\ packet \in Snapshots /\ IsSnapshot(packet)
          /\ packet.id = snapshotId /\ packet.scene = world
          /\ \/ packet.base = FullBase /\ packet.changed = packet.scene.entities
             \/ /\ packet.base # FullBase /\ packet.base = acked
                /\ \E k \in 1..Len(history) :
                     /\ history[k].id = packet.base
                     /\ Patched(history[k].entities, packet.changed, packet.removed) = packet.scene.entities
      BY <1>0, <1>15, PreparedIs
    <2>2. \/ packet.base = FullBase /\ packet.changed = packet.scene.entities
          \/ /\ packet.base # FullBase
             /\ packet.base \in Back
             /\ \E k \in 1..Len(history) :
                  /\ history[k].id = packet.base
                  /\ Patched(history[k].entities, packet.changed, packet.removed) = packet.scene.entities
      <3>1. packet.base # FullBase => packet.base \in Id /\ packet.base # None
        BY <2>1, IdsApart DEF Snapshots
      <3>2. packet.base # FullBase => packet.base = acked /\ acked \in Back
        BY <2>1, <3>1, <1>15 DEF Back
      <3> QED
        BY <2>1, <3>2
    <2>3. PICK e : e = [id |-> packet.id, entities |-> packet.scene.entities]
      OBVIOUS
    <2>4. e \in Entry /\ e = [id |-> snapshotId, entities |-> world.entities]
      BY <2>1, <2>3, <1>0 DEF Entry
    <2>5. ~Recorded(history, packet.id) /\ ~Recorded(clientHistory, packet.id)
      BY <2>1, <1>15 DEF Fresh
    <2>6. packet.id \notin Back
      <3> SUFFICES ASSUME packet.id \in Back PROVE FALSE
        OBVIOUS
      <3>1. snapshotId \in IdsInUse
        BY <2>1, <1>0, UsedAre
      <3> QED
        BY <3>1, <1>0, <1>15, FreshIsNew
    <2>7. \A j \in 1..Len(m) : IsSnapshot(m[j]) => m[j].id # packet.id
      <3> SUFFICES ASSUME NEW j \in 1..Len(m), IsSnapshot(m[j]), m[j].id = packet.id PROVE FALSE
        OBVIOUS
      <3>1. PICK i \in 1..Len(Stream) : m[j] = Stream[i]
        <4>1. PICK f \in [1..Len(m) -> 1..Len(Stream)] : \A i \in 1..Len(m) : m[i] = Stream[f[i]]
          BY <1>11 DEF Thinner
        <4> QED
          BY <4>1
      <3>2. Stream[i].id \in IdsInUse /\ Stream[i].id \in Id
        BY <3>1, <1>0, UsedAre
      <3>3. snapshotId \in IdsInUse
        BY <3>1, <3>2, <2>1
      <3> QED
        BY <3>3, <1>0, <1>15, FreshIsNew
    <2>8. Good(Append(history, e), Back, clientHistory, Append(m, packet))
      <3>1. /\ history \in Seq(Entry) /\ Len(history) <= Limit /\ clientHistory \in Seq(Entry)
            /\ m \in Seq(Packets) /\ packet \in Packets /\ IsSnapshot(packet) /\ e \in Entry
        BY <1>0, <1>11, <2>1, <2>4
      <3> QED
        BY ONLY <3>1, <1>12, <2>2, <2>3, <2>5, <2>6, <2>7, GoodSnapshot
    <2>9. PICK g : g = Append(history, e)
      OBVIOUS
    <2>10. g \in Seq(Entry) /\ Len(g) <= Limit + 1
      BY <2>4, <2>9, <1>0, LimitAssumption
    <2>11. PICK a : a = Append(m, packet)
      OBVIOUS
    <2>12. a \in Seq(Packets) /\ Good(g, Back, clientHistory, a)
      BY <2>1, <2>8, <2>9, <2>11, <1>11
    <2>13. history' = Kept(g) /\ acked' \in {acked, None}
      BY <2>4, <2>9, <1>15 DEF RecordSent
    <2>14. PICK n \in 1..(Len(g) + 1) : Kept(g) = SubSeq(g, n, Len(g))
      BY <2>10, KeptIs
    <2>15. Back' \subseteq Back
      BY <2>13, <1>5
    <2>16. Good(history', Back', clientHistory, a)
      <3>1. Good(SubSeq(g, n, Len(g)), Back', clientHistory, a)
        BY <1>0, <2>10, <2>12, <2>14, <2>15, GoodSuffix
      <3> QED
        BY <3>1, <2>13, <2>14
    <2>17. Stream' = a
      <3>1. Append(kept, packet) \in Seq(Packets)
        BY <1>9, <2>1
      <3>2. net' \o buffer' = net \o Append(kept, packet)
        BY <3>1, <1>0, <1>15, FlushedIs
      <3>3. net \o Append(kept, packet) = Append(net \o kept, packet)
        BY <1>0, <1>9, <2>1
      <3> QED
        BY <3>2, <3>3, <1>6, <1>10, <2>11
    <2>18. PlaceAt(m, Len(m) + 1, view.place, packet.scene.place)
      BY <1>13, <1>15, <2>1
    <2>19. ~Welcome(packet)
      BY <2>1 DEF Welcome, IsSnapshot
    <2>20. /\ InPlace(a, view.place)
           /\ PlaceAt(a, Len(a) + 1, view.place, packet.scene.place)
      <3>1. /\ InPlace(Append(m, packet), view.place)
            /\ ~Welcome(packet) => \A q : PlaceAt(m, Len(m) + 1, view.place, q) =>
                                     PlaceAt(Append(m, packet), Len(Append(m, packet)) + 1, view.place, q)
        BY <1>11, <1>13, <2>1, <2>18, PlaceAppend
      <3> QED
        BY <3>1, <2>11, <2>18, <2>19
    <2> QED
      BY <2>1, <2>16, <2>17, <2>20, <1>1, <1>3, <1>15 DEF NothingWithoutSocket, Remembering, Placed
  <1>16. CASE TickBacklog
    <2>1. connected /\ Flushed(kept, partial) /\ UNCHANGED <<history, acked>>
      BY <1>8, <1>16 DEF TickBacklog, MaySend
    <2> QED
      BY <2>1, <1>14
  <1>17. CASE TickSend
    <2>1. connected /\ pending = "none" /\ Fresh(snapshotId)
      BY <1>17 DEF TickSend, MaySend, SendSnapshots
    <2>2. PICK packet \in Prepared :
            \/ RecordSent /\ Flushed(Append(kept, packet), partial)
            \/ Flushed(kept, partial) /\ acked' \in {acked, None} /\ UNCHANGED history
      BY <1>8, <1>17 DEF TickSend
    <2> QED
      BY <2>1, <2>2, <1>14, <1>15
  <1> QED
    BY <1>4, <1>7, <1>16, <1>17

\* A baseline sent while the connection stays as it is.
LEMMA BaselineStepKeeps ==
  ASSUME SyncInv, NEW kind \in {"state", "full"}, NEW where \in Place,
         NEW packets \in Seq(Packets), Len(packets) <= BufferLimit, NEW begun \in BOOLEAN,
         Baseline(kind, where, packets, begun),
         net' \in Seq(Packets), Stream = net' \o packets,
         connected' = connected, acks' = acks, UNCHANGED client,
         where = world'.place, kind # "full" => where = world.place,
         ~connected => packets = <<>> /\ net' = <<>> /\ ~partial'
  PROVE  NothingWithoutSocket' /\ Remembering' /\ Placed'
  <1>0. /\ history \in Seq(Entry) /\ clientHistory \in Seq(Entry)
        /\ pending \in {"none", "state", "full"} /\ connected \in BOOLEAN
        /\ Stream \in Seq(Packets)
        /\ Good(history, Back, clientHistory, Stream) /\ InPlace(Stream, view.place)
        /\ connected /\ pending # "full" => PlaceAt(Stream, Len(Stream) + 1, view.place, world.place)
    BY SyncFacts
  <1>1. clientHistory' = clientHistory /\ latest' = latest /\ applied' = applied /\ view' = view
    BY DEF client
  <1>2. NothingWithoutSocket /\ (latest # None => latest.scene.place = view.place /\ latest.entities = latest.scene.entities)
    BY DEF SyncInv, Placed
  <1>3. (~connected' => buffer' = packets) /\ (pending' = "none" => acked' = None)
    BY DEF Baseline, ResetSnapshotState
  <1>4. Back' \subseteq Back
    BY <1>1, <1>3 DEF Back
  <1>5. Stream' = net' \o buffer' /\ connected' \in BOOLEAN
    BY <1>0 DEF Stream
  <1>6. connected' /\ pending # "full" /\ kind # "full" => PlaceAt(Stream, Len(Stream) + 1, view.place, where)
    BY <1>0
  <1>7. PICK b : b = Back'
    OBVIOUS
  <1>8. b \subseteq Back
    BY <1>4, <1>7
  <1>9. PICK n : n = net'
    OBVIOUS
  <1>10. PICK t : t = Stream'
    OBVIOUS
  <1>11. n \in Seq(Packets) /\ Stream = n \o packets /\ t = n \o buffer'
    BY <1>5, <1>9, <1>10
  <1>12. /\ Good(history', b, clientHistory, t) /\ InPlace(t, view.place)
         /\ connected' /\ pending' # "full" => PlaceAt(t, Len(t) + 1, view.place, where)
    <2>1. /\ kind \in {"state", "full"} /\ where \in Place
          /\ packets \in Seq(Packets) /\ Len(packets) <= BufferLimit /\ begun \in BOOLEAN
          /\ Baseline(kind, where, packets, begun)
      OBVIOUS
    <2>2. /\ history \in Seq(Entry) /\ clientHistory \in Seq(Entry)
          /\ pending \in {"none", "state", "full"} /\ connected' \in BOOLEAN
          /\ Good(history, Back, clientHistory, Stream) /\ InPlace(Stream, view.place)
      BY <1>0, <1>5
    <2>3. /\ history' \in Seq(Entry) /\ t \in Seq(Packets)
          /\ Good(history', Back, clientHistory, t) /\ InPlace(t, view.place)
          /\ connected' /\ pending' # "full" => PlaceAt(t, Len(t) + 1, view.place, where)
      BY ONLY <2>1, <2>2, <1>6, <1>11, BaselineKeeps
    <2> QED
      BY <2>2, <2>3, <1>8, GoodLess
  <1>13. NothingWithoutSocket'
    BY <1>1, <1>2, <1>3 DEF NothingWithoutSocket
  <1> QED
    BY <1>1, <1>2, <1>7, <1>10, <1>12, <1>13 DEF Remembering, Placed

LEMMA AckKeeps ==
  ASSUME SyncInv, HandleSnapshotAck
  PROVE  NothingWithoutSocket' /\ Remembering' /\ Placed'
  <1>0. /\ TypeOK /\ history \in Seq(Entry) /\ clientHistory \in Seq(Entry) /\ Stream \in Seq(Packets)
        /\ Good(history, Back, clientHistory, Stream)
    BY SyncFacts
  <1>1. /\ acks # <<>> /\ acks' = Tail(acks) /\ world' = world /\ pending' = pending /\ connected' = connected
        /\ clientHistory' = clientHistory /\ latest' = latest /\ applied' = applied /\ view' = view
        /\ net' = net /\ buffer' = buffer /\ partial' = partial
    BY DEF HandleSnapshotAck, client
  <1>2. NothingWithoutSocket /\ Placed
    BY DEF SyncInv
  <1>3. connected
    BY <1>0, <1>1, <1>2 DEF NothingWithoutSocket, TypeOK
  <1>4. PICK id : id = Head(acks)
    OBVIOUS
  <1>5. id \in ToSet(acks) /\ ToSet(acks') \subseteq ToSet(acks)
    <2>1. acks \in Seq(Id \cup {FullBase})
      BY <1>0 DEF TypeOK
    <2> USE DEF ToSet
    <2>2. id = acks[1] /\ 1 \in DOMAIN acks
      BY <2>1, <1>1, <1>4
    <2>3. \A i \in DOMAIN acks' : acks'[i] = acks[i + 1] /\ i + 1 \in DOMAIN acks
      BY <2>1, <1>1
    <2> QED
      BY <2>2, <2>3
  <1>6. \/ ResetSnapshotState
        \/ UNCHANGED <<acked, history>>
        \/ KnownAck(id)
    BY <1>4 DEF HandleSnapshotAck
  <1>7. acked' \in {acked, id, None}
    BY <1>6 DEF ResetSnapshotState, KnownAck
  <1>8. Back' \subseteq Back
    BY <1>1, <1>5, <1>7 DEF Back
  <1>9. Stream' = Stream
    BY <1>1 DEF Stream
  <1>10. Good(history', Back', clientHistory, Stream)
    <2>1. Good(history, Back', clientHistory, Stream) /\ Good(<<>>, Back', clientHistory, Stream)
      BY <1>0, <1>8, GoodLess
    <2>2. CASE history' = history \/ history' = <<>>
      BY <2>1, <2>2
    <2>3. CASE KnownAck(id) /\ Recorded(history, id)
      <3> DEFINE k == CHOOSE j \in DOMAIN history : history[j].id = id
      <3>1. k \in DOMAIN history
        BY <2>3 DEF Recorded
      <3>2. history' = SubSeq(history, k, Len(history))
        BY <2>3 DEF KnownAck
      <3> HIDE DEF k
      <3>3. k \in 1..(Len(history) + 1)
        BY <3>1, <1>0
      <3>4. Good(SubSeq(history, k, Len(history)), Back', clientHistory, Stream)
        BY <3>3, <1>0, <1>8, GoodSuffix
      <3> QED
        BY <3>2, <3>4
    <2>4. CASE KnownAck(id) /\ ~Recorded(history, id)
      BY <2>1, <2>4 DEF KnownAck
    <2> QED
      BY <2>2, <2>3, <2>4, <1>6 DEF ResetSnapshotState
  <1> QED
    BY <1>1, <1>2, <1>3, <1>9, <1>10 DEF NothingWithoutSocket, Remembering, Placed

LEMMA LoginKeeps ==
  ASSUME SyncInv, Login
  PROVE  NothingWithoutSocket' /\ Remembering' /\ Placed'
  <1>0. /\ history \in Seq(Entry) /\ clientHistory \in Seq(Entry) /\ pending \in {"none", "state", "full"}
        /\ Stream \in Seq(Packets) /\ Stream = net \o buffer /\ net \in Seq(Packets)
        /\ Good(history, Back, clientHistory, Stream) /\ InPlace(Stream, view.place)
        /\ world.place \in Place
    BY SyncFacts
  <1>1. /\ ~connected /\ connected' = TRUE /\ partial' = FALSE /\ Baseline("full", world.place, <<Other>>, FALSE)
        /\ world' = world /\ net' = net /\ acks' = acks
        /\ clientHistory' = clientHistory /\ latest' = latest /\ applied' = applied /\ view' = view
    BY DEF Login, client
  <1>2. NothingWithoutSocket /\ (latest # None => latest.scene.place = view.place /\ latest.entities = latest.scene.entities)
    BY DEF SyncInv, Placed
  <1>3. net = <<>> /\ buffer = <<>> /\ Stream = <<>>
    BY <1>0, <1>1, <1>2 DEF NothingWithoutSocket
  <1>4. Other \in Packets /\ ~IsSnapshot(Other) /\ ~Welcome(Other)
    BY DEF Other, Packets, IsSnapshot, Welcome
  <1>5. PICK s : s = Append(Stream, Other)
    OBVIOUS
  <1>6. s \in Seq(Packets) /\ Len(s) <= BufferLimit /\ s = <<Other>> /\ s = net \o s
    BY <1>0, <1>3, <1>4, <1>5, LimitAssumption
  <1>7. Good(history, Back, clientHistory, s)
    <2>1. Good(history, Back, clientHistory, Append(Stream, Other))
      BY <1>0, <1>4, GoodOther
    <2> QED
      BY <2>1, <1>5
  <1>8. InPlace(s, view.place)
    <2>1. InPlace(Append(Stream, Other), view.place)
      BY <1>0, <1>4, PlaceAppend
    <2> QED
      BY <2>1, <1>5
  <1>9. pending' = "none" => acked' = None
    BY <1>1 DEF Baseline, ResetSnapshotState
  <1>10. Back' \subseteq Back
    BY <1>1, <1>9 DEF Back
  <1>11. PICK t : t = Stream'
    OBVIOUS
  <1>12. t = net \o buffer'
    BY <1>1, <1>11 DEF Stream
  <1>13. PICK b : b = Back'
    OBVIOUS
  <1>14. Baseline("full", world.place, s, FALSE) /\ connected' \in BOOLEAN /\ b \subseteq Back
    BY <1>1, <1>6, <1>10, <1>13
  <1>15. /\ Good(history', b, clientHistory, t) /\ InPlace(t, view.place)
         /\ connected' /\ pending' # "full" => PlaceAt(t, Len(t) + 1, view.place, world.place)
    <2>1. PICK kind : kind = "full"
      OBVIOUS
    <2>2. PICK where : where = world.place
      OBVIOUS
    <2>3. PICK begun : begun = FALSE
      OBVIOUS
    <2>4. /\ kind \in {"state", "full"} /\ where \in Place /\ begun \in BOOLEAN
          /\ Baseline(kind, where, s, begun) /\ connected' \in BOOLEAN
      BY <2>1, <2>2, <2>3, <1>0, <1>14
    <2>5. s \in Seq(Packets) /\ Len(s) <= BufferLimit /\ s = net \o s
      BY <1>6
    <2>6. /\ history \in Seq(Entry) /\ clientHistory \in Seq(Entry) /\ net \in Seq(Packets)
          /\ pending \in {"none", "state", "full"}
      BY <1>0
    <2>7. connected' /\ pending # "full" /\ kind # "full" => PlaceAt(s, Len(s) + 1, view.place, where)
      BY <2>1
    <2>8. /\ history' \in Seq(Entry) /\ t \in Seq(Packets)
          /\ Good(history', Back, clientHistory, t) /\ InPlace(t, view.place)
          /\ connected' /\ pending' # "full" => PlaceAt(t, Len(t) + 1, view.place, where)
      BY ONLY <2>4, <2>5, <2>6, <2>7, <1>7, <1>8, <1>12, BaselineKeeps
    <2> QED
      BY <2>2, <2>6, <2>8, <1>14, GoodLess
  <1> QED
    BY <1>1, <1>2, <1>11, <1>13, <1>15 DEF NothingWithoutSocket, Remembering, Placed

LEMMA ServerKeeps ==
  ASSUME SyncInv, ServerNext
  PROVE  NothingWithoutSocket' /\ Remembering' /\ Placed'
  <1>0. /\ TypeOK
        /\ history \in Seq(Entry) /\ clientHistory \in Seq(Entry)
        /\ net \in Seq(Packets) /\ buffer \in Seq(Packets) /\ Len(buffer) <= BufferLimit /\ partial \in BOOLEAN
        /\ pending \in {"none", "state", "full"} /\ connected \in BOOLEAN /\ world.place \in Place
        /\ Stream \in Seq(Packets) /\ Stream = net \o buffer
        /\ Good(history, Back, clientHistory, Stream) /\ InPlace(Stream, view.place)
        /\ connected /\ pending # "full" => PlaceAt(Stream, Len(Stream) + 1, view.place, world.place)
    BY SyncFacts
  <1>1. NothingWithoutSocket /\ Remembering /\ Placed
    BY DEF SyncInv
  <1>2. latest # None => latest.scene.place = view.place /\ latest.entities = latest.scene.entities
    BY <1>1 DEF Placed
  <1>3. CASE SendSnapshots
    BY <1>3, SendKeeps
  <1>4. CASE Flush
    <2>1. /\ Flushed(buffer, partial) /\ connected /\ connected' = connected
          /\ UNCHANGED <<world, snapshotId, pending, acked, history, acks, client>>
      BY <1>4 DEF Flush
    <2>2. net' \o buffer' = net \o buffer
      BY <2>1, <1>0, FlushedIs
    <2>3. Stream' = Stream /\ Back' = Back
      BY <2>1, <2>2 DEF Stream, Back, client
    <2> QED
      BY <2>1, <2>3, <1>1 DEF NothingWithoutSocket, Remembering, Placed, client
  <1>5. CASE HandleSnapshotAck
    BY <1>5, AckKeeps
  <1>6. CASE RetryPendingSceneSyncs
    <2>1. /\ connected /\ pending \in {"state", "full"} /\ world' = world /\ acks' = acks /\ UNCHANGED client
      BY <1>0, <1>6 DEF RetryPendingSceneSyncs
    <2>2. PICK k \in 0..Len(buffer) :
            /\ net' = net \o SubSeq(buffer, 1, k)
            /\ partial' \in BOOLEAN
            /\ connected' = connected
            /\ Baseline(pending, world.place, SubSeq(buffer, k + 1, Len(buffer)), partial')
      BY <1>6 DEF RetryPendingSceneSyncs
    <2>3. PICK left : left = SubSeq(buffer, k + 1, Len(buffer))
      OBVIOUS
    <2>4. /\ left \in Seq(Packets) /\ Len(left) = Len(buffer) - k /\ net' \in Seq(Packets)
          /\ net' \o left = net \o buffer
      BY <2>2, <2>3, <1>0, Taken
    <2>5. Len(left) <= BufferLimit
      BY <2>4, <1>0, LimitAssumption
    <2>6. PICK begun : begun = partial'
      OBVIOUS
    <2>7. begun \in BOOLEAN /\ Baseline(pending, world.place, left, begun) /\ Stream = net' \o left /\ world.place = world'.place
      BY <2>1, <2>2, <2>3, <2>4, <2>6, <1>0
    <2> QED
      BY <2>1, <2>2, <2>4, <2>5, <2>7, <1>0, BaselineStepKeeps
  <1>7. CASE QueueOther
    <2>1. /\ connected /\ buffer' = Append(buffer, Other) /\ connected' = connected /\ net' = net
          /\ UNCHANGED <<world, snapshotId, pending, acked, history, partial, acks, client>>
      BY <1>7 DEF QueueOther
    <2>2. Other \in Packets /\ ~IsSnapshot(Other) /\ ~Welcome(Other)
      BY DEF Other, Packets, IsSnapshot, Welcome
    <2>3. Stream' = Append(Stream, Other)
      <3>1. net \o Append(buffer, Other) = Append(net \o buffer, Other)
        BY <1>0, <2>2
      <3> QED
        BY <2>1, <3>1 DEF Stream
    <2>4. Back' = Back
      BY <2>1 DEF Back, client
    <2>5. Good(history, Back, clientHistory, Append(Stream, Other))
      BY <1>0, <2>2, GoodOther
    <2>6. /\ InPlace(Append(Stream, Other), view.place)
          /\ \A q : PlaceAt(Stream, Len(Stream) + 1, view.place, q) =>
               PlaceAt(Append(Stream, Other), Len(Append(Stream, Other)) + 1, view.place, q)
      BY <1>0, <2>2, PlaceAppend
    <2>7. Remembering'
      BY <2>1, <2>3, <2>4, <2>5 DEF Remembering, client
    <2>8. Placed'
      BY <2>1, <2>3, <2>6, <1>0, <1>2 DEF Placed, client
    <2> QED
      BY <2>1, <2>7, <2>8 DEF NothingWithoutSocket
  <1>8. CASE Change
    <2>1. world'.place = world.place
      BY <1>0, <1>8 DEF Change, TypeOK, Scene
    <2>2. UNCHANGED <<server, net, acks, client>>
      BY <1>8 DEF Change
    <2>3. Stream' = Stream /\ Back' = Back
      BY <2>2 DEF Stream, Back, client, server
    <2> QED
      BY <2>1, <2>2, <2>3, <1>1 DEF NothingWithoutSocket, Remembering, Placed, client, server
  <1>9. CASE EnterWorld
    <2>1. /\ world' \in Scene /\ connected' = connected /\ partial' = partial /\ Baseline("full", world'.place, buffer, partial)
          /\ net' = net /\ acks' = acks /\ UNCHANGED client
      BY <1>9 DEF EnterWorld
    <2>2. PICK where : where = world'.place
      OBVIOUS
    <2>3. where \in Place /\ Baseline("full", where, buffer, partial) /\ Stream = net' \o buffer /\ net' \in Seq(Packets)
      BY <2>1, <2>2, <1>0 DEF Scene
    <2>4. ~connected => buffer = <<>> /\ net' = <<>> /\ ~partial'
      BY <2>1, <1>1 DEF NothingWithoutSocket
    <2> QED
      BY <2>1, <2>2, <2>3, <2>4, <1>0, BaselineStepKeeps
  <1>10. CASE RulesChange
    <2>1. /\ connected' = connected /\ partial' = partial /\ Baseline("state", world.place, buffer, partial)
          /\ world' = world /\ net' = net /\ acks' = acks /\ UNCHANGED client
      BY <1>10 DEF RulesChange
    <2>2. Stream = net' \o buffer /\ net' \in Seq(Packets) /\ world.place = world'.place
      BY <2>1, <1>0
    <2>3. ~connected => buffer = <<>> /\ net' = <<>> /\ ~partial'
      BY <2>1, <1>1 DEF NothingWithoutSocket
    <2> QED
      BY <2>1, <2>2, <2>3, <1>0, BaselineStepKeeps
  <1>11. CASE Login
    BY <1>11, LoginKeeps
  <1> QED
    BY <1>3, <1>4, <1>5, <1>6, <1>7, <1>8, <1>9, <1>10, <1>11 DEF ServerNext

-----------------------------------------------------------------------------
(* The client's steps.                                                       *)

\* What arrives can be rebuilt, and is then what was captured.
LEMMA ReceivedIs ==
  ASSUME SyncInv, net # <<>>, IsSnapshot(Head(net))
  PROVE  Resolvable(Head(net)) /\ Resolved(Head(net)) = Head(net).scene.entities
  <1>0. /\ TypeOK /\ clientHistory \in Seq(Entry) /\ Stream \in Seq(Packets)
        /\ Good(history, Back, clientHistory, Stream)
    BY SyncFacts
  <1>1. PICK p : p = Head(net)
    OBVIOUS
  <1>2. Stream # <<>> /\ Stream[1] = p /\ IsSnapshot(p)
    BY <1>0, <1>1, StreamIs
  <1>3. Snaps(Stream) = <<p>> \o Snaps(Tail(Stream))
    BY <1>0, <1>2, SnapsOfHead
  <1>4. p \in Packets /\ Snaps(Stream) \in Seq(Snapshots) /\ Snaps(Tail(Stream)) \in Seq(Snapshots) /\ p \in Snapshots
    <2>1. Tail(Stream) \in Seq(Packets) /\ p \in Packets
      BY <1>0, <1>2
    <2> QED
      BY <2>1, <1>0, <1>2, SnapsType, PacketTypes
  <1>5. 1 \in 1..Len(Snaps(Stream)) /\ Snaps(Stream)[1] = p
    BY <1>3, <1>4
  <1>6. Rebuilt(clientHistory, 1, p)
    BY <1>0, <1>5 DEF Good, Bases
  <1>7. CASE p.base = FullBase
    BY <1>1, <1>6, <1>7 DEF Rebuilt, Resolvable, Resolved
  <1>8. CASE p.base # FullBase
    <2>1. PICK k \in 1..Len(clientHistory) :
            /\ clientHistory[k].id = p.base
            /\ Patched(clientHistory[k].entities, p.changed, p.removed) = p.scene.entities
      BY <1>6, <1>8 DEF Rebuilt
    <2>2. Recorded(clientHistory, p.base)
      BY <2>1, <1>0 DEF Recorded
    <2>3. PICK j \in 1..Len(clientHistory) : /\ clientHistory[j].id = p.base
                                             /\ EntryOf(clientHistory, p.base) = clientHistory[j].entities
      BY <2>2, <1>0, EntryOfIs
    <2>4. /\ Len(Line(clientHistory, Stream)) = Len(clientHistory) + Len(Snaps(Stream))
          /\ \A i \in 1..Len(clientHistory) : Line(clientHistory, Stream)[i] = clientHistory[i]
      BY <1>0, LineIs
    <2>5. j \in 1..Len(Line(clientHistory, Stream)) /\ k \in 1..Len(Line(clientHistory, Stream))
      BY <2>4, <1>0, <1>4
    <2>6. j = k
      BY <2>1, <2>3, <2>4, <2>5, <1>0 DEF Good, NoIdTwice
    <2>7. Resolved(p) = Patched(EntryOf(clientHistory, p.base), p.changed, p.removed)
      BY <1>8 DEF Resolved
    <2> QED
      BY <2>1, <2>2, <2>3, <2>6, <2>7, <1>1 DEF Resolvable
  <1> QED
    BY <1>7, <1>8

\* The streams of the steps below.
LEMMA StreamMoves ==
  ASSUME TypeOK, net # <<>>, net' = Tail(net), UNCHANGED server
  PROVE  Stream' = Tail(Stream) /\ Stream # <<>> /\ Stream[1] = Head(net) /\ Head(net) \in Packets
  <1>1. Stream # <<>> /\ Stream[1] = Head(net) /\ Tail(Stream) = Tail(net) \o buffer
    BY StreamIs
  <1>2. Head(net) \in Packets
    BY DEF TypeOK
  <1> QED
    BY <1>1, <1>2 DEF Stream, server

LEMMA ReceiveSnapshotKeeps ==
  ASSUME SyncInv, ReceiveSnapshot
  PROVE  NothingWithoutSocket' /\ Remembering' /\ Placed'
  <1>0. /\ TypeOK /\ history \in Seq(Entry) /\ Len(history) <= Limit
        /\ clientHistory \in Seq(Entry) /\ Len(clientHistory) <= Limit /\ connected \in BOOLEAN
        /\ Stream \in Seq(Packets) /\ Good(history, Back, clientHistory, Stream) /\ InPlace(Stream, view.place)
        /\ connected /\ pending # "full" => PlaceAt(Stream, Len(Stream) + 1, view.place, world.place)
    BY SyncFacts
  <1>1. /\ net # <<>> /\ IsSnapshot(Head(net)) /\ net' = Tail(net) /\ UNCHANGED <<world, server, applied, view>>
    BY DEF ReceiveSnapshot
  <1>2. /\ history' = history /\ pending' = pending /\ connected' = connected /\ acked' = acked /\ world' = world
        /\ view' = view
    BY <1>1 DEF server
  <1>3. NothingWithoutSocket /\ Placed
    BY DEF SyncInv
  <1>4. connected
    BY <1>0, <1>1, <1>3 DEF NothingWithoutSocket
  <1>5. PICK p : p = Head(net)
    OBVIOUS
  <1>6. Stream' = Tail(Stream) /\ Stream # <<>> /\ Stream[1] = p /\ IsSnapshot(p)
    BY <1>0, <1>1, <1>5, StreamMoves
  <1>7. Resolvable(p) /\ Resolved(p) = p.scene.entities
    BY <1>1, <1>5, ReceivedIs
  <1>8. PICK e : e = [id |-> p.id, entities |-> p.scene.entities]
    OBVIOUS
  <1>9. PICK resolved : resolved = [id |-> p.id, entities |-> p.scene.entities, scene |-> p.scene]
    OBVIOUS
  <1>10. /\ clientHistory' = ClientKept(Append(clientHistory, e))
         /\ latest' = resolved \/ latest' = latest
         /\ acks' = acks
    BY <1>5, <1>7, <1>8, <1>9 DEF ReceiveSnapshot
  <1>11. resolved.id = p.id /\ resolved.entities = p.scene.entities /\ resolved.scene = p.scene
    BY <1>9
  <1>12. Back' \subseteq Back \cup {p.id}
    BY <1>2, <1>10, <1>11 DEF Back
  <1>13. PICK told : told = Back'
    OBVIOUS
  <1>14. Good(history, told, ClientKept(Append(clientHistory, e)), Tail(Stream))
    <2>1. e = [id |-> Stream[1].id, entities |-> Stream[1].scene.entities] /\ told \subseteq Back \cup {Stream[1].id}
          /\ IsSnapshot(Stream[1]) /\ Stream # <<>>
      BY <1>6, <1>8, <1>12, <1>13
    <2>2. /\ history \in Seq(Entry) /\ Len(history) <= Limit
          /\ clientHistory \in Seq(Entry) /\ Len(clientHistory) <= Limit
          /\ Stream \in Seq(Packets) /\ Good(history, Back, clientHistory, Stream)
      BY <1>0
    <2> QED
      BY ONLY <2>1, <2>2, GoodReceive
  <1>15. Remembering'
    BY <1>2, <1>6, <1>10, <1>13, <1>14 DEF Remembering
  <1>16. /\ InPlace(Tail(Stream), view.place) /\ p.scene.place = view.place
         /\ \A q : PlaceAt(Stream, Len(Stream) + 1, view.place, q) => PlaceAt(Tail(Stream), Len(Tail(Stream)) + 1, view.place, q)
    <2>1. PICK next : next = view.place
      OBVIOUS
    <2>2. next = IF Welcome(Stream[1]) THEN Stream[1].place ELSE view.place
      BY <2>1, <1>6 DEF Welcome, IsSnapshot
    <2>3. /\ InPlace(Stream, view.place) => InPlace(Tail(Stream), next)
          /\ InPlace(Stream, view.place) /\ IsSnapshot(Stream[1]) => Stream[1].scene.place = view.place
          /\ \A q : PlaceAt(Stream, Len(Stream) + 1, view.place, q) => PlaceAt(Tail(Stream), Len(Tail(Stream)) + 1, next, q)
      BY <2>2, <1>0, <1>6, PlaceTail
    <2> QED
      BY <2>1, <2>3, <1>0, <1>6
  <1>17. Placed'
    <2>1. latest' # None => latest'.scene.place = view.place /\ latest'.entities = latest'.scene.entities
      BY <1>3, <1>10, <1>11, <1>16 DEF Placed
    <2> QED
      BY <2>1, <1>0, <1>2, <1>6, <1>16 DEF Placed
  <1> QED
    BY <1>2, <1>4, <1>15, <1>17 DEF NothingWithoutSocket

LEMMA ClientKeeps ==
  ASSUME SyncInv, ClientNext \/ LoseConnection
  PROVE  NothingWithoutSocket' /\ Remembering' /\ Placed'
  <1>0. /\ TypeOK /\ history \in Seq(Entry) /\ clientHistory \in Seq(Entry) /\ connected \in BOOLEAN
        /\ Stream \in Seq(Packets) /\ Good(history, Back, clientHistory, Stream) /\ InPlace(Stream, view.place)
        /\ connected /\ pending # "full" => PlaceAt(Stream, Len(Stream) + 1, view.place, world.place)
    BY SyncFacts
  <1>1. NothingWithoutSocket /\ Remembering /\ Placed
    BY DEF SyncInv
  <1>2. CASE ReceiveSnapshot
    BY <1>2, ReceiveSnapshotKeeps
  <1>3. CASE ApplySnapshotAndAck
    <2>1. /\ latest # None /\ latest' = None /\ clientHistory' = clientHistory /\ net' = net /\ world' = world
          /\ history' = history /\ pending' = pending /\ connected' = connected /\ acked' = acked /\ buffer' = buffer
      BY <1>3 DEF ApplySnapshotAndAck, server
    <2>2. /\ acks' = acks \/ acks' = Append(acks, latest.id)
          /\ view'.place = view.place
      <3>1. view \in [place : Place \cup {None}, entities : Entities]
        BY <1>0 DEF TypeOK
      <3> QED
        BY <3>1, <1>3 DEF ApplySnapshotAndAck
    <2>3. connected
      BY <1>0, <1>1, <2>1 DEF NothingWithoutSocket
    <2>4. ToSet(acks') \subseteq ToSet(acks) \cup {latest.id}
      <3>1. acks \in Seq(Id \cup {FullBase})
        BY <1>0 DEF TypeOK
      <3>2. CASE acks' = acks
        BY <3>2
      <3>3. CASE acks' = Append(acks, latest.id)
        <4>1. \A i \in DOMAIN acks' : acks'[i] = latest.id \/ (i \in DOMAIN acks /\ acks'[i] = acks[i])
          BY <3>1, <3>3
        <4> QED
          BY <4>1 DEF ToSet
      <3> QED
        BY <3>2, <3>3, <2>2
    <2>5. Back' \subseteq Back
      BY <2>1, <2>4 DEF Back
    <2>6. Stream' = Stream
      BY <2>1 DEF Stream
    <2>7. Good(history, Back', clientHistory, Stream)
      BY <2>5, <1>0, GoodLess
    <2> QED
      BY <2>1, <2>2, <2>3, <2>6, <2>7, <1>0 DEF NothingWithoutSocket, Remembering, Placed
  <1>4. CASE ReceiveWelcome
    <2>1. /\ latest = None /\ net # <<>> /\ Head(net).type = "welcome" /\ net' = Tail(net)
          /\ clientHistory' = <<>> /\ latest' = None /\ view' = [place |-> Head(net).place, entities |-> Empty]
          /\ acks' = acks /\ world' = world /\ UNCHANGED server
      BY <1>4 DEF ReceiveWelcome, ResetNetworkScene
    <2>2. history' = history /\ pending' = pending /\ connected' = connected /\ acked' = acked
      BY <2>1 DEF server
    <2>3. connected
      BY <1>0, <1>1, <2>1 DEF NothingWithoutSocket
    <2>4. Stream' = Tail(Stream) /\ Stream # <<>> /\ Stream[1] = Head(net)
      BY <1>0, <2>1, StreamMoves
    <2>5. Welcome(Stream[1]) /\ ~IsSnapshot(Stream[1])
      BY <2>1, <2>4 DEF Welcome, IsSnapshot
    <2>6. Back' = Back
      BY <2>1, <2>2 DEF Back
    <2>7. Good(history, Back, <<>>, Tail(Stream))
      BY <1>0, <2>4, <2>5, GoodReceiveWelcome
    <2>8. PICK next : next = Stream[1].place
      OBVIOUS
    <2>9. /\ InPlace(Tail(Stream), next)
          /\ \A q : PlaceAt(Stream, Len(Stream) + 1, view.place, q) => PlaceAt(Tail(Stream), Len(Tail(Stream)) + 1, next, q)
      <3>1. next = IF Welcome(Stream[1]) THEN Stream[1].place ELSE view.place
        BY <2>5, <2>8
      <3> QED
        BY <3>1, <1>0, <2>4, PlaceTail
    <2>10. view'.place = next
      BY <2>1, <2>4, <2>8
    <2>11. Remembering'
      BY <2>1, <2>2, <2>4, <2>6, <2>7 DEF Remembering
    <2>12. Placed'
      BY <2>1, <2>2, <2>4, <2>9, <2>10, <1>0 DEF Placed
    <2> QED
      BY <2>2, <2>3, <2>11, <2>12 DEF NothingWithoutSocket
  <1>5. CASE ReceiveOther
    <2>1. /\ net # <<>> /\ Head(net) = Other /\ net' = Tail(net) /\ acks' = acks /\ world' = world
          /\ UNCHANGED server /\ UNCHANGED client
      BY <1>5 DEF ReceiveOther
    <2>2. /\ history' = history /\ pending' = pending /\ connected' = connected /\ acked' = acked
          /\ clientHistory' = clientHistory /\ latest' = latest /\ view' = view
      BY <2>1 DEF server, client
    <2>3. connected
      BY <1>0, <1>1, <2>1 DEF NothingWithoutSocket
    <2>4. Stream' = Tail(Stream) /\ Stream # <<>> /\ Stream[1] = Other
      BY <1>0, <2>1, StreamMoves
    <2>5. ~Welcome(Stream[1]) /\ ~IsSnapshot(Stream[1])
      BY <2>4 DEF Welcome, IsSnapshot, Other
    <2>6. Back' = Back
      BY <2>1, <2>2 DEF Back
    <2>7. Good(history, Back, clientHistory, Tail(Stream))
      BY <1>0, <2>4, <2>5, GoodReceiveOther
    <2>8. PICK next : next = view.place
      OBVIOUS
    <2>9. /\ InPlace(Tail(Stream), next)
          /\ \A q : PlaceAt(Stream, Len(Stream) + 1, view.place, q) => PlaceAt(Tail(Stream), Len(Tail(Stream)) + 1, next, q)
      <3>1. next = IF Welcome(Stream[1]) THEN Stream[1].place ELSE view.place
        BY <2>5, <2>8
      <3> QED
        BY <3>1, <1>0, <2>4, PlaceTail
    <2>10. Remembering'
      BY <2>2, <2>4, <2>6, <2>7 DEF Remembering
    <2>11. Placed'
      BY <2>1, <2>2, <2>4, <2>8, <2>9, <1>0, <1>1 DEF Placed
    <2> QED
      BY <2>2, <2>3, <2>10, <2>11 DEF NothingWithoutSocket
  <1>6. CASE LoseConnection
    <2>1. /\ connected' = FALSE /\ buffer' = <<>> /\ partial' = FALSE /\ net' = <<>> /\ acks' = <<>>
          /\ clientHistory' = <<>> /\ latest' = None /\ applied' = None /\ history' = history
      BY <1>6 DEF LoseConnection, ResetNetworkScene
    <2>2. Stream' = <<>>
      BY <2>1 DEF Stream
    <2>3. Back' = {}
      BY <2>1 DEF Back, ToSet
    <2>4. NoIdTwice(history)
      BY <1>0 DEF Good
    <2>5. Remembering'
      BY <2>1, <2>2, <2>3, <2>4, <1>0, GoodNothing DEF Remembering
    <2>6. Placed'
      BY <2>1, <2>2, PlaceNothing DEF Placed
    <2> QED
      BY <2>1, <2>5, <2>6 DEF NothingWithoutSocket
  <1> QED
    BY <1>2, <1>3, <1>4, <1>5, <1>6 DEF ClientNext

LEMMA SyncInit == Init => SyncInv
  <1> SUFFICES ASSUME Init PROVE SyncInv
    OBVIOUS
  <1>1. TypeOK
    BY InitType
  <1>2. Stream = <<>> /\ Back = {} /\ history = <<>> /\ clientHistory = <<>> /\ latest = None /\ connected = FALSE
    BY DEF Init, Stream, Back, ToSet
  <1>3. history \in Seq(Entry) /\ NoIdTwice(history)
    BY <1>2 DEF NoIdTwice
  <1>4. Remembering
    BY <1>2, <1>3, GoodNothing DEF Remembering
  <1>5. Placed
    BY <1>2, PlaceNothing DEF Placed
  <1>6. NothingWithoutSocket
    BY DEF Init, NothingWithoutSocket
  <1> QED
    BY <1>1, <1>4, <1>5, <1>6 DEF SyncInv

LEMMA SyncStep == SyncInv /\ [Next]_vars => SyncInv'
  <1> SUFFICES ASSUME SyncInv, [Next]_vars PROVE SyncInv'
    OBVIOUS
  <1>1. TypeOK'
    BY TypeStep DEF SyncInv
  <1>2. NothingWithoutSocket' /\ Remembering' /\ Placed'
    <2>1. CASE ServerNext
      BY <2>1, ServerKeeps
    <2>2. CASE ClientNext \/ LoseConnection
      BY <2>2, ClientKeeps
    <2>3. CASE UNCHANGED vars
      BY <2>3 DEF vars, server, client, SyncInv, NothingWithoutSocket, Remembering, Placed, Stream, Back
    <2> QED
      BY <2>1, <2>2, <2>3 DEF Next
  <1> QED
    BY <1>1, <1>2 DEF SyncInv

\* Spec keeps the invariant of the sync: what the client has, gets and tells
\* agrees with what the server recorded, across drops, baselines, logins and
\* lost connections.
THEOREM SyncInvariance == Spec => []SyncInv
  BY SyncInit, SyncStep, PTL DEF Spec

-----------------------------------------------------------------------------
(* What both sides mean, and the framing.                                    *)

LEMMA AgreeNow == SyncInv => SyncsAgree
  <1> SUFFICES ASSUME SyncInv PROVE SyncsAgree
    OBVIOUS
  <1>1. DeltasResolve
    BY ReceivedIs DEF DeltasResolve
  <1>2. HistoriesAgree
    <2> SUFFICES ASSUME NEW j \in DOMAIN history, NEW k \in DOMAIN clientHistory,
                        history[j].id = clientHistory[k].id
                 PROVE  history[j].entities = clientHistory[k].entities
      BY DEF HistoriesAgree
    <2>1. /\ history \in Seq(Entry) /\ clientHistory \in Seq(Entry) /\ Stream \in Seq(Packets)
          /\ InStep(Line(clientHistory, Stream), history)
      BY SyncFacts DEF Good
    <2>2. /\ Len(Line(clientHistory, Stream)) = Len(clientHistory) + Len(Snaps(Stream)) /\ Len(Snaps(Stream)) \in Nat
          /\ \A i \in 1..Len(clientHistory) : Line(clientHistory, Stream)[i] = clientHistory[i]
      BY <2>1, LineIs
    <2>3. j \in 1..Len(history) /\ k \in 1..Len(clientHistory)
      BY <2>1
    <2>4. k \in 1..Len(Line(clientHistory, Stream)) /\ Line(clientHistory, Stream)[k] = clientHistory[k]
      BY <2>1, <2>2, <2>3
    <2> QED
      BY <2>1, <2>3, <2>4 DEF InStep
  <1> QED
    BY <1>1, <1>2 DEF SyncsAgree

\* Spec keeps the two sides agreed: the base of every snapshot that arrives is
\* still in the client's history, and an id both remember stands for the same
\* entities (PrepareSnapshotForSend, resolveSnapshot).
THEOREM SyncsAlwaysAgree == Spec => []SyncsAgree
  BY SyncInvariance, AgreeNow, PTL

FrameStep ==
  \/ IsPrefix(Append(net, Head(buffer)), net')
  \/ buffer' # <<>> /\ Head(buffer') = Head(buffer)

LEMMA SendFrame ==
  ASSUME SyncInv, partial, SendSnapshots
  PROVE  FrameStep
  <1>0. TypeOK /\ net \in Seq(Packets) /\ buffer \in Seq(Packets) /\ partial \in BOOLEAN /\ buffer # <<>>
    BY SyncFacts DEF TypeOK
  <1>1. TickSend \/ TickOnly \/ TickBacklog
    BY DEF SendSnapshots
  <1>2. CASE TickOnly
    BY <1>0, <1>2 DEF TickOnly, FrameStep
  <1>3. PICK kept : kept = WithoutSnapshots(buffer, partial)
    OBVIOUS
  <1>4. kept \in Seq(Packets) /\ kept # <<>> /\ Head(kept) = Head(buffer)
    <2>1. kept \in Seq(Packets) /\ kept # <<>> /\ kept[1] = buffer[1]
      BY <1>0, <1>3, DropIs
    <2> QED
      BY <2>1, <1>0
  <1>5. ASSUME NEW packets \in Seq(Packets), packets # <<>>, Head(packets) = Head(kept), Flushed(packets, partial)
        PROVE  FrameStep
    <2>1. \/ IsPrefix(Append(net, Head(packets)), net')
          \/ buffer' # <<>> /\ Head(buffer') = Head(packets)
      BY <1>0, <1>5, FlushedIs
    <2> QED
      BY <2>1, <1>4, <1>5 DEF FrameStep
  <1>6. CASE TickBacklog
    <2>1. Flushed(kept, partial)
      BY <1>3, <1>6 DEF TickBacklog
    <2> QED
      BY <2>1, <1>4, <1>5
  <1>7. CASE TickSend
    <2>1. PICK packet \in Prepared : Flushed(Append(kept, packet), partial) \/ Flushed(kept, partial)
      BY <1>3, <1>7 DEF TickSend
    <2>2. packet \in Packets
      BY <1>0, PreparedIs
    <2>3. Append(kept, packet) \in Seq(Packets) /\ Append(kept, packet) # <<>> /\ Head(Append(kept, packet)) = Head(kept)
      BY <2>2, <1>4
    <2>4. CASE Flushed(kept, partial)
      BY <2>4, <1>4, <1>5
    <2>5. CASE Flushed(Append(kept, packet), partial)
      BY <2>3, <2>5, <1>5
    <2> QED
      BY <2>1, <2>4, <2>5
  <1> QED
    BY <1>1, <1>2, <1>6, <1>7

LEMMA Frames == SyncInv /\ [Next]_vars => [partial /\ connected' => FrameStep]_vars
  <1> SUFFICES ASSUME SyncInv, Next, partial, connected' PROVE FrameStep
    OBVIOUS
  <1>0. /\ TypeOK /\ net \in Seq(Packets) /\ buffer \in Seq(Packets) /\ Len(buffer) <= BufferLimit
        /\ partial \in BOOLEAN /\ buffer # <<>> /\ connected \in BOOLEAN
        /\ pending \in {"none", "state", "full"} /\ world.place \in Place
    BY SyncFacts DEF TypeOK
  <1>1. connected
    BY <1>0 DEF SyncInv, NothingWithoutSocket
  <1>2. CASE buffer' = buffer
    BY <1>0, <1>2 DEF FrameStep
  <1>3. CASE SendSnapshots
    BY <1>3, SendFrame
  <1>4. CASE Flush
    <2>1. Flushed(buffer, partial)
      BY <1>4 DEF Flush
    <2> QED
      BY <2>1, <1>0, FlushedIs DEF FrameStep
  <1>5. CASE RetryPendingSceneSyncs
    <2>1. PICK k \in 0..Len(buffer) :
            /\ net' = net \o SubSeq(buffer, 1, k)
            /\ partial' \in {p \in BOOLEAN : (p => SubSeq(buffer, k + 1, Len(buffer)) # <<>>) /\ (partial /\ k = 0 => p)}
            /\ connected' = connected
            /\ Baseline(pending, world.place, SubSeq(buffer, k + 1, Len(buffer)), partial')
      BY <1>5 DEF RetryPendingSceneSyncs
    <2>2. CASE k # 0
      <3>1. IsPrefix(Append(net, Head(buffer)), net \o SubSeq(buffer, 1, k))
        BY <2>2, <1>0, Taken
      <3> QED
        BY <3>1, <2>1 DEF FrameStep
    <2>3. CASE k = 0
      <3>1. SubSeq(buffer, k + 1, Len(buffer)) = buffer
        BY <2>3, <1>0, Taken
      <3>2. partial' = TRUE
        BY <2>1, <2>3
      <3>3. pending \in {"state", "full"}
        BY <1>0, <1>5 DEF RetryPendingSceneSyncs
      <3>4. Baseline(pending, world.place, buffer, TRUE)
        BY <3>1, <3>2, <2>1
      <3>5. TRUE \in BOOLEAN /\ connected' \in BOOLEAN
        BY <2>1, <1>0
      <3>6. buffer' # <<>> /\ Head(buffer') = Head(buffer)
        BY <3>3, <3>4, <3>5, <1>0, BaselineType
      <3> QED
        BY <3>6 DEF FrameStep
    <2> QED
      BY <2>2, <2>3
  <1>6. CASE QueueOther
    <2>1. buffer' = Append(buffer, Other) /\ Other \in Packets
      BY <1>6 DEF QueueOther, Other, Packets
    <2>2. buffer' # <<>> /\ Head(buffer') = Head(buffer)
      BY <2>1, <1>0
    <2> QED
      BY <2>2 DEF FrameStep
  <1>7. CASE EnterWorld
    <2>1. world'.place \in Place /\ connected' = connected /\ Baseline("full", world'.place, buffer, partial)
      BY <1>7 DEF EnterWorld, Scene
    <2>2. PICK where : where = world'.place
      OBVIOUS
    <2>3. where \in Place /\ connected' \in BOOLEAN /\ Baseline("full", where, buffer, partial)
      BY <2>1, <2>2, <1>0
    <2>4. buffer' # <<>> /\ Head(buffer') = Head(buffer)
      BY <2>3, <1>0, BaselineType
    <2> QED
      BY <2>4 DEF FrameStep
  <1>8. CASE RulesChange
    <2>1. connected' \in BOOLEAN /\ Baseline("state", world.place, buffer, partial)
      BY <1>0, <1>8 DEF RulesChange
    <2>2. buffer' # <<>> /\ Head(buffer') = Head(buffer)
      BY <2>1, <1>0, BaselineType
    <2> QED
      BY <2>2 DEF FrameStep
  <1>9. CASE Login
    BY <1>1, <1>9 DEF Login
  <1>10. CASE LoseConnection
    BY <1>10 DEF LoseConnection
  <1>11. CASE HandleSnapshotAck
    BY <1>2, <1>11 DEF HandleSnapshotAck
  <1>12. CASE Change
    BY <1>2, <1>12 DEF Change, server
  <1>13. CASE ClientNext
    BY <1>2, <1>13 DEF ClientNext, ReceiveSnapshot, ApplySnapshotAndAck, ReceiveWelcome, ReceiveOther, server
  <1> QED
    BY <1>3, <1>4, <1>5, <1>6, <1>7, <1>8, <1>9, <1>10, <1>11, <1>12, <1>13 DEF Next, ServerNext

\* Spec keeps the stream's framing: while a packet has partly left, no drop,
\* baseline or overflow puts anything else before the rest of it
\* (DropQueuedSnapshots, QueuePlayerBaseline).
THEOREM FramesAlwaysWhole == Spec => FramesStayWhole
  BY SyncInvariance, Frames, PTL DEF Spec, FramesStayWhole, FrameStep

-----------------------------------------------------------------------------
(* The refinement of Mirror.                                                 *)

Sent == (IF latest = None THEN <<>> ELSE <<latest.scene>>) \o AsCaptured(net) \o AsCaptured(buffer)
Shown == IF applied = None THEN None ELSE view
Waiting == IF latest = None THEN <<>> ELSE <<latest.scene>>

LEMMA ThinBy ==
  ASSUME NEW s \in Seq(Scene), NEW t \in Seq(Scene), Len(t) <= Len(s), NEW f \in [1..Len(t) -> 1..Len(s)],
         Rising(f, Len(t)), \A i \in 1..Len(t) : t[i] = s[f[i]]
  PROVE  t \in Mirrored!Thinned(s)
  <1>1. Len(s) \in Nat /\ Len(t) \in Nat /\ Len(t) \in 0..Len(s) /\ DOMAIN s = 1..Len(s)
    OBVIOUS
  <1>2. PICK n : n = Len(t)
    OBVIOUS
  <1>3. n \in 0..Len(s) /\ f \in [1..n -> DOMAIN s] /\ \A i, j \in 1..n : i < j => f[i] < f[j]
    BY <1>1, <1>2 DEF Rising
  <1>4. t = [i \in 1..n |-> s[f[i]]]
    <2>1. t = [i \in 1..n |-> t[i]]
      BY <1>2
    <2> QED
      BY <2>1, <1>2
  <1> DEFINE Positions(k) == {g \in [1..k -> DOMAIN s] : \A i, j \in 1..k : i < j => g[i] < g[j]}
             Of(k) == {[i \in 1..k |-> s[g[i]]] : g \in Positions(k)}
  <1>5. Mirrored!Thinned(s) = UNION {Of(k) : k \in 0..Len(s)}
    BY DEF Mirrored!Thinned
  <1>6. f \in Positions(n)
    BY <1>3
  <1> HIDE DEF Positions
  <1>7. t \in Of(n)
    BY <1>4, <1>6
  <1> HIDE DEF Of
  <1> QED
    BY <1>3, <1>5, <1>7

LEMMA ThinPrefix ==
  ASSUME NEW s \in Seq(Scene), NEW t \in Seq(Scene), Len(t) <= Len(s), \A i \in 1..Len(t) : t[i] = s[i]
  PROVE  t \in Mirrored!Thinned(s)
  <1> DEFINE f == [i \in 1..Len(t) |-> i]
  <1>1. f \in [1..Len(t) -> 1..Len(s)] /\ \A i \in 1..Len(t) : f[i] = i
    OBVIOUS
  <1> HIDE DEF f
  <1>2. Rising(f, Len(t))
    BY <1>1 DEF Rising
  <1>3. \A i \in 1..Len(t) : t[i] = s[f[i]]
    BY <1>1
  <1> QED
    BY <1>1, <1>2, <1>3, ThinBy

LEMMA ThinAfter ==
  ASSUME NEW s \in Seq(Scene), NEW t \in Seq(Scene), Len(s) = Len(t) + 1, NEW k \in 1..(Len(t) + 1),
         \A i \in 1..Len(t) : t[i] = IF i < k THEN s[i] ELSE s[i + 1]
  PROVE  t \in Mirrored!Thinned(s)
  <1> DEFINE f == [i \in 1..Len(t) |-> IF i < k THEN i ELSE i + 1]
  <1>0. Len(t) \in Nat /\ Len(s) \in Nat
    OBVIOUS
  <1>1. \A i \in 1..Len(t) : f[i] = IF i < k THEN i ELSE i + 1
    OBVIOUS
  <1>2. f \in [1..Len(t) -> 1..Len(s)]
    BY <1>0
  <1> HIDE DEF f
  <1>3. Rising(f, Len(t))
    BY <1>0, <1>1 DEF Rising
  <1>4. \A i \in 1..Len(t) : t[i] = s[f[i]]
    BY <1>1
  <1>5. s \in Seq(Scene) /\ t \in Seq(Scene) /\ Len(t) <= Len(s)
    BY <1>0
  <1> QED
    BY ONLY <1>5, <1>2, <1>3, <1>4, ThinBy

LEMMA CapturedIs ==
  ASSUME NEW s \in Seq(Packets)
  PROVE  /\ AsCaptured(s) \in Seq(Scene) /\ Len(AsCaptured(s)) = Len(Snaps(s)) /\ Len(Snaps(s)) \in Nat
         /\ \A i \in 1..Len(Snaps(s)) : AsCaptured(s)[i] = Snaps(s)[i].scene
  <1>1. Snaps(s) \in Seq(Snapshots)
    BY SnapsType
  <1>2. AsCaptured(s) = [k \in DOMAIN Snaps(s) |-> Snaps(s)[k].scene]
    BY DEF AsCaptured, Snaps, SnapsAt
  <1>3. Len(Snaps(s)) \in Nat /\ DOMAIN Snaps(s) = 1..Len(Snaps(s))
    BY <1>1
  <1>4. \A i \in 1..Len(Snaps(s)) : Snaps(s)[i].scene \in Scene
    <2> SUFFICES ASSUME NEW i \in 1..Len(Snaps(s)) PROVE Snaps(s)[i].scene \in Scene
      OBVIOUS
    <2>1. Snaps(s)[i] \in Snapshots
      BY <1>1
    <2> QED
      BY <2>1 DEF Snapshots
  <1>5. PICK x : x = Snaps(s)
    OBVIOUS
  <1>6. PICK n : n = Len(x)
    OBVIOUS
  <1>7. AsCaptured(s) = [k \in 1..n |-> x[k].scene] /\ n \in Nat /\ \A k \in 1..n : x[k].scene \in Scene
    BY <1>2, <1>3, <1>4, <1>5, <1>6
  <1>8. AsCaptured(s) \in Seq(Scene) /\ Len(AsCaptured(s)) = n
    BY <1>7
  <1> QED
    BY <1>3, <1>5, <1>6, <1>7, <1>8

\* What is sent and not shown: the run being received, then the stream.
LEMMA SentIs ==
  ASSUME TypeOK
  PROVE  /\ Waiting \in Seq(Scene) /\ Stream \in Seq(Packets)
         /\ Sent = Waiting \o AsCaptured(Stream) /\ Sent \in Seq(Scene)
  <1>1. net \in Seq(Packets) /\ buffer \in Seq(Packets) /\ (latest # None => latest.scene \in Scene)
    BY DEF TypeOK
  <1>2. Waiting \in Seq(Scene)
    BY <1>1 DEF Waiting
  <1>3. Stream \in Seq(Packets)
    BY StreamIs
  <1>4. Snaps(Stream) = Snaps(net) \o Snaps(buffer)
    BY <1>1, SnapsConcat DEF Stream
  <1>5. /\ Snaps(net) \in Seq(Snapshots) /\ Snaps(buffer) \in Seq(Snapshots)
        /\ AsCaptured(net) \in Seq(Scene) /\ AsCaptured(buffer) \in Seq(Scene) /\ AsCaptured(Stream) \in Seq(Scene)
    BY <1>1, <1>3, SnapsType, CapturedIs
  <1>6. PICK a, b : a = Snaps(net) /\ b = Snaps(buffer)
    OBVIOUS
  <1>7. /\ a \in Seq(Snapshots) /\ b \in Seq(Snapshots) /\ Snaps(Stream) = a \o b
        /\ Len(AsCaptured(net)) = Len(a) /\ Len(AsCaptured(buffer)) = Len(b)
        /\ \A i \in 1..Len(a) : AsCaptured(net)[i] = a[i].scene
        /\ \A i \in 1..Len(b) : AsCaptured(buffer)[i] = b[i].scene
        /\ Len(AsCaptured(Stream)) = Len(a \o b)
        /\ \A i \in 1..Len(a \o b) : AsCaptured(Stream)[i] = (a \o b)[i].scene
    BY <1>1, <1>3, <1>4, <1>5, <1>6, CapturedIs
  <1>8. AsCaptured(Stream) = AsCaptured(net) \o AsCaptured(buffer)
    <2>1. PICK x, y, z : x = AsCaptured(net) /\ y = AsCaptured(buffer) /\ z = AsCaptured(Stream)
      OBVIOUS
    <2>2. /\ x \in Seq(Scene) /\ y \in Seq(Scene) /\ z \in Seq(Scene) /\ x \o y \in Seq(Scene)
          /\ Len(x) = Len(a) /\ Len(y) = Len(b) /\ Len(z) = Len(a) + Len(b) /\ Len(x \o y) = Len(a) + Len(b)
      <3>1. x \in Seq(Scene) /\ y \in Seq(Scene) /\ z \in Seq(Scene)
        BY <2>1, <1>5
      <3>2. Len(x) = Len(a) /\ Len(y) = Len(b) /\ Len(z) = Len(a \o b)
        BY <2>1, <1>7
      <3>3. Len(a \o b) = Len(a) + Len(b)
        BY <1>7
      <3>4. x \o y \in Seq(Scene) /\ Len(x \o y) = Len(x) + Len(y)
        BY <3>1
      <3> QED
        BY <3>1, <3>2, <3>3, <3>4
    <2>3. ASSUME NEW i \in 1..Len(z) PROVE z[i] = (x \o y)[i]
      <3>1. z[i] = (a \o b)[i].scene
        BY <2>1, <2>2, <1>7
      <3>2. CASE i \in 1..Len(a)
        <4>1. (a \o b)[i] = a[i] /\ (x \o y)[i] = x[i]
          BY <3>2, <2>2, <1>7
        <4>2. x[i] = a[i].scene
          BY <3>2, <2>1, <1>7
        <4> QED
          BY <3>1, <4>1, <4>2
      <3>3. CASE i \notin 1..Len(a)
        <4>1. i - Len(a) \in 1..Len(b)
          BY <3>3, <2>2, <1>7
        <4>2. (a \o b)[i] = b[i - Len(a)] /\ (x \o y)[i] = y[i - Len(a)]
          BY <3>3, <4>1, <2>2, <1>7
        <4>3. y[i - Len(a)] = b[i - Len(a)].scene
          BY <4>1, <2>1, <1>7
        <4> QED
          BY <3>1, <4>2, <4>3
      <3> QED
        BY <3>2, <3>3
    <2>4. z = x \o y
      <3>1. z \in Seq(Scene) /\ x \o y \in Seq(Scene) /\ Len(z) = Len(x \o y)
        BY <2>2
      <3> QED
        BY ONLY <2>3, <3>1, SeqEqual
    <2> QED
      BY <2>1, <2>4
  <1>9. (Waiting \o AsCaptured(net)) \o AsCaptured(buffer) = Waiting \o (AsCaptured(net) \o AsCaptured(buffer))
    <2>1. Waiting \in Seq(Scene) /\ AsCaptured(net) \in Seq(Scene) /\ AsCaptured(buffer) \in Seq(Scene)
      BY <1>2, <1>5
    <2> QED
      BY ONLY <2>1, ConcatAssociative
  <1>10. Sent = (Waiting \o AsCaptured(net)) \o AsCaptured(buffer)
    BY DEF Sent, Waiting
  <1>11. Waiting \o AsCaptured(Stream) \in Seq(Scene)
    BY <1>2, <1>5
  <1> QED
    BY <1>2, <1>3, <1>8, <1>9, <1>10, <1>11

LEMMA AsChange ==
  ASSUME world' \in Scene, Shown' = Shown, Sent' \in Mirrored!Thinned(Sent)
  PROVE  Mirrored!Change
  BY DEF Mirrored!Change, Sent, Shown

LEMMA AsSkip ==
  ASSUME world' = world, Shown' = Shown, Sent' \in Mirrored!Thinned(Sent)
  PROVE  Mirrored!Skip
  BY DEF Mirrored!Skip, Sent, Shown

LEMMA AsCapture ==
  ASSUME world' = world, Shown' = Shown, NEW kept \in Mirrored!Thinned(Sent), Sent' = Append(kept, world)
  PROVE  Mirrored!Capture
  BY DEF Mirrored!Capture, Sent, Shown

LEMMA AsStartOver ==
  ASSUME world' = world, Shown' = None, Sent' \in Mirrored!Thinned(Sent)
  PROVE  Mirrored!StartOver
  BY DEF Mirrored!StartOver, Sent, Shown

LEMMA AsShow ==
  ASSUME world' = world, 1 \in DOMAIN Sent, Shown' = Sent[1], Sent' = SubSeq(Sent, 1 + 1, Len(Sent))
  PROVE  Mirrored!Show
  BY DEF Mirrored!Show, Sent, Shown

\* t has the first snapshots of s, and maybe other packets.
Fewer(s, t) == \E n \in 0..Len(Snaps(s)) : Snaps(t) = SubSeq(Snaps(s), 1, n)

LEMMA FewerSame ==
  ASSUME NEW s \in Seq(Packets), NEW t, Snaps(t) = Snaps(s)
  PROVE  Fewer(s, t)
  <1>1. PICK x : x = Snaps(s)
    OBVIOUS
  <1>2. x \in Seq(Snapshots)
    BY <1>1, SnapsType
  <1>3. x = SubSeq(x, 1, Len(x)) /\ Len(x) \in 0..Len(x)
    BY <1>2
  <1> QED
    BY <1>1, <1>3 DEF Fewer

LEMMA ThinFewer ==
  ASSUME NEW w \in Seq(Scene), NEW s \in Seq(Packets), NEW t \in Seq(Packets), Fewer(s, t)
  PROVE  w \o AsCaptured(t) \in Mirrored!Thinned(w \o AsCaptured(s)) /\ w \o AsCaptured(t) \in Seq(Scene)
  <1>1. PICK x, y : x = Snaps(s) /\ y = Snaps(t)
    OBVIOUS
  <1>2. x \in Seq(Snapshots) /\ y \in Seq(Snapshots)
    BY <1>1, SnapsType
  <1>3. PICK n \in 0..Len(x) : y = SubSeq(x, 1, n)
    BY <1>1 DEF Fewer
  <1>4. Len(x) \in Nat /\ n \in Nat /\ Len(y) = n /\ n <= Len(x) /\ \A i \in 1..n : y[i] = x[i] /\ i \in 1..Len(x)
    BY <1>2, <1>3
  <1>5. PICK a, b : a = AsCaptured(s) /\ b = AsCaptured(t)
    OBVIOUS
  <1>6. /\ a \in Seq(Scene) /\ b \in Seq(Scene) /\ Len(a) = Len(x) /\ Len(b) = n
        /\ \A i \in 1..Len(x) : a[i] = x[i].scene
        /\ \A i \in 1..n : b[i] = y[i].scene
    BY <1>1, <1>4, <1>5, CapturedIs
  <1>7. \A i \in 1..n : b[i] = a[i]
    BY <1>4, <1>6
  <1>8. PICK u, v : u = w \o a /\ v = w \o b
    OBVIOUS
  <1>9. u \in Seq(Scene) /\ v \in Seq(Scene) /\ Len(v) = Len(w) + n /\ Len(u) = Len(w) + Len(x) /\ Len(w) \in Nat
    <2>1. a \in Seq(Scene) /\ b \in Seq(Scene)
      BY <1>6
    <2>2. /\ w \o a \in Seq(Scene) /\ Len(w \o a) = Len(w) + Len(a)
          /\ w \o b \in Seq(Scene) /\ Len(w \o b) = Len(w) + Len(b)
      BY ONLY <2>1, ConcatProperties
    <2> QED
      BY <2>2, <1>6, <1>8
  <1>10. ASSUME NEW i \in 1..Len(v) PROVE v[i] = u[i]
    <2>1. CASE i \in 1..Len(w)
      BY <2>1, <1>6, <1>8
    <2>2. CASE i \notin 1..Len(w)
      <3>1. i - Len(w) \in 1..n
        BY <2>2, <1>4, <1>9
      <3>2. v[i] = b[i - Len(w)] /\ u[i] = a[i - Len(w)]
        BY <2>2, <3>1, <1>4, <1>6, <1>8, <1>9
      <3> QED
        BY <3>1, <3>2, <1>7
    <2> QED
      BY <2>1, <2>2
  <1>11. Len(v) <= Len(u)
    BY <1>4, <1>9
  <1>12. v \in Mirrored!Thinned(u)
    BY <1>9, <1>10, <1>11, ThinPrefix
  <1> QED
    BY <1>5, <1>8, <1>9, <1>12

LEMMA BaselineStream ==
  ASSUME NEW kind \in {"state", "full"}, NEW where \in Place,
         NEW packets \in Seq(Packets), Len(packets) <= BufferLimit, NEW begun \in BOOLEAN,
         connected' \in BOOLEAN, pending \in {"none", "state", "full"},
         Baseline(kind, where, packets, begun), NEW n \in Seq(Packets)
  PROVE  Fewer(n \o packets, n \o buffer')
  <1>1. PICK kept, first :
           /\ kept = WithoutSnapshots(packets, begun)
           /\ first \in Packets /\ ~IsSnapshot(first)
           /\ \/ buffer' = Append(kept, first)
              \/ buffer' = kept
              \/ buffer' = packets
    BY BaselineIs
  <1>2. kept \in Seq(Packets) /\ Thinner(packets, kept)
    <2>1. kept = WithoutSnapshots(packets, begun)
      BY <1>1
    <2> QED
      BY <2>1, DropIs
  <1>3. PICK s, m : s = n \o packets /\ m = n \o kept
    OBVIOUS
  <1>4. s \in Seq(Packets) /\ m \in Seq(Packets)
    BY <1>2, <1>3
  <1>5. Fewer(s, m)
    <2>1. Thinner(n \o packets, n \o kept)
      BY <1>2, ThinnerAfter
    <2> QED
      BY <2>1, <1>3 DEF Thinner, Fewer
  <1>6. CASE buffer' = Append(kept, first)
    <2>1. n \o Append(kept, first) = Append(m, first)
      BY <1>1, <1>2, <1>3
    <2>2. Snaps(Append(m, first)) = Snaps(m)
      BY <1>1, <1>4, SnapsOfAppend
    <2> QED
      BY <2>1, <2>2, <1>3, <1>5, <1>6 DEF Fewer
  <1>7. CASE buffer' = kept
    BY <1>3, <1>5, <1>7
  <1>8. CASE buffer' = packets
    <2>1. n \o buffer' = s
      BY <1>3, <1>8
    <2>2. Fewer(s, s)
      BY <1>4, FewerSame
    <2> QED
      BY <2>1, <2>2, <1>3
  <1> QED
    BY <1>1, <1>6, <1>7, <1>8

\* A step of the server drops snapshots, or captures one after dropping some.
Captures ==
  /\ world' = world
  /\ \E m, packet : /\ m \in Seq(Packets) /\ Fewer(Stream, m)
                    /\ packet \in Packets /\ IsSnapshot(packet) /\ packet.scene = world
                    /\ Stream' = Append(m, packet)

LEMMA SendStream ==
  ASSUME SyncInv, SendSnapshots
  PROVE  Fewer(Stream, Stream') \/ Captures
  <1>0. /\ TypeOK /\ net \in Seq(Packets) /\ buffer \in Seq(Packets) /\ partial \in BOOLEAN
        /\ Stream \in Seq(Packets) /\ Stream = net \o buffer
    BY SyncFacts
  <1>1. TickSend \/ TickOnly \/ TickBacklog
    BY DEF SendSnapshots
  <1>2. Stream' = net' \o buffer'
    BY DEF Stream
  <1>3. CASE TickOnly
    <2>1. Stream' = Stream
      BY <1>3 DEF TickOnly, Stream
    <2> QED
      BY <2>1, <1>0, FewerSame
  <1>4. PICK kept : kept = WithoutSnapshots(buffer, partial)
    OBVIOUS
  <1>5. kept \in Seq(Packets) /\ Thinner(buffer, kept)
    BY <1>0, <1>4, DropIs
  <1>6. PICK m : m = net \o kept
    OBVIOUS
  <1>7. m \in Seq(Packets) /\ Fewer(Stream, m)
    <2>1. Thinner(net \o buffer, net \o kept)
      BY <1>0, <1>5, ThinnerAfter
    <2> QED
      BY <2>1, <1>0, <1>5, <1>6 DEF Thinner, Fewer
  <1>8. CASE Flushed(kept, partial)
    <2>1. Stream' = m
      BY <1>0, <1>2, <1>5, <1>6, <1>8, FlushedIs
    <2> QED
      BY <2>1, <1>7
  <1>9. CASE TickBacklog
    BY <1>4, <1>8, <1>9 DEF TickBacklog
  <1>10. CASE TickSend
    <2>1. PICK packet \in Prepared : Flushed(Append(kept, packet), partial) \/ Flushed(kept, partial)
      BY <1>4, <1>10 DEF TickSend
    <2>2. packet \in Packets /\ IsSnapshot(packet) /\ packet.scene = world
      BY <1>0, PreparedIs
    <2>3. CASE Flushed(Append(kept, packet), partial)
      <3>1. Append(kept, packet) \in Seq(Packets)
        BY <1>5, <2>2
      <3>2. net' \o buffer' = net \o Append(kept, packet)
        BY <3>1, <1>0, <2>3, FlushedIs
      <3>3. net \o Append(kept, packet) = Append(net \o kept, packet)
        BY <1>0, <1>5, <2>2
      <3>4. Stream' = Append(m, packet)
        BY <3>2, <3>3, <1>2, <1>6
      <3>5. world' = world
        BY DEF SendSnapshots
      <3> QED
        BY <3>4, <3>5, <2>2, <1>7 DEF Captures
    <2> QED
      BY <2>1, <2>3, <1>8
  <1> QED
    BY <1>1, <1>3, <1>9, <1>10

LEMMA ServerStream ==
  ASSUME SyncInv, ServerNext
  PROVE  Fewer(Stream, Stream') \/ Captures
  <1>0. /\ TypeOK
        /\ net \in Seq(Packets) /\ buffer \in Seq(Packets) /\ Len(buffer) <= BufferLimit /\ partial \in BOOLEAN
        /\ pending \in {"none", "state", "full"} /\ connected \in BOOLEAN /\ world.place \in Place
        /\ Stream \in Seq(Packets) /\ Stream = net \o buffer
    BY SyncFacts
  <1>1. Stream' = net' \o buffer'
    BY DEF Stream
  <1>2. CASE Stream' = Stream
    BY <1>0, <1>2, FewerSame
  <1>3. CASE SendSnapshots
    BY <1>3, SendStream
  <1>4. CASE Flush
    <2>1. Flushed(buffer, partial)
      BY <1>4 DEF Flush
    <2>2. net' \o buffer' = net \o buffer
      BY <2>1, <1>0, FlushedIs
    <2> QED
      BY <2>2, <1>0, <1>1, <1>2
  <1>5. CASE HandleSnapshotAck
    BY <1>0, <1>1, <1>2, <1>5 DEF HandleSnapshotAck
  <1>6. CASE RetryPendingSceneSyncs
    <2>1. PICK k \in 0..Len(buffer) :
            /\ net' = net \o SubSeq(buffer, 1, k)
            /\ partial' \in BOOLEAN
            /\ connected' = connected
            /\ Baseline(pending, world.place, SubSeq(buffer, k + 1, Len(buffer)), partial')
      BY <1>6 DEF RetryPendingSceneSyncs
    <2>2. PICK left : left = SubSeq(buffer, k + 1, Len(buffer))
      OBVIOUS
    <2>3. PICK n : n = net'
      OBVIOUS
    <2>4. /\ left \in Seq(Packets) /\ Len(left) = Len(buffer) - k /\ n \in Seq(Packets)
          /\ n \o left = net \o buffer
      BY <2>1, <2>2, <2>3, <1>0, Taken
    <2>5. Len(left) <= BufferLimit
      BY <2>4, <1>0, LimitAssumption
    <2>6. PICK begun : begun = partial'
      OBVIOUS
    <2>7. PICK kind, where : kind = pending /\ where = world.place
      OBVIOUS
    <2>8. kind \in {"state", "full"}
      BY <2>7, <1>0, <1>6 DEF RetryPendingSceneSyncs
    <2>9. /\ where \in Place /\ begun \in BOOLEAN /\ connected' \in BOOLEAN
          /\ Baseline(kind, where, left, begun)
      BY <2>1, <2>2, <2>6, <2>7, <1>0
    <2>10. Fewer(n \o left, n \o buffer')
      BY <2>4, <2>5, <2>8, <2>9, <1>0, BaselineStream
    <2> QED
      BY <2>3, <2>4, <2>10, <1>0, <1>1
  <1>7. CASE QueueOther
    <2>1. buffer' = Append(buffer, Other) /\ net' = net
      BY <1>7 DEF QueueOther
    <2>2. Other \in Packets /\ ~IsSnapshot(Other)
      BY DEF Other, Packets, IsSnapshot
    <2>3. net \o Append(buffer, Other) = Append(net \o buffer, Other)
      BY <1>0, <2>2
    <2>4. Snaps(Append(Stream, Other)) = Snaps(Stream)
      BY <1>0, <2>2, SnapsOfAppend
    <2>5. Snaps(Stream') = Snaps(Stream)
      BY <2>1, <2>3, <2>4, <1>0, <1>1
    <2> QED
      BY <2>5, <1>0, FewerSame
  <1>8. CASE Change
    BY <1>0, <1>1, <1>2, <1>8 DEF Change, server
  <1>9. CASE EnterWorld
    <2>1. world' \in Scene /\ connected' = connected /\ Baseline("full", world'.place, buffer, partial) /\ net' = net
      BY <1>9 DEF EnterWorld
    <2>2. PICK kind, where : kind = "full" /\ where = world'.place
      OBVIOUS
    <2>3. /\ kind \in {"state", "full"} /\ where \in Place /\ connected' \in BOOLEAN
          /\ Baseline(kind, where, buffer, partial)
      BY <2>1, <2>2, <1>0 DEF Scene
    <2>4. Fewer(net \o buffer, net \o buffer')
      BY <2>3, <1>0, BaselineStream
    <2> QED
      BY <2>1, <2>4, <1>0, <1>1
  <1>10. CASE RulesChange
    <2>1. connected' = connected /\ Baseline("state", world.place, buffer, partial) /\ net' = net
      BY <1>10 DEF RulesChange
    <2>2. PICK kind, where : kind = "state" /\ where = world.place
      OBVIOUS
    <2>3. /\ kind \in {"state", "full"} /\ where \in Place /\ connected' \in BOOLEAN
          /\ Baseline(kind, where, buffer, partial)
      BY <2>1, <2>2, <1>0
    <2>4. Fewer(net \o buffer, net \o buffer')
      BY <2>3, <1>0, BaselineStream
    <2> QED
      BY <2>1, <2>4, <1>0, <1>1
  <1>11. CASE Login
    <2>1. ~connected /\ connected' = TRUE /\ Baseline("full", world.place, <<Other>>, FALSE) /\ net' = net
      BY <1>11 DEF Login
    <2>2. net = <<>> /\ buffer = <<>> /\ Stream = <<>>
      BY <2>1, <1>0 DEF SyncInv, NothingWithoutSocket
    <2>3. Other \in Packets /\ ~IsSnapshot(Other)
      BY DEF Other, Packets, IsSnapshot
    <2>4. PICK s : s = Append(Stream, Other)
      OBVIOUS
    <2>5. s \in Seq(Packets) /\ Len(s) <= BufferLimit /\ s = <<Other>> /\ s = net \o s
      BY <1>0, <2>2, <2>3, <2>4, LimitAssumption
    <2>6. Snaps(s) = Snaps(Stream)
      BY <1>0, <2>3, <2>4, SnapsOfAppend
    <2>7. PICK kind, where, begun : kind = "full" /\ where = world.place /\ begun = FALSE
      OBVIOUS
    <2>8. /\ kind \in {"state", "full"} /\ where \in Place /\ begun \in BOOLEAN /\ connected' \in BOOLEAN
          /\ Baseline(kind, where, s, begun)
      BY <2>1, <2>5, <2>7, <1>0
    <2>9. Fewer(net \o s, net \o buffer')
      BY <2>5, <2>8, <1>0, BaselineStream
    <2> QED
      BY <2>1, <2>5, <2>6, <2>9, <1>1 DEF Fewer
  <1> QED
    BY <1>3, <1>4, <1>5, <1>6, <1>7, <1>8, <1>9, <1>10, <1>11 DEF ServerNext

\* The same of the next state.
LEMMA SentIsNext ==
  ASSUME TypeOK'
  PROVE  Stream' \in Seq(Packets) /\ Sent' = Waiting' \o AsCaptured(Stream')
  <1>1. (TypeOK => Stream \in Seq(Packets) /\ Sent = Waiting \o AsCaptured(Stream))'
    BY SentIs, PTL
  <1> QED
    BY <1>1 DEF AsCaptured

LEMMA ServerMirror ==
  ASSUME SyncInv, SyncInv', ServerNext
  PROVE  Mirrored!Next
  <1>1. TypeOK /\ TypeOK'
    BY DEF SyncInv
  <1>2. latest' = latest /\ applied' = applied /\ view' = view
    BY DEF ServerNext, SendSnapshots, Flush, HandleSnapshotAck, RetryPendingSceneSyncs, QueueOther, Change,
           EnterWorld, RulesChange, Login, client
  <1>3. Shown' = Shown /\ Waiting' = Waiting
    BY <1>2 DEF Shown, Waiting
  <1>4. /\ Waiting \in Seq(Scene) /\ Stream \in Seq(Packets) /\ Stream' \in Seq(Packets)
        /\ Sent = Waiting \o AsCaptured(Stream)
    BY <1>1, SentIs, SentIsNext
  <1>5. Sent' = Waiting \o AsCaptured(Stream')
    BY <1>1, <1>3, SentIsNext
  <1>6. world \in Scene /\ world' \in Scene
    BY <1>1 DEF TypeOK
  <1>7. CASE Fewer(Stream, Stream')
    <2>1. PICK t : t = Stream'
      OBVIOUS
    <2>2. Waiting \o AsCaptured(t) \in Mirrored!Thinned(Waiting \o AsCaptured(Stream))
      BY <2>1, <1>4, <1>7, ThinFewer
    <2>3. Sent' \in Mirrored!Thinned(Sent)
      BY <2>1, <2>2, <1>4, <1>5
    <2> QED
      BY <2>3, <1>3, <1>6, AsChange DEF Mirrored!Next
  <1>8. CASE Captures
    <2>1. PICK m, packet :
            /\ m \in Seq(Packets) /\ Fewer(Stream, m)
            /\ packet \in Packets /\ IsSnapshot(packet) /\ packet.scene = world
            /\ Stream' = Append(m, packet)
      BY <1>8 DEF Captures
    <2>2. PICK kept : kept = Waiting \o AsCaptured(m)
      OBVIOUS
    <2>3. kept \in Mirrored!Thinned(Sent) /\ kept \in Seq(Scene)
      BY <2>1, <2>2, <1>4, ThinFewer
    <2>4. AsCaptured(Append(m, packet)) = Append(AsCaptured(m), world)
      <3>1. PICK x : x = Snaps(m)
        OBVIOUS
      <3>2. x \in Seq(Snapshots) /\ packet \in Snapshots /\ Snaps(Append(m, packet)) = Append(x, packet)
        BY <2>1, <3>1, SnapsType, SnapsOfAppend, PacketTypes
      <3>3. Append(m, packet) \in Seq(Packets)
        BY <2>1
      <3>4. PICK a, b : a = AsCaptured(m) /\ b = AsCaptured(Append(m, packet))
        OBVIOUS
      <3>5. /\ a \in Seq(Scene) /\ Len(a) = Len(x) /\ \A i \in 1..Len(x) : a[i] = x[i].scene
            /\ b \in Seq(Scene) /\ Len(b) = Len(Append(x, packet))
            /\ \A i \in 1..Len(Append(x, packet)) : b[i] = Append(x, packet)[i].scene
        BY <3>1, <3>2, <3>3, <3>4, <2>1, CapturedIs
      <3>6. Len(x) \in Nat /\ Len(Append(x, packet)) = Len(x) + 1
        BY <3>2
      <3>7. Append(a, world) \in Seq(Scene) /\ Len(Append(a, world)) = Len(b)
        BY <3>5, <3>6, <1>6
      <3>8. ASSUME NEW i \in 1..Len(b) PROVE b[i] = Append(a, world)[i]
        <4>1. CASE i = Len(x) + 1
          <5>1. Append(x, packet)[i] = packet /\ Append(a, world)[i] = world
            BY <4>1, <3>2, <3>5, <1>6
          <5> QED
            BY <5>1, <3>5, <2>1
        <4>2. CASE i # Len(x) + 1
          <5>1. i \in 1..Len(x)
            BY <4>2, <3>5, <3>6
          <5>2. Append(x, packet)[i] = x[i] /\ Append(a, world)[i] = a[i]
            BY <5>1, <3>2, <3>5, <1>6
          <5> QED
            BY <5>1, <5>2, <3>5
        <4> QED
          BY <4>1, <4>2
      <3>9. b = Append(a, world)
        <4>1. b \in Seq(Scene) /\ Append(a, world) \in Seq(Scene) /\ Len(b) = Len(Append(a, world))
          BY <3>5, <3>7
        <4> QED
          BY ONLY <3>8, <4>1, SeqEqual
      <3> QED
        BY <3>4, <3>9
    <2>5. Waiting \o Append(AsCaptured(m), world) = Append(Waiting \o AsCaptured(m), world)
      <3>1. AsCaptured(m) \in Seq(Scene)
        BY <2>1, CapturedIs
      <3> QED
        BY <3>1, <1>4, <1>6
    <2>6. Sent' = Append(kept, world)
      BY <2>1, <2>2, <2>4, <2>5, <1>5
    <2>7. world' = world
      BY <1>8 DEF Captures
    <2> QED
      BY <2>3, <2>6, <2>7, <1>3, AsCapture DEF Mirrored!Next
  <1> QED
    BY <1>7, <1>8, ServerStream

LEMMA Joined ==
  ASSUME NEW S, NEW x \in S, NEW r \in Seq(S)
  PROVE  /\ <<x>> \o r \in Seq(S) /\ Len(<<x>> \o r) = Len(r) + 1
         /\ (<<x>> \o r)[1] = x
         /\ \A i \in 1..Len(r) : (<<x>> \o r)[i + 1] = r[i]
         /\ SubSeq(<<x>> \o r, 2, Len(r) + 1) = r
  <1>1. PICK y : y = <<x>> \o r
    OBVIOUS
  <1>2. /\ y \in Seq(S) /\ Len(y) = Len(r) + 1 /\ y[1] = x /\ Len(r) \in Nat
        /\ \A i \in 1..Len(r) : y[i + 1] = r[i]
    BY <1>1
  <1>3. SubSeq(y, 2, Len(r) + 1) = r
    <2>1. PICK z : z = SubSeq(y, 2, Len(r) + 1)
      OBVIOUS
    <2>2. z \in Seq(S) /\ Len(z) = Len(r) /\ \A i \in 1..Len(r) : z[i] = y[i + 1]
      BY <2>1, <1>2
    <2>3. \A i \in 1..Len(z) : z[i] = r[i]
      BY <2>2, <1>2
    <2>4. z \in Seq(S) /\ r \in Seq(S) /\ Len(z) = Len(r)
      BY <2>2
    <2>5. z = r
      BY ONLY <2>3, <2>4, SeqEqual
    <2> QED
      BY <2>1, <2>5
  <1> QED
    BY <1>1, <1>2, <1>3

\* What is left when one of the first two scenes is skipped.
LEMMA ThinSkip ==
  ASSUME NEW x \in Scene, NEW y \in Scene, NEW r \in Seq(Scene)
  PROVE  /\ <<x>> \o r \in Seq(Scene)
         /\ r \in Mirrored!Thinned(<<x>> \o r)
         /\ <<x>> \o r \in Mirrored!Thinned(<<x>> \o (<<y>> \o r))
         /\ r \in Mirrored!Thinned(r)
         /\ <<>> \in Mirrored!Thinned(r)
  <1>1. PICK a, b, c : a = <<x>> \o r /\ b = <<y>> \o r /\ c = <<x>> \o (<<y>> \o r)
    OBVIOUS
  <1>2. /\ a \in Seq(Scene) /\ Len(a) = Len(r) + 1 /\ a[1] = x /\ \A i \in 1..Len(r) : a[i + 1] = r[i]
        /\ b \in Seq(Scene) /\ Len(b) = Len(r) + 1 /\ b[1] = y /\ \A i \in 1..Len(r) : b[i + 1] = r[i]
    BY <1>1, Joined
  <1>3. c \in Seq(Scene) /\ Len(c) = Len(b) + 1 /\ c[1] = x /\ \A i \in 1..Len(b) : c[i + 1] = b[i]
    <2>1. c = <<x>> \o b
      BY <1>1
    <2> QED
      BY <2>1, <1>2, Joined
  <1>4. Len(r) \in Nat
    OBVIOUS
  <1>5. r \in Mirrored!Thinned(a)
    <2>1. Len(a) = Len(r) + 1 /\ 1 \in 1..(Len(r) + 1) /\ a \in Seq(Scene)
      BY <1>2, <1>4
    <2>2. \A i \in 1..Len(r) : r[i] = IF i < 1 THEN a[i] ELSE a[i + 1]
      BY <1>2, <1>4
    <2> QED
      BY <2>1, <2>2, ThinAfter
  <1>6. a \in Mirrored!Thinned(c)
    <2>1. Len(c) = Len(a) + 1 /\ 2 \in 1..(Len(a) + 1) /\ a \in Seq(Scene) /\ c \in Seq(Scene)
      BY <1>2, <1>3, <1>4
    <2>2. ASSUME NEW i \in 1..Len(a) PROVE a[i] = IF i < 2 THEN c[i] ELSE c[i + 1]
      <3>1. CASE i = 1
        BY <3>1, <1>2, <1>3
      <3>2. CASE i # 1
        <4>1. i - 1 \in 1..Len(r) /\ (i - 1) + 1 = i /\ i \in 1..Len(b) /\ ~(i < 2)
          BY <3>2, <1>2, <1>4
        <4>2. a[(i - 1) + 1] = r[i - 1] /\ b[(i - 1) + 1] = r[i - 1] /\ c[i + 1] = b[i]
          BY <4>1, <1>2, <1>3
        <4> QED
          BY <4>1, <4>2
      <3> QED
        BY <3>1, <3>2
    <2> QED
      BY <2>1, <2>2, ThinAfter
  <1>7. r \in Mirrored!Thinned(r)
    BY <1>4, ThinPrefix
  <1>8. <<>> \in Mirrored!Thinned(r)
    <2>1. PICK e : e = <<>>
      OBVIOUS
    <2>2. e \in Seq(Scene) /\ Len(e) = 0
      BY <2>1
    <2>3. r \in Seq(Scene) /\ Len(e) <= Len(r) /\ \A i \in 1..Len(e) : e[i] = r[i]
      BY <2>2, <1>4
    <2>4. e \in Mirrored!Thinned(r)
      BY <2>2, <2>3, ThinPrefix
    <2> QED
      BY <2>1, <2>4
  <1> QED
    BY <1>1, <1>2, <1>5, <1>6, <1>7, <1>8

LEMMA ReceiveMirror ==
  ASSUME SyncInv, SyncInv', ReceiveSnapshot
  PROVE  Mirrored!Skip
  <1>0. TypeOK /\ TypeOK'
    BY DEF SyncInv
  <1>1. /\ net # <<>> /\ IsSnapshot(Head(net)) /\ net' = Tail(net) /\ UNCHANGED <<world, server, applied, view>>
    BY DEF ReceiveSnapshot
  <1>2. world' = world /\ Shown' = Shown
    BY <1>1 DEF Shown
  <1>3. PICK p : p = Head(net)
    OBVIOUS
  <1>4. Stream' = Tail(Stream) /\ Stream # <<>> /\ Stream[1] = p /\ p \in Packets /\ IsSnapshot(p)
    BY <1>0, <1>1, <1>3, StreamMoves
  <1>5. /\ Waiting \in Seq(Scene) /\ Stream \in Seq(Packets) /\ Stream' \in Seq(Packets)
        /\ Sent = Waiting \o AsCaptured(Stream) /\ Sent' = Waiting' \o AsCaptured(Stream')
    BY <1>0, SentIs, SentIsNext
  <1>6. PICK r : r = AsCaptured(Tail(Stream))
    OBVIOUS
  <1>7. Tail(Stream) \in Seq(Packets) /\ r \in Seq(Scene)
    BY <1>4, <1>5, <1>6, CapturedIs
  <1>8. p \in Snapshots /\ p.scene \in Scene
    BY <1>4, PacketTypes DEF Snapshots
  <1>9. AsCaptured(Stream) = <<p.scene>> \o r
    <2>1. PICK x : x = Snaps(Tail(Stream))
      OBVIOUS
    <2>2. x \in Seq(Snapshots) /\ Snaps(Stream) = <<p>> \o x
      BY <2>1, <1>4, <1>5, <1>7, SnapsType, SnapsOfHead
    <2>3. /\ Len(<<p>> \o x) = Len(x) + 1 /\ (<<p>> \o x)[1] = p
          /\ \A i \in 1..Len(x) : (<<p>> \o x)[i + 1] = x[i]
      BY <2>2, <1>8, Joined
    <2>4. PICK a, b : a = AsCaptured(Stream) /\ b = <<p.scene>> \o r
      OBVIOUS
    <2>5. /\ a \in Seq(Scene) /\ Len(a) = Len(x) + 1 /\ Len(x) \in Nat
          /\ \A i \in 1..(Len(x) + 1) : a[i] = (<<p>> \o x)[i].scene
          /\ Len(r) = Len(x) /\ \A i \in 1..Len(x) : r[i] = x[i].scene
      <3>1. /\ AsCaptured(Stream) \in Seq(Scene) /\ Len(AsCaptured(Stream)) = Len(Snaps(Stream))
            /\ \A i \in 1..Len(Snaps(Stream)) : AsCaptured(Stream)[i] = Snaps(Stream)[i].scene
        BY <1>5, CapturedIs
      <3>2. Len(r) = Len(x) /\ Len(x) \in Nat /\ \A i \in 1..Len(x) : r[i] = x[i].scene
        BY <1>6, <1>7, <2>1, CapturedIs
      <3> QED
        BY <3>1, <3>2, <2>2, <2>3, <2>4
    <2>6. /\ b \in Seq(Scene) /\ Len(b) = Len(r) + 1 /\ b[1] = p.scene
          /\ \A i \in 1..Len(r) : b[i + 1] = r[i]
      BY <2>4, <1>7, <1>8, Joined
    <2>7. ASSUME NEW i \in 1..Len(a) PROVE a[i] = b[i]
      <3>1. CASE i = 1
        BY <3>1, <2>3, <2>5, <2>6
      <3>2. CASE i # 1
        <4>1. i - 1 \in 1..Len(x) /\ (i - 1) + 1 = i
          BY <3>2, <2>5
        <4>2. b[(i - 1) + 1] = r[i - 1] /\ r[i - 1] = x[i - 1].scene
          BY <4>1, <2>5, <2>6
        <4>3. (<<p>> \o x)[(i - 1) + 1] = x[i - 1]
          BY <4>1, <2>3
        <4> QED
          BY <4>1, <4>2, <4>3, <2>5
      <3> QED
        BY <3>1, <3>2
    <2>8. a \in Seq(Scene) /\ b \in Seq(Scene) /\ Len(a) = Len(b)
      BY <2>5, <2>6
    <2>9. a = b
      BY ONLY <2>7, <2>8, SeqEqual
    <2> QED
      BY <2>4, <2>9
  <1>10. Sent = Waiting \o (<<p.scene>> \o r) /\ Sent' = Waiting' \o r
    BY <1>4, <1>5, <1>6, <1>9
  <1>11. latest' = latest \/ (latest' # None /\ latest'.scene = p.scene)
    <2>1. Resolvable(p)
      BY <1>1, <1>3, ReceivedIs
    <2>2. PICK resolved : resolved = [id |-> p.id, entities |-> Resolved(p), scene |-> p.scene]
      OBVIOUS
    <2>3. latest' = latest \/ latest' = resolved
      BY <1>3, <2>1, <2>2 DEF ReceiveSnapshot
    <2>4. resolved # None /\ resolved.scene = p.scene
      <3>1. Resolved(p) \in Entities
        <4>1. Resolved(p) = p.scene.entities
          BY <1>1, <1>3, ReceivedIs
        <4> QED
          BY <4>1, <1>8 DEF Scene
      <3>2. resolved \in [id : Id, entities : Entities, scene : Scene]
        BY <3>1, <2>2, <1>8 DEF Snapshots
      <3> QED
        BY <3>2, <2>2, NoneAssumption
    <2> QED
      BY <2>3, <2>4
  <1>12. PICK j : j = <<p.scene>> \o r
    OBVIOUS
  <1>13. j \in Seq(Scene) /\ r \in Mirrored!Thinned(j) /\ j \in Mirrored!Thinned(j)
    BY <1>7, <1>8, <1>12, Joined, ThinSkip
  <1>14. CASE latest = None
    <2>1. Sent = j
      BY <1>10, <1>12, <1>13, <1>14 DEF Waiting
    <2>2. CASE latest' = None
      <3>1. Sent' = r
        BY <2>2, <1>7, <1>10 DEF Waiting
      <3> QED
        BY <2>1, <3>1, <1>2, <1>13, AsSkip
    <2>3. CASE latest' # None
      <3>1. Waiting' = <<p.scene>>
        BY <2>3, <1>11, <1>14 DEF Waiting
      <3>2. Sent' = j
        BY <3>1, <1>10, <1>12
      <3> QED
        BY <2>1, <3>2, <1>2, <1>13, AsSkip
    <2> QED
      BY <2>2, <2>3
  <1>15. CASE latest # None
    <2>1. PICK x : x = latest.scene
      OBVIOUS
    <2>2. x \in Scene /\ Waiting = <<x>> /\ latest' # None
      BY <2>1, <1>0, <1>11, <1>15 DEF Waiting, TypeOK
    <2>3. Sent = <<x>> \o j
      BY <2>2, <1>10, <1>12
    <2>4. CASE latest' = latest
      <3>1. Sent' = <<x>> \o r
        BY <2>2, <2>4, <1>10 DEF Waiting
      <3>2. <<x>> \o r \in Mirrored!Thinned(<<x>> \o (<<p.scene>> \o r))
        BY <2>2, <1>7, <1>8, ThinSkip
      <3>3. Sent' \in Mirrored!Thinned(Sent)
        BY <3>1, <3>2, <2>3, <1>12
      <3> QED
        BY <3>3, <1>2, AsSkip
    <2>5. CASE latest'.scene = p.scene
      <3>1. Waiting' = <<p.scene>>
        BY <2>2, <2>5 DEF Waiting
      <3>2. Sent' = j
        BY <3>1, <1>10, <1>12
      <3>3. j \in Mirrored!Thinned(<<x>> \o j)
        BY <2>2, <1>13, ThinSkip
      <3>4. Sent' \in Mirrored!Thinned(Sent)
        BY <3>2, <3>3, <2>3
      <3> QED
        BY <3>4, <1>2, AsSkip
    <2> QED
      BY <2>4, <2>5, <1>11
  <1> QED
    BY <1>14, <1>15

LEMMA ShowMirror ==
  ASSUME SyncInv, SyncInv', ApplySnapshotAndAck
  PROVE  Mirrored!Next
  <1>0. TypeOK /\ TypeOK' /\ Placed
    BY DEF SyncInv
  <1>1. /\ latest # None /\ latest' = None /\ world' = world /\ net' = net /\ buffer' = buffer
    BY DEF ApplySnapshotAndAck, server
  <1>2. PICK x : x = latest.scene
    OBVIOUS
  <1>3. /\ latest.id \in Id /\ latest.entities \in Entities /\ x \in Scene
        /\ x.place = view.place /\ latest.entities = x.entities
    BY <1>0, <1>1, <1>2 DEF TypeOK, Placed
  <1>4. PICK r : r = AsCaptured(Stream)
    OBVIOUS
  <1>5. r \in Seq(Scene)
    BY <1>0, <1>4, SentIs, CapturedIs
  <1>6. Sent = <<x>> \o r
    BY <1>0, <1>1, <1>2, <1>4, SentIs DEF Waiting
  <1>7. Sent' = r
    <2>1. Stream' = Stream
      BY <1>1 DEF Stream
    <2>2. Sent' = <<>> \o r
      BY <1>0, <1>1, <1>4, <2>1, SentIsNext DEF Waiting
    <2> QED
      BY <2>2, <1>5
  <1>8. PICK j : j = <<x>> \o r
    OBVIOUS
  <1>9. CASE UNCHANGED <<applied, view>>
    <2>1. Shown' = Shown
      BY <1>9 DEF Shown
    <2>2. r \in Mirrored!Thinned(j)
      BY <1>3, <1>5, <1>8, ThinSkip
    <2> QED
      BY <2>1, <2>2, <1>1, <1>6, <1>7, <1>8, AsSkip DEF Mirrored!Next
  <1>10. CASE applied' = latest.id /\ view' = [view EXCEPT !.entities = latest.entities]
    <2>1. applied' # None
      BY <1>3, <1>10, IdsApart
    <2>2. view \in [place : Place \cup {None}, entities : Entities] /\ x \in [place : Place, entities : Entities]
      BY <1>0, <1>3 DEF TypeOK, Scene
    <2>3. view' = x
      BY <2>2, <1>3, <1>10
    <2>4. Shown' = x
      BY <2>1, <2>3 DEF Shown
    <2>5. /\ j \in Seq(Scene) /\ Len(j) = Len(r) + 1 /\ j[1] = x /\ SubSeq(j, 2, Len(r) + 1) = r
      BY <1>3, <1>5, <1>8, Joined
    <2>6. 1 \in DOMAIN j /\ SubSeq(j, 1 + 1, Len(j)) = r
      BY <2>5, <1>5
    <2> QED
      BY <2>4, <2>5, <2>6, <1>1, <1>6, <1>7, <1>8, AsShow DEF Mirrored!Next
  <1> QED
    BY <1>9, <1>10 DEF ApplySnapshotAndAck

LEMMA ClientMirror ==
  ASSUME SyncInv, SyncInv', ClientNext \/ LoseConnection
  PROVE  Mirrored!Next
  <1>0. TypeOK /\ TypeOK'
    BY DEF SyncInv
  <1>1. Sent \in Seq(Scene) /\ Stream \in Seq(Packets) /\ Waiting \in Seq(Scene)
    BY <1>0, SentIs
  <1>2. PICK r : r = Sent
    OBVIOUS
  <1>3. r \in Mirrored!Thinned(r) /\ <<>> \in Mirrored!Thinned(r)
    <2>1. r \in Seq(Scene) /\ world \in Scene
      BY <1>0, <1>1, <1>2 DEF TypeOK
    <2> QED
      BY <2>1, ThinSkip
  <1>4. CASE ReceiveSnapshot
    BY <1>4, ReceiveMirror DEF Mirrored!Next
  <1>5. CASE ApplySnapshotAndAck
    BY <1>5, ShowMirror
  <1>6. ASSUME net # <<>>, net' = Tail(net), UNCHANGED server, latest' = latest, ~IsSnapshot(Head(net))
        PROVE  Sent' = Sent
    <2>1. Stream' = Tail(Stream) /\ Stream # <<>> /\ Stream[1] = Head(net)
      BY <1>0, <1>6, StreamMoves
    <2>2. Snaps(Stream') = Snaps(Stream)
      BY <2>1, <1>1, <1>6, SnapsOfHead
    <2>3. AsCaptured(Stream') = AsCaptured(Stream)
      <3>1. \A s : AsCaptured(s) = [k \in DOMAIN Snaps(s) |-> Snaps(s)[k].scene]
        BY DEF AsCaptured, Snaps, SnapsAt
      <3>2. PICK t : t = Stream'
        OBVIOUS
      <3>3. AsCaptured(t) = AsCaptured(Stream)
        BY <3>1, <3>2, <2>2
      <3> QED
        BY <3>2, <3>3
    <2>4. Waiting' = Waiting
      BY <1>6 DEF Waiting
    <2> QED
      BY <2>3, <2>4, <1>0, SentIs, SentIsNext
  <1>7. CASE ReceiveWelcome
    <2>1. /\ latest = None /\ latest' = None /\ net # <<>> /\ ~IsSnapshot(Head(net)) /\ net' = Tail(net)
          /\ applied' = None /\ world' = world /\ UNCHANGED server
      BY <1>7 DEF ReceiveWelcome, ResetNetworkScene, IsSnapshot
    <2>2. Sent' = Sent
      BY <2>1, <1>6
    <2>3. Shown' = None
      BY <2>1 DEF Shown
    <2> QED
      BY <2>1, <2>2, <2>3, <1>2, <1>3, AsStartOver DEF Mirrored!Next
  <1>8. CASE ReceiveOther
    <2>1. /\ net # <<>> /\ Head(net) = Other /\ net' = Tail(net) /\ world' = world
          /\ UNCHANGED server /\ latest' = latest /\ applied' = applied /\ view' = view
      BY <1>8 DEF ReceiveOther, client
    <2>2. ~IsSnapshot(Head(net))
      BY <2>1 DEF Other, IsSnapshot
    <2>3. Sent' = Sent
      BY <2>1, <2>2, <1>6
    <2>4. Shown' = Shown
      BY <2>1 DEF Shown
    <2> QED
      BY <2>1, <2>3, <2>4, <1>2, <1>3, AsSkip DEF Mirrored!Next
  <1>9. CASE LoseConnection
    <2>1. latest' = None /\ net' = <<>> /\ buffer' = <<>> /\ applied' = None /\ world' = world
      BY <1>9 DEF LoseConnection, ResetNetworkScene
    <2>2. Sent' = <<>>
      <3>1. PICK e : e = <<>>
        OBVIOUS
      <3>2. e \in Seq(Packets) /\ Snaps(e) = <<>>
        BY <3>1, SnapsNone
      <3>3. AsCaptured(e) \in Seq(Scene) /\ Len(AsCaptured(e)) = 0
        BY <3>2, CapturedIs
      <3>4. AsCaptured(e) = <<>>
        BY <3>3
      <3>5. Stream' = e
        BY <2>1, <3>1 DEF Stream
      <3>6. Sent' = <<>> \o AsCaptured(e)
        BY <2>1, <3>5, <1>0, SentIsNext DEF Waiting
      <3> QED
        BY <3>4, <3>6
    <2>3. Shown' = None
      BY <2>1 DEF Shown
    <2> QED
      BY <2>1, <2>2, <2>3, <1>2, <1>3, AsStartOver DEF Mirrored!Next
  <1> QED
    BY <1>4, <1>5, <1>7, <1>8, <1>9 DEF ClientNext

LEMMA MirrorInit == Init => Mirrored!Init
  <1> SUFFICES ASSUME Init PROVE Mirrored!Init
    OBVIOUS
  <1>1. latest = None /\ net = <<>> /\ buffer = <<>> /\ applied = None /\ world \in Scene
    BY DEF Init
  <1>2. PICK e : e = <<>>
    OBVIOUS
  <1>3. e \in Seq(Packets) /\ Snaps(e) = <<>>
    BY <1>2, SnapsNone
  <1>4. AsCaptured(e) \in Seq(Scene) /\ Len(AsCaptured(e)) = 0
    BY <1>3, CapturedIs
  <1>5. AsCaptured(e) = <<>>
    BY <1>4
  <1>6. Sent = <<>> \o AsCaptured(e) \o AsCaptured(e)
    BY <1>1, <1>2 DEF Sent
  <1>7. Sent = <<>>
    BY <1>5, <1>6
  <1>8. Shown = None
    BY <1>1 DEF Shown
  <1> QED
    BY <1>1, <1>7, <1>8 DEF Mirrored!Init, Sent, Shown

LEMMA MirrorStep == SyncInv /\ SyncInv' /\ [Next]_vars => [Mirrored!Next]_(Mirrored!vars)
  <1> SUFFICES ASSUME SyncInv, SyncInv', [Next]_vars PROVE [Mirrored!Next]_(Mirrored!vars)
    OBVIOUS
  <1>1. CASE ServerNext
    BY <1>1, ServerMirror
  <1>2. CASE ClientNext \/ LoseConnection
    BY <1>2, ClientMirror
  <1>3. CASE UNCHANGED vars
    BY <1>3 DEF vars, server, client, Mirrored!vars
  <1> QED
    BY <1>1, <1>2, <1>3 DEF Next

\* Spec implements Mirror: what the client shows is a scene the server had, in
\* the map it was captured in, and only moves forward in time, across dropped
\* snapshots, differences, baselines and lost connections.
THEOREM SyncImplementation == Spec => IsMirror
  BY SyncInvariance, MirrorInit, MirrorStep, PTL DEF Spec, IsMirror, Mirrored!Spec

-----------------------------------------------------------------------------
(* The pool that builds the snapshots.                                       *)

\* A worker that runs a job belongs to the call in progress, and one that
\* waits knowing of the call found no job left.
WorkerPhase ==
  /\ stopping <=> caller \in {"stopping", "joined"}
  /\ \A w \in Worker :
       /\ place[w] = "job" => caller = "run" /\ observed[w] = generation
       /\ place[w] = "left" => stopping
       /\ place[w] = "waiting" /\ observed[w] = generation /\ ~stopping =>
            nextJob = jobCount

\* The jobs taken are those that ran and those in a worker's hands.
TakenJobs ==
  /\ nextJob <= jobCount
  /\ ran \subseteq 0..(nextJob - 1)
  /\ \A w \in Worker : place[w] = "job" => holding[w] \in 0..(nextJob - 1)
  /\ \A j \in 0..(nextJob - 1) :
       j \in ran \/ \E w \in Worker : place[w] = "job" /\ holding[w] = j
  /\ caller # "run" => ran = 0..(jobCount - 1)

PoolInv == PoolTypeOK /\ WorkerPhase /\ TakenJobs /\ NoJobTwice /\ PendingIsEngaged

LEMMA WorkerCount == Cardinality(Worker) \in Nat
  BY PoolAssumption, FS_CardinalityType

\* The counter steps to another of its values.
LEMMA BumpStep ==
  ASSUME NEW g \in 0..(Generations - 1)
  PROVE  (g + 1) % Generations \in 0..(Generations - 1) \ {g}
  <1>1. CASE g + 1 < Generations
    <2>1. (g + 1) % Generations = g + 1
      BY <1>1, PoolAssumption
    <2> QED
      BY <1>1, <2>1, PoolAssumption
  <1>2. CASE g + 1 = Generations
    <2>1. (g + 1) % Generations = 0
      BY <1>2, PoolAssumption
    <2> QED
      BY <1>2, <2>1, PoolAssumption
  <1> QED
    BY <1>1, <1>2, PoolAssumption

LEMMA IntervalSplit ==
  ASSUME NEW m \in Nat, NEW n \in Nat, m <= n
  PROVE  /\ 0..(m - 1) \subseteq 0..(n - 1)
         /\ \A j \in 0..(n - 1) : j \in 0..(m - 1) \/ j \in m..(n - 1)
  OBVIOUS

LEMMA EngagedCount ==
  /\ IsFiniteSet(Engaged) /\ Cardinality(Engaged) \in Nat
  /\ Cardinality(Engaged) = 0 <=> Engaged = {}
  <1>1. IsFiniteSet(Engaged)
    BY PoolAssumption, FS_Subset DEF Engaged
  <1> QED
    BY <1>1, FS_CardinalityType, FS_EmptySet

LEMMA InitInv == PoolInit => PoolInv
  <1> SUFFICES ASSUME PoolInit PROVE PoolInv
    OBVIOUS
  <1>1. Engaged = {}
    BY DEF PoolInit, Engaged
  <1>2. PoolTypeOK
    <2>1. 0 \in 0..(Generations - 1) /\ 0 \in 0..MaxJobs /\ 0 \in 0..Cardinality(Worker)
      BY WorkerCount, PoolAssumption
    <2> QED
      BY <2>1 DEF PoolInit, PoolTypeOK
  <1>3. ran = 0..(jobCount - 1)
    BY DEF PoolInit
  <1> QED
    BY <1>1, <1>2, <1>3
    DEF PoolInit, PoolInv, WorkerPhase, TakenJobs, NoJobTwice, PendingIsEngaged

\* A new call engages every worker: the generation they observed is no longer
\* the current one.
LEMMA RunInv ==
  ASSUME PoolInv, NEW n \in 1..MaxJobs, Run(n)
  PROVE  PoolInv'
  <1> USE DEF PoolInv, Run, WorkersToWaitFor
  <1>1. generation' \in 0..(Generations - 1) /\ generation' # generation
    BY BumpStep DEF PoolTypeOK, Bump
  <1>2. \A w \in Worker : place[w] = "waiting" /\ observed[w] = generation
    BY DEF PendingIsEngaged, Engaged, WorkerPhase, PoolTypeOK
  <1>3. Engaged' = Worker
    BY <1>1, <1>2 DEF Engaged
  <1>4. /\ n \in 0..MaxJobs /\ 0 \in 0..MaxJobs
        /\ Cardinality(Worker) \in 0..Cardinality(Worker)
    BY WorkerCount, PoolAssumption
  <1>5. PoolTypeOK'
    BY <1>1, <1>4 DEF PoolTypeOK
  <1> QED
    BY <1>1, <1>2, <1>3, <1>5, PoolAssumption
    DEF WorkerPhase, TakenJobs, NoJobTwice, PendingIsEngaged, PoolTypeOK

\* When nobody is engaged any more, every job was taken and has run.
LEMMA ReturnInv ==
  ASSUME PoolInv, ReturnFromRun
  PROVE  PoolInv' /\ ran = 0..(jobCount - 1)
  <1> USE DEF PoolInv, ReturnFromRun
  <1>1. Engaged = {}
    BY EngagedCount DEF PendingIsEngaged
  <1>2. \A w \in Worker : place[w] = "waiting" /\ observed[w] = generation
    BY <1>1 DEF Engaged, WorkerPhase, PoolTypeOK
  <1>3. nextJob = jobCount
    BY <1>2, PoolAssumption DEF WorkerPhase
  <1>4. ran = 0..(jobCount - 1)
    BY <1>2, <1>3 DEF TakenJobs
  <1>5. Engaged' = {}
    BY <1>1 DEF Engaged
  <1> QED
    BY <1>2, <1>3, <1>4, <1>5
    DEF PoolTypeOK, WorkerPhase, TakenJobs, NoJobTwice, PendingIsEngaged

LEMMA StopInv ==
  ASSUME PoolInv, ShutDown \/ Join \/ \E w \in Worker : Leave(w)
  PROVE  PoolInv'
  <1> USE DEF PoolInv, PoolTypeOK, WorkerPhase, TakenJobs, NoJobTwice, PendingIsEngaged
  <1>1. CASE ShutDown
    <2>1. generation' \in 0..(Generations - 1)
      BY <1>1, BumpStep DEF ShutDown, Bump
    <2> QED
      BY <1>1, <2>1 DEF ShutDown, Engaged
  <1>2. CASE Join
    BY <1>2 DEF Join
  <1>3. ASSUME NEW w \in Worker, Leave(w)
        PROVE  PoolInv'
    BY <1>3 DEF Leave, SeesStop, callVars
  <1> QED
    BY <1>1, <1>2, <1>3

\* What taking a job, or finding none, does to the count of engaged workers.
LEMMA TakeOrFinishCount ==
  ASSUME PoolInv, NEW w \in Worker, w \in Engaged, caller = "run",
         TakeOrFinish(w), UNCHANGED callVars,
         observed' = [observed EXCEPT ![w] = generation]
  PROVE  /\ PendingIsEngaged'
         /\ workersPending' \in 0..Cardinality(Worker)
  <1> USE DEF PoolInv, PoolTypeOK, callVars
  <1>0. workersPending = Cardinality(Engaged) /\ Cardinality(Engaged) \in Nat
    BY EngagedCount DEF PendingIsEngaged
  <1>1. CASE place'[w] = "job" /\ workersPending' = workersPending
    <2>1. Engaged' = Engaged
      BY <1>1 DEF Engaged, TakeOrFinish
    <2> QED
      BY <1>0, <1>1, <2>1 DEF PendingIsEngaged
  <1>2. CASE place' = [place EXCEPT ![w] = "waiting"] /\ workersPending' = workersPending - 1
    <2>1. Engaged' = Engaged \ {w}
      BY <1>2 DEF Engaged
    <2>2. Cardinality(Engaged \ {w}) = Cardinality(Engaged) - 1
      BY EngagedCount, FS_RemoveElement
    <2>3. Cardinality(Engaged \ {w}) \in Nat
      BY EngagedCount, FS_RemoveElement, FS_CardinalityType
    <2> QED
      BY <1>0, <1>2, <2>1, <2>2, <2>3, WorkerCount DEF PendingIsEngaged
  <1> QED
    BY <1>1, <1>2 DEF TakeOrFinish

LEMMA WakeInv ==
  ASSUME PoolInv, NEW w \in Worker, Wake(w)
  PROVE  PoolInv'
  <1> USE DEF PoolInv, PoolTypeOK, Wake, Observe, callVars
  <1>1. caller = "run" /\ w \in Engaged
    BY DEF WorkerPhase, PendingIsEngaged, Engaged
  <1>2. PendingIsEngaged' /\ workersPending' \in 0..Cardinality(Worker)
    BY <1>1, TakeOrFinishCount
  <1>3. PoolTypeOK'
    BY <1>1, <1>2, PoolAssumption DEF TakeOrFinish, NextJob
  <1>4. WorkerPhase'
    BY <1>1 DEF TakeOrFinish, WorkerPhase, TakenJobs
  <1>5. NoJobTwice'
    BY <1>1 DEF TakeOrFinish, TakenJobs, NoJobTwice
  <1>6. TakenJobs'
    BY <1>1 DEF TakeOrFinish, NextJob, TakenJobs
  <1> QED
    BY <1>2, <1>3, <1>4, <1>5, <1>6

LEMMA FinishJobInv ==
  ASSUME PoolInv, NEW w \in Worker, NEW ok \in BOOLEAN, FinishJob(w, ok)
  PROVE  PoolInv' /\ holding[w] \in 0..(jobCount - 1) \ ran /\ caller = "run"
  <1> USE DEF PoolInv, PoolTypeOK, FinishJob, AfterJob, callVars
  <1>1. /\ caller = "run" /\ w \in Engaged
        /\ observed' = [observed EXCEPT ![w] = generation]
    BY DEF WorkerPhase, Engaged
  <1>2. PendingIsEngaged' /\ workersPending' \in 0..Cardinality(Worker)
    BY <1>1, TakeOrFinishCount
  <1>3. holding[w] \in 0..(jobCount - 1) \ ran /\ holding[w] \in Job
    BY PoolAssumption DEF TakenJobs, NoJobTwice, Job
  <1>4. threw' \in BOOLEAN
    OBVIOUS
  <1>5. PoolTypeOK'
    BY <1>1, <1>2, <1>3, <1>4, PoolAssumption DEF TakeOrFinish, NextJob
  <1>6. WorkerPhase'
    BY <1>1 DEF TakeOrFinish, WorkerPhase, TakenJobs
  <1>7. NoJobTwice'
    BY <1>1 DEF TakeOrFinish, TakenJobs, NoJobTwice
  <1>8. TakenJobs'
    <2>1. /\ nextJob <= nextJob' /\ nextJob' <= jobCount /\ nextJob \in Nat /\ nextJob' \in Nat
          /\ \A j \in nextJob..(nextJob' - 1) : place'[w] = "job" /\ holding'[w] = j
          /\ \A v \in Worker : place'[v] = "job" => holding'[v] \in 0..(nextJob' - 1)
      BY <1>1, PoolAssumption DEF TakeOrFinish, NextJob, TakenJobs
    <2>2. \A v \in Worker \ {w} : place'[v] = place[v] /\ holding'[v] = holding[v]
      BY DEF TakeOrFinish
    <2>3. ran' \subseteq 0..(nextJob' - 1)
      <3>1. ran' = ran \cup {holding[w]} /\ ran \subseteq 0..(nextJob - 1)
            /\ holding[w] \in 0..(nextJob - 1)
        BY DEF TakenJobs
      <3>2. 0..(nextJob - 1) \subseteq 0..(nextJob' - 1)
        BY <2>1, IntervalSplit
      <3> QED
        BY <3>1, <3>2
    <2>4. ASSUME NEW j \in 0..(nextJob' - 1)
          PROVE  j \in ran' \/ \E v \in Worker : place'[v] = "job" /\ holding'[v] = j
      <3>1. CASE j \in 0..(nextJob - 1)
        BY <2>2, <3>1 DEF TakenJobs
      <3>2. CASE j \in nextJob..(nextJob' - 1)
        BY <2>1, <3>2
      <3>3. j \in 0..(nextJob - 1) \/ j \in nextJob..(nextJob' - 1)
        BY <2>1, IntervalSplit
      <3> QED
        BY <3>1, <3>2, <3>3
    <2> QED
      BY <1>1, <2>1, <2>3, <2>4 DEF TakenJobs
  <1> QED
    BY <1>1, <1>2, <1>3, <1>5, <1>6, <1>7, <1>8

LEMMA StepInv == PoolInv /\ [PoolNext]_poolVars => PoolInv'
  <1> SUFFICES ASSUME PoolInv, [PoolNext]_poolVars PROVE PoolInv'
    OBVIOUS
  <1>1. CASE UNCHANGED poolVars
    BY <1>1 DEF PoolInv, PoolTypeOK, WorkerPhase, TakenJobs, NoJobTwice,
                PendingIsEngaged, Engaged, poolVars, callVars
  <1> QED
    BY <1>1, RunInv, ReturnInv, StopInv, WakeInv, FinishJobInv DEF PoolNext, WorkerStep

-----------------------------------------------------------------------------

\* The inductive invariant holds in every reachable state.
THEOREM Invariance == PoolSpec => []PoolInv
  BY InitInv, StepInv, PTL DEF PoolSpec

\* Every variable of the pool keeps its type; the countdown never goes below 0.
THEOREM PoolTypeCorrect == PoolSpec => []PoolTypeOK
  <1>1. PoolInv => PoolTypeOK
    BY DEF PoolInv
  <1> QED
    BY <1>1, Invariance, PTL

\* No job is run twice.
THEOREM JobsAreExclusive == PoolSpec => []NoJobTwice
  <1>1. PoolInv => NoJobTwice
    BY DEF PoolInv
  <1> QED
    BY <1>1, Invariance, PTL

\* The countdown is exact, so no call can end or start with a worker behind.
THEOREM CountdownIsExact == PoolSpec => []PendingIsEngaged
  <1>1. PoolInv => PendingIsEngaged
    BY DEF PoolInv
  <1> QED
    BY <1>1, Invariance, PTL

\* Every step of the pool is a step of the parallel loop or leaves it alone.
LEMMA AbstractStep == PoolInv /\ [PoolNext]_poolVars => [P!Next]_P!vars
  <1> SUFFICES ASSUME PoolInv, [PoolNext]_poolVars PROVE [P!Next]_P!vars
    OBVIOUS
  <1>1. ASSUME NEW n \in 1..MaxJobs, Run(n) PROVE P!Call
    BY <1>1 DEF Run, P!Call
  <1>2. CASE ReturnFromRun
    <2>1. P!Return
      BY <1>2, ReturnInv DEF ReturnFromRun, P!Return
    <2> QED
      BY <2>1 DEF P!Next
  <1>3. ASSUME NEW w \in Worker, NEW ok \in BOOLEAN, FinishJob(w, ok)
        PROVE  P!Do
    <2>1. holding[w] \in 0..(jobCount - 1) \ ran /\ caller = "run"
      BY <1>3, FinishJobInv
    <2>2. threw' \in {threw, TRUE}
      BY <1>3 DEF FinishJob, PoolInv, PoolTypeOK
    <2> QED
      BY <1>3, <2>1, <2>2 DEF FinishJob, callVars, P!Do
  <1>4. CASE ShutDown \/ Join
    BY <1>4 DEF ShutDown, Join, P!vars
  <1>5. ASSUME NEW w \in Worker, Wake(w) \/ Leave(w) PROVE UNCHANGED P!vars
    BY <1>5 DEF Wake, Leave, callVars, P!vars
  <1>6. CASE UNCHANGED poolVars
    BY <1>6 DEF poolVars, callVars, P!vars
  <1> QED
    BY <1>1, <1>2, <1>3, <1>4, <1>5, <1>6 DEF PoolNext, WorkerStep, P!Next

LEMMA AbstractInit == PoolInit => P!Init
  BY DEF PoolInit, P!Init

\* The pool implements a parallel loop.
THEOREM PoolImplementation == PoolSpec => ImplementsParallelFor
  BY InitInv, StepInv, AbstractInit, AbstractStep, PTL
  DEF PoolSpec, ImplementsParallelFor, P!Spec
=============================================================================
