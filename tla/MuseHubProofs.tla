--------------------------- MODULE MuseHubProofs ---------------------------
(* The Muse hub, for any sessions, lanes, children, reconnects and bounds:  *)
(* routes and orphans are current, no followed session is left behind by a  *)
(* reconnect, and while reconnects come one after the other every event of  *)
(* a session reaches its lanes once and in order.                           *)
EXTENDS MuseHub, FiniteSetTheorems, SequenceTheorems, TLAPS

-----------------------------------------------------------------------------
(* Sequences.                                                                *)

(* What a sequence holds, and the order a session's events have in it.       *)
In(q) == {q[i] : i \in DOMAIN q}

Sorted(q) ==
    \A i, j \in DOMAIN q :
        i < j /\ q[i] \in Events /\ q[i].session = q[j].session => q[i].n < q[j].n

(* The cursors cur take up each session's events of q without a gap.         *)
Runs(q, cur) ==
    \A i \in DOMAIN q : q[i] \in Events =>
        /\ cur[q[i].session] < q[i].n
        /\ \A m \in 1..MaxEvents : cur[q[i].session] < m /\ m < q[i].n =>
              \E j \in DOMAIN q : j < i /\ q[j] = Event(q[i].session, m)

LEMMA Ranked ==
  ASSUME NEW n \in Nat, NEW P \in SUBSET (1..n)
  PROVE  LET Rank(i) == Cardinality({j \in P : j <= i})
         IN /\ Cardinality(P) \in 0..n
            /\ \A i \in P : Rank(i) \in 1..Cardinality(P)
            /\ \A i, j \in P : i < j <=> Rank(i) < Rank(j)
            /\ \A i, j \in P : Rank(i) = Rank(j) => i = j
            /\ \A k \in 1..Cardinality(P) : \E i \in P : Rank(i) = k
<1>. DEFINE Below(i) == {j \in P : j <= i}
            Rank(i) == Cardinality(Below(i))
            rank == [i \in P |-> Rank(i)]
<1>1. IsFiniteSet(1..n) /\ Cardinality(1..n) = n
  BY FS_Interval
<1>2. IsFiniteSet(P) /\ Cardinality(P) \in Nat /\ Cardinality(P) <= n
  <2>1. IsFiniteSet(P) /\ Cardinality(P) <= n
    BY <1>1, FS_Subset
  <2>. QED
    BY <2>1, FS_CardinalityType
<1>3. ASSUME NEW i \in P
      PROVE  IsFiniteSet(Below(i)) /\ Rank(i) \in 1..Cardinality(P)
  <2>1. Below(i) \in SUBSET P /\ Below(i) # {}
    OBVIOUS
  <2>2. IsFiniteSet(Below(i)) /\ Rank(i) <= Cardinality(P)
    BY <1>2, <2>1, FS_Subset
  <2>3. Rank(i) \in Nat
    BY <2>2, FS_CardinalityType
  <2>4. Rank(i) # 0
    BY <2>1, <2>2, FS_EmptySet
  <2>. QED
    BY <1>2, <2>2, <2>3, <2>4
<1>4. ASSUME NEW i \in P, NEW j \in P, i < j
      PROVE  Rank(i) < Rank(j)
  <2>0. \A k \in P : k \in Nat
    OBVIOUS
  <2>1. Below(i) \in SUBSET Below(j) /\ j \in Below(j) /\ j \notin Below(i)
    <3>1. i \in Nat /\ j \in Nat /\ ~(j <= i) /\ j <= j
      BY <1>4, <2>0
    <3>2. \A k \in P : k <= i => k <= j
      BY <1>4, <2>0, <3>1
    <3>. QED
      BY <3>1, <3>2
  <2>2. Rank(i) <= Rank(j) /\ (Rank(i) = Rank(j) => Below(i) = Below(j))
    BY <1>3, <2>1, FS_Subset
  <2>. QED
    BY <1>2, <1>3, <2>1, <2>2
<1>5. ASSUME NEW i \in P, NEW j \in P
      PROVE  /\ i < j <=> Rank(i) < Rank(j)
             /\ Rank(i) = Rank(j) => i = j
  <2>1. i \in Nat /\ j \in Nat /\ Rank(i) \in Nat /\ Rank(j) \in Nat
    BY <1>2, <1>3
  <2>2. i < j => Rank(i) < Rank(j)
    BY <1>4
  <2>3. j < i => Rank(j) < Rank(i)
    BY <1>4
  <2>. HIDE DEF Rank
  <2>. QED
    BY <2>1, <2>2, <2>3
<1>6. rank \in Surjection(P, 1..Cardinality(P))
  <2>1. rank \in [P -> 1..Cardinality(P)]
    BY <1>3
  <2>2. rank \in Injection(P, 1..Cardinality(P))
    <3>1. \A i, j \in P : rank[i] = rank[j] => i = j
      BY <1>5
    <3>. HIDE DEF rank
    <3>. QED
      BY <2>1, <3>1 DEF Injection, IsInjective
  <2>3. IsFiniteSet(1..Cardinality(P)) /\ Cardinality(1..Cardinality(P)) = Cardinality(P)
    BY <1>2, FS_Interval
  <2>. QED
    BY <2>2, <2>3, FS_Injection
<1>7. \A k \in 1..Cardinality(P) : \E i \in P : Rank(i) = k
  BY <1>6 DEF Surjection
<1>. QED
  BY <1>2, <1>3, <1>5, <1>7

LEMMA RowsAre ==
  ASSUME NEW S, NEW q \in Seq(S), NEW P \in SUBSET (DOMAIN q)
  PROVE  \E at \in [1..Cardinality(P) -> P] :
            /\ Cardinality(P) \in 0..Len(q)
            /\ Rows(q, P) = [k \in 1..Cardinality(P) |-> q[at[k]]]
            /\ \A j, k \in 1..Cardinality(P) : j < k => at[j] < at[k]
            /\ \A i \in P : \E k \in 1..Cardinality(P) : at[k] = i
<1>. DEFINE Rank(i) == Cardinality({j \in P : j <= i})
            At(k) == CHOOSE i \in P : Rank(i) = k
            at == [k \in 1..Cardinality(P) |-> At(k)]
<1>1. /\ Cardinality(P) \in 0..Len(q)
      /\ \A i \in P : Rank(i) \in 1..Cardinality(P)
      /\ \A i, j \in P : i < j <=> Rank(i) < Rank(j)
      /\ \A i, j \in P : Rank(i) = Rank(j) => i = j
      /\ \A k \in 1..Cardinality(P) : \E i \in P : Rank(i) = k
  <2>1. DOMAIN q = 1..Len(q) /\ Len(q) \in Nat
    BY LenProperties
  <2>. QED
    BY <2>1, Ranked
<1>2. Rows(q, P) = [k \in 1..Cardinality(P) |-> q[At(k)]]
  BY DEF Rows
<1>. HIDE DEF Rank
<1>3. \A k \in 1..Cardinality(P) : At(k) \in P /\ Rank(At(k)) = k
  BY <1>1
<1>. HIDE DEF At
<1>4. at \in [1..Cardinality(P) -> P]
  BY <1>3
<1>5. \A j, k \in 1..Cardinality(P) : j < k => at[j] < at[k]
  BY <1>1, <1>3
<1>6. \A i \in P : \E k \in 1..Cardinality(P) : at[k] = i
  BY <1>1, <1>3
<1>7. Rows(q, P) = [k \in 1..Cardinality(P) |-> q[at[k]]]
  BY <1>2
<1>. QED
  BY <1>1, <1>4, <1>5, <1>6, <1>7

LEMMA RowsProperties ==
  ASSUME NEW S, NEW q \in Seq(S), NEW P \in SUBSET (DOMAIN q)
  PROVE  /\ Rows(q, P) \in Seq(S) /\ Len(Rows(q, P)) <= Len(q)
         /\ In(Rows(q, P)) = {q[i] : i \in P}
         /\ Sorted(q) => Sorted(Rows(q, P))
<1>1. PICK at \in [1..Cardinality(P) -> P] :
            /\ Cardinality(P) \in 0..Len(q)
            /\ Rows(q, P) = [k \in 1..Cardinality(P) |-> q[at[k]]]
            /\ \A j, k \in 1..Cardinality(P) : j < k => at[j] < at[k]
            /\ \A i \in P : \E k \in 1..Cardinality(P) : at[k] = i
  BY RowsAre
<1>. DEFINE r == Rows(q, P)
<1>2. DOMAIN q = 1..Len(q) /\ Len(q) \in Nat /\ \A i \in DOMAIN q : q[i] \in S
  BY LenProperties, ElementOfSeq
<1>3. DOMAIN r = 1..Cardinality(P) /\ \A k \in DOMAIN r : at[k] \in P /\ r[k] = q[at[k]]
  BY <1>1
<1>4. r \in Seq(S) /\ Len(r) = Cardinality(P)
  <2>1. Cardinality(P) \in Nat
    BY <1>1, <1>2
  <2>2. r \in [1..Cardinality(P) -> S]
    BY <1>1, <1>2, <1>3
  <2>. QED
    BY <2>1, <2>2
<1>5. In(r) = {q[i] : i \in P}
  BY <1>1, <1>3 DEF In
<1>6. Sorted(q) => Sorted(r)
  <2>. SUFFICES ASSUME Sorted(q), NEW i \in DOMAIN r, NEW j \in DOMAIN r, i < j,
                       r[i] \in Events, r[i].session = r[j].session
                PROVE  r[i].n < r[j].n
    BY DEF Sorted
  <2>1. at[i] \in DOMAIN q /\ at[j] \in DOMAIN q /\ at[i] < at[j]
    BY <1>1, <1>3
  <2>2. r[i] = q[at[i]] /\ r[j] = q[at[j]]
    BY <1>3
  <2>. QED
    BY <2>1, <2>2 DEF Sorted
<1>. QED
  BY <1>1, <1>4, <1>5, <1>6

LEMMA AppendIn ==
  ASSUME NEW S, NEW q \in Seq(S), NEW e \in S
  PROVE  /\ In(Append(q, e)) = In(q) \cup {e}
         /\ Sorted(q) /\ (\A d \in In(q) \cap Events : d.session = e.session => d.n < e.n)
              => Sorted(Append(q, e))
<1>. DEFINE r == Append(q, e)
<1>1. /\ Len(q) \in Nat /\ DOMAIN q = 1..Len(q) /\ DOMAIN r = 1..(Len(q) + 1)
      /\ \A i \in 1..Len(q) : r[i] = q[i]
      /\ r[Len(q) + 1] = e
  BY AppendProperties, LenProperties
<1>. HIDE DEF r
<1>2. In(r) = In(q) \cup {e}
  <2>1. ASSUME NEW x \in In(r) PROVE x \in In(q) \cup {e}
    <3>1. PICK i \in 1..(Len(q) + 1) : x = r[i]
      BY <1>1, <2>1 DEF In
    <3>2. i \in 1..Len(q) \/ i = Len(q) + 1
      BY <1>1
    <3>. QED
      BY <1>1, <3>1, <3>2 DEF In
  <2>2. ASSUME NEW x \in In(q) \cup {e} PROVE x \in In(r)
    <3>1. Len(q) + 1 \in 1..(Len(q) + 1) /\ \A i \in 1..Len(q) : i \in 1..(Len(q) + 1)
      BY <1>1
    <3>. QED
      BY <1>1, <2>2, <3>1 DEF In
  <2>. QED
    BY <2>1, <2>2
<1>3. ASSUME Sorted(q), \A d \in In(q) \cap Events : d.session = e.session => d.n < e.n
      PROVE  Sorted(r)
  <2>. SUFFICES ASSUME NEW i \in 1..(Len(q) + 1), NEW j \in 1..(Len(q) + 1), i < j,
                       r[i] \in Events, r[i].session = r[j].session
                PROVE  r[i].n < r[j].n
    BY <1>1 DEF Sorted
  <2>1. i \in 1..Len(q) /\ r[i] = q[i]
    BY <1>1
  <2>2. CASE j \in 1..Len(q)
    BY <1>1, <1>3, <2>1, <2>2 DEF Sorted
  <2>3. CASE j = Len(q) + 1
    <3>1. r[i] \in In(q)
      BY <1>1, <2>1 DEF In
    <3>. QED
      BY <1>1, <1>3, <2>3, <3>1
  <2>. QED
    BY <1>1, <2>2, <2>3
<1>. QED
  BY <1>2, <1>3 DEF r

LEMMA Joined ==
  ASSUME NEW S, NEW p \in Seq(S), NEW q \in Seq(S)
  PROVE  /\ Len(p) \in Nat /\ DOMAIN p = 1..Len(p) /\ Len(q) \in Nat /\ DOMAIN q = 1..Len(q)
         /\ DOMAIN (p \o q) = 1..(Len(p) + Len(q))
         /\ \A i \in 1..Len(p) : (p \o q)[i] = p[i]
         /\ \A i \in 1..Len(q) : (p \o q)[Len(p) + i] = q[i]
         /\ \A i \in 1..(Len(p) + Len(q)) :
               \/ i \in 1..Len(p) /\ (p \o q)[i] = p[i]
               \/ i > Len(p) /\ i - Len(p) \in 1..Len(q) /\ (p \o q)[i] = q[i - Len(p)]
<1>. DEFINE r == p \o q
<1>1. /\ Len(p) \in Nat /\ DOMAIN p = 1..Len(p) /\ Len(q) \in Nat /\ DOMAIN q = 1..Len(q)
      /\ DOMAIN r = 1..(Len(p) + Len(q))
      /\ \A i \in 1..Len(p) : r[i] = p[i]
      /\ \A i \in 1..Len(q) : r[Len(p) + i] = q[i]
  <2>1. /\ Len(p) \in Nat /\ DOMAIN p = 1..Len(p) /\ Len(q) \in Nat /\ DOMAIN q = 1..Len(q)
        /\ r \in Seq(S) /\ Len(r) = Len(p) + Len(q)
        /\ \A i \in 1..(Len(p) + Len(q)) : r[i] = IF i <= Len(p) THEN p[i] ELSE q[i - Len(p)]
    BY ConcatProperties, LenProperties
  <2>2. DOMAIN r = 1..Len(r)
    BY <2>1, LenProperties
  <2>. HIDE DEF r
  <2>3. ASSUME NEW i \in 1..Len(p) PROVE r[i] = p[i]
    BY <2>1
  <2>4. ASSUME NEW i \in 1..Len(q) PROVE r[Len(p) + i] = q[i]
    <3>1. /\ Len(p) + i \in 1..(Len(p) + Len(q)) /\ ~(Len(p) + i <= Len(p))
          /\ (Len(p) + i) - Len(p) = i
      BY <2>1
    <3>. QED
      BY <2>1, <3>1
  <2>. QED
    BY <2>1, <2>2, <2>3, <2>4
<1>. HIDE DEF r
<1>2. ASSUME NEW i \in 1..(Len(p) + Len(q))
      PROVE  \/ i \in 1..Len(p) /\ r[i] = p[i]
             \/ i > Len(p) /\ i - Len(p) \in 1..Len(q) /\ r[i] = q[i - Len(p)]
  <2>1. CASE i <= Len(p)
    BY <1>1, <2>1
  <2>2. CASE i > Len(p)
    <3>1. i - Len(p) \in 1..Len(q) /\ Len(p) + (i - Len(p)) = i
      BY <1>1, <2>2
    <3>. QED
      BY <1>1, <2>2, <3>1
  <2>. QED
    BY <1>1, <2>1, <2>2
<1>. QED
  BY <1>1, <1>2 DEF r

LEMMA ConcatIn ==
  ASSUME NEW S, NEW p \in Seq(S), NEW q \in Seq(S)
  PROVE  /\ In(p \o q) = In(p) \cup In(q)
         /\ /\ Sorted(p) /\ Sorted(q)
            /\ \A d \in In(p) \cap Events : \A e \in In(q) : d.session = e.session => d.n < e.n
            => Sorted(p \o q)
<1>. DEFINE r == p \o q
<1>1. /\ Len(p) \in Nat /\ DOMAIN p = 1..Len(p) /\ Len(q) \in Nat /\ DOMAIN q = 1..Len(q)
      /\ DOMAIN r = 1..(Len(p) + Len(q))
      /\ \A i \in 1..Len(p) : r[i] = p[i]
      /\ \A i \in 1..Len(q) : r[Len(p) + i] = q[i]
  BY Joined
<1>2. \A i \in 1..(Len(p) + Len(q)) :
         \/ i \in 1..Len(p) /\ r[i] = p[i]
         \/ i > Len(p) /\ i - Len(p) \in 1..Len(q) /\ r[i] = q[i - Len(p)]
  BY Joined
<1>. HIDE DEF r
<1>3. In(r) = In(p) \cup In(q)
  <2>1. ASSUME NEW x \in In(r) PROVE x \in In(p) \cup In(q)
    BY <1>1, <1>2, <2>1 DEF In
  <2>2. \A i \in 1..Len(p) : i \in 1..(Len(p) + Len(q))
    BY <1>1
  <2>3. \A i \in 1..Len(q) : Len(p) + i \in 1..(Len(p) + Len(q))
    BY <1>1
  <2>4. ASSUME NEW x \in In(p) PROVE x \in In(r)
    BY <1>1, <2>2, <2>4 DEF In
  <2>5. ASSUME NEW x \in In(q) PROVE x \in In(r)
    BY <1>1, <2>3, <2>5 DEF In
  <2>. QED
    BY <2>1, <2>4, <2>5
<1>4. ASSUME Sorted(p), Sorted(q),
             \A d \in In(p) \cap Events : \A e \in In(q) : d.session = e.session => d.n < e.n
      PROVE  Sorted(r)
  <2>. SUFFICES ASSUME NEW i \in 1..(Len(p) + Len(q)), NEW j \in 1..(Len(p) + Len(q)), i < j,
                       r[i] \in Events, r[i].session = r[j].session
                PROVE  r[i].n < r[j].n
    BY <1>1 DEF Sorted
  <2>1. CASE i \in 1..Len(p) /\ j \in 1..Len(p)
    BY <1>1, <1>4, <2>1 DEF Sorted
  <2>2. CASE i \in 1..Len(p) /\ j > Len(p)
    <3>1. /\ i \in 1..Len(p) /\ r[i] = p[i]
          /\ j - Len(p) \in 1..Len(q) /\ r[j] = q[j - Len(p)]
      BY <1>1, <1>2, <2>2
    <3>2. r[i] \in In(p)
      BY <1>1, <3>1 DEF In
    <3>3. r[j] \in In(q)
      BY <1>1, <3>1 DEF In
    <3>. QED
      BY <1>4, <3>2, <3>3
  <2>3. CASE i > Len(p) /\ j > Len(p)
    <3>1. /\ r[i] = q[i - Len(p)] /\ i - Len(p) \in 1..Len(q)
          /\ r[j] = q[j - Len(p)] /\ j - Len(p) \in 1..Len(q)
      BY <1>1, <1>2, <2>3
    <3>2. i - Len(p) < j - Len(p)
      BY <1>1
    <3>. QED
      BY <1>1, <1>4, <3>1, <3>2 DEF Sorted
  <2>. QED
    BY <1>1, <2>1, <2>2, <2>3
<1>. QED
  BY <1>3, <1>4 DEF r

LEMMA Shifted ==
  ASSUME NEW S, NEW q \in Seq(S), q # <<>>
  PROVE  /\ Len(q) \in Nat /\ Len(q) > 0 /\ DOMAIN q = 1..Len(q) /\ Head(q) = q[1]
         /\ DOMAIN Tail(q) = 1..(Len(q) - 1)
         /\ \A i \in 1..(Len(q) - 1) : Tail(q)[i] = q[i + 1]
<1>1. /\ Tail(q) \in Seq(S) /\ Len(Tail(q)) = Len(q) - 1
      /\ \A i \in 1..Len(Tail(q)) : Tail(q)[i] = q[i + 1]
  BY HeadTailProperties
<1>2. DOMAIN Tail(q) = 1..Len(Tail(q))
  BY <1>1, LenProperties
<1>3. Len(q) \in Nat /\ Len(q) > 0 /\ DOMAIN q = 1..Len(q) /\ Head(q) = q[1]
  BY EmptySeq, LenProperties
<1>. QED
  BY <1>1, <1>2, <1>3

LEMMA TailIn ==
  ASSUME NEW S, NEW q \in Seq(S), q # <<>>
  PROVE  /\ In(q) = {Head(q)} \cup In(Tail(q))
         /\ Sorted(q) => Sorted(Tail(q))
         /\ Sorted(q) /\ Head(q) \in Events =>
              \A e \in In(Tail(q)) : e.session = Head(q).session => Head(q).n < e.n
<1>. DEFINE t == Tail(q)
<1>1. /\ Len(q) \in Nat /\ Len(q) > 0 /\ DOMAIN q = 1..Len(q) /\ Head(q) = q[1]
      /\ DOMAIN t = 1..(Len(q) - 1)
      /\ \A i \in 1..(Len(q) - 1) : t[i] = q[i + 1]
  BY Shifted
<1>. HIDE DEF t
<1>2. In(q) = {Head(q)} \cup In(t)
  <2>1. ASSUME NEW x \in In(q) PROVE x \in {Head(q)} \cup In(t)
    <3>1. PICK i \in 1..Len(q) : x = q[i]
      BY <1>1, <2>1 DEF In
    <3>2. i = 1 \/ (i - 1 \in 1..(Len(q) - 1) /\ (i - 1) + 1 = i)
      BY <1>1
    <3>. QED
      BY <1>1, <3>1, <3>2 DEF In
  <2>2. ASSUME NEW x \in {Head(q)} \cup In(t) PROVE x \in In(q)
    <3>1. 1 \in 1..Len(q) /\ \A i \in 1..(Len(q) - 1) : i + 1 \in 1..Len(q)
      BY <1>1
    <3>. QED
      BY <1>1, <2>2, <3>1 DEF In
  <2>. QED
    BY <2>1, <2>2
<1>3. Sorted(q) => Sorted(t)
  <2>. SUFFICES ASSUME Sorted(q), NEW i \in 1..(Len(q) - 1), NEW j \in 1..(Len(q) - 1), i < j,
                       t[i] \in Events, t[i].session = t[j].session
                PROVE  t[i].n < t[j].n
    BY <1>1 DEF Sorted
  <2>1. i + 1 \in 1..Len(q) /\ j + 1 \in 1..Len(q) /\ i + 1 < j + 1
    BY <1>1
  <2>. QED
    BY <1>1, <2>1 DEF Sorted
<1>4. Sorted(q) /\ Head(q) \in Events =>
        \A e \in In(t) : e.session = Head(q).session => Head(q).n < e.n
  <2>. SUFFICES ASSUME Sorted(q), q[1] \in Events, NEW i \in 1..(Len(q) - 1), t[i].session = q[1].session
                PROVE  q[1].n < t[i].n
    BY <1>1 DEF In
  <2>1. 1 \in 1..Len(q) /\ i + 1 \in 1..Len(q) /\ 1 < i + 1
    BY <1>1
  <2>. QED
    BY <1>1, <2>1 DEF Sorted
<1>. QED
  BY <1>2, <1>3, <1>4 DEF t

LEMMA PrefixIn ==
  ASSUME NEW S, NEW q \in Seq(S), NEW k \in 0..Len(q)
  PROVE  /\ SubSeq(q, 1, k) \in Seq(S) /\ In(SubSeq(q, 1, k)) \subseteq In(q)
         /\ DOMAIN SubSeq(q, 1, k) = 1..k /\ \A i \in 1..k : SubSeq(q, 1, k)[i] = q[i]
         /\ Sorted(q) => Sorted(SubSeq(q, 1, k))
<1>. DEFINE t == SubSeq(q, 1, k)
<1>1. Len(q) \in Nat /\ DOMAIN q = 1..Len(q) /\ \A i \in 1..Len(q) : q[i] \in S
  BY LenProperties, ElementOfSeq
<1>2. \A i \in 1..k : i \in 1..Len(q)
  BY <1>1
<1>3. /\ t \in Seq(S) /\ Len(t) = IF 1 <= k THEN k - 1 + 1 ELSE 0
      /\ \A i \in 1..(k - 1 + 1) : t[i] = q[1 + i - 1]
  BY <1>1, <1>2, SubSeqProperties
<1>4. Len(t) = k /\ DOMAIN t = 1..k
  <2>1. k \in Nat
    BY <1>1
  <2>. QED
    BY <1>3, <2>1, LenProperties
<1>5. \A i \in 1..k : t[i] = q[i]
  BY <1>1, <1>3
<1>. HIDE DEF t
<1>6. In(t) \subseteq In(q)
  BY <1>1, <1>2, <1>4, <1>5 DEF In
<1>7. Sorted(q) => Sorted(t)
  BY <1>1, <1>2, <1>4, <1>5 DEF Sorted
<1>. QED
  BY <1>3, <1>4, <1>5, <1>6, <1>7 DEF t

(* The events that come next, as items of a stream come and go.              *)
LEMMA RunsAppend ==
  ASSUME NEW S, NEW q \in Seq(S), NEW e \in S, NEW cur, Runs(q, cur),
         e \in Events =>
            /\ cur[e.session] < e.n
            /\ \A m \in 1..MaxEvents : cur[e.session] < m /\ m < e.n => Event(e.session, m) \in In(q)
  PROVE  Runs(Append(q, e), cur)
<1>. DEFINE r == Append(q, e)
<1>1. /\ Len(q) \in Nat /\ DOMAIN q = 1..Len(q) /\ DOMAIN r = 1..(Len(q) + 1)
      /\ \A i \in 1..Len(q) : r[i] = q[i] /\ i \in 1..(Len(q) + 1) /\ i < Len(q) + 1
      /\ r[Len(q) + 1] = e
  BY AppendProperties, LenProperties
<1>. HIDE DEF r
<1>. SUFFICES ASSUME NEW i \in 1..(Len(q) + 1), r[i] \in Events
              PROVE  /\ cur[r[i].session] < r[i].n
                     /\ \A m \in 1..MaxEvents : cur[r[i].session] < m /\ m < r[i].n =>
                          \E j \in 1..(Len(q) + 1) : j < i /\ r[j] = Event(r[i].session, m)
  BY <1>1 DEF Runs, r
<1>2. CASE i \in 1..Len(q)
  <2>1. /\ cur[q[i].session] < q[i].n
        /\ \A m \in 1..MaxEvents : cur[q[i].session] < m /\ m < q[i].n =>
             \E j \in 1..Len(q) : j < i /\ q[j] = Event(q[i].session, m)
    BY <1>1, <1>2 DEF Runs
  <2>. QED
    BY <1>1, <1>2, <2>1
<1>3. CASE i = Len(q) + 1
  <2>1. \A x \in In(q) : \E j \in 1..Len(q) : q[j] = x
    BY <1>1 DEF In
  <2>. QED
    BY <1>1, <1>3, <2>1
<1>. QED
  BY <1>1, <1>2, <1>3

LEMMA RunsPrefix ==
  ASSUME NEW S, NEW q \in Seq(S), NEW k \in 0..Len(q), NEW cur, Runs(q, cur)
  PROVE  Runs(SubSeq(q, 1, k), cur)
<1>. DEFINE t == SubSeq(q, 1, k)
<1>1. /\ Len(q) \in Nat /\ DOMAIN q = 1..Len(q) /\ DOMAIN t = 1..k
      /\ \A i \in 1..k : t[i] = q[i]
  BY PrefixIn, LenProperties
<1>. HIDE DEF t
<1>. SUFFICES ASSUME NEW i \in 1..k, t[i] \in Events
              PROVE  /\ cur[t[i].session] < t[i].n
                     /\ \A m \in 1..MaxEvents : cur[t[i].session] < m /\ m < t[i].n =>
                          \E j \in 1..k : j < i /\ t[j] = Event(t[i].session, m)
  BY <1>1 DEF Runs, t
<1>2. i \in 1..Len(q) /\ \A j \in 1..Len(q) : j < i => j \in 1..k
  BY <1>1
<1>3. /\ cur[q[i].session] < q[i].n
      /\ \A m \in 1..MaxEvents : cur[q[i].session] < m /\ m < q[i].n =>
           \E j \in 1..Len(q) : j < i /\ q[j] = Event(q[i].session, m)
  BY <1>1, <1>2 DEF Runs
<1>. QED
  BY <1>1, <1>2, <1>3

LEMMA RunsConcat ==
  ASSUME NEW S, NEW p \in Seq(S), NEW q \in Seq(S), NEW cur, Runs(p, cur), Runs(q, cur)
  PROVE  Runs(p \o q, cur)
<1>. DEFINE r == p \o q
<1>1. /\ Len(p) \in Nat /\ DOMAIN p = 1..Len(p) /\ Len(q) \in Nat /\ DOMAIN q = 1..Len(q)
      /\ DOMAIN r = 1..(Len(p) + Len(q))
      /\ \A i \in 1..Len(p) : r[i] = p[i]
      /\ \A i \in 1..Len(q) : r[Len(p) + i] = q[i]
      /\ \A i \in 1..(Len(p) + Len(q)) :
            \/ i \in 1..Len(p) /\ r[i] = p[i]
            \/ i > Len(p) /\ i - Len(p) \in 1..Len(q) /\ r[i] = q[i - Len(p)]
  BY Joined
<1>. HIDE DEF r
<1>0. DOMAIN r = 1..(Len(p) + Len(q))
  BY <1>1
<1>. SUFFICES Runs(r, cur)
  BY DEF r
<1>. SUFFICES ASSUME NEW i \in 1..(Len(p) + Len(q)), r[i] \in Events
              PROVE  /\ cur[r[i].session] < r[i].n
                     /\ \A m \in 1..MaxEvents : cur[r[i].session] < m /\ m < r[i].n =>
                          \E j \in 1..(Len(p) + Len(q)) : j < i /\ r[j] = Event(r[i].session, m)
  BY <1>0 DEF Runs
<1>2. CASE i \in 1..Len(p) /\ r[i] = p[i]
  <2>1. /\ cur[p[i].session] < p[i].n
        /\ \A m \in 1..MaxEvents : cur[p[i].session] < m /\ m < p[i].n =>
             \E j \in 1..Len(p) : j < i /\ p[j] = Event(p[i].session, m)
    BY <1>1, <1>2 DEF Runs
  <2>2. \A j \in 1..Len(p) : j \in 1..(Len(p) + Len(q))
    BY <1>1
  <2>. QED
    BY <1>1, <1>2, <2>1, <2>2
<1>3. CASE i > Len(p) /\ i - Len(p) \in 1..Len(q) /\ r[i] = q[i - Len(p)]
  <2>1. /\ cur[r[i].session] < r[i].n
        /\ \A m \in 1..MaxEvents : cur[r[i].session] < m /\ m < r[i].n =>
             \E j \in 1..Len(q) : j < i - Len(p) /\ q[j] = Event(r[i].session, m)
    BY <1>1, <1>3 DEF Runs
  <2>2. \A j \in 1..Len(q) : /\ Len(p) + j \in 1..(Len(p) + Len(q))
                           /\ j < i - Len(p) => Len(p) + j < i
    BY <1>1
  <2>. QED
    BY <1>1, <2>1, <2>2
<1>. QED
  BY <1>1, <1>2, <1>3

LEMMA RunsTail ==
  ASSUME NEW S, NEW q \in Seq(S), q # <<>>, NEW cur \in [Sessions -> 0..MaxEvents],
         MaxEvents \in Nat, Runs(q, cur), Sorted(q)
  PROVE  /\ Head(q) \in Events =>
              /\ Head(q).n = cur[Head(q).session] + 1
              /\ Runs(Tail(q), [cur EXCEPT ![Head(q).session] = Head(q).n])
         /\ Head(q) \notin Events => Runs(Tail(q), cur)
<1>. DEFINE t == Tail(q)
<1>1. /\ Len(q) \in Nat /\ Len(q) > 0 /\ DOMAIN q = 1..Len(q) /\ Head(q) = q[1]
      /\ DOMAIN t = 1..(Len(q) - 1)
      /\ \A i \in 1..(Len(q) - 1) : t[i] = q[i + 1]
  BY Shifted
<1>. HIDE DEF t
<1>2. 1 \in 1..Len(q) /\ ~ \E j \in 1..Len(q) : j < 1
  BY <1>1
<1>3. ASSUME q[1] \in Events
      PROVE  q[1].session \in Sessions /\ q[1].n = cur[q[1].session] + 1
  <2>1. q[1].session \in Sessions /\ q[1].n \in 1..MaxEvents /\ cur[q[1].session] \in 0..MaxEvents
    BY <1>3 DEF Events
  <2>2. /\ cur[q[1].session] < q[1].n
        /\ \A m \in 1..MaxEvents : ~(cur[q[1].session] < m /\ m < q[1].n)
    BY <1>1, <1>2, <1>3 DEF Runs
  <2>3. cur[q[1].session] + 1 \in 1..MaxEvents
    BY <2>1, <2>2
  <2>. QED
    BY <2>1, <2>2, <2>3
<1>4. ASSUME NEW new \in [Sessions -> 0..MaxEvents],
             \A s \in Sessions : new[s] # cur[s] => q[1] \in Events /\ q[1].session = s,
             q[1] \in Events => new[q[1].session] = q[1].n
      PROVE  Runs(t, new)
  <2>. SUFFICES ASSUME NEW i \in 1..(Len(q) - 1), t[i] \in Events
                PROVE  /\ new[t[i].session] < t[i].n
                       /\ \A m \in 1..MaxEvents : new[t[i].session] < m /\ m < t[i].n =>
                            \E j \in 1..(Len(q) - 1) : j < i /\ t[j] = Event(t[i].session, m)
    BY <1>1 DEF Runs, t
  <2>1. i + 1 \in 1..Len(q) /\ t[i] = q[i + 1] /\ 1 < i + 1
    BY <1>1
  <2>2. t[i].session \in Sessions /\ t[i].n \in 1..MaxEvents
    BY DEF Events
  <2>3. /\ cur[t[i].session] < t[i].n
        /\ \A m \in 1..MaxEvents : cur[t[i].session] < m /\ m < t[i].n =>
             \E j \in 1..Len(q) : j < i + 1 /\ q[j] = Event(t[i].session, m)
    BY <1>1, <2>1 DEF Runs
  <2>4. q[1] \in Events /\ q[1].session = t[i].session => q[1].n < t[i].n
    BY <1>1, <1>2, <2>1 DEF Sorted
  <2>5. new[t[i].session] < t[i].n
    BY <1>4, <2>2, <2>3, <2>4
  <2>6. ASSUME NEW m \in 1..MaxEvents, new[t[i].session] < m, m < t[i].n
        PROVE  \E j \in 1..(Len(q) - 1) : j < i /\ t[j] = Event(t[i].session, m)
    <3>1. cur[t[i].session] < m
      <4>1. CASE new[t[i].session] = cur[t[i].session]
        BY <2>6, <4>1
      <4>2. CASE new[t[i].session] # cur[t[i].session]
        <5>1. q[1] \in Events /\ q[1].session = t[i].session /\ new[t[i].session] = q[1].n
          BY <1>4, <2>2, <4>2
        <5>2. cur[t[i].session] + 1 = q[1].n /\ cur[t[i].session] \in Nat
          BY <1>3, <2>2, <5>1
        <5>. QED
          BY <2>6, <5>1, <5>2
      <4>. QED
        BY <4>1, <4>2
    <3>2. PICK j \in 1..Len(q) : j < i + 1 /\ q[j] = Event(t[i].session, m)
      BY <2>3, <2>6, <3>1
    <3>3. j # 1
      <4>. SUFFICES ASSUME j = 1 PROVE FALSE
        OBVIOUS
      <4>1. q[1] \in Events /\ q[1].session = t[i].session /\ q[1].n = m
        BY <2>2, <3>2 DEF Event, Events
      <4>2. new[t[i].session] = m
        BY <1>4, <4>1
      <4>. QED
        BY <2>6, <4>2
    <3>4. j - 1 \in 1..(Len(q) - 1) /\ j - 1 < i /\ (j - 1) + 1 = j
      BY <1>1, <3>2, <3>3
    <3>. QED
      BY <1>1, <3>2, <3>4
  <2>. QED
    BY <2>5, <2>6
<1>5. ASSUME Head(q) \in Events
      PROVE  Runs(t, [cur EXCEPT ![Head(q).session] = Head(q).n])
  <2>. DEFINE new == [cur EXCEPT ![Head(q).session] = Head(q).n]
  <2>1. Head(q).session \in Sessions /\ Head(q).n \in 0..MaxEvents
    BY <1>5 DEF Events
  <2>2. new \in [Sessions -> 0..MaxEvents] /\ new[Head(q).session] = Head(q).n
    BY <2>1
  <2>3. \A s \in Sessions : new[s] # cur[s] => Head(q).session = s
    BY <2>1
  <2>. HIDE DEF new
  <2>4. Runs(t, new)
    BY <1>1, <1>4, <1>5, <2>2, <2>3
  <2>. QED
    BY <2>4 DEF new
<1>6. ASSUME Head(q) \notin Events PROVE Runs(t, cur)
  BY <1>1, <1>4, <1>6
<1>. QED
  BY <1>1, <1>3, <1>5, <1>6 DEF t

LEMMA RunsSame ==
  ASSUME NEW q, NEW cur, NEW new, Runs(q, cur),
         \A e \in In(q) \cap Events : new[e.session] = cur[e.session]
  PROVE  Runs(q, new)
<1>1. \A i \in DOMAIN q : q[i] \in Events => new[q[i].session] = cur[q[i].session]
  BY DEF In
<1>. QED
  BY <1>1 DEF Runs

LEMMA NoEvents ==
  ASSUME NEW q, NEW cur, In(q) \cap Events = {}
  PROVE  Sorted(q) /\ Runs(q, cur)
<1>1. \A i \in DOMAIN q : q[i] \notin Events
  BY DEF In
<1>. QED
  BY <1>1 DEF Sorted, Runs

LEMMA SuffixProperties ==
  ASSUME NEW s \in Sessions, MaxEvents \in Nat, NEW lo \in 0..MaxEvents, NEW hi \in 0..MaxEvents
  PROVE  /\ Suffix(s, lo, hi) \in Seq(Events)
         /\ In(Suffix(s, lo, hi)) = {Event(s, n) : n \in (lo + 1)..hi}
         /\ Sorted(Suffix(s, lo, hi))
         /\ \A cur : cur[s] = lo => Runs(Suffix(s, lo, hi), cur)
<1>. DEFINE q == Suffix(s, lo, hi)
<1>1. DOMAIN q = 1..(hi - lo) /\ \A i \in DOMAIN q : q[i] = Event(s, lo + i)
  BY DEF Suffix
<1>2. \A i \in 1..(hi - lo) : lo + i \in (lo + 1)..hi /\ lo + i \in 1..MaxEvents /\ i \in Nat
  OBVIOUS
<1>3. \A n \in (lo + 1)..hi : n - lo \in 1..(hi - lo) /\ lo + (n - lo) = n /\ n \in 1..MaxEvents
  OBVIOUS
<1>4. \A n : Event(s, n).session = s /\ Event(s, n).n = n /\ Event(s, n).kind = "event"
  BY DEF Event
<1>5. \A n \in 1..MaxEvents : Event(s, n) \in Events
  BY DEF Event, Events
<1>6. q \in Seq(Events)
  <2>1. CASE lo <= hi
    <3>1. hi - lo \in Nat /\ q \in [1..(hi - lo) -> Events]
      BY <1>1, <1>2, <1>5, <2>1 DEF Suffix
    <3>. QED
      BY <3>1
  <2>2. CASE hi < lo
    <3>1. 1..(hi - lo) = {} /\ 1..0 = {}
      BY <2>2
    <3>2. q \in [1..0 -> Events]
      BY <1>1, <3>1 DEF Suffix
    <3>. QED
      BY <3>2
  <2>. QED
    BY <2>1, <2>2
<1>7. In(q) = {Event(s, n) : n \in (lo + 1)..hi}
  <2>1. In(q) = {q[i] : i \in 1..(hi - lo)}
    BY <1>1 DEF In
  <2>. HIDE DEF q
  <2>2. \A i \in 1..(hi - lo) : q[i] = Event(s, lo + i)
    BY <1>1
  <2>3. ASSUME NEW x \in In(q) PROVE \E n \in (lo + 1)..hi : x = Event(s, n)
    BY <1>2, <2>1, <2>2
  <2>4. ASSUME NEW n \in (lo + 1)..hi PROVE Event(s, n) \in In(q)
    BY <1>3, <2>1, <2>2
  <2>. QED
    BY <2>3, <2>4
<1>. HIDE DEF q
<1>8. Sorted(q)
  <2>. SUFFICES ASSUME NEW i \in 1..(hi - lo), NEW j \in 1..(hi - lo), i < j
                PROVE  q[i].n < q[j].n
    BY <1>1 DEF Sorted
  <2>. QED
    BY <1>1, <1>2, <1>4
<1>9. ASSUME NEW cur, cur[s] = lo PROVE Runs(q, cur)
  <2>. SUFFICES ASSUME NEW i \in 1..(hi - lo)
                PROVE  /\ lo < lo + i
                       /\ \A m \in 1..MaxEvents : lo < m /\ m < lo + i =>
                            \E j \in 1..(hi - lo) : j < i /\ q[j] = Event(s, m)
    BY <1>1, <1>4, <1>9 DEF Runs
  <2>1. \A m \in 1..MaxEvents : lo < m /\ m < lo + i =>
            m - lo \in 1..(hi - lo) /\ m - lo < i /\ lo + (m - lo) = m
    OBVIOUS
  <2>2. \A m \in 1..MaxEvents : lo < m /\ m < lo + i => q[m - lo] = Event(s, m)
    BY <1>1, <2>1
  <2>3. lo < lo + i
    OBVIOUS
  <2>. QED
    BY <2>1, <2>2, <2>3
<1>. QED
  BY <1>6, <1>7, <1>8, <1>9 DEF q

-----------------------------------------------------------------------------
(* Types.                                                                    *)

LEMMA Bounds ==
    /\ MaxChildren \in Nat \ {0} /\ MaxReconnects \in Nat \ {0}
    /\ MaxEvents \in Nat \ {0} /\ OrphanLimit \in Nat \ {0}
    /\ NoLane \notin Lanes /\ NoSession \notin Sessions
  BY HubAssumption

LEMMA Kinds ==
    /\ Closed # None /\ Lost # Restored
    /\ Closed \notin Events /\ None \notin Events /\ Lost \notin Events /\ Restored \notin Events
    /\ \A s \in Sessions, n \in 1..MaxEvents : Event(s, n) \in Events
    /\ \A s, n : Event(s, n).session = s /\ Event(s, n).n = n
    /\ \A e \in Events : /\ e.session \in Sessions /\ e.n \in 1..MaxEvents
                         /\ e = Event(e.session, e.n)
<1>1. \A e \in Events : e.kind = "event"
  BY DEF Events
<1>2. Closed.kind = "closed" /\ None.kind = "none" /\ Lost.kind = "lost" /\ Restored.kind = "restored"
  BY DEF Closed, None, Lost, Restored, Sign
<1>3. \A s \in Sessions, n \in 1..MaxEvents : Event(s, n) \in Events
  BY DEF Event, Events
<1>4. \A s, n : Event(s, n).session = s /\ Event(s, n).n = n
  BY DEF Event
<1>5. \A e \in Events : /\ e.session \in Sessions /\ e.n \in 1..MaxEvents
                        /\ e = Event(e.session, e.n)
  BY DEF Event, Events
<1>. QED
  BY <1>1, <1>2, <1>3, <1>4, <1>5

(* What is held while it is forwarded, the session of a lane that opens one, *)
(* the child of a worker and the session it resumes.                         *)
Holding == \A c \in Children : rd[c] = "forwarding" => held[c] # None
OnASession == \A l \in Lanes : lpc[l] # "idle" => bound[l] \in Sessions
HasAChild == \A w \in Workers : wpc[w] \in {"spawned", "linked"} => mine[w] \in Children
MarkIsDue == \A w \in Workers : wpc[w] = "resuming" => mark[w].session \in todo[w]

TypeInv == HubOK /\ Holding /\ OnASession /\ HasAChild /\ MarkIsDue

LEMMA TypeInit == Init => TypeInv
<1>. SUFFICES ASSUME Init PROVE TypeInv
  OBVIOUS
<1>. USE DEF Init, Children, Workers
<1>1. HubOK
  <2>1. 0 \in 0..MaxEvents /\ 1 \in Children /\ MaxEvents \in Nat
    BY Bounds
  <2>2. \A S : <<>> \in Seq(S)
    OBVIOUS
  <2>3. /\ child \in [Children -> {"none", "live", "dead"}]
        /\ feed \in [Children -> Seq(Events \cup {Closed})] /\ attached \in [Children -> SUBSET Sessions]
        /\ genOf \in [Children -> Nat] /\ rd \in [Children -> {"none", "recv", "forwarding", "gone"}]
        /\ held \in [Children -> Events \cup {Closed, None}]
    BY <2>2
  <2>4. /\ log \in [Sessions -> 0..MaxEvents] /\ cursor \in [Sessions -> 0..MaxEvents]
        /\ routes \in [Sessions -> Lanes \cup {NoLane}]
    BY <2>1
  <2>5. /\ orphans \in Seq(Events) /\ Len(orphans) <= OrphanLimit /\ elsewhere \subseteq Events
        /\ heard \in [Lanes -> Seq(Events \cup {Lost, Restored})] /\ conn \in Seq({Lost, Restored})
    BY <2>2, Bounds
  <2>6. /\ bound \in [Lanes -> Sessions \cup {NoSession}] /\ lpc \in [Lanes -> {"idle", "binding", "attaching"}]
        /\ wpc \in [Workers -> {"idle", "starting", "spawned", "failed", "linked", "listing",
                                 "next", "resuming", "finished", "done"}]
        /\ mine \in [Workers -> Children \cup {0}] /\ todo \in [Workers -> SUBSET Sessions]
        /\ mark \in [Workers -> [session : Sessions \cup {NoSession}, at : 0..MaxEvents]]
    BY <2>1
  <2>7. link \in Children /\ gen \in Nat /\ wire = "ready" /\ dialog \in BOOLEAN /\ overlapped \in BOOLEAN
    BY <2>1
  <2>. QED
    BY <2>3, <2>4, <2>5, <2>6, <2>7 DEF HubOK
<1>. QED
  BY <1>1 DEF TypeInv, Holding, OnASession, HasAChild, MarkIsDue

LEMMA TypeMuse ==
  ASSUME TypeInv, NEW c \in Children, ChildExits(c) \/ \E s \in Sessions : Produce(c, s)
  PROVE  TypeInv'
<1>. USE DEF TypeInv, HubOK, Holding, OnASession, HasAChild, MarkIsDue, reader, routed, lane, work, window
<1>1. CASE ChildExits(c)
  <2>1. PICK k \in 0..Len(feed[c]) : feed' = [feed EXCEPT ![c] = Append(SubSeq(@, 1, k), Closed)]
    BY <1>1 DEF ChildExits, Dies
  <2>2. SubSeq(feed[c], 1, k) \in Seq(Events \cup {Closed})
    BY PrefixIn
  <2>3. feed' \in [Children -> Seq(Events \cup {Closed})]
    BY <2>1, <2>2
  <2>4. child' \in [Children -> {"none", "live", "dead"}]
    BY <1>1 DEF ChildExits, Dies
  <2>. QED
    BY <1>1, <2>3, <2>4 DEF ChildExits
<1>2. ASSUME NEW s \in Sessions, Produce(c, s) PROVE TypeInv'
  <2>1. log[s] + 1 \in 1..MaxEvents
    BY <1>2, Bounds DEF Produce
  <2>2. Event(s, log[s] + 1) \in Events
    BY <2>1, Kinds
  <2>3. feed' \in [Children -> Seq(Events \cup {Closed})]
    BY <1>2, <2>2 DEF Produce
  <2>4. log' \in [Sessions -> 0..MaxEvents]
    BY <1>2, <2>1, Bounds DEF Produce
  <2>. QED
    BY <1>2, <2>3, <2>4 DEF Produce
<1>. QED
  BY <1>1, <1>2

(* What a step of the reader does to the streams.                            *)
LEMMA Heads ==
  ASSUME TypeInv, NEW c \in Children, feed[c] # <<>>
  PROVE  Head(feed[c]) \in Events \cup {Closed} /\ Tail(feed[c]) \in Seq(Events \cup {Closed})
<1>1. feed[c] \in Seq(Events \cup {Closed})
  BY DEF TypeInv, HubOK
<1>. QED
  BY <1>1, HeadTailProperties

LEMMA TypeTake ==
  ASSUME TypeInv, NEW c \in Children, Take(c)
  PROVE  TypeInv'
<1>. USE DEF TypeInv, HubOK, Holding, OnASession, HasAChild, MarkIsDue, routed, lane, work, window
<1>1. feed' \in [Children -> Seq(Events \cup {Closed})]
  BY Heads DEF Take
<1>2. held' \in [Children -> Events \cup {Closed, None}] /\ rd' \in [Children -> {"none", "recv", "forwarding", "gone"}]
  BY Heads DEF Take
<1>3. Holding'
  <2>1. Head(feed[c]) # None
    BY Heads, Kinds DEF Take
  <2>. QED
    BY <2>1 DEF Take
<1>. QED
  BY <1>1, <1>2, <1>3 DEF Take

LEMMA KeepTypes ==
  ASSUME TypeInv, NEW e \in Events, Keep(e)
  PROVE  orphans' \in Seq(Events) /\ Len(orphans') <= OrphanLimit /\ elsewhere' \subseteq Events
<1>. USE DEF TypeInv, HubOK
<1>1. CASE Len(orphans) >= OrphanLimit
  <2>1. orphans # <<>>
    BY <1>1, Bounds
  <2>2. Head(orphans) \in Events /\ Tail(orphans) \in Seq(Events) /\ Len(Tail(orphans)) = Len(orphans) - 1
    BY <2>1, HeadTailProperties
  <2>3. orphans' = Append(Tail(orphans), e) /\ elsewhere' = elsewhere \cup {Head(orphans)}
    BY <1>1 DEF Keep
  <2>. QED
    BY <2>2, <2>3, Bounds, LenProperties, AppendProperties
<1>2. CASE ~(Len(orphans) >= OrphanLimit)
  <2>1. orphans' = Append(orphans, e) /\ elsewhere' = elsewhere
    BY <1>2 DEF Keep
  <2>2. Len(orphans) \in Nat
    BY LenProperties
  <2>. QED
    BY <1>2, <2>1, <2>2, Bounds, AppendProperties
<1>. QED
  BY <1>1, <1>2

LEMMA BroadcastTypes ==
  ASSUME TypeInv, NEW sign \in {Lost, Restored}, Broadcast(sign)
  PROVE  heard' \in [Lanes -> Seq(Events \cup {Lost, Restored})] /\ conn' \in Seq({Lost, Restored})
<1>. DEFINE Hears(l) == \E s \in Sessions : routes[s] = l
<1>1. heard' = [l \in Lanes |-> IF Hears(l) THEN Append(heard[l], sign) ELSE heard[l]]
  BY DEF Broadcast
<1>. HIDE DEF Hears
<1>2. \A l \in Lanes : heard[l] \in Seq(Events \cup {Lost, Restored})
  BY DEF TypeInv, HubOK
<1>3. \A l \in Lanes : Append(heard[l], sign) \in Seq(Events \cup {Lost, Restored})
  BY <1>2, AppendProperties
<1>4. conn \in Seq({Lost, Restored}) /\ conn' = Append(conn, sign)
  BY DEF Broadcast, TypeInv, HubOK
<1>. QED
  BY <1>1, <1>2, <1>3, <1>4, AppendProperties

LEMMA TypeForward ==
  ASSUME TypeInv, NEW c \in Children, Forward(c)
  PROVE  TypeInv'
<1>. USE DEF TypeInv, HubOK, Holding, OnASession, HasAChild, MarkIsDue, muse, lane, work, window
<1>1. held' \in [Children -> Events \cup {Closed, None}] /\ rd' \in [Children -> {"none", "recv", "forwarding", "gone"}]
  BY DEF Forward
<1>2. Holding'
  BY DEF Forward
<1>3. CASE held[c] = Closed
  <2>1. heard' \in [Lanes -> Seq(Events \cup {Lost, Restored})] /\ conn' \in Seq({Lost, Restored})
    BY <1>3, BroadcastTypes DEF Forward
  <2>. QED
    BY <1>1, <1>2, <1>3, <2>1 DEF Forward
<1>4. CASE held[c] # Closed
  <2>1. held[c] \in Events
    BY <1>4 DEF Forward
  <2>2. held[c].session \in Sessions /\ held[c].n \in 0..MaxEvents
    BY <2>1, Kinds, Bounds
  <2>3. cursor' \in [Sessions -> 0..MaxEvents]
    BY <1>4, <2>2 DEF Forward
  <2>4. CASE routes[held[c].session] = NoLane
    <3>1. Keep(held[c]) /\ heard' = heard
      BY <1>4, <2>4 DEF Forward, Route
    <3>2. orphans' \in Seq(Events) /\ Len(orphans') <= OrphanLimit /\ elsewhere' \subseteq Events
      BY <2>1, <3>1, KeepTypes
    <3>. QED
      BY <1>1, <1>2, <1>4, <2>3, <3>1, <3>2 DEF Forward
  <2>5. CASE routes[held[c].session] # NoLane
    <3>1. /\ heard' = [heard EXCEPT ![routes[held[c].session]] = Append(@, held[c])]
          /\ orphans' = orphans /\ elsewhere' = elsewhere
      BY <1>4, <2>5 DEF Forward, Route
    <3>2. heard' \in [Lanes -> Seq(Events \cup {Lost, Restored})]
      BY <2>1, <2>2, <2>5, <3>1
    <3>. QED
      BY <1>1, <1>2, <1>4, <2>3, <3>1, <3>2 DEF Forward
  <2>. QED
    BY <2>4, <2>5
<1>. QED
  BY <1>3, <1>4

LEMMA TypeLaneTakes ==
  ASSUME TypeInv, NEW l \in Lanes, LaneShutdown(l) \/ \E s \in Sessions : LaneTakes(l, s)
  PROVE  TypeInv'
<1>. USE DEF TypeInv, HubOK, Holding, OnASession, HasAChild, MarkIsDue, muse, reader, work, window
<1>1. Unrouted(l) \in [Sessions -> Lanes \cup {NoLane}]
  BY DEF Unrouted
<1>2. CASE LaneShutdown(l)
  BY <1>1, <1>2 DEF LaneShutdown
<1>3. ASSUME NEW s \in Sessions, LaneTakes(l, s) PROVE TypeInv'
  <2>1. /\ bound' = [bound EXCEPT ![l] = s]
        /\ routes' = routes \/ routes' = Unrouted(l)
        /\ lpc' \in {[lpc EXCEPT ![l] = "attaching"], [lpc EXCEPT ![l] = "binding"]}
    BY <1>3 DEF LaneTakes
  <2>2. routes' \in [Sessions -> Lanes \cup {NoLane}]
    BY <1>1, <2>1
  <2>3. lpc' \in [Lanes -> {"idle", "binding", "attaching"}] /\ bound' \in [Lanes -> Sessions \cup {NoSession}]
    BY <2>1
  <2>4. OnASession'
    BY <2>1
  <2>. QED
    BY <1>3, <2>2, <2>3, <2>4 DEF LaneTakes
<1>. QED
  BY <1>2, <1>3

(* Waiting and the rest are positions of the orphans.                        *)
LEMMA Handed ==
  ASSUME TypeInv, NEW s, NEW P, P = Waiting(s) \/ P = DOMAIN orphans \ Waiting(s)
  PROVE  /\ orphans \in Seq(Events) /\ Rows(orphans, P) \in Seq(Events)
         /\ Len(Rows(orphans, P)) <= OrphanLimit
         /\ In(Rows(orphans, P)) = {orphans[i] : i \in P}
         /\ Sorted(orphans) => Sorted(Rows(orphans, P))
<1>1. orphans \in Seq(Events) /\ Len(orphans) <= OrphanLimit /\ Len(orphans) \in Nat
  BY LenProperties DEF TypeInv, HubOK
<1>2. P \in SUBSET (DOMAIN orphans)
  BY DEF Waiting
<1>3. /\ Rows(orphans, P) \in Seq(Events) /\ Len(Rows(orphans, P)) <= Len(orphans)
      /\ In(Rows(orphans, P)) = {orphans[i] : i \in P}
      /\ Sorted(orphans) => Sorted(Rows(orphans, P))
  BY <1>1, <1>2, RowsProperties
<1>4. Len(Rows(orphans, P)) \in Nat
  BY <1>3, LenProperties
<1>. QED
  BY <1>1, <1>3, <1>4, Bounds

LEMMA TypeBind ==
  ASSUME TypeInv, NEW l \in Lanes, Bind(l)
  PROVE  TypeInv'
<1>. USE DEF TypeInv, HubOK, Holding, OnASession, HasAChild, MarkIsDue, muse, reader, work, window
<1>. DEFINE moved == Rows(orphans, Waiting(bound[l]))
            left == Rows(orphans, DOMAIN orphans \ Waiting(bound[l]))
<1>1. moved \in Seq(Events) /\ left \in Seq(Events) /\ Len(left) <= OrphanLimit
  BY Handed
<1>. HIDE DEF moved, left
<1>2. orphans' = left /\ heard' = [heard EXCEPT ![l] = @ \o moved]
  BY DEF Bind, moved, left
<1>3. heard' \in [Lanes -> Seq(Events \cup {Lost, Restored})]
  <2>1. moved \in Seq(Events \cup {Lost, Restored}) /\ heard[l] \in Seq(Events \cup {Lost, Restored})
    BY <1>1, SeqMonotonic
  <2>2. heard[l] \o moved \in Seq(Events \cup {Lost, Restored})
    BY <2>1, ConcatProperties
  <2>. QED
    BY <1>2, <2>2
<1>4. routes' \in [Sessions -> Lanes \cup {NoLane}]
  BY DEF Bind
<1>. QED
  BY <1>1, <1>2, <1>3, <1>4 DEF Bind

LEMMA TypeLaneAttach ==
  ASSUME TypeInv, NEW l \in Lanes, LaneAttach(l)
  PROVE  TypeInv'
<1>. USE DEF TypeInv, HubOK, Holding, OnASession, HasAChild, MarkIsDue, reader, work, window
<1>. DEFINE s == bound[l]
<1>1. /\ s \in Sessions /\ OnASession' /\ lpc' \in [Lanes -> {"idle", "binding", "attaching"}]
      /\ UNCHANGED <<child, feed, log, reader, routes, orphans, heard, conn, bound, work, window, refusal>>
  BY DEF LaneAttach
<1>. HIDE DEF s
<1>2. CASE Attached(l, s)
  <2>1. \A n \in (cursor[s] + 1)..log[s] : n \in 1..MaxEvents
    BY <1>1, Bounds
  <2>2. {Event(s, n) : n \in (cursor[s] + 1)..log[s]} \subseteq Events
    BY <1>1, <2>1, Kinds
  <2>3. attached' \in [Children -> SUBSET Sessions] /\ elsewhere' \subseteq Events
    BY <1>1, <1>2, <2>2 DEF Attached
  <2>4. cursor' \in [Sessions -> 0..MaxEvents]
    <3>1. cursor' = cursor \/ cursor' = [cursor EXCEPT ![s] = log[s]]
      BY <1>2 DEF Attached
    <3>2. s \in Sessions /\ log[s] \in 0..MaxEvents
      BY <1>1
    <3>. QED
      BY <3>1, <3>2
  <2>. QED
    BY <1>1, <2>3, <2>4
<1>3. ASSUME NEW hint, AttachRefused(l, s, hint) PROVE TypeInv'
  BY <1>1, <1>3 DEF AttachRefused
<1>. QED
  BY <1>2, <1>3 DEF LaneAttach, s

LEMMA TypeWorker ==
  ASSUME TypeInv, NEW w \in Workers,
         Spawn(w) \/ StartReader(w) \/ ListFollowed(w) \/ ReadCursor(w) \/ OnResult(w)
  PROVE  TypeInv'
<1>. USE DEF TypeInv, HubOK, Holding, OnASession, HasAChild, MarkIsDue, muse, reader, routed, lane, window
<1>1. CASE Spawn(w)
  <2>1. CASE wpc' = [wpc EXCEPT ![w] = "failed"] /\ UNCHANGED <<child, mine>>
    BY <1>1, <2>1 DEF Spawn
  <2>2. ASSUME NEW c \in Children, child' = [child EXCEPT ![c] = "live"], mine' = [mine EXCEPT ![w] = c],
               wpc' = [wpc EXCEPT ![w] = "spawned"]
        PROVE  TypeInv'
    BY <1>1, <2>2 DEF Spawn
  <2>. QED
    BY <1>1, <2>1, <2>2 DEF Spawn
<1>2. CASE StartReader(w)
  <2>1. mine[w] \in Children
    BY <1>2 DEF StartReader
  <2>. QED
    BY <1>2, <2>1 DEF StartReader
<1>3. CASE ListFollowed(w)
  BY <1>3 DEF ListFollowed, Followed
<1>4. CASE ReadCursor(w)
  <2>1. PICK s \in todo[w] : mark' = [mark EXCEPT ![w] = [session |-> s, at |-> cursor[s]]]
    BY <1>4 DEF ReadCursor
  <2>2. s \in Sessions /\ cursor[s] \in 0..MaxEvents
    OBVIOUS
  <2>. QED
    BY <1>4, <2>1, <2>2 DEF ReadCursor
<1>5. CASE OnResult(w)
  BY <1>5 DEF OnResult
<1>. QED
  BY <1>1, <1>2, <1>3, <1>4, <1>5

LEMMA TypeInstall ==
  ASSUME TypeInv, NEW w \in Workers, InstallLink(w)
  PROVE  TypeInv'
<1>. USE DEF TypeInv, HubOK, Holding, OnASession, HasAChild, MarkIsDue, routed, lane, window
<1>1. feed' \in [Children -> Seq(Events \cup {Closed})] /\ child' \in [Children -> {"none", "live", "dead"}]
  <2>1. CASE Live(link)
    <3>1. PICK k \in 0..Len(feed[link]) : feed' = [feed EXCEPT ![link] = Append(SubSeq(@, 1, k), Closed)]
      BY <2>1 DEF InstallLink, Dies
    <3>2. SubSeq(feed[link], 1, k) \in Seq(Events \cup {Closed})
      BY PrefixIn
    <3>3. child' = [child EXCEPT ![link] = "dead"]
      BY <2>1 DEF InstallLink, Dies
    <3>. QED
      BY <3>1, <3>2, <3>3
  <2>2. CASE ~Live(link)
    BY <2>2 DEF InstallLink
  <2>. QED
    BY <2>1, <2>2
<1>. QED
  BY <1>1 DEF InstallLink

LEMMA TypeResume ==
  ASSUME TypeInv, NEW w \in Workers, Resume(w)
  PROVE  TypeInv'
<1>. USE DEF TypeInv, HubOK, Holding, OnASession, HasAChild, MarkIsDue, lane, window
<1>. DEFINE s == mark[w].session
            streamed == Suffix(s, mark[w].at, log[s])
            events == Events \cup {Closed}
<1>1. s \in Sessions /\ mark[w].at \in 0..MaxEvents /\ log[s] \in 0..MaxEvents
  BY DEF Resume
<1>2. streamed \in Seq(events)
  BY <1>1, Bounds, SuffixProperties, SeqMonotonic
<1>3. feed' = feed \/ feed' = [feed EXCEPT ![link] = @ \o streamed]
  BY DEF Resume
<1>4. feed' \in [Children -> Seq(events)]
  <2>1. feed[link] \o streamed \in Seq(events)
    BY <1>2, ConcatProperties
  <2>. QED
    BY <1>3, <2>1
<1>5. elsewhere' \subseteq Events
  <2>1. \A n \in 1..log[s] : n \in 1..MaxEvents
    BY <1>1, Bounds
  <2>2. {Event(s, n) : n \in 1..log[s]} \subseteq Events
    BY <1>1, <2>1, Kinds
  <2>. QED
    BY <2>2 DEF Resume
<1>6. /\ attached' \in [Children -> SUBSET Sessions] /\ cursor' \in [Sessions -> 0..MaxEvents]
  <2>1. attached' = attached \/ attached' = [attached EXCEPT ![link] = @ \cup {s}]
    BY DEF Resume
  <2>2. cursor' = cursor \/ cursor' = [cursor EXCEPT ![s] = log[s]]
    BY DEF Resume
  <2>. HIDE DEF s
  <2>4. attached' \in [Children -> SUBSET Sessions]
    <3>1. attached \in [Children -> SUBSET Sessions] /\ attached[link] \cup {s} \in SUBSET Sessions
      BY <1>1
    <3>. QED
      BY <2>1, <3>1
  <2>5. cursor' \in [Sessions -> 0..MaxEvents]
    BY <1>1, <2>2
  <2>. QED
    BY <2>4, <2>5
<1>7. wpc'[w] = "next" /\ \A v \in Workers : v # w => wpc'[v] = wpc[v] /\ todo'[v] = todo[v]
  BY DEF Resume
<1>8. /\ wpc' \in [Workers -> {"idle", "starting", "spawned", "failed", "linked", "listing",
                               "next", "resuming", "finished", "done"}]
      /\ todo' \in [Workers -> SUBSET Sessions]
  BY DEF Resume
<1>9. UNCHANGED <<child, log, link, gen, genOf, rd, held, routes, orphans, heard, conn, bound, lpc,
                  mine, wire, dialog, overlapped>>
  BY DEF Resume, reader
<1>11. mark' \in [Workers -> [session : Sessions \cup {NoSession}, at : 0..MaxEvents]]
  BY Bounds DEF Resume
<1>12. \A v \in Workers : v # w => mark'[v] = mark[v]
  BY DEF Resume
<1>10. HasAChild' /\ MarkIsDue'
  BY <1>7, <1>9, <1>12
<1>. QED
  BY <1>4, <1>5, <1>6, <1>8, <1>9, <1>10, <1>11

LEMMA TypeWindow ==
  ASSUME TypeInv, OnHubEvent \/ Retry \/ \E w \in Workers : Finish(w)
  PROVE  TypeInv'
<1>. USE DEF TypeInv, HubOK, Holding, OnASession, HasAChild, MarkIsDue, muse, reader, routed, lane, work, window
<1>1. ASSUME NEW w \in Workers, Finish(w) PROVE TypeInv'
  <2>1. heard' \in [Lanes -> Seq(Events \cup {Lost, Restored})] /\ conn' \in Seq({Lost, Restored})
    BY <1>1, BroadcastTypes DEF Finish
  <2>. QED
    BY <1>1, <2>1 DEF Finish
<1>2. CASE Retry
  <2>1. PICK w \in Workers : StartWorker(w)
    BY <1>2 DEF Retry
  <2>2. wpc' = [wpc EXCEPT ![w] = "starting"] /\ wire' = "reconnecting" /\ dialog' = FALSE
    BY <1>2, <2>1 DEF Retry, StartWorker
  <2>3. overlapped' = TRUE \/ overlapped' = overlapped
    BY <2>1 DEF StartWorker
  <2>4. dialog' \in BOOLEAN /\ overlapped' \in BOOLEAN
    BY <2>2, <2>3
  <2>5. /\ wpc' \in [Workers -> {"idle", "starting", "spawned", "failed", "linked", "listing",
                                 "next", "resuming", "finished", "done"}]
        /\ HasAChild' /\ MarkIsDue' /\ wire' \in {"ready", "reconnecting", "down"}
    BY <1>2, <2>2 DEF Retry
  <2>. QED
    BY <1>2, <2>4, <2>5 DEF Retry
<1>3. CASE OnHubEvent
  <2>1. conn' \in Seq({Lost, Restored})
    BY <1>3, HeadTailProperties DEF OnHubEvent
  <2>. QED
    BY <1>3, <2>1 DEF OnHubEvent, StartWorker
<1>. QED
  BY <1>1, <1>2, <1>3

LEMMA TypeStep == TypeInv /\ [Next]_vars => TypeInv'
<1>. SUFFICES ASSUME TypeInv, [Next]_vars PROVE TypeInv'
  OBVIOUS
<1>1. CASE UNCHANGED vars
  BY <1>1 DEF TypeInv, HubOK, Holding, OnASession, HasAChild, MarkIsDue, vars, muse, reader, routed,
       lane, work, window
<1>2. ASSUME NEW c \in Children, ChildExits(c) \/ ReaderStep(c) \/ \E s \in Sessions : Produce(c, s)
      PROVE  TypeInv'
  BY <1>2, TypeMuse, TypeTake, TypeForward DEF ReaderStep
<1>3. ASSUME NEW l \in Lanes, LaneStep(l) \/ LaneShutdown(l) \/ \E s \in Sessions : LaneTakes(l, s)
      PROVE  TypeInv'
  <2>1. Land(l) => TypeInv'
    BY DEF Land, TypeInv, HubOK, Holding, OnASession, HasAChild, MarkIsDue, muse, reader, routed, lane, work, window
  <2>. QED
    BY <1>3, <2>1, TypeBind, TypeLaneAttach, TypeLaneTakes DEF LaneStep
<1>4. ASSUME NEW w \in Workers, WorkerStep(w) PROVE TypeInv'
  BY <1>4, TypeWorker, TypeInstall, TypeResume, TypeWindow DEF WorkerStep
<1>5. CASE OnHubEvent \/ Retry
  BY <1>5, TypeWindow
<1>. QED
  BY <1>1, <1>2, <1>3, <1>4, <1>5 DEF Next

(* What the views say, and what is on its way to them.                       *)
Notices == {"none", "lease", "banner"}

LEMMA TellingLane ==
  ASSUME TypeInv, TellingOK, NEW l \in Lanes,
         LaneStep(l) \/ LaneShutdown(l) \/ \E s \in Sessions : LaneTakes(l, s)
  PROVE  TellingOK'
<1>. USE DEF TellingOK
<1>1. ASSUME Closes(l) PROVE notice' \in [Sessions -> Notices] /\ unshown' \subseteq Sessions
  BY <1>1 DEF Closes, Notices
<1>2. CASE LaneShutdown(l)
  BY <1>1, <1>2 DEF LaneShutdown, Notices
<1>3. ASSUME NEW s \in Sessions, LaneTakes(l, s) PROVE TellingOK'
  <2>1. CASE bound[l] = s
    BY <1>3, <2>1 DEF LaneTakes
  <2>2. CASE bound[l] # s
    <3>1. Closes(l) /\ view' = [view EXCEPT ![l] = IF NeverOpened(s) THEN "starting" ELSE "shown"] /\ refusal' = refusal
      BY <1>3, <2>2 DEF LaneTakes
    <3>. QED
      BY <1>1, <3>1 DEF Notices
  <2>. QED
    BY <2>1, <2>2
<1>4. CASE LaneAttach(l)
  <2>. DEFINE s == bound[l]
  <2>1. s \in Sessions /\ refusal' = refusal
    BY <1>4 DEF LaneAttach, TypeInv, OnASession
  <2>. HIDE DEF s
  <2>2. CASE Attached(l, s)
    BY <2>1, <2>2 DEF Attached
  <2>3. ASSUME NEW hint, AttachRefused(l, s, hint) PROVE TellingOK'
    BY <2>1, <2>3 DEF AttachRefused
  <2>. QED
    BY <1>4, <2>2, <2>3 DEF LaneAttach, s
<1>5. CASE Bind(l) \/ Land(l)
  BY <1>5 DEF Bind, Land, telling
<1>. QED
  BY <1>2, <1>3, <1>4, <1>5 DEF LaneStep

LEMMA TellingResume ==
  ASSUME TypeInv, TellingOK, NEW w \in Workers, Resume(w)
  PROVE  TellingOK'
<1>. DEFINE s == mark[w].session
<1>1. s \in Sessions
  BY DEF Resume, TypeInv, HubOK, MarkIsDue
<1>2. /\ unshown' \subseteq unshown /\ view' = view /\ notice' = notice
      /\ refusal' = refusal \/ \E hint \in Refusals : refusal' = [refusal EXCEPT ![w][s] = hint]
  BY DEF Resume
<1>. HIDE DEF s
<1>3. ASSUME NEW hint \in Refusals PROVE [refusal EXCEPT ![w][s] = hint] \in [Workers -> Answers]
  <2>1. hint \in {"none", "held", "stale", "other"}
    BY HubAssumption DEF Refusals
  <2>2. [refusal[w] EXCEPT ![s] = hint] \in Answers
    BY <1>1, <2>1 DEF Answers, TellingOK
  <2>. QED
    BY <2>2 DEF TellingOK
<1>. QED
  BY <1>2, <1>3 DEF TellingOK

LEMMA TellingResult ==
  ASSUME TypeInv, TellingOK, NEW w \in Workers, OnResult(w)
  PROVE  TellingOK'
<1>1. CASE wpc[w] = "finished"
  <2>1. /\ notice' = [s \in Sessions |-> Said(w, s)] /\ unshown' = unshown \cup Untold(w) /\ view' = view
        /\ refusal' = [refusal EXCEPT ![w] = [s \in Sessions |-> "none"]]
    BY <1>1 DEF OnResult
  <2>2. \A s \in Sessions : Said(w, s) \in {"none", "lease", "banner"}
    BY DEF Said, TellingOK
  <2>3. [s \in Sessions |-> "none"] \in Answers
    BY DEF Answers
  <2>. QED
    BY <2>1, <2>2, <2>3 DEF TellingOK, Untold
<1>2. CASE wpc[w] # "finished"
  BY <1>2 DEF OnResult, TellingOK
<1>. QED
  BY <1>1, <1>2

LEMMA TellingStep == TypeInv /\ TellingOK /\ [Next]_vars => TellingOK'
<1>. SUFFICES ASSUME TypeInv, TellingOK, [Next]_vars PROVE TellingOK'
  OBVIOUS
<1>1. CASE UNCHANGED telling
  BY <1>1 DEF TellingOK, telling
<1>2. ASSUME NEW w \in Workers, WorkerStep(w) PROVE TellingOK'
  <2>1. WorkerStep(w) => UNCHANGED telling \/ Resume(w) \/ OnResult(w)
    BY DEF WorkerStep, Spawn, InstallLink, StartReader, ListFollowed, ReadCursor, Finish
  <2>. QED
    BY <1>1, <1>2, <2>1, TellingResume, TellingResult
<1>3. ASSUME NEW c \in Children, ChildExits(c) \/ ReaderStep(c) \/ \E s \in Sessions : Produce(c, s)
      PROVE  TellingOK'
  <2>1. UNCHANGED telling
    BY <1>3 DEF ChildExits, ReaderStep, Take, Forward, Produce
  <2>. QED
    BY <1>1, <2>1
<1>4. CASE OnHubEvent \/ Retry \/ UNCHANGED vars
  BY <1>1, <1>4 DEF OnHubEvent, Retry, vars
<1>. QED
  BY <1>2, <1>3, <1>4, TellingLane DEF Next

LEMMA TellingInit == Init => TellingOK
  BY DEF Init, TellingOK, Answers

(* Everything keeps its type, for any sessions, lanes and bounds.            *)
THEOREM TypeCorrect == Spec => []TypeOK
<1>1. TypeInv /\ TellingOK => TypeOK
  BY DEF TypeInv, TypeOK
<1>. QED
  BY <1>1, TypeInit, TypeStep, TellingInit, TellingStep, PTL DEF Spec

-----------------------------------------------------------------------------
(* Routes.                                                                   *)

LEMMA RoutesInit == Init => RoutesAreCurrent
  BY Bounds DEF Init, RoutesAreCurrent, Followed

LEMMA RoutesByItem ==
    RoutesAreCurrent <=>
        /\ \A e \in In(orphans) : routes[e.session] = NoLane
        /\ \A s \in Sessions : routes[s] # NoLane => bound[routes[s]] = s
  BY DEF RoutesAreCurrent, Followed, In

(* Keep adds its event and lets the oldest go.                               *)
LEMMA KeepIn ==
  ASSUME TypeInv, NEW e \in Events, Keep(e)
  PROVE  \/ In(orphans') = In(orphans) \cup {e} /\ elsewhere' = elsewhere
         \/ /\ orphans # <<>> /\ In(orphans') = In(Tail(orphans)) \cup {e}
            /\ elsewhere' = elsewhere \cup {Head(orphans)}
<1>. USE DEF TypeInv, HubOK
<1>1. CASE Len(orphans) >= OrphanLimit
  <2>1. orphans # <<>>
    BY <1>1, Bounds
  <2>. DEFINE rest == Tail(orphans)
  <2>2. rest \in Seq(Events)
    BY <2>1, HeadTailProperties
  <2>3. orphans' = Append(rest, e) /\ elsewhere' = elsewhere \cup {Head(orphans)}
    BY <1>1 DEF Keep
  <2>. HIDE DEF rest
  <2>4. In(Append(rest, e)) = In(rest) \cup {e}
    BY <2>2, AppendIn
  <2>. QED
    BY <2>1, <2>3, <2>4 DEF rest
<1>2. CASE ~(Len(orphans) >= OrphanLimit)
  <2>1. orphans' = Append(orphans, e) /\ elsewhere' = elsewhere
    BY <1>2 DEF Keep
  <2>. QED
    BY <2>1, AppendIn
<1>. QED
  BY <1>1, <1>2

LEMMA RoutesForward ==
  ASSUME TypeInv, RoutesAreCurrent, NEW c \in Children, Forward(c)
  PROVE  RoutesAreCurrent'
<1>1. routes' = routes /\ bound' = bound
  BY DEF Forward, lane
<1>2. \/ orphans' = orphans
      \/ held[c] \in Events /\ routes[held[c].session] = NoLane /\ Keep(held[c])
  BY DEF Forward, Route, TypeInv, HubOK, Holding
<1>3. \A e \in In(orphans') : routes[e.session] = NoLane
  <2>1. CASE orphans' = orphans
    BY <2>1, RoutesByItem
  <2>2. CASE held[c] \in Events /\ routes[held[c].session] = NoLane /\ Keep(held[c])
    <3>1. orphans # <<>> => In(Tail(orphans)) \subseteq In(orphans)
      BY TailIn DEF TypeInv, HubOK
    <3>2. In(orphans') \subseteq In(orphans) \cup {held[c]}
      BY <2>2, <3>1, KeepIn
    <3>. QED
      BY <2>2, <3>2, RoutesByItem
  <2>. QED
    BY <1>2, <2>1, <2>2
<1>. QED
  BY <1>1, <1>3 DEF RoutesAreCurrent, Followed, In

LEMMA RoutesLane ==
  ASSUME TypeInv, RoutesAreCurrent, NEW l \in Lanes, LaneShutdown(l) \/ \E s \in Sessions : LaneTakes(l, s)
  PROVE  RoutesAreCurrent'
<1>1. orphans' = orphans
  BY DEF LaneShutdown, LaneTakes
<1>2. /\ bound \in [Lanes -> Sessions \cup {NoSession}] /\ routes \in [Sessions -> Lanes \cup {NoLane}]
      /\ \A i \in DOMAIN orphans : orphans[i].session \in Sessions
  <2>1. \A i \in DOMAIN orphans : orphans[i] \in Events
    BY ElementOfSeq, LenProperties DEF TypeInv, HubOK
  <2>. QED
    BY <2>1, Kinds DEF TypeInv, HubOK
<1>3. \A s \in Sessions : routes[s] # NoLane => routes[s] \in Lanes /\ bound[routes[s]] = s
  BY <1>2, RoutesByItem
<1>4. CASE routes' = Unrouted(l) /\ \A m \in Lanes : m # l => bound'[m] = bound[m]
  <2>1. \A s \in Sessions : routes'[s] = IF s = bound[l] /\ routes[s] = l THEN NoLane ELSE routes[s]
    BY <1>4 DEF Unrouted
  <2>2. \A s \in Sessions : routes'[s] # NoLane => routes'[s] = routes[s] /\ routes[s] # l
    BY <1>3, <2>1
  <2>3. \A s \in Sessions : routes'[s] # NoLane => bound'[routes'[s]] = s
    BY <1>3, <1>4, <2>2
  <2>4. \A i \in DOMAIN orphans : routes'[orphans[i].session] = NoLane
    BY <1>2, <2>1 DEF RoutesAreCurrent
  <2>. QED
    BY <1>1, <2>3, <2>4 DEF RoutesAreCurrent, Followed
<1>5. CASE routes' = routes /\ bound' = bound
  BY <1>1, <1>5 DEF RoutesAreCurrent, Followed
<1>6. \/ routes' = Unrouted(l) /\ \A m \in Lanes : m # l => bound'[m] = bound[m]
      \/ routes' = routes /\ bound' = bound
  <2>1. CASE LaneShutdown(l)
    BY <1>2, <2>1 DEF LaneShutdown
  <2>2. ASSUME NEW s \in Sessions, LaneTakes(l, s) PROVE <1>6!:
    BY <1>2, <2>2 DEF LaneTakes
  <2>. QED
    BY <2>1, <2>2
<1>. QED
  BY <1>4, <1>5, <1>6

LEMMA RoutesBind ==
  ASSUME TypeInv, RoutesAreCurrent, NEW l \in Lanes, Bind(l)
  PROVE  RoutesAreCurrent'
<1>. DEFINE s == bound[l]
<1>1. /\ s \in Sessions /\ routes \in [Sessions -> Lanes \cup {NoLane}]
      /\ routes' = [routes EXCEPT ![s] = l] /\ bound' = bound
  BY DEF Bind, TypeInv, HubOK, OnASession
<1>2. \A e \in In(orphans') : e \in In(orphans) /\ e.session # s /\ e.session \in Sessions
  <2>1. /\ orphans \in Seq(Events) /\ orphans' = Rows(orphans, DOMAIN orphans \ Waiting(s))
        /\ In(orphans') = {orphans[i] : i \in DOMAIN orphans \ Waiting(s)}
    BY Handed DEF Bind
  <2>2. \A i \in DOMAIN orphans : orphans[i] \in Events
    BY <2>1, ElementOfSeq, LenProperties
  <2>3. \A e \in In(orphans') : \E i \in DOMAIN orphans : i \notin Waiting(s) /\ e = orphans[i]
    BY <2>1
  <2>. QED
    BY <2>2, <2>3, Kinds DEF Waiting, In
<1>3. \A e \in In(orphans') : routes'[e.session] = NoLane
  BY <1>1, <1>2, RoutesByItem
<1>4. \A r \in Sessions : routes'[r] # NoLane => bound'[routes'[r]] = r
  BY <1>1, RoutesByItem
<1>. QED
  BY <1>3, <1>4 DEF RoutesAreCurrent, Followed, In

LEMMA RoutesStep == TypeInv /\ RoutesAreCurrent /\ [Next]_vars => RoutesAreCurrent'
<1>. SUFFICES ASSUME TypeInv, RoutesAreCurrent, [Next]_vars PROVE RoutesAreCurrent'
  OBVIOUS
<1>1. CASE UNCHANGED <<orphans, routes, bound>>
  BY <1>1 DEF RoutesAreCurrent, Followed
<1>2. ASSUME NEW c \in Children, ChildExits(c) \/ ReaderStep(c) \/ \E s \in Sessions : Produce(c, s)
      PROVE  RoutesAreCurrent'
  <2>1. ChildExits(c) \/ Take(c) \/ (\E s \in Sessions : Produce(c, s)) => UNCHANGED <<orphans, routes, bound>>
    BY DEF ChildExits, Take, Produce, routed, lane
  <2>. QED
    BY <1>1, <1>2, <2>1, RoutesForward DEF ReaderStep
<1>3. ASSUME NEW l \in Lanes, LaneStep(l) \/ LaneShutdown(l) \/ \E s \in Sessions : LaneTakes(l, s)
      PROVE  RoutesAreCurrent'
  <2>1. LaneAttach(l) \/ Land(l) => UNCHANGED <<orphans, routes, bound>>
    BY DEF LaneAttach, Land, routed, lane
  <2>. QED
    BY <1>1, <1>3, <2>1, RoutesBind, RoutesLane DEF LaneStep
<1>4. ASSUME NEW w \in Workers, WorkerStep(w) PROVE RoutesAreCurrent'
  <2>1. UNCHANGED <<orphans, routes, bound>>
    BY <1>4 DEF WorkerStep, Spawn, InstallLink, StartReader, ListFollowed, ReadCursor, Resume, Finish, OnResult,
         routed, lane
  <2>. QED
    BY <1>1, <2>1
<1>5. CASE OnHubEvent \/ Retry
  <2>1. UNCHANGED <<orphans, routes, bound>>
    BY <1>5 DEF OnHubEvent, Retry, routed, lane
  <2>. QED
    BY <1>1, <2>1
<1>6. CASE UNCHANGED vars
  BY <1>1, <1>6 DEF vars, routed, lane
<1>. QED
  BY <1>2, <1>3, <1>4, <1>5, <1>6 DEF Next

(* A lane is only ever routed the session it is on, and nothing waits for a  *)
(* session that has a lane: however lanes take sessions over, leave them and *)
(* let go of them while events arrive.                                       *)
THEOREM RoutesAreCurrentAlways == Spec => []RoutesAreCurrent
  BY TypeInit, TypeStep, RoutesInit, RoutesStep, PTL DEF Spec

-----------------------------------------------------------------------------
(* Sessions left behind.                                                     *)

(* A followed session streams from the child of the link, or shows why not,  *)
(* or is one of the exceptions; or its lane or a worker is still to open it  *)
(* there, its refusal is on the way to the window, or its lane to be closed. *)
Coming(s) ==
    \/ lpc[routes[s]] = "attaching" \/ view[routes[s]] = "failed"
    \/ \E w \in Workers : wpc[w] \in {"linked", "listing"}
    \/ \E w \in Workers : wpc[w] \in {"next", "resuming"} /\ s \in todo[w]
    \/ \E w \in Workers : wpc[w] \in {"next", "resuming", "finished"} /\ refusal[w][s] # "none"

Settled(s) == s \in attached[link] \/ notice[s] # "none" \/ s \in unshown

Accounted == \A s \in Followed : Settled(s) \/ Coming(s)

LEMMA AccountedInit == Init => Accounted
  BY DEF Init, Accounted, Followed

LEMMA AccountedSame ==
  ASSUME Accounted, Followed' \subseteq Followed,
         \A s \in Followed' : Settled(s) => Settled(s)',
         \A s \in Followed' : Coming(s) => Settled(s)' \/ Coming(s)'
  PROVE  Accounted'
  BY DEF Accounted

(* A session whose last view closes is routed no more.                       *)
LEMMA Unfollowed ==
  ASSUME TypeInv, RoutesAreCurrent, NEW l \in Lanes, routes' = Unrouted(l)
  PROVE  /\ Followed' \subseteq Followed
         /\ \A s \in Followed' : s \notin Unseen(l) /\ routes'[s] = routes[s] /\ routes[s] \in Lanes /\ routes[s] # l
<1>. USE DEF TypeInv, HubOK
<1>1. \A s \in Sessions : routes[s] # NoLane => routes[s] \in Lanes /\ bound[routes[s]] = s
  BY DEF RoutesAreCurrent, Followed
<1>2. \A s \in Sessions : routes'[s] = IF s = bound[l] /\ routes[s] = l THEN NoLane ELSE routes[s]
  BY DEF Unrouted
<1>3. \A s \in Sessions : routes'[s] # NoLane => routes'[s] = routes[s] /\ routes[s] \in Lanes /\ routes[s] # l
                                                  /\ bound[routes[s]] = s
  BY <1>1, <1>2
<1>. QED
  BY <1>3 DEF Followed, Unseen

LEMMA AccountedLeave ==
  ASSUME TypeInv, TellingOK, RoutesAreCurrent, Accounted, NEW l \in Lanes,
         LaneShutdown(l) \/ \E s \in Sessions : LaneTakes(l, s)
  PROVE  Accounted'
<1>1. lpc[l] = "idle" /\ \A m \in Lanes : m # l => lpc'[m] = lpc[m] /\ view'[m] = view[m]
  BY DEF LaneShutdown, LaneTakes, TypeInv, HubOK, TellingOK
<1>2. UNCHANGED <<link, attached, wpc, todo, refusal>>
  BY DEF LaneShutdown, LaneTakes, muse, reader, work
<1>3. CASE routes' = Unrouted(l) /\ Closes(l)
  <2>1. /\ Followed' \subseteq Followed
        /\ \A s \in Followed' : s \notin Unseen(l) /\ routes'[s] = routes[s] /\ routes[s] \in Lanes /\ routes[s] # l
    BY <1>3, Unfollowed
  <2>2. \A s \in Followed' : Settled(s) => Settled(s)'
    BY <1>2, <1>3, <2>1 DEF Settled, Closes, Followed
  <2>3. \A s \in Followed' : Coming(s) => Coming(s)'
    BY <1>1, <1>2, <2>1 DEF Coming
  <2>. QED
    BY <2>1, <2>2, <2>3, AccountedSame
<1>4. CASE UNCHANGED <<routes, view, notice, unshown>> /\ lpc' = [lpc EXCEPT ![l] = "attaching"]
  <2>1. Followed' = Followed
    BY <1>4 DEF Followed
  <2>2. \A s \in Followed' : Settled(s) => Settled(s)'
    BY <1>2, <1>4 DEF Settled
  <2>3. lpc \in [Lanes -> {"idle", "binding", "attaching"}] /\ \A s \in Followed' : routes[s] \in Lanes
    BY <2>1 DEF Followed, TypeInv, HubOK
  <2>4. \A s \in Followed' : Coming(s) => Coming(s)'
    BY <1>2, <1>4, <2>3 DEF Coming
  <2>. QED
    BY <2>1, <2>2, <2>4, AccountedSame
<1>. QED
  BY <1>3, <1>4 DEF LaneShutdown, LaneTakes

(* What an open leaves of the session its lane is on, and of the others.     *)
LEMMA OpenSettles ==
  ASSUME TypeInv, TellingOK, NEW l \in Lanes, LaneAttach(l)
  PROVE  /\ Settled(bound[l])' \/ view'[l] = "failed"
         /\ \A r \in Sessions : Settled(r) => Settled(r)'
         /\ \A m \in Lanes : view[m] = "failed" => view'[m] = "failed"
<1>. DEFINE s == bound[l]
<1>1. s \in Sessions /\ link' = link /\ bound' = bound
  BY DEF LaneAttach, OnASession, reader, TypeInv
<1>2. /\ attached \in [Children -> SUBSET Sessions] /\ link \in Children
      /\ notice \in [Sessions -> {"none", "lease", "banner"}]
      /\ view \in [Lanes -> {"none", "starting", "shown", "failed"}]
  BY DEF TypeInv, HubOK, TellingOK
<1>. HIDE DEF s
<1>3. CASE Attached(l, s)
  <2>1. /\ attached'[link] = attached[link] \cup {s} /\ view' = view
        /\ \A r \in Sessions : r # s => notice'[r] = notice[r]
        /\ unshown' = unshown \ {s}
    BY <1>2, <1>3 DEF Attached
  <2>2. Settled(s)'
    BY <1>1, <2>1 DEF Settled, s
  <2>3. \A r \in Sessions : Settled(r) => Settled(r)'
    BY <1>1, <2>1, <2>2 DEF Settled
  <2>. QED
    BY <1>1, <2>1, <2>2, <2>3 DEF s
<1>4. ASSUME NEW hint \in Refusals, AttachRefused(l, s, hint)
      PROVE  /\ Settled(s)' \/ view'[l] = "failed"
             /\ \A r \in Sessions : Settled(r) => Settled(r)'
             /\ \A m \in Lanes : view[m] = "failed" => view'[m] = "failed"
  <2>1. hint \in {"held", "stale", "other"} /\ attached' = attached
    BY <1>4, HubAssumption DEF Refusals, AttachRefused
  <2>2. \A m \in Lanes : view[m] = "failed" => view'[m] = "failed"
    BY <1>2, <1>4 DEF AttachRefused
  <2>3. hint = "other" => view'[l] = "failed"
    BY <1>2, <1>4 DEF AttachRefused
  <2>4. /\ \A r \in Sessions : notice[r] # "none" => notice'[r] # "none"
        /\ unshown \subseteq unshown'
    BY <1>1, <1>2, <1>4 DEF AttachRefused
  <2>5. (hint = "held" => notice'[s] = "lease") /\ (hint = "stale" => s \in unshown')
    BY <1>1, <1>2, <1>4 DEF AttachRefused
  <2>6. \A r \in Sessions : Settled(r) => Settled(r)'
    BY <1>1, <2>1, <2>4 DEF Settled
  <2>7. s \in unshown' \/ notice'[s] # "none" => Settled(s)'
    BY <1>1 DEF Settled, s
  <2>. QED
    BY <2>1, <2>2, <2>3, <2>5, <2>6, <2>7
<1>. QED
  BY <1>3, <1>4 DEF LaneAttach, s

LEMMA AccountedLane ==
  ASSUME TypeInv, TellingOK, RoutesAreCurrent, Accounted, NEW l \in Lanes, LaneStep(l)
  PROVE  Accounted'
<1>1. CASE Bind(l)
  <2>1. /\ bound[l] \in Sessions /\ lpc' = [lpc EXCEPT ![l] = "attaching"]
        /\ routes' = [routes EXCEPT ![bound[l]] = l]
        /\ UNCHANGED <<link, attached, wpc, todo, view, notice, unshown, refusal>>
    BY <1>1 DEF Bind, TypeInv, OnASession, muse, reader, work, telling
  <2>0. lpc \in [Lanes -> {"idle", "binding", "attaching"}] /\ routes \in [Sessions -> Lanes \cup {NoLane}]
    BY DEF TypeInv, HubOK
  <2>2. SUFFICES ASSUME NEW s \in Followed' PROVE Settled(s)' \/ Coming(s)'
    BY DEF Accounted
  <2>3. CASE s = bound[l]
    BY <2>0, <2>1, <2>3 DEF Coming
  <2>4. CASE s # bound[l]
    <3>1. s \in Followed /\ routes'[s] = routes[s] /\ routes[s] \in Lanes
      BY <2>0, <2>1, <2>4 DEF Followed
    <3>2. Settled(s) => Settled(s)'
      BY <2>1 DEF Settled
    <3>3. Coming(s) => Coming(s)'
      BY <2>0, <2>1, <3>1 DEF Coming
    <3>. QED
      BY <3>1, <3>2, <3>3 DEF Accounted
  <2>. QED
    BY <2>3, <2>4
<1>2. CASE LaneAttach(l)
  <2>1. /\ UNCHANGED <<routes, wpc, todo, refusal, bound>> /\ \A m \in Lanes : m # l => lpc'[m] = lpc[m]
    BY <1>2 DEF LaneAttach, work, TypeInv, HubOK
  <2>2. Followed' = Followed
    BY <2>1 DEF Followed
  <2>3. ASSUME NEW s \in Followed', Coming(s) PROVE Settled(s)' \/ Coming(s)'
    <3>1. s \in Sessions /\ routes[s] \in Lanes /\ bound[routes[s]] = s
      BY <2>2 DEF Followed, RoutesAreCurrent, TypeInv, HubOK
    <3>2. view[routes[s]] = "failed" => view'[routes'[s]] = "failed"
      BY <1>2, <2>1, <3>1, OpenSettles
    <3>3. CASE routes[s] = l
      <4>1. Settled(bound[l])' \/ view'[l] = "failed"
        BY <1>2, OpenSettles
      <4>2. (bound[l])' = s
        BY <2>1, <3>1, <3>3
      <4>3. Settled(bound[l])' => Settled(s)'
        BY <2>1, <4>2 DEF Settled
      <4>. QED
        BY <2>1, <3>3, <4>1, <4>3 DEF Coming
    <3>4. CASE routes[s] # l
      <4>1. lpc'[routes'[s]] = lpc[routes[s]]
        BY <2>1, <3>1, <3>4
      <4>. QED
        BY <2>1, <2>3, <3>2, <4>1 DEF Coming
    <3>. QED
      BY <3>3, <3>4
  <2>. QED
    BY <1>2, <2>2, <2>3, OpenSettles, AccountedSame DEF Followed
<1>3. CASE Land(l)
  <2>1. UNCHANGED <<routes, lpc, link, attached, wpc, todo, notice, unshown, refusal>>
        /\ \A m \in Lanes : view[m] = "failed" => view'[m] = "failed"
    BY <1>3 DEF Land, muse, reader, routed, lane, work, TellingOK
  <2>2. Followed' = Followed /\ \A s \in Followed' : routes[s] \in Lanes
    BY <2>1 DEF Followed, TypeInv, HubOK
  <2>3. \A s \in Followed' : (Settled(s) => Settled(s)') /\ (Coming(s) => Coming(s)')
    BY <2>1, <2>2 DEF Settled, Coming
  <2>. QED
    BY <2>2, <2>3, AccountedSame
<1>. QED
  BY <1>1, <1>2, <1>3 DEF LaneStep

(* A refusal that reaches the window is told, or the session is unshown.     *)
LEMMA ResultSettles ==
  ASSUME TypeInv, TellingOK, NEW w \in Workers, OnResult(w), wpc[w] = "finished"
  PROVE  /\ \A s \in Sessions : Settled(s) => Settled(s)'
         /\ \A s \in Sessions : refusal[w][s] # "none" => Settled(s)'
         /\ \A v \in Workers : v # w => refusal'[v] = refusal[v]
<1>1. /\ UNCHANGED <<link, attached>> /\ unshown' = unshown \cup Untold(w)
      /\ notice' = [s \in Sessions |-> Said(w, s)]
      /\ refusal' = [refusal EXCEPT ![w] = [s \in Sessions |-> "none"]]
  BY DEF OnResult, muse, reader
<1>2. ASSUME NEW s \in Sessions, Settled(s) \/ refusal[w][s] # "none" PROVE Settled(s)'
  <2>1. CASE s \in attached[link]
    BY <1>1, <2>1 DEF Settled
  <2>2. CASE Said(w, s) # "none"
    <3>1. notice'[s] # "none"
      BY <1>1, <2>2
    <3>. QED
      BY <3>1 DEF Settled
  <2>3. CASE s \in unshown
    BY <1>1, <2>3 DEF Settled
  <2>4. CASE s \notin attached[link] /\ Said(w, s) = "none" /\ (refusal[w][s] # "none" \/ notice[s] # "none")
    BY <1>1, <2>4 DEF Settled, Untold
  <2>. QED
    BY <1>2, <2>1, <2>2, <2>3, <2>4 DEF Settled
<1>3. \A v \in Workers : v # w => refusal'[v] = refusal[v]
  BY <1>1 DEF TellingOK
<1>. QED
  BY <1>2, <1>3

LEMMA AccountedResume ==
  ASSUME TypeInv, TellingOK, Accounted, NEW w \in Workers, Resume(w)
  PROVE  Accounted'
<1>. DEFINE s == mark[w].session
<1>1. /\ wpc[w] = "resuming" /\ wpc'[w] = "next"
      /\ \A v \in Workers : v # w => wpc'[v] = wpc[v]
      /\ \A v \in Workers : todo[v] \ {s} \subseteq todo'[v]
      /\ UNCHANGED <<routes, link, bound, lpc, view, notice>> /\ Followed' = Followed
  BY DEF Resume, reader, lane, TypeInv, HubOK, Followed
<1>2. s \in Sessions
  BY <1>1 DEF MarkIsDue, TypeInv, HubOK
<1>. HIDE DEF s
<1>3. ASSUME \A v \in Workers, r \in Sessions : refusal[v][r] # "none" => refusal'[v][r] # "none"
      PROVE  \A r \in Sessions : Coming(r) => r = s \/ Coming(r)'
  <2>. SUFFICES ASSUME NEW r \in Sessions, Coming(r), r # s PROVE Coming(r)'
    OBVIOUS
  <2>1. CASE lpc[routes[r]] = "attaching" \/ view[routes[r]] = "failed"
    BY <1>1, <2>1 DEF Coming
  <2>2. CASE \E v \in Workers : wpc[v] \in {"linked", "listing"}
    BY <1>1, <2>2 DEF Coming
  <2>3. CASE \E v \in Workers : wpc[v] \in {"next", "resuming"} /\ r \in todo[v]
    BY <1>1, <2>3 DEF Coming
  <2>4. CASE \E v \in Workers : wpc[v] \in {"next", "resuming", "finished"} /\ refusal[v][r] # "none"
    BY <1>1, <1>3, <2>4 DEF Coming
  <2>. QED
    BY <2>1, <2>2, <2>3, <2>4 DEF Coming
<1>4. CASE /\ unshown' = unshown \ {s} /\ attached' = [attached EXCEPT ![link] = @ \cup {s}]
           /\ refusal' = refusal
  <2>1. attached'[link] = attached[link] \cup {s}
    BY <1>4 DEF TypeInv, HubOK
  <2>2. \A r \in Sessions : r = s \/ Settled(r) => Settled(r)'
    BY <1>1, <1>4, <2>1 DEF Settled
  <2>3. \A r \in Sessions : Coming(r) => r = s \/ Coming(r)'
    BY <1>3, <1>4
  <2>. QED
    BY <1>1, <2>2, <2>3, AccountedSame DEF Followed
<1>5. ASSUME NEW hint \in Refusals, refusal' = [refusal EXCEPT ![w][s] = hint],
             UNCHANGED <<attached, unshown>>
      PROVE  Accounted'
  <2>1. hint # "none"
    BY HubAssumption DEF Refusals
  <2>2. refusal' = [refusal EXCEPT ![w] = [refusal[w] EXCEPT ![s] = hint]]
    BY <1>5
  <2>3. /\ \A v \in Workers : v # w => refusal'[v] = refusal[v]
        /\ refusal'[w] = [refusal[w] EXCEPT ![s] = hint] /\ refusal[w] \in Answers
    BY <2>2 DEF TellingOK
  <2>4. refusal'[w][s] = hint /\ \A r \in Sessions : r # s => refusal'[w][r] = refusal[w][r]
    BY <1>2, <2>3 DEF Answers
  <2>5. \A v \in Workers, r \in Sessions : refusal[v][r] # "none" => refusal'[v][r] # "none"
    BY <2>1, <2>3, <2>4
  <2>6. \A r \in Sessions : r = s => Coming(r)'
    BY <1>1, <2>1, <2>4 DEF Coming
  <2>7. \A r \in Sessions : Coming(r) => r = s \/ Coming(r)'
    BY <1>3, <2>5
  <2>8. \A r \in Sessions : Settled(r) => Settled(r)'
    BY <1>1, <1>5 DEF Settled
  <2>. QED
    BY <1>1, <2>6, <2>7, <2>8, AccountedSame DEF Followed
<1>. QED
  BY <1>4, <1>5 DEF Resume, s

LEMMA AccountedWorker ==
  ASSUME TypeInv, TellingOK, Accounted, NEW w \in Workers, WorkerStep(w)
  PROVE  Accounted'
<1>. USE DEF TypeInv, HubOK
<1>1. CASE InstallLink(w) \/ StartReader(w)
  <2>1. wpc'[w] \in {"linked", "listing"}
    BY <1>1 DEF InstallLink, StartReader
  <2>. QED
    BY <2>1 DEF Accounted, Coming
<1>2. CASE ListFollowed(w)
  <2>1. wpc'[w] = "next" /\ todo'[w] = Followed /\ Followed' = Followed
    BY <1>2 DEF ListFollowed, Followed, routed
  <2>. QED
    BY <2>1 DEF Accounted, Coming
<1>3. CASE Resume(w)
  BY <1>3, AccountedResume
<1>4. CASE Spawn(w) \/ ReadCursor(w) \/ Finish(w) \/ OnResult(w)
  <2>1. UNCHANGED <<routes, link, attached, bound, lpc, view, todo>>
    BY <1>4 DEF Spawn, ReadCursor, Finish, OnResult, muse, reader, routed, lane, telling
  <2>2. \A v \in Workers : v # w => wpc'[v] = wpc[v]
    BY <1>4 DEF Spawn, ReadCursor, Finish, OnResult
  <2>3. Followed' = Followed
    BY <2>1 DEF Followed
  <2>4. CASE OnResult(w) /\ wpc[w] = "finished"
    <3>1. /\ \A s \in Sessions : refusal[w][s] # "none" => Settled(s)'
          /\ \A v \in Workers : v # w => refusal'[v] = refusal[v]
      BY <2>4, ResultSettles
    <3>2. ASSUME NEW s \in Sessions, Coming(s) PROVE Settled(s)' \/ Coming(s)'
      BY <2>1, <2>2, <2>4, <3>1, <3>2 DEF Coming
    <3>. QED
      BY <2>3, <2>4, <3>2, ResultSettles, AccountedSame DEF Followed
  <2>5. CASE ~(OnResult(w) /\ wpc[w] = "finished")
    <3>1. UNCHANGED <<notice, unshown, refusal>>
      BY <1>4, <2>5 DEF Spawn, ReadCursor, Finish, OnResult, telling
    <3>2. \/ wpc[w] \in {"starting", "failed"}
          \/ wpc[w] = "next" /\ todo[w] = {} /\ wpc'[w] = "finished"
          \/ wpc[w] = "next" /\ wpc'[w] = "resuming"
      BY <1>4, <2>5 DEF Spawn, ReadCursor, Finish, OnResult
    <3>3. \A s \in Sessions : (Settled(s) => Settled(s)') /\ (Coming(s) => Coming(s)')
      BY <2>1, <2>2, <3>1, <3>2 DEF Settled, Coming
    <3>. QED
      BY <2>3, <3>3, AccountedSame DEF Followed
  <2>. QED
    BY <2>4, <2>5
<1>. QED
  BY <1>1, <1>2, <1>3, <1>4 DEF WorkerStep

LEMMA AccountedStep == TypeInv /\ TellingOK /\ RoutesAreCurrent /\ Accounted /\ [Next]_vars => Accounted'
<1>. SUFFICES ASSUME TypeInv, TellingOK, RoutesAreCurrent, Accounted, [Next]_vars PROVE Accounted'
  OBVIOUS
<1>1. CASE UNCHANGED <<attached, link, routes, bound, lpc, wpc, todo, telling>>
  BY <1>1 DEF Accounted, Followed, Coming, Settled, telling
<1>2. ASSUME NEW c \in Children, ChildExits(c) \/ ReaderStep(c) \/ \E s \in Sessions : Produce(c, s)
      PROVE  Accounted'
  <2>1. UNCHANGED <<attached, link, routes, bound, lpc, wpc, todo, telling>>
    BY <1>2 DEF ChildExits, ReaderStep, Take, Forward, Produce, muse, reader, routed, lane, work
  <2>. QED
    BY <1>1, <2>1
<1>3. CASE OnHubEvent \/ Retry
  <2>1. UNCHANGED <<attached, link, routes, bound, lpc, todo, telling>>
    BY <1>3 DEF OnHubEvent, Retry, muse, reader, routed, lane
  <2>2. wpc' = wpc \/ \E w \in Workers : wpc[w] = "idle" /\ wpc' = [wpc EXCEPT ![w] = "starting"]
    BY <1>3 DEF OnHubEvent, Retry, StartWorker
  <2>3. \A s \in Sessions : (Settled(s) => Settled(s)') /\ (Coming(s) => Coming(s)')
    BY <2>1, <2>2 DEF Settled, Coming, telling, TypeInv, HubOK
  <2>4. Followed' = Followed
    BY <2>1 DEF Followed
  <2>. QED
    BY <2>3, <2>4, AccountedSame DEF Followed
<1>4. CASE UNCHANGED vars
  BY <1>1, <1>4 DEF vars, muse, reader, routed, lane, work
<1>. QED
  BY <1>2, <1>3, <1>4, AccountedLane, AccountedLeave, AccountedWorker DEF Next

(* Once all is at rest on a live child, every followed session streams from  *)
(* it, its view says why not, or it is of one of the three kinds that        *)
(* NoSessionLeftBehind names, of which the window shows nothing: with any    *)
(* number of lanes coming and going, and of reconnects one over the other.   *)
THEOREM NoSessionLeftBehindAlways == Spec => []NoSessionLeftBehind
<1>1. TypeInv /\ Accounted => NoSessionLeftBehind
  <2>. SUFFICES ASSUME TypeInv, Accounted, Quiet, NEW s \in Followed
                PROVE  s \in attached[link] \cup Told \cup unshown
    BY DEF NoSessionLeftBehind
  <2>1. s \in Sessions /\ routes[s] \in Lanes
    BY DEF Followed, TypeInv, HubOK
  <2>2. ~Coming(s)
    BY <2>1 DEF Quiet, Coming
  <2>3. Settled(s)
    BY <2>2 DEF Accounted
  <2>. QED
    BY <2>1, <2>3 DEF Settled, Told
<1>. QED
  BY <1>1, TypeInit, TypeStep, TellingInit, TellingStep, RoutesInit, RoutesStep, AccountedInit, AccountedStep, PTL DEF Spec

-----------------------------------------------------------------------------
(* One reconnect at a time.                                                  *)

(* While no two overlap: a loss is reported once, and then the connection is *)
(* down until a worker has a new reader running; only the reader of the link *)
(* runs, and only while the connection is not down.                          *)
Down == {"starting", "spawned", "linked", "failed"}
Alone == \A v, w \in Workers : Busy(v) /\ Busy(w) => v = w
Reading(c) == rd[c] \in {"recv", "forwarding"}
Severed == Lost \in In(conn) \/ dialog \/ \E w \in Workers : wpc[w] \in Down

OneLoss ==
    /\ \A i, j \in DOMAIN conn : conn[i] = Lost /\ conn[j] = Lost => i = j
    /\ Lost \in In(conn) => ~dialog /\ \A w \in Workers : wpc[w] \notin Down
    /\ dialog => \A w \in Workers : ~Busy(w)

OneReader ==
    \A c \in Children : Reading(c) => c = link /\ genOf[c] = gen /\ ~Severed

LinkIsMine == \A w \in Workers : wpc[w] = "linked" => link = mine[w]

Control == Alone /\ OneLoss /\ OneReader /\ LinkIsMine

LEMMA ControlInit == Init => Control
<1>. SUFFICES ASSUME Init PROVE Control
  OBVIOUS
<1>1. In(conn) = {} /\ DOMAIN conn = {}
  BY DEF Init, In
<1>. QED
  BY <1>1 DEF Init, Control, Alone, OneLoss, OneReader, LinkIsMine, Severed, Reading, Busy, Down, Children

LEMMA ConnTail ==
  ASSUME TypeInv, conn # <<>>
  PROVE  /\ In(conn) = {Head(conn)} \cup In(Tail(conn))
         /\ OneLoss => \A i, j \in DOMAIN Tail(conn) : Tail(conn)[i] = Lost /\ Tail(conn)[j] = Lost => i = j
         /\ OneLoss /\ Head(conn) = Lost => Lost \notin In(Tail(conn))
<1>1. conn \in Seq({Lost, Restored})
  BY DEF TypeInv, HubOK
<1>2. In(conn) = {Head(conn)} \cup In(Tail(conn))
  BY <1>1, TailIn
<1>. DEFINE t == Tail(conn)
<1>3. /\ Len(conn) \in Nat /\ Len(conn) > 0 /\ DOMAIN conn = 1..Len(conn) /\ Head(conn) = conn[1]
      /\ DOMAIN t = 1..(Len(conn) - 1)
      /\ \A i \in 1..(Len(conn) - 1) : t[i] = conn[i + 1]
  BY <1>1, Shifted
<1>4. \A i \in 1..(Len(conn) - 1) : i \in Nat /\ i + 1 \in 1..Len(conn) /\ i + 1 # 1 /\ 1 \in 1..Len(conn)
  BY <1>3
<1>. HIDE DEF t
<1>5. ASSUME OneLoss, NEW i \in DOMAIN t, NEW j \in DOMAIN t, t[i] = Lost, t[j] = Lost PROVE i = j
  BY <1>3, <1>4, <1>5 DEF OneLoss
<1>6. ASSUME OneLoss, Head(conn) = Lost, Lost \in In(t) PROVE FALSE
  <2>1. PICK i \in 1..(Len(conn) - 1) : t[i] = Lost
    BY <1>3, <1>6 DEF In
  <2>. QED
    BY <1>3, <1>4, <1>6, <2>1 DEF OneLoss
<1>. QED
  BY <1>2, <1>5, <1>6 DEF t

LEMMA ConnAppend ==
  ASSUME TypeInv, NEW sign \in {Lost, Restored}
  PROVE  /\ In(Append(conn, sign)) = In(conn) \cup {sign}
         /\ /\ OneLoss /\ (sign = Lost => Lost \notin In(conn))
            => \A i, j \in DOMAIN Append(conn, sign) :
                  Append(conn, sign)[i] = Lost /\ Append(conn, sign)[j] = Lost => i = j
<1>1. conn \in Seq({Lost, Restored})
  BY DEF TypeInv, HubOK
<1>. DEFINE r == Append(conn, sign)
<1>2. /\ Len(conn) \in Nat /\ DOMAIN conn = 1..Len(conn) /\ DOMAIN r = 1..(Len(conn) + 1)
      /\ \A i \in 1..Len(conn) : r[i] = conn[i]
      /\ r[Len(conn) + 1] = sign
  BY <1>1, AppendProperties, LenProperties
<1>3. In(r) = In(conn) \cup {sign}
  BY <1>1, AppendIn
<1>. HIDE DEF r
<1>4. ASSUME OneLoss, sign = Lost => Lost \notin In(conn),
             NEW i \in DOMAIN r, NEW j \in DOMAIN r, r[i] = Lost, r[j] = Lost
      PROVE  i = j
  <2>1. CASE sign = Lost
    <3>1. \A k \in 1..Len(conn) : conn[k] # Lost
      BY <1>2, <1>4, <2>1 DEF In
    <3>2. i = Len(conn) + 1 /\ j = Len(conn) + 1
      BY <1>2, <1>4, <3>1
    <3>. QED
      BY <3>2
  <2>2. CASE sign # Lost
    <3>1. i \in 1..Len(conn) /\ j \in 1..Len(conn)
      BY <1>2, <1>4, <2>2
    <3>. QED
      BY <1>2, <1>4, <3>1 DEF OneLoss
  <2>. QED
    BY <2>1, <2>2
<1>. QED
  BY <1>3, <1>4 DEF r

LEMMA ControlReader ==
  ASSUME TypeInv, Control, NEW c \in Children, Take(c) \/ Forward(c)
  PROVE  Control'
<1>1. rd \in [Children -> {"none", "recv", "forwarding", "gone"}] /\ Reading(c) /\ c = link /\ genOf[c] = gen /\ ~Severed
  BY DEF TypeInv, HubOK, Take, Forward, Control, OneReader, Reading
<1>2. UNCHANGED <<wpc, mine, dialog, link, gen, genOf>>
  BY DEF Take, Forward, work, window
<1>3. \A d \in Children : d # c => rd'[d] = rd[d]
  BY <1>1 DEF Take, Forward
<1>4. \A w \in Workers : Busy(w)' <=> Busy(w)
  BY <1>2 DEF Busy
<1>5. CASE conn' = conn
  <2>1. Severed' <=> Severed
    BY <1>2, <1>5 DEF Severed
  <2>. QED
    BY <1>1, <1>2, <1>3, <1>4, <1>5, <2>1 DEF Control, Alone, OneLoss, OneReader, LinkIsMine, Reading
<1>6. CASE rd' = [rd EXCEPT ![c] = "gone"] /\ conn' = Append(conn, Lost)
  <2>1. Lost \notin In(conn) /\ ~dialog /\ \A w \in Workers : wpc[w] \notin Down
    BY <1>1 DEF Severed
  <2>2. \A d \in Children : ~Reading(d)'
    BY <1>1, <1>3, <1>6 DEF Control, OneReader, Reading
  <2>3. \A i, j \in DOMAIN conn' : conn'[i] = Lost /\ conn'[j] = Lost => i = j
    BY <1>6, <2>1, ConnAppend DEF Control
  <2>4. OneLoss'
    BY <1>2, <1>4, <2>1, <2>3 DEF OneLoss
  <2>. QED
    BY <1>2, <1>4, <2>2, <2>4 DEF Control, Alone, OneReader, LinkIsMine
<1>. QED
  BY <1>5, <1>6 DEF Take, Forward, Broadcast, routed

LEMMA ControlSpawn ==
  ASSUME TypeInv, Control, NEW w \in Workers, Spawn(w) \/ InstallLink(w) \/ StartReader(w)
  PROVE  Control'
<1>0. /\ wpc \in [Workers -> {"idle", "starting", "spawned", "failed", "linked", "listing",
                              "next", "resuming", "finished", "done"}]
      /\ rd \in [Children -> {"none", "recv", "forwarding", "gone"}] /\ genOf \in [Children -> Nat]
      /\ (wpc[w] = "linked" => mine[w] \in Children)
      /\ mine \in [Workers -> Children \cup {0}]
  BY DEF TypeInv, HubOK, HasAChild
<1>1. wpc[w] \in Down /\ Busy(w) /\ wpc'[w] \in Down \cup {"listing"}
  BY <1>0 DEF Spawn, InstallLink, StartReader, Down, Busy
<1>2. /\ \A v \in Workers : v # w => wpc'[v] = wpc[v] /\ mine'[v] = mine[v] /\ ~Busy(v)
      /\ UNCHANGED <<conn, dialog>>
  <2>1. \A v \in Workers : v # w => ~Busy(v)
    BY <1>1 DEF Control, Alone
  <2>. QED
    BY <1>0, <2>1 DEF Spawn, InstallLink, StartReader, routed, window
<1>3. ~dialog /\ Lost \notin In(conn) /\ \A c \in Children : ~Reading(c)
  BY <1>1 DEF Control, OneLoss, OneReader, Severed
<1>4. \A v \in Workers : v # w => ~Busy(v)' /\ wpc'[v] \notin Down
  BY <1>2 DEF Busy, Down
<1>5. Alone' /\ OneLoss'
  BY <1>2, <1>3, <1>4 DEF Control, Alone, OneLoss
<1>6. CASE Spawn(w) \/ InstallLink(w)
  <2>1. rd' = rd
    BY <1>6 DEF Spawn, InstallLink, reader
  <2>2. \A c \in Children : ~Reading(c)'
    BY <1>3, <2>1 DEF Reading
  <2>3. LinkIsMine'
    <3>1. \A v \in Workers : wpc'[v] = "linked" => v = w /\ link' = mine'[w]
      <4>1. \A v \in Workers : wpc'[v] = "linked" => v = w
        BY <1>4 DEF Down
      <4>2. wpc'[w] = "linked" => link' = mine'[w]
        BY <1>0, <1>6 DEF Spawn, InstallLink
      <4>. QED
        BY <4>1, <4>2
    <3>. QED
      BY <3>1 DEF LinkIsMine
  <2>. QED
    BY <1>5, <2>2, <2>3 DEF Control, OneReader
<1>7. CASE StartReader(w)
  <2>1. link = mine[w] /\ link' = link /\ gen' = gen + 1 /\ genOf'[link] = gen' /\ mine[w] \in Children
    BY <1>0, <1>7 DEF StartReader, Control, LinkIsMine
  <2>2. \A c \in Children : c # link => rd'[c] = rd[c]
    BY <1>7, <2>1 DEF StartReader
  <2>3. ~Severed'
    BY <1>2, <1>3, <1>4, <1>7, <1>0 DEF StartReader, Severed, Down
  <2>4. OneReader'
    BY <1>3, <2>1, <2>2, <2>3 DEF OneReader, Reading
  <2>5. LinkIsMine'
    BY <1>0, <1>4, <1>7 DEF StartReader, LinkIsMine, Down
  <2>. QED
    BY <1>5, <2>4, <2>5 DEF Control
<1>. QED
  BY <1>6, <1>7

LEMMA ControlWork ==
  ASSUME TypeInv, Control, NEW w \in Workers,
         ListFollowed(w) \/ ReadCursor(w) \/ Resume(w) \/ Finish(w) \/ OnResult(w)
  PROVE  Control'
<1>0. wpc \in [Workers -> {"idle", "starting", "spawned", "failed", "linked", "listing",
                           "next", "resuming", "finished", "done"}]
  BY DEF TypeInv, HubOK
<1>1. /\ wpc[w] \in {"listing", "next", "resuming", "finished", "failed"}
      /\ wpc'[w] \in {"next", "resuming", "finished", "done"}
      /\ \A v \in Workers : v # w => wpc'[v] = wpc[v]
      /\ UNCHANGED <<mine, rd, link, gen, genOf>>
  <2>1. CASE ListFollowed(w)
    BY <1>0, <2>1 DEF ListFollowed, reader
  <2>2. CASE ReadCursor(w)
    BY <1>0, <2>2 DEF ReadCursor, reader
  <2>3. CASE Resume(w)
    BY <1>0, <2>3 DEF Resume, reader
  <2>4. CASE Finish(w)
    BY <1>0, <2>4 DEF Finish, reader
  <2>5. CASE OnResult(w)
    BY <1>0, <2>5 DEF OnResult, reader
  <2>. QED
    BY <2>1, <2>2, <2>3, <2>4, <2>5
<1>2. /\ Busy(w) /\ ~dialog
      /\ \A v \in Workers : v # w => ~Busy(v) /\ ~Busy(v)' /\ wpc'[v] \notin Down
  BY <1>1 DEF Control, Alone, OneLoss, Busy, Down
<1>3. \A v \in Workers : wpc'[v] \notin Down
  BY <1>1, <1>2 DEF Down
<1>4. Alone' /\ LinkIsMine'
  BY <1>2, <1>3 DEF Alone, LinkIsMine, Down
<1>5. /\ Lost \in In(conn') <=> Lost \in In(conn)
      /\ \A i, j \in DOMAIN conn' : conn'[i] = Lost /\ conn'[j] = Lost => i = j
  <2>1. CASE conn' = conn
    BY <2>1 DEF Control, OneLoss
  <2>2. CASE conn' = Append(conn, Restored)
    BY <2>2, ConnAppend, Kinds DEF Control
  <2>. QED
    BY <2>1, <2>2 DEF ListFollowed, ReadCursor, Resume, Finish, OnResult, Broadcast, routed
<1>6. CASE dialog' = dialog
  <2>1. OneLoss'
    BY <1>2, <1>3, <1>5, <1>6 DEF OneLoss
  <2>2. Severed' => Severed
    BY <1>3, <1>5, <1>6 DEF Severed
  <2>3. OneReader'
    BY <1>1, <2>2 DEF Control, OneReader, Reading
  <2>. QED
    BY <1>4, <2>1, <2>3 DEF Control
<1>7. CASE wpc[w] = "failed" /\ wpc'[w] = "done"
  <2>1. Severed /\ Lost \notin In(conn)
    BY <1>7 DEF Control, OneLoss, Severed, Down
  <2>2. \A v \in Workers : ~Busy(v)'
    BY <1>2, <1>7 DEF Busy
  <2>3. OneLoss'
    BY <1>3, <1>5, <2>1, <2>2 DEF OneLoss
  <2>4. OneReader'
    BY <1>1, <2>1 DEF Control, OneReader, Reading
  <2>. QED
    BY <1>4, <2>3, <2>4 DEF Control
<1>8. dialog' = dialog \/ (wpc[w] = "failed" /\ wpc'[w] = "done")
  <2>1. OnResult(w) => dialog' = dialog \/ (wpc[w] = "failed" /\ wpc'[w] = "done")
    BY <1>0 DEF OnResult, TypeInv, HubOK
  <2>. QED
    BY <2>1 DEF ListFollowed, ReadCursor, Resume, Finish, window
<1>. QED
  BY <1>6, <1>7, <1>8

LEMMA ControlWindow ==
  ASSUME TypeInv, Control, OnHubEvent \/ Retry, ~overlapped'
  PROVE  Control'
<1>0. wpc \in [Workers -> {"idle", "starting", "spawned", "failed", "linked", "listing",
                           "next", "resuming", "finished", "done"}]
  BY DEF TypeInv, HubOK
<1>1. UNCHANGED <<mine, rd, link, gen, genOf>>
  BY DEF OnHubEvent, Retry, reader
<1>2. ASSUME NEW w \in Workers, StartWorker(w), Severed, ~dialog', Lost \notin In(conn'),
             \A i, j \in DOMAIN conn' : conn'[i] = Lost /\ conn'[j] = Lost => i = j
      PROVE  Control'
  <2>1. \A v \in Workers : ~Busy(v)
    BY <1>2 DEF StartWorker
  <2>2. \A v \in Workers : v # w => wpc'[v] = wpc[v] /\ ~Busy(v)'
    BY <1>0, <1>2, <2>1 DEF StartWorker, Busy
  <2>3. wpc'[w] = "starting"
    BY <1>0, <1>2 DEF StartWorker
  <2>4. Alone' /\ OneLoss'
    BY <1>2, <2>2 DEF Alone, OneLoss
  <2>5. OneReader'
    BY <1>1, <1>2 DEF Control, OneReader, Reading
  <2>6. LinkIsMine'
    BY <1>1, <2>2, <2>3 DEF Control, LinkIsMine
  <2>. QED
    BY <2>4, <2>5, <2>6 DEF Control
<1>3. CASE Retry
  <2>1. PICK w \in Workers : StartWorker(w)
    BY <1>3 DEF Retry
  <2>2. dialog /\ ~dialog' /\ conn' = conn
    BY <1>3 DEF Retry, routed
  <2>3. Severed /\ Lost \notin In(conn)
    BY <2>2 DEF Control, OneLoss, Severed
  <2>. QED
    BY <1>2, <2>1, <2>2, <2>3 DEF Control, OneLoss
<1>4. CASE OnHubEvent /\ Head(conn) = Lost
  <2>1. PICK w \in Workers : StartWorker(w)
    BY <1>4 DEF OnHubEvent
  <2>2. /\ Lost \in In(conn) /\ Lost \notin In(conn')
        /\ \A i, j \in DOMAIN conn' : conn'[i] = Lost /\ conn'[j] = Lost => i = j
    BY <1>4, ConnTail DEF OnHubEvent, Control
  <2>3. Severed /\ ~dialog'
    BY <1>4, <2>2 DEF OnHubEvent, Control, OneLoss, Severed
  <2>. QED
    BY <1>2, <2>1, <2>2, <2>3
<1>5. CASE OnHubEvent /\ Head(conn) # Lost
  <2>1. wpc' = wpc /\ dialog' = dialog
    BY <1>5 DEF OnHubEvent
  <2>2. /\ Lost \in In(conn') <=> Lost \in In(conn)
        /\ \A i, j \in DOMAIN conn' : conn'[i] = Lost /\ conn'[j] = Lost => i = j
    BY <1>5, ConnTail DEF OnHubEvent, Control
  <2>3. OneLoss'
    BY <2>1, <2>2 DEF Control, OneLoss, Busy
  <2>4. Severed' <=> Severed
    BY <2>1, <2>2 DEF Severed
  <2>. QED
    BY <1>1, <2>1, <2>3, <2>4 DEF Control, Alone, OneReader, LinkIsMine, Reading, Busy
<1>. QED
  BY <1>3, <1>4, <1>5

LEMMA ControlSame ==
  ASSUME Control, UNCHANGED <<wpc, mine, dialog, conn, rd, link, gen, genOf>>
  PROVE  Control'
  BY DEF Control, Alone, OneLoss, OneReader, LinkIsMine, Severed, Reading, Busy

LEMMA ControlStep == TypeInv /\ Control /\ [Next]_vars /\ ~overlapped' => Control'
<1>. SUFFICES ASSUME TypeInv, Control, [Next]_vars, ~overlapped' PROVE Control'
  OBVIOUS
<1>1. ASSUME NEW c \in Children, ChildExits(c) \/ ReaderStep(c) \/ \E s \in Sessions : Produce(c, s)
      PROVE  Control'
  <2>1. ChildExits(c) \/ (\E s \in Sessions : Produce(c, s))
          => UNCHANGED <<wpc, mine, dialog, conn, rd, link, gen, genOf>>
    BY DEF ChildExits, Produce, reader, routed, work, window
  <2>. QED
    BY <1>1, <2>1, ControlReader, ControlSame DEF ReaderStep
<1>2. ASSUME NEW l \in Lanes, LaneStep(l) \/ LaneShutdown(l) \/ \E s \in Sessions : LaneTakes(l, s)
      PROVE  Control'
  <2>1. UNCHANGED <<wpc, mine, dialog, conn, rd, link, gen, genOf>>
    BY <1>2 DEF LaneStep, Bind, LaneAttach, Land, LaneShutdown, LaneTakes, reader, routed, work, window
  <2>. QED
    BY <2>1, ControlSame
<1>3. ASSUME NEW w \in Workers, WorkerStep(w) PROVE Control'
  BY <1>3, ControlSpawn, ControlWork DEF WorkerStep
<1>4. CASE OnHubEvent \/ Retry
  BY <1>4, ControlWindow
<1>5. CASE UNCHANGED vars
  BY <1>5, ControlSame DEF vars, reader, routed, work, window
<1>. QED
  BY <1>1, <1>2, <1>3, <1>4, <1>5 DEF Next

-----------------------------------------------------------------------------
(* The children, one after the other.                                        *)

(* A child that is not linked yet has nothing open, nothing read and nothing *)
(* to read but its end; one that was linked before is dead.                  *)
Fresh(c) == attached[c] = {} /\ rd[c] = "none" /\ In(feed[c]) \subseteq {Closed}

Chain ==
    /\ child[link] # "none"
    /\ \A c \in Children : child[c] = "none" => Fresh(c)
    /\ \A w \in Workers : wpc[w] = "spawned" =>
          mine[w] # link /\ Fresh(mine[w]) /\ child[mine[w]] # "none"
    /\ \A c \in Children : Live(c) /\ attached[c] # {} => c = link

LEMMA ChainInit == Init => Chain
<1>. SUFFICES ASSUME Init PROVE Chain
  OBVIOUS
<1>1. In(<<>>) = {}
  BY DEF In
<1>. QED
  BY <1>1, Bounds DEF Init, Chain, Fresh, Live, Children

LEMMA ChainAtLink ==
  ASSUME TypeInv, Chain, UNCHANGED <<link, child>>,
         \A c \in Children : c # link =>
            attached'[c] = attached[c] /\ rd'[c] = rd[c] /\ feed'[c] = feed[c],
         \A w \in Workers : wpc'[w] = "spawned" => wpc[w] = "spawned" /\ mine'[w] = mine[w]
  PROVE  Chain'
<1>1. \A w \in Workers : wpc[w] = "spawned" => mine[w] \in Children
  BY DEF TypeInv, HasAChild
<1>2. \A c \in Children : c # link /\ Fresh(c) => Fresh(c)'
  BY DEF Fresh
<1>3. \A w \in Workers : wpc'[w] = "spawned" =>
         mine'[w] # link' /\ Fresh(mine[w])' /\ child'[mine'[w]] # "none"
  <2>. SUFFICES ASSUME NEW w \in Workers, wpc'[w] = "spawned"
                PROVE  mine'[w] # link' /\ Fresh(mine[w])' /\ child'[mine'[w]] # "none"
    OBVIOUS
  <2>1. mine[w] \in Children /\ mine'[w] = mine[w] /\ mine[w] # link /\ Fresh(mine[w]) /\ child[mine[w]] # "none"
    BY <1>1 DEF Chain
  <2>2. attached'[mine[w]] = attached[mine[w]] /\ rd'[mine[w]] = rd[mine[w]] /\ feed'[mine[w]] = feed[mine[w]]
    BY <2>1
  <2>. QED
    BY <2>1, <2>2 DEF Fresh
<1>4. \A c \in Children : child'[c] = "none" => Fresh(c)'
  BY <1>2 DEF Chain
<1>5. \A c \in Children : Live(c)' /\ attached'[c] # {} => c = link'
  BY DEF Chain, Live
<1>. QED
  BY <1>3, <1>4, <1>5 DEF Chain

LEMMA ChainDies ==
  ASSUME TypeInv, Chain, NEW c \in Children, ChildExits(c)
  PROVE  Chain'
<1>1. /\ UNCHANGED <<attached, rd, link, mine, wpc>> /\ child' = [child EXCEPT ![c] = "dead"]
      /\ child \in [Children -> {"none", "live", "dead"}] /\ child[c] = "live"
      /\ feed \in [Children -> Seq(Events \cup {Closed})] /\ link \in Children
  BY DEF ChildExits, Dies, Live, TypeInv, HubOK, reader, work
<1>2. PICK k \in 0..Len(feed[c]) : feed' = [feed EXCEPT ![c] = Append(SubSeq(@, 1, k), Closed)]
  BY DEF ChildExits, Dies
<1>3. In(feed'[c]) \subseteq In(feed[c]) \cup {Closed}
  <2>. DEFINE t == SubSeq(feed[c], 1, k)
  <2>1. t \in Seq(Events \cup {Closed}) /\ In(t) \subseteq In(feed[c])
    BY <1>1, PrefixIn
  <2>. HIDE DEF t
  <2>2. In(Append(t, Closed)) = In(t) \cup {Closed}
    BY <2>1, AppendIn
  <2>3. feed'[c] = Append(t, Closed)
    BY <1>1, <1>2 DEF t
  <2>. QED
    BY <2>1, <2>2, <2>3
<1>4. \A d \in Children : Fresh(d) => Fresh(d)'
  BY <1>1, <1>2, <1>3 DEF Fresh
<1>5. \A d \in Children : child'[d] = "none" => child[d] = "none"
  BY <1>1
<1>6. \A w \in Workers : wpc'[w] = "spawned" =>
         mine'[w] # link' /\ Fresh(mine[w])' /\ child'[mine'[w]] # "none"
  BY <1>1, <1>4, <1>5 DEF Chain, TypeInv, HasAChild
<1>7. \A d \in Children : Live(d)' => Live(d)
  BY <1>1 DEF Live
<1>8. child'[link] # "none"
  BY <1>1 DEF Chain
<1>. QED
  BY <1>1, <1>4, <1>5, <1>6, <1>7, <1>8 DEF Chain

LEMMA ChainSpawn ==
  ASSUME TypeInv, Control, Chain, NEW w \in Workers, Spawn(w)
  PROVE  Chain'
<1>0. /\ wpc \in [Workers -> {"idle", "starting", "spawned", "failed", "linked", "listing",
                              "next", "resuming", "finished", "done"}]
      /\ mine \in [Workers -> Children \cup {0}] /\ child \in [Children -> {"none", "live", "dead"}]
      /\ link \in Children
  BY DEF TypeInv, HubOK
<1>1. \A v \in Workers : v # w => wpc[v] # "spawned" /\ wpc'[v] = wpc[v]
  BY <1>0 DEF Spawn, Control, Alone, Busy
<1>2. UNCHANGED <<attached, rd, feed, link>>
  BY DEF Spawn, reader
<1>3. \A c : Fresh(c)' <=> Fresh(c)
  BY <1>2 DEF Fresh
<1>4. CASE wpc' = [wpc EXCEPT ![w] = "failed"] /\ UNCHANGED <<child, mine>>
  BY <1>0, <1>1, <1>2, <1>4, ChainAtLink
<1>5. ASSUME NEW c \in Children, child[c] = "none", child' = [child EXCEPT ![c] = "live"],
             mine' = [mine EXCEPT ![w] = c], wpc' = [wpc EXCEPT ![w] = "spawned"]
      PROVE  Chain'
  <2>1. Fresh(c) /\ c # link /\ attached[c] = {}
    BY <1>5 DEF Chain, Fresh
  <2>2. child'[link] # "none" /\ child'[c] # "none" /\ mine'[w] = c
    BY <1>0, <1>5, <2>1 DEF Chain
  <2>3. \A v \in Workers : wpc'[v] = "spawned" => v = w
    BY <1>1
  <2>4. \A d \in Children : child'[d] = "none" => Fresh(d)'
    BY <1>0, <1>3, <1>5 DEF Chain
  <2>5. \A d \in Children : Live(d)' /\ attached[d] # {} => d = link
    BY <1>0, <1>5, <2>1 DEF Chain, Live
  <2>6. Fresh(c)'
    BY <1>3, <2>1
  <2>7. \A v \in Workers : wpc'[v] = "spawned" =>
           mine'[v] # link' /\ Fresh(mine[v])' /\ child'[mine'[v]] # "none"
    <3>. SUFFICES ASSUME NEW v \in Workers, wpc'[v] = "spawned"
                  PROVE  mine'[v] # link' /\ Fresh(mine[v])' /\ child'[mine'[v]] # "none"
      OBVIOUS
    <3>1. v = w /\ mine'[v] = c
      BY <2>2, <2>3
    <3>. QED
      BY <1>2, <2>1, <2>2, <2>6, <3>1 DEF Fresh
  <2>. QED
    BY <1>2, <2>2, <2>4, <2>5, <2>7 DEF Chain
<1>. QED
  BY <1>4, <1>5 DEF Spawn

LEMMA ChainInstall ==
  ASSUME TypeInv, Control, Chain, NEW w \in Workers, InstallLink(w)
  PROVE  Chain'
<1>0. /\ wpc \in [Workers -> {"idle", "starting", "spawned", "failed", "linked", "listing",
                              "next", "resuming", "finished", "done"}]
      /\ child \in [Children -> {"none", "live", "dead"}] /\ feed \in [Children -> Seq(Events \cup {Closed})]
      /\ link \in Children /\ mine[w] \in Children
  BY DEF TypeInv, HubOK, HasAChild, InstallLink
<1>1. /\ wpc[w] = "spawned" /\ mine[w] # link /\ Fresh(mine[w]) /\ child[mine[w]] # "none"
      /\ link' = mine[w] /\ UNCHANGED <<attached, rd, mine>>
  BY DEF InstallLink, Chain
<1>2. \A v \in Workers : wpc'[v] # "spawned"
  BY <1>0, <1>1 DEF InstallLink, Control, Alone, Busy
<1>3. \A c \in Children : c # link => child'[c] = child[c] /\ feed'[c] = feed[c]
  BY <1>0 DEF InstallLink, Dies
<1>4. child'[link] \notin {"none", "live"}
  <2>1. child[link] # "none"
    BY DEF Chain
  <2>2. CASE Live(link)
    BY <1>0, <2>2 DEF InstallLink, Dies
  <2>3. CASE ~Live(link)
    <3>1. child' = child /\ child[link] # "live"
      BY <1>0, <2>3 DEF InstallLink, Live, Children
    <3>. QED
      BY <2>1, <3>1
  <2>. QED
    BY <2>2, <2>3
<1>5. \A c \in Children : child'[c] = "none" => Fresh(c)'
  BY <1>1, <1>3, <1>4 DEF Chain, Fresh
<1>6. \A c \in Children : Live(c)' /\ attached'[c] # {} => c = link'
  BY <1>1, <1>3, <1>4 DEF Chain, Live
<1>7. child'[link'] # "none"
  BY <1>0, <1>1, <1>3
<1>. QED
  BY <1>2, <1>5, <1>6, <1>7 DEF Chain

LEMMA ChainStep == TypeInv /\ Control /\ Chain /\ [Next]_vars => Chain'
<1>. SUFFICES ASSUME TypeInv, Control, Chain, [Next]_vars PROVE Chain'
  OBVIOUS
<1>0. /\ wpc \in [Workers -> {"idle", "starting", "spawned", "failed", "linked", "listing",
                              "next", "resuming", "finished", "done"}]
      /\ attached \in [Children -> SUBSET Sessions] /\ rd \in [Children -> {"none", "recv", "forwarding", "gone"}]
      /\ feed \in [Children -> Seq(Events \cup {Closed})] /\ link \in Children
  BY DEF TypeInv, HubOK
<1>1. CASE UNCHANGED <<link, child, attached, rd, feed, wpc, mine>>
  BY <1>1, ChainAtLink
<1>2. ASSUME NEW c \in Children, NEW s \in Sessions, Produce(c, s) PROVE Chain'
  <2>1. c = link
    BY <1>2 DEF Produce, Chain
  <2>2. UNCHANGED <<link, child, attached, rd, wpc, mine>> /\ \A d \in Children : d # link => feed'[d] = feed[d]
    BY <1>0, <1>2, <2>1 DEF Produce, reader, work
  <2>. QED
    BY <2>2, ChainAtLink
<1>3. ASSUME NEW c \in Children, ReaderStep(c) PROVE Chain'
  <2>1. c = link
    BY <1>3 DEF ReaderStep, Take, Forward, Control, OneReader, Reading
  <2>2. UNCHANGED <<link, child, attached, wpc, mine>>
        /\ \A d \in Children : d # link => feed'[d] = feed[d] /\ rd'[d] = rd[d]
    BY <1>0, <1>3, <2>1 DEF ReaderStep, Take, Forward, muse, work
  <2>. QED
    BY <2>2, ChainAtLink
<1>4. ASSUME NEW l \in Lanes, LaneStep(l) \/ LaneShutdown(l) \/ \E s \in Sessions : LaneTakes(l, s)
      PROVE  Chain'
  <2>1. CASE LaneAttach(l)
    <3>1. UNCHANGED <<link, child, rd, feed, wpc, mine>>
          /\ \A d \in Children : d # link => attached'[d] = attached[d]
      BY <1>0, <2>1 DEF LaneAttach, Attached, AttachRefused, reader, work
    <3>. QED
      BY <3>1, ChainAtLink
  <2>2. Bind(l) \/ Land(l) \/ LaneShutdown(l) \/ (\E s \in Sessions : LaneTakes(l, s))
          => UNCHANGED <<link, child, attached, rd, feed, wpc, mine>>
    BY DEF Bind, Land, LaneShutdown, LaneTakes, muse, reader, work
  <2>. QED
    BY <1>1, <1>4, <2>1, <2>2 DEF LaneStep
<1>5. ASSUME NEW w \in Workers, WorkerStep(w) PROVE Chain'
  <2>1. CASE StartReader(w)
    <3>1. mine[w] = link
      BY <2>1 DEF StartReader, Control, LinkIsMine
    <3>2. UNCHANGED <<link, child, attached, feed, mine>>
          /\ \A d \in Children : d # link => rd'[d] = rd[d]
      BY <1>0, <2>1, <3>1 DEF StartReader, muse
    <3>3. \A v \in Workers : wpc'[v] = "spawned" => wpc[v] = "spawned"
      BY <1>0, <2>1 DEF StartReader
    <3>. QED
      BY <3>2, <3>3, ChainAtLink
  <2>2. CASE Resume(w)
    <3>1. UNCHANGED <<link, child, rd, mine>>
          /\ \A d \in Children : d # link => attached'[d] = attached[d] /\ feed'[d] = feed[d]
      BY <1>0, <2>2 DEF Resume, reader
    <3>2. \A v \in Workers : wpc'[v] = "spawned" => wpc[v] = "spawned"
      BY <1>0, <2>2 DEF Resume
    <3>. QED
      BY <3>1, <3>2, ChainAtLink
  <2>3. CASE ListFollowed(w) \/ ReadCursor(w) \/ Finish(w) \/ OnResult(w)
    <3>1. UNCHANGED <<link, child, attached, rd, feed, mine>>
      BY <2>3 DEF ListFollowed, ReadCursor, Finish, OnResult, muse, reader
    <3>2. \A v \in Workers : wpc'[v] = "spawned" => wpc[v] = "spawned"
      BY <1>0, <2>3 DEF ListFollowed, ReadCursor, Finish, OnResult
    <3>. QED
      BY <3>1, <3>2, ChainAtLink
  <2>. QED
    BY <1>5, <2>1, <2>2, <2>3, ChainSpawn, ChainInstall DEF WorkerStep
<1>6. CASE OnHubEvent \/ Retry
  <2>1. UNCHANGED <<link, child, attached, rd, feed, mine>>
    BY <1>6 DEF OnHubEvent, Retry, muse, reader
  <2>2. \A v \in Workers : wpc'[v] = "spawned" => wpc[v] = "spawned"
    BY <1>0, <1>6 DEF OnHubEvent, Retry, StartWorker
  <2>. QED
    BY <2>1, <2>2, ChainAtLink
<1>7. CASE UNCHANGED vars
  BY <1>1, <1>7 DEF vars, muse, reader, work
<1>. QED
  BY <1>2, <1>3, <1>4, <1>5, <1>6, <1>7, ChainDies DEF Next

-----------------------------------------------------------------------------
(* What is to be folded.                                                     *)

(* The events the reader of the link holds or has to read are of open        *)
(* sessions and follow their cursors in order, without a gap; a live child   *)
(* has streamed all of the log that is past the cursor of an open session;   *)
(* and the cursor a worker has read is the session's until it is open.       *)
Pending == (IF rd[link] = "forwarding" THEN <<held[link]>> ELSE <<>>) \o feed[link]

Stream ==
    /\ \A s \in Sessions : cursor[s] <= log[s]
    /\ \A e \in In(Pending) \cap Events : e.session \in attached[link] /\ e.n <= log[e.session]
    /\ Sorted(Pending) /\ Runs(Pending, cursor)
    /\ Live(link) => \A s \in attached[link] : \A n \in 1..MaxEvents :
          cursor[s] < n /\ n <= log[s] => Event(s, n) \in In(Pending)
    /\ \A w \in Workers : wpc[w] = "resuming" /\ mark[w].session \notin attached[link]
          => mark[w].at = cursor[mark[w].session]

LEMMA PendingType ==
  ASSUME TypeInv
  PROVE  /\ Pending \in Seq(Events \cup {Closed}) /\ feed[link] \in Seq(Events \cup {Closed})
         /\ (IF rd[link] = "forwarding" THEN <<held[link]>> ELSE <<>>) \in Seq(Events \cup {Closed})
<1>1. link \in Children /\ feed[link] \in Seq(Events \cup {Closed})
  BY DEF TypeInv, HubOK
<1>2. rd[link] = "forwarding" => held[link] \in Events \cup {Closed}
  BY <1>1 DEF TypeInv, HubOK, Holding
<1>3. (IF rd[link] = "forwarding" THEN <<held[link]>> ELSE <<>>) \in Seq(Events \cup {Closed})
  <2>1. <<>> \in Seq(Events \cup {Closed})
    OBVIOUS
  <2>2. \A x \in Events \cup {Closed} : <<x>> \in Seq(Events \cup {Closed})
    OBVIOUS
  <2>. QED
    BY <1>2, <2>1, <2>2
<1>. QED
  BY <1>1, <1>3, ConcatProperties DEF Pending

LEMMA PendingSame ==
  ASSUME UNCHANGED link, feed'[link] = feed[link], held'[link] = held[link],
         rd'[link] = "forwarding" <=> rd[link] = "forwarding"
  PROVE  Pending' = Pending
  BY DEF Pending

LEMMA PendingTake ==
  ASSUME TypeInv, Control, NEW c \in Children, Take(c)
  PROVE  c = link /\ Pending' = Pending
<1>1. /\ c = link /\ rd[link] = "recv" /\ genOf[c] = gen /\ feed[link] # <<>> /\ link' = link
      /\ feed'[link] = Tail(feed[link]) /\ rd'[link] = "forwarding" /\ held'[link] = Head(feed[link])
  BY DEF Take, Control, OneReader, Reading, TypeInv, HubOK
<1>2. feed[link] \in Seq(Events \cup {Closed})
  BY PendingType
<1>. DEFINE q == feed[link]
<1>. HIDE DEF q
<1>3. <<Head(q)>> \o Tail(q) = <<>> \o q
  <2>1. q \in Seq(Events \cup {Closed}) /\ q # <<>>
    BY <1>1, <1>2 DEF q
  <2>2. /\ Len(q) \in Nat /\ Len(q) > 0 /\ Head(q) = q[1] /\ Head(q) \in Events \cup {Closed}
        /\ Tail(q) \in Seq(Events \cup {Closed}) /\ Len(Tail(q)) = Len(q) - 1
        /\ \A i \in 1..(Len(q) - 1) : Tail(q)[i] = q[i + 1]
    BY <2>1, HeadTailProperties, Shifted
  <2>3. <<Head(q)>> \in Seq(Events \cup {Closed}) /\ Len(<<Head(q)>>) = 1 /\ <<Head(q)>>[1] = q[1]
    BY <2>2
  <2>. DEFINE one == <<Head(q)>>
              r == one \o Tail(q)
  <2>. HIDE DEF one
  <2>4. /\ r \in Seq(Events \cup {Closed}) /\ Len(r) = 1 + (Len(q) - 1)
        /\ \A i \in 1..(1 + (Len(q) - 1)) : r[i] = IF i <= 1 THEN one[i] ELSE Tail(q)[i - 1]
    BY <2>2, <2>3, ConcatProperties DEF one
  <2>. HIDE DEF r
  <2>5. ASSUME NEW i \in 1..Len(q) PROVE r[i] = q[i]
    <3>1. CASE i = 1
      BY <2>2, <2>3, <2>4, <3>1 DEF one
    <3>2. CASE i # 1
      <4>1. i - 1 \in 1..(Len(q) - 1) /\ (i - 1) + 1 = i /\ ~(i <= 1) /\ i \in 1..(1 + (Len(q) - 1))
        BY <2>2, <3>2
      <4>. QED
        BY <2>2, <2>4, <4>1
    <3>. QED
      BY <3>1, <3>2
  <2>6. r = q
    BY <2>1, <2>2, <2>4, <2>5, SeqEqual
  <2>7. <<>> \o q = q
    BY <2>1, ConcatEmptySeq
  <2>. QED
    BY <2>6, <2>7 DEF r, one
<1>. QED
  BY <1>1, <1>3 DEF Pending, q

LEMMA PendingForward ==
  ASSUME TypeInv, Control, NEW c \in Children, Forward(c)
  PROVE  /\ c = link /\ Pending # <<>> /\ Head(Pending) = held[c] /\ Pending' = Tail(Pending)
         /\ held[c] \in Events \cup {Closed}
<1>1. c = link /\ rd[link] = "forwarding" /\ link' = link /\ feed' = feed /\ rd'[link] # "forwarding"
  BY DEF Forward, Control, OneReader, Reading, TypeInv, HubOK, muse
<1>2. feed[link] \in Seq(Events \cup {Closed}) /\ held[c] \in Events \cup {Closed}
  BY <1>1, PendingType DEF TypeInv, HubOK, Holding
<1>. DEFINE q == feed[link]
            one == <<held[c]>>
            r == one \o q
<1>3. one \in Seq(Events \cup {Closed}) /\ Len(one) = 1 /\ one[1] = held[c]
  BY <1>2
<1>. HIDE DEF q, one
<1>4. /\ r \in Seq(Events \cup {Closed}) /\ Len(r) = 1 + Len(q) /\ Len(q) \in Nat
      /\ \A i \in 1..(1 + Len(q)) : r[i] = IF i <= 1 THEN one[i] ELSE q[i - 1]
  BY <1>2, <1>3, ConcatProperties, LenProperties DEF q
<1>. HIDE DEF r
<1>5. r # <<>> /\ Head(r) = held[c]
  <2>1. r # <<>>
    BY <1>4
  <2>2. Head(r) = r[1]
    BY <1>4, <2>1, Shifted
  <2>. QED
    BY <1>3, <1>4, <2>1, <2>2
<1>6. Tail(r) = q
  <2>1. /\ Tail(r) \in Seq(Events \cup {Closed}) /\ Len(Tail(r)) = Len(r) - 1
        /\ \A i \in 1..Len(Tail(r)) : Tail(r)[i] = r[i + 1]
    BY <1>4, <1>5, HeadTailProperties
  <2>2. Len(Tail(r)) = Len(q)
    BY <1>4, <2>1
  <2>3. ASSUME NEW i \in 1..Len(q) PROVE Tail(r)[i] = q[i]
    <3>1. i + 1 \in 1..(1 + Len(q)) /\ ~(i + 1 <= 1) /\ (i + 1) - 1 = i
      BY <1>4
    <3>. QED
      BY <1>4, <2>1, <2>2, <3>1
  <2>4. q \in Seq(Events \cup {Closed})
    BY <1>2 DEF q
  <2>. QED
    BY <2>1, <2>2, <2>3, <2>4, SeqEqual
<1>7. Pending = r
  BY <1>1 DEF Pending, r, one, q
<1>8. Pending' = <<>> \o q
  BY <1>1 DEF Pending, q
<1>9. <<>> \o q = q
  BY <1>2, ConcatEmptySeq DEF q
<1>. QED
  BY <1>1, <1>2, <1>5, <1>6, <1>7, <1>8, <1>9

LEMMA PendingGrows ==
  ASSUME TypeInv, NEW x \in Seq(Events \cup {Closed}),
         UNCHANGED <<link, rd, held>>, feed'[link] = feed[link] \o x
  PROVE  Pending' = Pending \o x
<1>. DEFINE h == IF rd[link] = "forwarding" THEN <<held[link]>> ELSE <<>>
            q == feed[link]
<1>1. h \in Seq(Events \cup {Closed}) /\ q \in Seq(Events \cup {Closed})
  BY PendingType
<1>2. Pending = h \o q /\ Pending' = h \o (q \o x)
  BY DEF Pending
<1>. HIDE DEF h, q
<1>3. (h \o q) \o x = h \o (q \o x)
  BY <1>1, ConcatAssociative
<1>. QED
  BY <1>2, <1>3

LEMMA PrefixOfConcat ==
  ASSUME NEW S, NEW p \in Seq(S), NEW q \in Seq(S), NEW k \in 0..Len(q)
  PROVE  Len(p) + k \in 0..Len(p \o q) /\ p \o SubSeq(q, 1, k) = SubSeq(p \o q, 1, Len(p) + k)
<1>. DEFINE r == p \o q
            t == SubSeq(q, 1, k)
            a == p \o t
            b == SubSeq(r, 1, Len(p) + k)
<1>1. /\ r \in Seq(S) /\ Len(r) = Len(p) + Len(q) /\ Len(p) \in Nat /\ Len(q) \in Nat
      /\ \A i \in 1..(Len(p) + Len(q)) : r[i] = IF i <= Len(p) THEN p[i] ELSE q[i - Len(p)]
  BY ConcatProperties, LenProperties
<1>2. t \in Seq(S) /\ DOMAIN t = 1..k /\ \A i \in 1..k : t[i] = q[i]
  BY PrefixIn
<1>. HIDE DEF r, t
<1>3. k \in Nat /\ Len(t) = k
  <2>1. DOMAIN t = 1..Len(t) /\ Len(t) \in Nat /\ k \in Nat
    BY <1>1, <1>2, LenProperties
  <2>. QED
    BY <1>2, <2>1
<1>4. /\ a \in Seq(S) /\ Len(a) = Len(p) + k
      /\ \A i \in 1..(Len(p) + k) : a[i] = IF i <= Len(p) THEN p[i] ELSE t[i - Len(p)]
  <2>1. /\ a \in Seq(S) /\ Len(a) = Len(p) + Len(t)
        /\ \A i \in 1..(Len(p) + Len(t)) : a[i] = IF i <= Len(p) THEN p[i] ELSE t[i - Len(p)]
    BY <1>2, ConcatProperties
  <2>. QED
    BY <1>3, <2>1
<1>5. Len(p) + k \in 0..Len(r)
  BY <1>1
<1>6. b \in Seq(S) /\ DOMAIN b = 1..(Len(p) + k) /\ \A i \in 1..(Len(p) + k) : b[i] = r[i]
  BY <1>1, <1>5, PrefixIn
<1>. HIDE DEF a, b
<1>7. Len(b) = Len(p) + k
  <2>1. DOMAIN b = 1..Len(b) /\ Len(b) \in Nat
    BY <1>6, LenProperties
  <2>. QED
    BY <1>1, <1>3, <1>6, <2>1
<1>8. ASSUME NEW i \in 1..(Len(p) + k) PROVE a[i] = b[i]
  <2>1. i \in 1..(Len(p) + Len(q)) /\ (~(i <= Len(p)) => i - Len(p) \in 1..k)
    BY <1>1, <1>3
  <2>. QED
    BY <1>1, <1>2, <1>4, <1>6, <2>1
<1>9. a = b
  BY <1>4, <1>6, <1>7, <1>8, SeqEqual
<1>. QED
  BY <1>5, <1>9 DEF a, b, r, t

LEMMA PendingDies ==
  ASSUME TypeInv, Dies(link), UNCHANGED <<link, rd, held>>
  PROVE  \E k \in 0..Len(Pending) : Pending' = Append(SubSeq(Pending, 1, k), Closed)
<1>. DEFINE h == IF rd[link] = "forwarding" THEN <<held[link]>> ELSE <<>>
            q == feed[link]
<1>1. h \in Seq(Events \cup {Closed}) /\ q \in Seq(Events \cup {Closed})
  BY PendingType
<1>2. PICK k \in 0..Len(q) : feed'[link] = Append(SubSeq(q, 1, k), Closed)
  BY DEF Dies, TypeInv, HubOK
<1>3. Pending = h \o q /\ Pending' = h \o feed'[link]
  BY DEF Pending
<1>. HIDE DEF h, q
<1>4. Len(h) + k \in 0..Len(h \o q) /\ h \o SubSeq(q, 1, k) = SubSeq(h \o q, 1, Len(h) + k)
  BY <1>1, PrefixOfConcat
<1>. DEFINE t == SubSeq(q, 1, k)
            end == <<Closed>>
<1>5. t \in Seq(Events \cup {Closed}) /\ end \in Seq(Events \cup {Closed})
  BY <1>1, PrefixIn
<1>6. Append(t, Closed) = t \o end
  BY <1>5, AppendIsConcat
<1>7. h \o t \in Seq(Events \cup {Closed}) /\ Append(h \o t, Closed) = (h \o t) \o end
  <2>1. h \o t \in Seq(Events \cup {Closed})
    BY <1>1, <1>5, ConcatProperties
  <2>. HIDE DEF t
  <2>. QED
    BY <2>1, AppendIsConcat
<1>. HIDE DEF t, end
<1>8. (h \o t) \o end = h \o (t \o end)
  BY <1>1, <1>5, ConcatAssociative
<1>9. Pending' = Append(h \o t, Closed)
  BY <1>2, <1>3, <1>6, <1>7, <1>8 DEF t
<1>. QED
  BY <1>3, <1>4, <1>9 DEF t

LEMMA StreamInit == Init => Stream
<1>. SUFFICES ASSUME Init PROVE Stream
  OBVIOUS
<1>1. link = 1 /\ rd[1] = "recv" /\ feed[1] = <<>> /\ attached[1] = {}
  BY Bounds DEF Init, Children
<1>2. <<>> \in Seq(Events)
  OBVIOUS
<1>3. Pending = <<>> \o <<>>
  BY <1>1 DEF Pending
<1>4. Pending = <<>>
  BY <1>2, <1>3, ConcatEmptySeq
<1>5. In(Pending) = {}
  BY <1>4 DEF In
<1>6. Sorted(Pending) /\ Runs(Pending, cursor)
  BY <1>5, NoEvents
<1>7. /\ \A s \in Sessions : cursor[s] <= log[s]
      /\ \A w \in Workers : wpc[w] # "resuming"
  BY DEF Init
<1>8. attached[link] = {}
  BY <1>1
<1>. QED
  BY <1>5, <1>6, <1>7, <1>8 DEF Stream

LEMMA StreamSame ==
  ASSUME Stream, Pending' = Pending, UNCHANGED <<link, cursor, log, attached>>, Live(link)' => Live(link),
         \A w \in Workers : wpc'[w] = "resuming" =>
            \/ wpc[w] = "resuming" /\ mark'[w] = mark[w]
            \/ mark'[w].at = cursor[mark'[w].session]
  PROVE  Stream'
<1>1. \A w \in Workers : wpc'[w] = "resuming" /\ mark'[w].session \notin attached'[link']
         => mark'[w].at = cursor'[mark'[w].session]
  BY DEF Stream
<1>. QED
  BY <1>1 DEF Stream

LEMMA StreamProduce ==
  ASSUME TypeInv, Chain, Stream, NEW c \in Children, NEW s \in Sessions, Produce(c, s)
  PROVE  Stream'
<1>. DEFINE e == Event(s, log[s] + 1)
            Q == Pending
<1>1. c = link /\ Live(link) /\ s \in attached[link] /\ log[s] < MaxEvents
  BY DEF Produce, Chain
<1>2. /\ log \in [Sessions -> 0..MaxEvents] /\ feed \in [Children -> Seq(Events \cup {Closed})]
      /\ cursor \in [Sessions -> 0..MaxEvents] /\ MaxEvents \in Nat
  BY Bounds DEF TypeInv, HubOK
<1>3. /\ log' = [log EXCEPT ![s] = @ + 1] /\ feed'[link] = Append(feed[link], e)
      /\ UNCHANGED <<child, attached, link, rd, held, cursor, wpc, mark>>
  BY <1>1, <1>2 DEF Produce, reader, routed, work
<1>4. log[s] + 1 \in 1..MaxEvents /\ e \in Events /\ e.session = s /\ e.n = log[s] + 1
  BY <1>1, <1>2, Kinds
<1>. HIDE DEF e
<1>5. Pending' = Append(Q, e) /\ Q \in Seq(Events \cup {Closed})
  <2>1. feed[link] \in Seq(Events \cup {Closed}) /\ Q \in Seq(Events \cup {Closed}) /\ <<e>> \in Seq(Events \cup {Closed})
    BY <1>4, PendingType
  <2>2. feed'[link] = feed[link] \o <<e>>
    BY <1>3, <1>4, <2>1, AppendIsConcat
  <2>3. Pending' = Q \o <<e>>
    BY <1>3, <2>1, <2>2, PendingGrows
  <2>. HIDE DEF Q
  <2>. QED
    BY <1>4, <2>1, <2>3, AppendIsConcat
<1>6. /\ \A d \in In(Q) \cap Events : d.session \in attached[link] /\ d.n <= log[d.session]
      /\ Sorted(Q) /\ Runs(Q, cursor)
      /\ \A n \in 1..MaxEvents : cursor[s] < n /\ n <= log[s] => Event(s, n) \in In(Q)
      /\ \A r \in attached[link] : \A n \in 1..MaxEvents :
            cursor[r] < n /\ n <= log[r] => Event(r, n) \in In(Q)
  BY <1>1 DEF Stream
<1>7. \A r \in Sessions : cursor[r] <= log[r] /\ log[r] \in Nat /\ cursor[r] \in Nat
  BY <1>2 DEF Stream
<1>. HIDE DEF Q
<1>8. In(Pending') = In(Q) \cup {e}
  BY <1>4, <1>5, AppendIn
<1>9. Sorted(Pending')
  <2>1. \A d \in In(Q) \cap Events : d.session = e.session => d.n < e.n
    BY <1>4, <1>6, <1>7, Kinds
  <2>. QED
    BY <1>4, <1>5, <1>6, <2>1, AppendIn
<1>10. Runs(Pending', cursor)
  <2>1. cursor[e.session] < e.n
    BY <1>4, <1>7
  <2>2. \A m \in 1..MaxEvents : cursor[e.session] < m /\ m < e.n => Event(e.session, m) \in In(Q)
    BY <1>4, <1>6, <1>7
  <2>. QED
    BY <1>4, <1>5, <1>6, <2>1, <2>2, RunsAppend
<1>11. \A r \in Sessions : log'[r] = IF r = s THEN log[s] + 1 ELSE log[r]
  BY <1>2, <1>3
<1>12. \A r \in Sessions : cursor[r] <= log'[r] /\ log[r] <= log'[r]
  BY <1>7, <1>11
<1>13. \A d \in In(Pending') \cap Events : d.session \in attached[link] /\ d.n <= log'[d.session]
  <2>. SUFFICES ASSUME NEW d \in In(Q) \cup {e}, d \in Events PROVE d.session \in attached[link] /\ d.n <= log'[d.session]
    BY <1>8
  <2>1. CASE d = e
    BY <1>1, <1>4, <1>11, <2>1
  <2>2. CASE d \in In(Q)
    <3>1. d.session \in Sessions /\ d.n \in Nat
      BY Kinds
    <3>. QED
      BY <1>6, <1>7, <1>11, <2>2, <3>1
  <2>. QED
    BY <2>1, <2>2
<1>14. \A r \in attached[link] : \A n \in 1..MaxEvents :
          cursor[r] < n /\ n <= log'[r] => Event(r, n) \in In(Pending')
  <2>. SUFFICES ASSUME NEW r \in attached[link], NEW n \in 1..MaxEvents, cursor[r] < n, n <= log'[r]
                PROVE  Event(r, n) \in In(Q) \cup {e}
    BY <1>8
  <2>1. r \in Sessions
    BY DEF TypeInv, HubOK
  <2>2. CASE n <= log[r]
    BY <1>6, <2>2
  <2>3. CASE ~(n <= log[r])
    <3>1. r = s /\ n = log[s] + 1
      BY <1>7, <1>11, <2>1, <2>3
    <3>. QED
      BY <3>1 DEF e
  <2>. QED
    BY <2>2, <2>3
<1>15. \A w \in Workers : wpc'[w] = "resuming" /\ mark'[w].session \notin attached'[link']
         => mark'[w].at = cursor'[mark'[w].session]
  BY <1>3 DEF Stream
<1>. QED
  BY <1>3, <1>9, <1>10, <1>12, <1>13, <1>14, <1>15 DEF Stream

LEMMA StreamExits ==
  ASSUME TypeInv, Chain, Stream, NEW c \in Children, ChildExits(c)
  PROVE  Stream'
<1>1. /\ UNCHANGED <<link, rd, held, cursor, log, attached, wpc, mark>>
      /\ child \in [Children -> {"none", "live", "dead"}] /\ feed \in [Children -> Seq(Events \cup {Closed})]
      /\ link \in Children
  BY DEF ChildExits, reader, routed, work, TypeInv, HubOK
<1>2. CASE c # link
  <2>1. feed'[link] = feed[link] /\ child'[link] = child[link]
    BY <1>1, <1>2 DEF ChildExits, Dies
  <2>2. Pending' = Pending
    BY <1>1, <2>1, PendingSame
  <2>. QED
    BY <1>1, <2>1, <2>2, StreamSame DEF Live
<1>3. CASE c = link
  <2>. DEFINE Q == Pending
  <2>1. PICK k \in 0..Len(Q) : Pending' = Append(SubSeq(Q, 1, k), Closed)
    BY <1>1, <1>3, PendingDies DEF ChildExits
  <2>2. Q \in Seq(Events \cup {Closed})
    BY PendingType
  <2>3. ~Live(link)'
    BY <1>1, <1>3 DEF ChildExits, Dies, Live
  <2>4. /\ \A d \in In(Q) \cap Events : d.session \in attached[link] /\ d.n <= log[d.session]
        /\ Sorted(Q) /\ Runs(Q, cursor)
    BY DEF Stream
  <2>. HIDE DEF Q
  <2>. DEFINE t == SubSeq(Q, 1, k)
  <2>5. t \in Seq(Events \cup {Closed}) /\ In(t) \subseteq In(Q) /\ Sorted(t) /\ Runs(t, cursor)
    BY <2>2, <2>4, PrefixIn, RunsPrefix
  <2>6. Pending' = Append(t, Closed)
    BY <2>1
  <2>. HIDE DEF t
  <2>7. In(Pending') = In(t) \cup {Closed}
    BY <2>5, <2>6, AppendIn
  <2>8. In(Pending') \cap Events \subseteq In(Q) \cap Events
    BY <2>5, <2>7, Kinds
  <2>9. \A d \in In(t) \cap Events : d.session # Closed.session
    <3>1. Closed.session = NoSession
      BY DEF Closed, Sign
    <3>. QED
      BY <3>1, Kinds, Bounds
  <2>10. Sorted(Pending')
    BY <2>5, <2>6, <2>9, AppendIn
  <2>11. Runs(Pending', cursor)
    BY <2>5, <2>6, Kinds, RunsAppend
  <2>12. \A w \in Workers : wpc'[w] = "resuming" /\ mark'[w].session \notin attached'[link']
         => mark'[w].at = cursor'[mark'[w].session]
    BY <1>1 DEF Stream
  <2>13. \A s \in Sessions : cursor'[s] <= log'[s]
    BY <1>1 DEF Stream
  <2>. QED
    BY <1>1, <2>3, <2>4, <2>8, <2>10, <2>11, <2>12, <2>13 DEF Stream
<1>. QED
  BY <1>2, <1>3

LEMMA StreamForward ==
  ASSUME TypeInv, Control, Stream, NEW c \in Children, Forward(c)
  PROVE  Stream'
<1>. DEFINE e == held[c]
            Q == Pending
<1>0. /\ log \in [Sessions -> 0..MaxEvents] /\ cursor \in [Sessions -> 0..MaxEvents] /\ MaxEvents \in Nat
      /\ UNCHANGED <<link, log, attached, child, wpc, mark>>
  BY Bounds DEF TypeInv, HubOK, Forward, muse, work
<1>1. /\ c = link /\ Q # <<>> /\ Head(Q) = e /\ Pending' = Tail(Q) /\ e \in Events \cup {Closed}
      /\ Q \in Seq(Events \cup {Closed})
  BY PendingForward, PendingType
<1>2. IF e \in Events THEN cursor' = [cursor EXCEPT ![e.session] = e.n] ELSE cursor' = cursor
  BY <1>1, Kinds DEF Forward
<1>3. /\ \A d \in In(Q) \cap Events : d.session \in attached[link] /\ d.n <= log[d.session]
      /\ Sorted(Q) /\ Runs(Q, cursor)
      /\ Live(link) => \A s \in attached[link] : \A n \in 1..MaxEvents :
            cursor[s] < n /\ n <= log[s] => Event(s, n) \in In(Q)
  BY DEF Stream
<1>4. /\ In(Q) = {e} \cup In(Tail(Q)) /\ Sorted(Tail(Q))
      /\ e \in Events => \A d \in In(Tail(Q)) : d.session = e.session => e.n < d.n
  BY <1>1, <1>3, TailIn
<1>5. /\ e \in Events => e.n = cursor[e.session] + 1
      /\ Runs(Tail(Q), cursor')
  <2>. HIDE DEF Q, e
  <2>1. /\ Head(Q) \in Events =>
             /\ Head(Q).n = cursor[Head(Q).session] + 1
             /\ Runs(Tail(Q), [cursor EXCEPT ![Head(Q).session] = Head(Q).n])
        /\ Head(Q) \notin Events => Runs(Tail(Q), cursor)
    BY <1>0, <1>1, <1>3, RunsTail
  <2>. QED
    BY <1>1, <1>2, <2>1
<1>6. e \in Events => /\ e.session \in Sessions /\ e.session \in attached[link] /\ e.n <= log[e.session]
                      /\ e = Event(e.session, e.n)
  BY <1>3, <1>4, Kinds
<1>. HIDE DEF Q, e
<1>7. \A s \in Sessions : cursor'[s] = IF e \in Events /\ e.session = s THEN e.n ELSE cursor[s]
  BY <1>0, <1>2
<1>8. \A s \in Sessions : cursor'[s] <= log'[s]
  BY <1>0, <1>6, <1>7 DEF Stream
<1>9. \A d \in In(Pending') \cap Events : d.session \in attached'[link'] /\ d.n <= log'[d.session]
  BY <1>0, <1>1, <1>3, <1>4
<1>10. Live(link)' => \A s \in attached'[link'] : \A n \in 1..MaxEvents :
          cursor'[s] < n /\ n <= log'[s] => Event(s, n) \in In(Pending')
  <2>. SUFFICES ASSUME Live(link), NEW s \in attached[link], NEW n \in 1..MaxEvents,
                       cursor'[s] < n, n <= log[s]
                PROVE  Event(s, n) \in In(Tail(Q))
    BY <1>0, <1>1 DEF Live
  <2>1. s \in Sessions
    BY DEF TypeInv, HubOK
  <2>2. Event(s, n) \in Events /\ Event(s, n).session = s /\ Event(s, n).n = n
    BY <2>1, Kinds
  <2>3. cursor[s] < n
    BY <1>0, <1>5, <1>7, <2>1
  <2>4. Event(s, n) # e
    BY <1>7, <2>1, <2>2
  <2>. QED
    BY <1>3, <1>4, <2>3, <2>4
<1>11. \A w \in Workers : wpc'[w] = "resuming" /\ mark'[w].session \notin attached'[link']
         => mark'[w].at = cursor'[mark'[w].session]
  <2>. SUFFICES ASSUME NEW w \in Workers, wpc[w] = "resuming", mark[w].session \notin attached[link]
                PROVE  mark[w].at = cursor'[mark[w].session]
    BY <1>0
  <2>1. mark[w].session \in Sessions
    BY DEF TypeInv, HubOK, MarkIsDue
  <2>. QED
    BY <1>6, <1>7, <2>1 DEF Stream
<1>. QED
  BY <1>1, <1>4, <1>5, <1>8, <1>9, <1>10, <1>11 DEF Stream

(* A session that is opened with its cursor at the end of the log.           *)
LEMMA StreamOpened ==
  ASSUME TypeInv, Stream, NEW s \in Sessions, s \notin attached[link],
         Pending' = Pending, UNCHANGED <<link, log, child>>,
         attached'[link] = attached[link] \cup {s}, cursor' = [cursor EXCEPT ![s] = log[s]],
         \A w \in Workers : wpc'[w] = "resuming" => wpc[w] = "resuming" /\ mark'[w] = mark[w]
  PROVE  Stream'
<1>0. /\ log \in [Sessions -> 0..MaxEvents] /\ cursor \in [Sessions -> 0..MaxEvents] /\ MaxEvents \in Nat
      /\ attached[link] \subseteq Sessions
  BY Bounds DEF TypeInv, HubOK
<1>1. \A r \in Sessions : cursor'[r] = IF r = s THEN log[s] ELSE cursor[r]
  BY <1>0
<1>2. \A d \in In(Pending) \cap Events : d.session \in attached[link] /\ d.n <= log[d.session] /\ d.session # s
  BY DEF Stream
<1>3. Runs(Pending, cursor')
  <2>1. \A d \in In(Pending) \cap Events : cursor'[d.session] = cursor[d.session]
    BY <1>0, <1>1, <1>2
  <2>. DEFINE Q == Pending
              new == cursor'
  <2>2. Runs(Q, cursor)
    BY DEF Stream
  <2>. HIDE DEF Q, new
  <2>3. \A d \in In(Q) \cap Events : new[d.session] = cursor[d.session]
    BY <2>1 DEF Q, new
  <2>4. Runs(Q, new)
    BY <2>2, <2>3, RunsSame
  <2>. QED
    BY <2>4 DEF Q, new
<1>4. \A r \in Sessions : cursor'[r] <= log'[r]
  BY <1>0, <1>1 DEF Stream
<1>5. Live(link)' => \A r \in attached'[link'] : \A n \in 1..MaxEvents :
          cursor'[r] < n /\ n <= log'[r] => Event(r, n) \in In(Pending')
  <2>. SUFFICES ASSUME Live(link), NEW r \in attached[link] \cup {s}, NEW n \in 1..MaxEvents,
                       cursor'[r] < n, n <= log[r]
                PROVE  Event(r, n) \in In(Pending)
    BY DEF Live
  <2>1. r # s
    BY <1>0, <1>1
  <2>. QED
    BY <1>0, <1>1, <2>1 DEF Stream
<1>6. \A w \in Workers : wpc'[w] = "resuming" /\ mark'[w].session \notin attached'[link']
         => mark'[w].at = cursor'[mark'[w].session]
  <2>. SUFFICES ASSUME NEW w \in Workers, wpc[w] = "resuming", mark[w].session \notin attached[link] \cup {s}
                PROVE  mark[w].at = cursor'[mark[w].session]
    OBVIOUS
  <2>1. mark[w].session \in Sessions
    BY DEF TypeInv, HubOK, MarkIsDue
  <2>. QED
    BY <1>1, <2>1 DEF Stream
<1>7. \A d \in In(Pending') \cap Events : d.session \in attached'[link'] /\ d.n <= log'[d.session]
  BY <1>2
<1>. QED
  BY <1>3, <1>4, <1>5, <1>6, <1>7 DEF Stream

LEMMA StreamAttach ==
  ASSUME TypeInv, Stream, NEW l \in Lanes, LaneAttach(l)
  PROVE  Stream'
<1>. DEFINE s == bound[l]
<1>1. /\ s \in Sessions /\ UNCHANGED <<link, log, child, feed, rd, held, wpc, mark>>
      /\ attached \in [Children -> SUBSET Sessions] /\ link \in Children
  BY DEF LaneAttach, TypeInv, HubOK, OnASession, reader, work
<1>2. Pending' = Pending
  BY <1>1, PendingSame
<1>5. UNCHANGED <<attached, cursor>> \/ (Live(link) /\ Attached(l, s))
  BY DEF LaneAttach, AttachRefused
<1>3. CASE UNCHANGED <<attached, cursor>> \/ (Attached(l, s) /\ s \in attached[link])
  <2>1. attached' = attached /\ cursor' = cursor
    <3>1. CASE Attached(l, s) /\ s \in attached[link]
      <4>1. attached' = [attached EXCEPT ![link] = @ \cup {s}] /\ cursor' = cursor
        BY <3>1 DEF Attached
      <4>2. attached[link] \cup {s} = attached[link]
        BY <3>1
      <4>. QED
        BY <1>1, <4>1, <4>2
    <3>. QED
      BY <1>3, <3>1
  <2>. QED
    BY <1>1, <1>2, <2>1, StreamSame DEF Live
<1>4. CASE Live(link) /\ Attached(l, s) /\ s \notin attached[link]
  <2>1. attached'[link] = attached[link] \cup {s} /\ cursor' = [cursor EXCEPT ![s] = log[s]]
    BY <1>1, <1>4 DEF Attached
  <2>. HIDE DEF s
  <2>. QED
    BY <1>1, <1>2, <1>4, <2>1, StreamOpened
<1>. QED
  BY <1>3, <1>4, <1>5

LEMMA StreamResume ==
  ASSUME TypeInv, Control, Stream, NEW w \in Workers, Resume(w)
  PROVE  Stream'
<1>. DEFINE s == mark[w].session
<1>1. /\ s \in Sessions /\ UNCHANGED <<link, log, child, rd, held>> /\ wpc[w] = "resuming"
      /\ attached \in [Children -> SUBSET Sessions] /\ link \in Children
      /\ mark[w].at \in 0..MaxEvents /\ feed \in [Children -> Seq(Events \cup {Closed})]
      /\ log \in [Sessions -> 0..MaxEvents] /\ cursor \in [Sessions -> 0..MaxEvents] /\ MaxEvents \in Nat
  BY Bounds DEF Resume, TypeInv, HubOK, MarkIsDue, reader
<1>2. \A v \in Workers : wpc'[v] # "resuming"
  BY <1>1 DEF Resume, Control, Alone, Busy, TypeInv, HubOK
<1>3. CASE UNCHANGED <<feed, attached, cursor>>
  <2>1. Pending' = Pending
    BY <1>1, <1>3, PendingSame
  <2>. QED
    BY <1>1, <1>2, <1>3, <2>1, StreamSame DEF Live
<1>4. CASE /\ s \notin attached[link] /\ attached' = [attached EXCEPT ![link] = @ \cup {s}]
           /\ cursor' = [cursor EXCEPT ![s] = log[s]] /\ feed' = feed
  <2>1. Pending' = Pending
    BY <1>1, <1>4, PendingSame
  <2>2. attached'[link] = attached[link] \cup {s}
    BY <1>1, <1>4
  <2>. HIDE DEF s
  <2>. QED
    BY <1>1, <1>2, <1>4, <2>1, <2>2, StreamOpened
<1>5. CASE /\ s \notin attached[link] /\ attached' = [attached EXCEPT ![link] = @ \cup {s}]
           /\ cursor' = cursor /\ feed' = [feed EXCEPT ![link] = @ \o Suffix(s, mark[w].at, log[s])]
  <2>. DEFINE x == Suffix(s, cursor[s], log[s])
              Q == Pending
  <2>1. mark[w].at = cursor[s] /\ cursor[s] \in 0..MaxEvents /\ log[s] \in 0..MaxEvents
    BY <1>1, <1>5 DEF Stream
  <2>2. /\ x \in Seq(Events) /\ In(x) = {Event(s, n) : n \in (cursor[s] + 1)..log[s]}
        /\ Sorted(x) /\ Runs(x, cursor)
    BY <1>1, <2>1, SuffixProperties
  <2>3. feed'[link] = feed[link] \o x
    BY <1>1, <1>5, <2>1
  <2>. HIDE DEF x, s
  <2>4. x \in Seq(Events \cup {Closed})
    BY <2>2, SeqMonotonic
  <2>5. Pending' = Q \o x /\ Q \in Seq(Events \cup {Closed})
    BY <1>1, <2>3, <2>4, PendingGrows, PendingType
  <2>6. /\ \A d \in In(Q) \cap Events : d.session \in attached[link] /\ d.n <= log[d.session] /\ d.session # s
        /\ Sorted(Q) /\ Runs(Q, cursor)
        /\ Live(link) => \A r \in attached[link] : \A n \in 1..MaxEvents :
              cursor[r] < n /\ n <= log[r] => Event(r, n) \in In(Q)
    BY <1>5 DEF Stream
  <2>. HIDE DEF Q
  <2>7. \A d \in In(x) : d.session = s /\ d.n \in Nat /\ d.n <= log[s]
    <3>1. \A n \in (cursor[s] + 1)..log[s] : n \in Nat /\ n <= log[s]
      BY <2>1
    <3>. QED
      BY <2>2, <3>1, Kinds
  <2>8. In(Pending') = In(Q) \cup In(x) /\ Sorted(Pending')
    BY <2>2, <2>4, <2>5, <2>6, <2>7, ConcatIn
  <2>9. Runs(Pending', cursor)
    BY <2>2, <2>4, <2>5, <2>6, RunsConcat
  <2>10. attached'[link] = attached[link] \cup {s}
    BY <1>1, <1>5
  <2>11. \A d \in In(Pending') \cap Events : d.session \in attached'[link'] /\ d.n <= log'[d.session]
    BY <1>1, <2>6, <2>7, <2>8, <2>10
  <2>12. Live(link)' => \A r \in attached'[link'] : \A n \in 1..MaxEvents :
            cursor'[r] < n /\ n <= log'[r] => Event(r, n) \in In(Pending')
    <3>. SUFFICES ASSUME Live(link), NEW r \in attached[link] \cup {s}, NEW n \in 1..MaxEvents,
                         cursor[r] < n, n <= log[r]
                  PROVE  Event(r, n) \in In(Q) \cup In(x)
      BY <1>1, <1>5, <2>8, <2>10 DEF Live
    <3>1. CASE r = s
      <4>1. n \in (cursor[s] + 1)..log[s]
        BY <2>1, <3>1
      <4>. QED
        BY <2>2, <3>1, <4>1
    <3>2. CASE r # s
      BY <2>6, <3>2
    <3>. QED
      BY <3>1, <3>2
  <2>13. \A r \in Sessions : cursor'[r] <= log'[r]
    BY <1>1, <1>5 DEF Stream
  <2>. QED
    BY <1>2, <1>5, <2>8, <2>9, <2>11, <2>12, <2>13 DEF Stream
<1>6. CASE s \in attached[link] /\ attached' = [attached EXCEPT ![link] = @ \cup {s}]
           /\ UNCHANGED <<feed, cursor>>
  <2>1. attached[link] \cup {s} = attached[link]
    BY <1>6
  <2>2. attached' = attached
    BY <1>1, <1>6, <2>1
  <2>. QED
    BY <1>3, <1>6, <2>2
<1>. QED
  BY <1>3, <1>4, <1>5, <1>6 DEF Resume

LEMMA StreamInstall ==
  ASSUME TypeInv, Control, Chain, Stream, NEW w \in Workers, InstallLink(w)
  PROVE  Stream'
<1>1. /\ wpc[w] = "spawned" /\ mine[w] # link /\ Fresh(mine[w]) /\ link' = mine[w] /\ mine[w] \in Children
      /\ UNCHANGED <<attached, rd, held, cursor, log, mark>>
  BY DEF InstallLink, Chain, reader, routed, TypeInv, HasAChild
<1>2. feed'[link'] = feed[mine[w]]
  BY <1>1 DEF InstallLink, Dies, TypeInv, HubOK
<1>3. Pending' = <<>> \o feed[mine[w]]
  BY <1>1, <1>2 DEF Pending, Fresh
<1>4. feed[mine[w]] \in Seq(Events \cup {Closed})
  BY <1>1 DEF TypeInv, HubOK
<1>5. Pending' = feed[mine[w]]
  BY <1>3, <1>4, ConcatEmptySeq
<1>6. In(Pending') \cap Events = {}
  BY <1>1, <1>5, Kinds DEF Fresh
<1>7. Sorted(Pending') /\ Runs(Pending', cursor')
  BY <1>6, NoEvents
<1>8. \A v \in Workers : wpc'[v] # "resuming"
  BY <1>1 DEF InstallLink, Control, Alone, Busy, TypeInv, HubOK
<1>9. attached'[link'] = {}
  BY <1>1 DEF Fresh
<1>10. \A s \in Sessions : cursor'[s] <= log'[s]
  BY <1>1 DEF Stream
<1>. QED
  BY <1>6, <1>7, <1>8, <1>9, <1>10 DEF Stream

LEMMA StreamStep == TypeInv /\ Control /\ Chain /\ Stream /\ [Next]_vars => Stream'
<1>. SUFFICES ASSUME TypeInv, Control, Chain, Stream, [Next]_vars PROVE Stream'
  OBVIOUS
<1>0. wpc \in [Workers -> {"idle", "starting", "spawned", "failed", "linked", "listing",
                           "next", "resuming", "finished", "done"}]
  BY DEF TypeInv, HubOK
<1>1. CASE UNCHANGED <<link, feed, held, rd, cursor, log, attached, child, wpc, mark>>
  <2>1. Pending' = Pending
    BY <1>1, PendingSame
  <2>. QED
    BY <1>1, <2>1, StreamSame DEF Live
<1>2. ASSUME NEW c \in Children, ChildExits(c) \/ ReaderStep(c) \/ \E s \in Sessions : Produce(c, s)
      PROVE  Stream'
  <2>1. CASE Take(c)
    <3>1. Pending' = Pending
      BY <2>1, PendingTake
    <3>2. UNCHANGED <<link, cursor, log, attached, child, wpc, mark>>
      BY <2>1 DEF Take, routed, work
    <3>. QED
      BY <3>1, <3>2, StreamSame DEF Live
  <2>. QED
    BY <1>2, <2>1, StreamExits, StreamForward, StreamProduce DEF ReaderStep
<1>3. ASSUME NEW l \in Lanes, LaneStep(l) \/ LaneShutdown(l) \/ \E s \in Sessions : LaneTakes(l, s)
      PROVE  Stream'
  <2>1. Bind(l) \/ Land(l) \/ LaneShutdown(l) \/ (\E s \in Sessions : LaneTakes(l, s))
          => UNCHANGED <<link, feed, held, rd, cursor, log, attached, child, wpc, mark>>
    BY DEF Bind, Land, LaneShutdown, LaneTakes, muse, reader, routed, work
  <2>. QED
    BY <1>1, <1>3, <2>1, StreamAttach DEF LaneStep
<1>4. ASSUME NEW w \in Workers, WorkerStep(w) PROVE Stream'
  <2>1. CASE Spawn(w)
    <3>1. UNCHANGED <<link, feed, held, rd, cursor, log, attached, mark>>
      BY <2>1 DEF Spawn, reader, routed
    <3>2. Pending' = Pending
      BY <3>1, PendingSame
    <3>3. Live(link)' => Live(link)
      <4>1. child[link] # "none" /\ child \in [Children -> {"none", "live", "dead"}]
        BY DEF Chain, TypeInv, HubOK
      <4>2. child'[link] = child[link]
        <5>1. ASSUME NEW d \in Children, child[d] = "none", child' = [child EXCEPT ![d] = "live"]
              PROVE  child'[link] = child[link]
          BY <4>1, <5>1
        <5>. QED
          BY <2>1, <5>1 DEF Spawn
      <4>. QED
        BY <3>1, <4>2 DEF Live
    <3>4. \A v \in Workers : wpc'[v] = "resuming" => wpc[v] = "resuming"
      BY <1>0, <2>1 DEF Spawn
    <3>. QED
      BY <3>1, <3>2, <3>3, <3>4, StreamSame
  <2>2. CASE StartReader(w)
    <3>1. /\ UNCHANGED <<link, feed, held, cursor, log, attached, child, mark>> /\ mine[w] = link
          /\ rd' = [rd EXCEPT ![link] = "recv"] /\ link \in Children /\ rd[link] # "forwarding"
      <4>1. wpc[w] = "linked"
        BY <2>2 DEF StartReader
      <4>2. Severed
        BY <4>1 DEF Severed, Down
      <4>3. rd[link] # "forwarding" /\ link \in Children
        BY <4>2 DEF Control, OneReader, Reading, TypeInv, HubOK
      <4>4. mine[w] = link
        BY <4>1 DEF Control, LinkIsMine
      <4>. QED
        BY <2>2, <4>3, <4>4 DEF StartReader, muse, routed
    <3>2. rd'[link] = "recv"
      BY <3>1 DEF TypeInv, HubOK
    <3>3. Pending' = Pending
      BY <3>1, <3>2, PendingSame
    <3>4. \A v \in Workers : wpc'[v] = "resuming" => wpc[v] = "resuming"
      BY <1>0, <2>2 DEF StartReader
    <3>. QED
      BY <3>1, <3>3, <3>4, StreamSame DEF Live
  <2>3. CASE ReadCursor(w)
    <3>1. UNCHANGED <<link, feed, held, rd, cursor, log, attached, child>>
      BY <2>3 DEF ReadCursor, muse, reader, routed
    <3>2. Pending' = Pending
      BY <3>1, PendingSame
    <3>3. PICK s \in todo[w] : mark' = [mark EXCEPT ![w] = [session |-> s, at |-> cursor[s]]]
      BY <2>3 DEF ReadCursor
    <3>4. mark'[w].at = cursor[mark'[w].session] /\ \A v \in Workers : v # w => mark'[v] = mark[v]
      BY <3>3 DEF TypeInv, HubOK
    <3>5. \A v \in Workers : v # w => wpc'[v] = wpc[v]
      BY <1>0, <2>3 DEF ReadCursor
    <3>. QED
      BY <3>1, <3>2, <3>4, <3>5, StreamSame DEF Live
  <2>4. CASE ListFollowed(w) \/ Finish(w) \/ OnResult(w)
    <3>1. UNCHANGED <<link, feed, held, rd, cursor, log, attached, child, mark>>
      BY <2>4 DEF ListFollowed, Finish, OnResult, muse, reader, routed
    <3>2. Pending' = Pending
      BY <3>1, PendingSame
    <3>3. \A v \in Workers : wpc'[v] = "resuming" => wpc[v] = "resuming"
      BY <1>0, <2>4 DEF ListFollowed, Finish, OnResult
    <3>. QED
      BY <3>1, <3>2, <3>3, StreamSame DEF Live
  <2>. QED
    BY <1>4, <2>1, <2>2, <2>3, <2>4, StreamInstall, StreamResume DEF WorkerStep
<1>5. CASE OnHubEvent \/ Retry
  <2>1. UNCHANGED <<link, feed, held, rd, cursor, log, attached, child, mark>>
    BY <1>5 DEF OnHubEvent, Retry, muse, reader, routed
  <2>2. Pending' = Pending
    BY <2>1, PendingSame
  <2>3. \A v \in Workers : wpc'[v] = "resuming" => wpc[v] = "resuming"
    BY <1>0, <1>5 DEF OnHubEvent, Retry, StartWorker
  <2>. QED
    BY <2>1, <2>2, <2>3, StreamSame DEF Live
<1>6. CASE UNCHANGED vars
  BY <1>1, <1>6 DEF vars, muse, reader, routed, work
<1>. QED
  BY <1>2, <1>3, <1>4, <1>5, <1>6 DEF Next

-----------------------------------------------------------------------------
(* Where the events are.                                                     *)

(* An event is with one lane, or waits, or was left to the pages or dropped, *)
(* exactly once its session's cursor is past it; each lane and the orphans   *)
(* have a session's events in order, and what waits is newer.                *)
Places ==
    /\ \A e \in Events : e.n <= cursor[e.session] <=>
          (\E l \in Lanes : e \in In(heard[l])) \/ e \in In(orphans) \/ e \in elsewhere
    /\ \A e \in Events : \A l, m \in Lanes : e \in In(heard[l]) /\ e \in In(heard[m]) => l = m
    /\ \A e \in elsewhere : e \notin In(orphans) /\ \A l \in Lanes : e \notin In(heard[l])

Ordered ==
    /\ Sorted(orphans) /\ \A l \in Lanes : Sorted(heard[l])
    /\ \A l \in Lanes : \A d \in In(heard[l]) \cap Events : \A e \in In(orphans) :
          d.session = e.session => d.n < e.n

LEMMA DeliveredInit == Init => Places /\ Ordered
<1>. SUFFICES ASSUME Init PROVE Places /\ Ordered
  OBVIOUS
<1>1. In(<<>>) = {} /\ Sorted(<<>>)
  <2>1. In(<<>>) = {}
    BY DEF In
  <2>. QED
    BY <2>1, NoEvents
<1>2. \A e \in Events : ~(e.n <= cursor[e.session])
  BY Kinds, Bounds DEF Init
<1>3. orphans = <<>> /\ elsewhere = {} /\ \A l \in Lanes : heard[l] = <<>>
  BY DEF Init
<1>. QED
  BY <1>1, <1>2, <1>3 DEF Places, Ordered

LEMMA DeliveredSame ==
  ASSUME Places, Ordered, UNCHANGED <<cursor, orphans, elsewhere>>, elsewhere \subseteq Events,
         \A l \in Lanes : In(heard'[l]) \cap Events = In(heard[l]) \cap Events /\ Sorted(heard'[l])
  PROVE  Places' /\ Ordered'
<1>1. \A e \in Events : \A l \in Lanes : e \in In(heard'[l]) <=> e \in In(heard[l])
  OBVIOUS
<1>2. Ordered'
  BY DEF Ordered
<1>3. \A e \in Events : e.n <= cursor'[e.session] <=>
         (\E l \in Lanes : e \in In(heard'[l])) \/ e \in In(orphans') \/ e \in elsewhere'
  BY <1>1 DEF Places
<1>4. \A e \in Events : \A l, m \in Lanes : e \in In(heard'[l]) /\ e \in In(heard'[m]) => l = m
  BY <1>1 DEF Places
<1>5. \A e \in elsewhere' : e \notin In(orphans') /\ \A l \in Lanes : e \notin In(heard'[l])
  BY <1>1 DEF Places
<1>. QED
  BY <1>2, <1>3, <1>4, <1>5 DEF Places

LEMMA ItemTypes ==
  ASSUME TypeInv
  PROVE  /\ orphans \in Seq(Events) /\ In(orphans) \subseteq Events /\ elsewhere \subseteq Events
         /\ \A l \in Lanes : heard[l] \in Seq(Events \cup {Lost, Restored})
         /\ cursor \in [Sessions -> 0..MaxEvents] /\ log \in [Sessions -> 0..MaxEvents]
         /\ MaxEvents \in Nat /\ MaxEvents > 0
<1>1. orphans \in Seq(Events)
  BY DEF TypeInv, HubOK
<1>2. In(orphans) \subseteq Events
  BY <1>1, LenProperties, ElementOfSeq DEF In
<1>. QED
  BY <1>1, <1>2, Bounds DEF TypeInv, HubOK

LEMMA DeliveredBroadcast ==
  ASSUME TypeInv, Places, Ordered, NEW sign \in {Lost, Restored}, Broadcast(sign),
         UNCHANGED <<cursor, orphans, elsewhere>>
  PROVE  Places' /\ Ordered'
<1>. DEFINE Hears(l) == \E s \in Sessions : routes[s] = l
<1>1. heard' = [l \in Lanes |-> IF Hears(l) THEN Append(heard[l], sign) ELSE heard[l]]
  BY DEF Broadcast
<1>. HIDE DEF Hears
<1>2. ASSUME NEW l \in Lanes
      PROVE  In(heard'[l]) \cap Events = In(heard[l]) \cap Events /\ Sorted(heard'[l])
  <2>1. heard[l] \in Seq(Events \cup {Lost, Restored}) /\ Sorted(heard[l])
    BY ItemTypes DEF Ordered
  <2>2. CASE heard'[l] = heard[l]
    BY <2>1, <2>2
  <2>3. CASE heard'[l] = Append(heard[l], sign)
    <3>1. sign \notin Events /\ \A d \in Events : d.session # sign.session
      <4>1. sign.session = NoSession
        BY DEF Lost, Restored, Sign
      <4>. QED
        BY <4>1, Kinds, Bounds
    <3>. QED
      BY <2>1, <2>3, <3>1, AppendIn
  <2>. QED
    BY <1>1, <2>2, <2>3
<1>. QED
  BY <1>2, ItemTypes, DeliveredSame

(* The next event of a session, with the lane of the session or among those  *)
(* that wait.                                                                *)
LEMMA DeliveredNext ==
  ASSUME TypeInv, RoutesAreCurrent, Places, Ordered, NEW e \in Events, Route(e),
         e.n = cursor[e.session] + 1, cursor' = [cursor EXCEPT ![e.session] = e.n]
  PROVE  Places' /\ Ordered'
<1>. USE ItemTypes
<1>1. e.session \in Sessions /\ \A s \in Sessions : cursor'[s] = IF s = e.session THEN e.n ELSE cursor[s]
  BY Kinds
<1>2. \A d \in Events : d.n <= cursor'[d.session] <=> d.n <= cursor[d.session] \/ d = e
  <2>. SUFFICES ASSUME NEW d \in Events PROVE d.n <= cursor'[d.session] <=> d.n <= cursor[d.session] \/ d = e
    OBVIOUS
  <2>1. d.session \in Sessions /\ d.n \in Nat /\ d = Event(d.session, d.n) /\ e = Event(e.session, e.n)
        /\ cursor[d.session] \in Nat
    BY Kinds
  <2>2. CASE d.session # e.session
    BY <1>1, <2>1, <2>2
  <2>3. CASE d.session = e.session
    <3>1. d = e <=> d.n = e.n
      BY <2>1, <2>3
    <3>. QED
      BY <1>1, <2>1, <2>3, <3>1
  <2>. QED
    BY <2>2, <2>3
<1>3. /\ e \notin elsewhere /\ e \notin In(orphans) /\ \A l \in Lanes : e \notin In(heard[l])
      /\ \A l \in Lanes : \A d \in In(heard[l]) \cap Events : d.session = e.session => d.n < e.n
      /\ \A d \in In(orphans) : d.session = e.session => d.n < e.n
  <2>1. ~(e.n <= cursor[e.session])
    BY <1>1
  <2>2. \A d \in Events : d.n <= cursor[d.session] /\ d.session = e.session => d.n < e.n
    BY <1>1, Kinds
  <2>. QED
    BY <2>1, <2>2 DEF Places
<1>4. CASE routes[e.session] # NoLane
  <2>. DEFINE l == routes[e.session]
  <2>1. l \in Lanes /\ heard' = [heard EXCEPT ![l] = Append(@, e)] /\ orphans' = orphans /\ elsewhere' = elsewhere
    BY <1>1, <1>4 DEF Route, TypeInv, HubOK
  <2>2. \A d \in In(orphans) : d.session # e.session
    BY <1>4, RoutesByItem
  <2>. HIDE DEF l
  <2>3. heard'[l] = Append(heard[l], e) /\ \A m \in Lanes : m # l => heard'[m] = heard[m]
    BY <2>1 DEF TypeInv, HubOK
  <2>4. In(heard'[l]) = In(heard[l]) \cup {e} /\ Sorted(heard'[l])
    <3>1. heard[l] \in Seq(Events \cup {Lost, Restored}) /\ Sorted(heard[l])
      BY <2>1 DEF Ordered
    <3>. DEFINE h == heard[l]
                items == Events \cup {Lost, Restored}
    <3>2. \A d \in In(h) \cap Events : d.session = e.session => d.n < e.n
      BY <1>3, <2>1
    <3>3. h \in Seq(items) /\ e \in items
      BY <3>1
    <3>. HIDE DEF h, items
    <3>4. In(Append(h, e)) = In(h) \cup {e} /\ Sorted(Append(h, e))
      BY <3>1, <3>2, <3>3, AppendIn DEF h
    <3>. QED
      BY <2>3, <3>4 DEF h
  <2>5. \A m \in Lanes : \A d : d \in In(heard'[m]) <=> d \in In(heard[m]) \/ (m = l /\ d = e)
    BY <2>3, <2>4
  <2>6. Places'
    <3>1. \A d \in Events : (\E m \in Lanes : d \in In(heard'[m])) <=> (\E m \in Lanes : d \in In(heard[m])) \/ d = e
      BY <2>1, <2>5
    <3>2. \A d \in Events : d.n <= cursor'[d.session] <=>
             (\E m \in Lanes : d \in In(heard'[m])) \/ d \in In(orphans) \/ d \in elsewhere
      BY <1>2, <3>1 DEF Places
    <3>3. \A d \in Events : \A m, k \in Lanes : d \in In(heard'[m]) /\ d \in In(heard'[k]) => m = k
      BY <1>3, <2>5 DEF Places
    <3>4. \A d \in elsewhere : d \notin In(orphans) /\ \A m \in Lanes : d \notin In(heard'[m])
      BY <1>3, <2>5 DEF Places
    <3>. QED
      BY <2>1, <3>2, <3>3, <3>4 DEF Places
  <2>7. Ordered'
    <3>1. \A m \in Lanes : Sorted(heard'[m])
      BY <2>3, <2>4 DEF Ordered
    <3>2. \A m \in Lanes : \A d \in In(heard'[m]) \cap Events : \A f \in In(orphans) :
             d.session = f.session => d.n < f.n
      BY <2>2, <2>5 DEF Ordered
    <3>. QED
      BY <2>1, <3>1, <3>2 DEF Ordered
  <2>. QED
    BY <2>6, <2>7
<1>5. CASE routes[e.session] = NoLane
  <2>1. heard' = heard /\ Keep(e)
    BY <1>5 DEF Route
  <2>2. Sorted(orphans) /\ (orphans # <<>> => Sorted(Tail(orphans)) /\ In(Tail(orphans)) \subseteq In(orphans))
    BY TailIn DEF Ordered
  <2>3. \A d \in In(orphans') : d \in In(orphans) \/ d = e
    BY <2>1, <2>2, KeepIn
  <2>4. Sorted(orphans')
    <3>1. CASE Len(orphans) >= OrphanLimit
      <4>1. orphans # <<>> /\ orphans' = Append(Tail(orphans), e)
        BY <2>1, <3>1, Bounds DEF Keep
      <4>2. Tail(orphans) \in Seq(Events) /\ Sorted(Tail(orphans)) /\ In(Tail(orphans)) \subseteq In(orphans)
        BY <2>2, <4>1, HeadTailProperties
      <4>3. \A d \in In(Tail(orphans)) \cap Events : d.session = e.session => d.n < e.n
        BY <1>3, <4>2
      <4>. DEFINE t == Tail(orphans)
      <4>. HIDE DEF t
      <4>4. t \in Seq(Events) /\ Sorted(t) /\ \A d \in In(t) \cap Events : d.session = e.session => d.n < e.n
        BY <4>2, <4>3 DEF t
      <4>5. Sorted(Append(t, e))
        BY <4>4, AppendIn
      <4>. QED
        BY <4>1, <4>5 DEF t
    <3>2. CASE ~(Len(orphans) >= OrphanLimit)
      <4>1. orphans' = Append(orphans, e)
        BY <2>1, <3>2 DEF Keep
      <4>. QED
        BY <1>3, <2>2, <4>1, AppendIn
    <3>. QED
      BY <3>1, <3>2
  <2>5. Ordered'
    <3>1. \A m \in Lanes : \A d \in In(heard[m]) \cap Events : \A f \in In(orphans') :
             d.session = f.session => d.n < f.n
      BY <1>3, <2>3 DEF Ordered
    <3>. QED
      BY <2>1, <2>4, <3>1 DEF Ordered
  <2>6. /\ \A d \in Events : d \in In(orphans') \/ d \in elsewhere' <=> d \in In(orphans) \/ d \in elsewhere \/ d = e
        /\ \A d \in elsewhere' : d \notin In(orphans') /\ \A m \in Lanes : d \notin In(heard[m])
    <3>1. CASE In(orphans') = In(orphans) \cup {e} /\ elsewhere' = elsewhere
      BY <1>3, <3>1 DEF Places
    <3>2. CASE /\ orphans # <<>> /\ In(orphans') = In(Tail(orphans)) \cup {e}
               /\ elsewhere' = elsewhere \cup {Head(orphans)}
      <4>. DEFINE h == Head(orphans)
      <4>1. In(orphans) = {h} \cup In(Tail(orphans)) /\ h \in Events
            /\ \A d \in In(Tail(orphans)) : d.session = h.session => h.n < d.n
        BY <2>2, <3>2, TailIn, HeadTailProperties
      <4>. HIDE DEF h
      <4>. h.n \in Nat /\ ~(h.n < h.n)
        BY <4>1, Kinds
      <4>2. h \notin In(Tail(orphans)) /\ h \in In(orphans) /\ h # e
        BY <1>3, <4>1
      <4>3. \A m \in Lanes : h \notin In(heard[m])
        BY <4>1, <4>2 DEF Ordered
      <4>4. h \notin elsewhere
        BY <4>2 DEF Places
      <4>5. In(orphans') = In(Tail(orphans)) \cup {e} /\ elsewhere' = elsewhere \cup {h}
        BY <3>2 DEF h
      <4>. QED
        BY <1>3, <4>1, <4>2, <4>3, <4>4, <4>5 DEF Places
    <3>. QED
      BY <2>1, <3>1, <3>2, KeepIn
  <2>7. Places'
    <3>1. \A d \in Events : d.n <= cursor'[d.session] <=>
             (\E m \in Lanes : d \in In(heard[m])) \/ d \in In(orphans') \/ d \in elsewhere'
      BY <1>2, <2>6 DEF Places
    <3>2. \A d \in Events : \A m, k \in Lanes : d \in In(heard[m]) /\ d \in In(heard[k]) => m = k
      BY DEF Places
    <3>. QED
      BY <2>1, <2>6, <3>1, <3>2 DEF Places
  <2>. QED
    BY <2>5, <2>7
<1>. QED
  BY <1>4, <1>5

LEMMA DeliveredForward ==
  ASSUME TypeInv, RoutesAreCurrent, Control, Stream, Places, Ordered, NEW c \in Children, Forward(c)
  PROVE  Places' /\ Ordered'
<1>. DEFINE e == held[c]
            Q == Pending
<1>1. e \in Events \cup {Closed} /\ Q # <<>> /\ Head(Q) = e /\ Q \in Seq(Events \cup {Closed})
  BY PendingForward, PendingType
<1>2. CASE e = Closed
  <2>1. Broadcast(Lost) /\ UNCHANGED <<cursor, orphans, elsewhere>>
    BY <1>2 DEF Forward
  <2>. QED
    BY <2>1, DeliveredBroadcast
<1>3. CASE e # Closed
  <2>1. e \in Events /\ Route(e) /\ cursor' = [cursor EXCEPT ![e.session] = e.n]
    BY <1>1, <1>3 DEF Forward
  <2>2. Runs(Q, cursor) /\ Sorted(Q)
    BY DEF Stream
  <2>. HIDE DEF Q, e
  <2>3. Head(Q).n = cursor[Head(Q).session] + 1
    BY <1>1, <2>1, <2>2, ItemTypes, RunsTail
  <2>. QED
    BY <1>1, <2>1, <2>3, DeliveredNext
<1>. QED
  BY <1>2, <1>3

LEMMA DeliveredBind ==
  ASSUME TypeInv, Places, Ordered, NEW l \in Lanes, Bind(l)
  PROVE  Places' /\ Ordered'
<1>. DEFINE s == bound[l]
            moved == Rows(orphans, Waiting(s))
            left == Rows(orphans, DOMAIN orphans \ Waiting(s))
<1>1. /\ heard' = [heard EXCEPT ![l] = @ \o moved] /\ orphans' = left
      /\ UNCHANGED <<cursor, elsewhere>>
  BY DEF Bind
<1>2. /\ moved \in Seq(Events) /\ left \in Seq(Events) /\ Sorted(moved) /\ Sorted(left)
      /\ In(moved) = {orphans[i] : i \in Waiting(s)}
      /\ In(left) = {orphans[i] : i \in DOMAIN orphans \ Waiting(s)}
  BY Handed DEF Ordered
<1>3. /\ \A e : e \in In(moved) <=> e \in In(orphans) /\ e.session = s
      /\ \A e : e \in In(left) <=> e \in In(orphans) /\ e.session # s
  BY <1>2 DEF Waiting, In
<1>4. moved \in Seq(Events \cup {Lost, Restored}) /\ heard[l] \in Seq(Events \cup {Lost, Restored})
      /\ In(orphans) \subseteq Events
  BY <1>2, ItemTypes, SeqMonotonic
<1>. HIDE DEF moved, left, s
<1>5. heard'[l] = heard[l] \o moved /\ \A m \in Lanes : m # l => heard'[m] = heard[m]
  BY <1>1 DEF TypeInv, HubOK
<1>6. In(heard'[l]) = In(heard[l]) \cup In(moved) /\ Sorted(heard'[l])
  <2>1. Sorted(heard[l]) /\ \A d \in In(heard[l]) \cap Events : \A e \in In(moved) : d.session = e.session => d.n < e.n
    BY <1>3 DEF Ordered
  <2>. QED
    BY <1>2, <1>4, <1>5, <2>1, ConcatIn
<1>7. \A m \in Lanes : \A d : d \in In(heard'[m]) <=> d \in In(heard[m]) \/ (m = l /\ d \in In(moved))
  BY <1>5, <1>6
<1>8. \A d \in In(orphans) : \A m \in Lanes : d \notin In(heard[m])
  BY <1>4, Kinds DEF Ordered
<1>9. Places'
  <2>1. \A d \in Events : (\E m \in Lanes : d \in In(heard'[m])) <=> (\E m \in Lanes : d \in In(heard[m])) \/ d \in In(moved)
    BY <1>7
  <2>2. \A d \in Events : d.n <= cursor[d.session] <=>
           (\E m \in Lanes : d \in In(heard'[m])) \/ d \in In(left) \/ d \in elsewhere
    BY <1>3, <2>1 DEF Places
  <2>3. \A d \in Events : \A m, k \in Lanes : d \in In(heard'[m]) /\ d \in In(heard'[k]) => m = k
    BY <1>3, <1>7, <1>8 DEF Places
  <2>4. \A d \in elsewhere : d \notin In(left) /\ \A m \in Lanes : d \notin In(heard'[m])
    BY <1>3, <1>7 DEF Places
  <2>. QED
    BY <1>1, <2>2, <2>3, <2>4 DEF Places
<1>10. Ordered'
  <2>1. \A m \in Lanes : Sorted(heard'[m])
    BY <1>5, <1>6 DEF Ordered
  <2>2. \A m \in Lanes : \A d \in In(heard'[m]) \cap Events : \A e \in In(left) :
           d.session = e.session => d.n < e.n
    BY <1>3, <1>7 DEF Ordered
  <2>. QED
    BY <1>1, <1>2, <2>1, <2>2 DEF Ordered
<1>. QED
  BY <1>9, <1>10

(* A cursor that jumps to the end of the log, what it skips left to pages.   *)
LEMMA DeliveredJump ==
  ASSUME TypeInv, Places, Ordered, NEW s \in Sessions, cursor[s] <= log[s],
         cursor' = [cursor EXCEPT ![s] = log[s]],
         elsewhere' = elsewhere \cup {Event(s, n) : n \in (cursor[s] + 1)..log[s]},
         UNCHANGED <<heard, orphans>>
  PROVE  Places' /\ Ordered'
<1>. USE ItemTypes
<1>. DEFINE skipped == {Event(s, n) : n \in (cursor[s] + 1)..log[s]}
<1>1. \A r \in Sessions : cursor'[r] = IF r = s THEN log[s] ELSE cursor[r]
  OBVIOUS
<1>2. \A d \in Events : d \in skipped <=> d.session = s /\ cursor[s] < d.n /\ d.n <= log[s]
  <2>. SUFFICES ASSUME NEW d \in Events PROVE d \in skipped <=> d.session = s /\ cursor[s] < d.n /\ d.n <= log[s]
    OBVIOUS
  <2>1. d = Event(d.session, d.n) /\ d.n \in Nat
    BY Kinds
  <2>2. ASSUME d \in skipped PROVE d.session = s /\ cursor[s] < d.n /\ d.n <= log[s]
    <3>1. PICK n \in (cursor[s] + 1)..log[s] : d = Event(s, n)
      BY <2>2
    <3>2. d.session = s /\ d.n = n
      BY <3>1, Kinds
    <3>. QED
      BY <3>2
  <2>3. ASSUME d.session = s, cursor[s] < d.n, d.n <= log[s] PROVE d \in skipped
    <3>1. d.n \in (cursor[s] + 1)..log[s]
      BY <2>1, <2>3
    <3>. QED
      BY <2>1, <2>3, <3>1
  <2>. QED
    BY <2>2, <2>3
<1>3. skipped \subseteq Events
  <2>1. \A n \in (cursor[s] + 1)..log[s] : n \in 1..MaxEvents
    OBVIOUS
  <2>. QED
    BY <2>1, Kinds
<1>4. elsewhere' = elsewhere \cup skipped
  OBVIOUS
<1>. HIDE DEF skipped
<1>5. \A d \in Events : d.n <= cursor'[d.session] <=> d.n <= cursor[d.session] \/ d \in skipped
  <2>. SUFFICES ASSUME NEW d \in Events
                PROVE  d.n <= cursor'[d.session] <=> d.n <= cursor[d.session] \/ d \in skipped
    OBVIOUS
  <2>1. d.session \in Sessions /\ d.n \in Nat /\ cursor[d.session] \in Nat /\ log[s] \in Nat
    BY Kinds
  <2>. QED
    BY <1>1, <1>2, <2>1
<1>6. \A d \in skipped : ~(d.n <= cursor[d.session])
  BY <1>2, <1>3, Kinds
<1>7. \A d \in skipped : d \notin In(orphans) /\ \A l \in Lanes : d \notin In(heard[l])
  BY <1>3, <1>6 DEF Places
<1>8. \A d \in Events : d.n <= cursor'[d.session] <=>
         (\E l \in Lanes : d \in In(heard[l])) \/ d \in In(orphans) \/ d \in elsewhere'
  BY <1>4, <1>5 DEF Places
<1>9. \A d \in elsewhere' : d \notin In(orphans) /\ \A l \in Lanes : d \notin In(heard[l])
  BY <1>4, <1>7 DEF Places
<1>10. Places'
  BY <1>8, <1>9 DEF Places
<1>. QED
  BY <1>10 DEF Ordered

LEMMA DeliveredStep ==
    TypeInv /\ RoutesAreCurrent /\ Control /\ Stream /\ Places /\ Ordered /\ [Next]_vars => Places' /\ Ordered'
<1>. SUFFICES ASSUME TypeInv, RoutesAreCurrent, Control, Stream, Places, Ordered, [Next]_vars
              PROVE  Places' /\ Ordered'
  OBVIOUS
<1>1. CASE UNCHANGED <<cursor, heard, orphans, elsewhere>>
  BY <1>1, ItemTypes, DeliveredSame DEF Ordered
<1>2. ASSUME NEW c \in Children, ChildExits(c) \/ ReaderStep(c) \/ \E s \in Sessions : Produce(c, s)
      PROVE  Places' /\ Ordered'
  <2>1. ChildExits(c) \/ Take(c) \/ (\E s \in Sessions : Produce(c, s))
          => UNCHANGED <<cursor, heard, orphans, elsewhere>>
    BY DEF ChildExits, Take, Produce, routed
  <2>. QED
    BY <1>1, <1>2, <2>1, DeliveredForward DEF ReaderStep
<1>3. ASSUME NEW l \in Lanes, LaneStep(l) \/ LaneShutdown(l) \/ \E s \in Sessions : LaneTakes(l, s)
      PROVE  Places' /\ Ordered'
  <2>1. Land(l) \/ LaneShutdown(l) \/ (\E s \in Sessions : LaneTakes(l, s))
          => UNCHANGED <<cursor, heard, orphans, elsewhere>>
    BY DEF Land, LaneShutdown, LaneTakes, routed
  <2>2. CASE LaneAttach(l)
    <3>1. bound[l] \in Sessions /\ UNCHANGED <<heard, orphans>> /\ cursor[bound[l]] <= log[bound[l]]
      BY <2>2 DEF LaneAttach, TypeInv, OnASession, Stream
    <3>2. \/ UNCHANGED <<cursor, elsewhere>>
          \/ /\ cursor' = [cursor EXCEPT ![bound[l]] = log[bound[l]]]
             /\ elsewhere' = elsewhere \cup {Event(bound[l], n) : n \in (cursor[bound[l]] + 1)..log[bound[l]]}
      BY <2>2 DEF LaneAttach, Attached, AttachRefused
    <3>. QED
      BY <1>1, <3>1, <3>2, DeliveredJump
  <2>. QED
    BY <1>1, <1>3, <2>1, <2>2, DeliveredBind DEF LaneStep
<1>4. ASSUME NEW w \in Workers, WorkerStep(w) PROVE Places' /\ Ordered'
  <2>1. CASE Resume(w)
    <3>. DEFINE s == mark[w].session
    <3>1. s \in Sessions /\ UNCHANGED <<heard, orphans>> /\ cursor[s] <= log[s] /\ wpc[w] = "resuming"
      BY <2>1 DEF Resume, TypeInv, HubOK, MarkIsDue, Stream
    <3>2. \/ UNCHANGED <<cursor, elsewhere>>
          \/ /\ s \notin attached[link] /\ mark[w].at = 0
             /\ cursor' = [cursor EXCEPT ![s] = log[s]]
             /\ elsewhere' = elsewhere \cup {Event(s, n) : n \in 1..log[s]}
      BY <2>1 DEF Resume
    <3>3. s \notin attached[link] /\ mark[w].at = 0 => cursor[s] = 0 /\ cursor[s] + 1 = 1
      BY <3>1 DEF Stream
    <3>. HIDE DEF s
    <3>4. \/ UNCHANGED <<cursor, elsewhere>>
          \/ /\ cursor' = [cursor EXCEPT ![s] = log[s]]
             /\ elsewhere' = elsewhere \cup {Event(s, n) : n \in (cursor[s] + 1)..log[s]}
      BY <3>2, <3>3
    <3>. QED
      BY <1>1, <3>1, <3>4, DeliveredJump
  <2>2. CASE Finish(w)
    <3>1. Broadcast(Restored) /\ UNCHANGED <<cursor, orphans, elsewhere>>
      BY <2>2 DEF Finish
    <3>. QED
      BY <3>1, DeliveredBroadcast
  <2>3. Spawn(w) \/ InstallLink(w) \/ StartReader(w) \/ ListFollowed(w) \/ ReadCursor(w) \/ OnResult(w)
          => UNCHANGED <<cursor, heard, orphans, elsewhere>>
    BY DEF Spawn, InstallLink, StartReader, ListFollowed, ReadCursor, OnResult, routed
  <2>. QED
    BY <1>1, <1>4, <2>1, <2>2, <2>3 DEF WorkerStep
<1>5. CASE OnHubEvent \/ Retry
  <2>1. UNCHANGED <<cursor, heard, orphans, elsewhere>>
    BY <1>5 DEF OnHubEvent, Retry, routed
  <2>. QED
    BY <1>1, <2>1
<1>6. CASE UNCHANGED vars
  BY <1>1, <1>6 DEF vars, routed
<1>. QED
  BY <1>2, <1>3, <1>4, <1>5, <1>6 DEF Next

LEMMA TimesOf ==
  ASSUME NEW S, NEW q \in Seq(S), Sorted(q), NEW e \in Events
  PROVE  Times(e, q) = IF e \in In(q) THEN 1 ELSE 0
<1>. DEFINE at == {i \in DOMAIN q : q[i] = e}
<1>1. DOMAIN q = 1..Len(q) /\ Len(q) \in Nat /\ e.n \in Nat
  BY LenProperties, Kinds
<1>2. CASE e \in In(q)
  <2>1. PICK i \in DOMAIN q : q[i] = e
    BY <1>2 DEF In
  <2>2. \A j \in DOMAIN q : q[j] = e => j = i
    <3>. SUFFICES ASSUME NEW j \in DOMAIN q, q[j] = e, j # i PROVE FALSE
      OBVIOUS
    <3>1. i < j \/ j < i
      BY <1>1
    <3>2. e.n < e.n
      BY <2>1, <3>1 DEF Sorted
    <3>. QED
      BY <1>1, <3>2
  <2>3. at = {i}
    BY <2>1, <2>2
  <2>. QED
    BY <1>2, <2>3, FS_Singleton DEF Times
<1>3. CASE e \notin In(q)
  <2>1. at = {}
    BY <1>3 DEF In
  <2>. QED
    BY <1>3, <2>1, FS_EmptySet DEF Times
<1>. QED
  BY <1>2, <1>3

LEMMA DeliveredOnce ==
  ASSUME TypeInv, Places, Ordered
  PROVE  OnceAndInOrder
<1>. USE ItemTypes
<1>1. ASSUME NEW s \in Sessions, NEW n \in 1..MaxEvents
      PROVE  LET e == Event(s, n)
                 hearing == {l \in Lanes : Times(e, heard[l]) > 0}
             IN /\ \A l \in Lanes : Times(e, heard[l]) <= 1
                /\ Times(e, orphans) + Cardinality(hearing) + Cardinality({e} \cap elsewhere)
                     = IF n <= cursor[s] THEN 1 ELSE 0
  <2>. DEFINE e == Event(s, n)
              hearing == {l \in Lanes : Times(e, heard[l]) > 0}
  <2>1. e \in Events /\ e.session = s /\ e.n = n
    BY Kinds
  <2>. HIDE DEF e
  <2>2. \A l \in Lanes : Times(e, heard[l]) = IF e \in In(heard[l]) THEN 1 ELSE 0
    BY <2>1, TimesOf DEF Ordered
  <2>3. Times(e, orphans) = IF e \in In(orphans) THEN 1 ELSE 0
    BY <2>1, TimesOf DEF Ordered
  <2>4. hearing = {l \in Lanes : e \in In(heard[l])}
    BY <2>2
  <2>5. Cardinality(hearing) = IF \E l \in Lanes : e \in In(heard[l]) THEN 1 ELSE 0
    <3>1. ASSUME NEW l \in Lanes, e \in In(heard[l]) PROVE hearing = {l}
      BY <2>1, <2>4, <3>1 DEF Places
    <3>2. (\A l \in Lanes : e \notin In(heard[l])) => hearing = {}
      BY <2>4
    <3>. HIDE DEF hearing
    <3>. QED
      BY <3>1, <3>2, FS_Singleton, FS_EmptySet
  <2>6. Cardinality({e} \cap elsewhere) = IF e \in elsewhere THEN 1 ELSE 0
    <3>1. {e} \cap elsewhere = IF e \in elsewhere THEN {e} ELSE {}
      OBVIOUS
    <3>. QED
      BY <3>1, FS_Singleton, FS_EmptySet
  <2>7. e \in In(orphans) => \A l \in Lanes : e \notin In(heard[l])
    BY <2>1 DEF Ordered
  <2>8. e \in elsewhere => e \notin In(orphans) /\ \A l \in Lanes : e \notin In(heard[l])
    BY DEF Places
  <2>9. n <= cursor[s] <=> (\E l \in Lanes : e \in In(heard[l])) \/ e \in In(orphans) \/ e \in elsewhere
    BY <2>1 DEF Places
  <2>10. Times(e, orphans) + Cardinality(hearing) + Cardinality({e} \cap elsewhere)
            = IF n <= cursor[s] THEN 1 ELSE 0
    BY <2>3, <2>5, <2>6, <2>7, <2>8, <2>9
  <2>11. \A l \in Lanes : Times(e, heard[l]) <= 1
    BY <2>2
  <2>. QED
    BY <2>10, <2>11 DEF e
<1>2. EveryEventOnce
  BY <1>1 DEF EveryEventOnce
<1>3. ASSUME NEW l \in Lanes
      PROVE  LET q == heard[l] \o orphans
             IN \A i, j \in DOMAIN q :
                   i < j /\ q[i].kind = "event" /\ q[i].session = q[j].session => q[i].n < q[j].n
  <2>. DEFINE q == heard[l] \o orphans
              items == Events \cup {Lost, Restored}
  <2>1. heard[l] \in Seq(items) /\ orphans \in Seq(items)
    BY SeqMonotonic
  <2>2. q \in Seq(items) /\ Sorted(q)
    <3>1. Sorted(heard[l]) /\ Sorted(orphans)
          /\ \A d \in In(heard[l]) \cap Events : \A e \in In(orphans) : d.session = e.session => d.n < e.n
      BY DEF Ordered
    <3>. HIDE DEF items
    <3>. QED
      BY <2>1, <3>1, ConcatIn, ConcatProperties
  <2>. HIDE DEF q
  <2>3. \A i \in DOMAIN q : q[i].kind = "event" => q[i] \in Events
    <3>1. \A i \in DOMAIN q : q[i] \in items
      BY <2>2, LenProperties, ElementOfSeq
    <3>2. Lost.kind # "event" /\ Restored.kind # "event"
      BY DEF Lost, Restored, Sign
    <3>. QED
      BY <3>1, <3>2
  <2>4. \A i, j \in DOMAIN q :
           i < j /\ q[i].kind = "event" /\ q[i].session = q[j].session => q[i].n < q[j].n
    BY <2>2, <2>3 DEF Sorted
  <2>. QED
    BY <2>4 DEF q
<1>4. InSessionOrder
  BY <1>3 DEF InSessionOrder
<1>. QED
  BY <1>2, <1>4 DEF OnceAndInOrder

-----------------------------------------------------------------------------
(* Everything together.                                                      *)

Delivery == overlapped \/ (Control /\ Chain /\ Stream /\ Places /\ Ordered)

LEMMA DeliveryStep == TypeInv /\ RoutesAreCurrent /\ Delivery /\ [Next]_vars => Delivery'
<1>. SUFFICES ASSUME TypeInv, RoutesAreCurrent, Delivery, [Next]_vars, ~overlapped'
              PROVE  (Control /\ Chain /\ Stream /\ Places /\ Ordered)'
  BY DEF Delivery
<1>1. ~overlapped
  <2>1. overlapped' = overlapped \/ \E w \in Workers : StartWorker(w)
    BY DEF Next, ReaderStep, LaneStep, WorkerStep, ChildExits, Produce, Take, Forward, Bind, LaneAttach, Land,
         LaneShutdown, LaneTakes, Spawn, InstallLink, StartReader, ListFollowed, ReadCursor, Resume, Finish,
         OnResult, OnHubEvent, Retry, vars, window
  <2>. QED
    BY <2>1 DEF StartWorker
<1>2. Control /\ Chain /\ Stream /\ Places /\ Ordered
  BY <1>1 DEF Delivery
<1>. QED
  BY <1>2, ControlStep, ChainStep, StreamStep, DeliveredStep

(* While no reconnect is started under another one, every event of a session *)
(* reaches exactly one lane exactly once and in order, or waits, or is among *)
(* those left to the pages or dropped from a full buffer: for any number of  *)
(* lanes, of children and of reconnects one after the other, whatever of its *)
(* stream a child loses when it dies.                                        *)
THEOREM OnceAndInOrderAlways == Spec => []OnceAndInOrder
<1>1. Init => Delivery
  BY ControlInit, ChainInit, StreamInit, DeliveredInit DEF Delivery
<1>2. TypeInv /\ Delivery => OnceAndInOrder
  BY DeliveredOnce DEF Delivery, OnceAndInOrder
<1>. QED
  BY <1>1, <1>2, TypeInit, TypeStep, RoutesInit, RoutesStep, DeliveryStep, PTL DEF Spec
=============================================================================
