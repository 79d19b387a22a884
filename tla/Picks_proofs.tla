------------------------------ MODULE Picks_proofs ------------------------------
(***************************************************************************)
(* Which elements a sequence has after it was picked from, appended to,    *)
(* joined or shortened.                                                    *)
(***************************************************************************)
EXTENDS Picks, FiniteSetTheorems, TLAPS

In(e, s) == \E i \in DOMAIN s : s[i] = e

\* The elements of p are from the indices K of s, in their order.
PickedOrder(p, s, K) ==
  \A i, j \in DOMAIN p : i < j => \E k, l \in K : k < l /\ p[i] = s[k] /\ p[j] = s[l]

\* Picked has the elements at the indices of K, in their order, and no others.
LEMMA PickedElements ==
    ASSUME NEW n \in Nat, NEW K \in SUBSET (1..n), NEW S, NEW s, DOMAIN s = 1..n, \A i \in 1..n : s[i] \in S
    PROVE  /\ Picked(s, K) \in Seq(S)
           /\ \A i \in DOMAIN Picked(s, K) : \E k \in K : Picked(s, K)[i] = s[k]
           /\ \A k \in K : In(s[k], Picked(s, K))
           /\ PickedOrder(Picked(s, K), s, K)
<1> DEFINE Before(k) == {j \in K : j < k}
           rank == [k \in K |-> Cardinality(Before(k)) + 1]
           size == Cardinality(K)
<1>1. IsFiniteSet(K) /\ size \in Nat
    <2>1. IsFiniteSet(1..n)
        BY FS_Interval
    <2>2. IsFiniteSet(K)
        BY <2>1, FS_Subset
    <2> QED
        BY <2>2, FS_CardinalityType
<1>2. ASSUME NEW T \in SUBSET K PROVE IsFiniteSet(T) /\ Cardinality(T) \in Nat
    BY <1>1, <1>2, FS_Subset, FS_CardinalityType
<1>3. ASSUME NEW T \in SUBSET K, NEW x \in K \ T PROVE Cardinality(T) < size
    <2>1. Cardinality(T) <= size /\ (Cardinality(K) = Cardinality(T) => K = T)
        BY <1>1, FS_Subset
    <2> QED
        BY <1>1, <1>2, <1>3, <2>1
<1>4. ASSUME NEW j \in K, NEW k \in K, j < k PROVE Cardinality(Before(j)) < Cardinality(Before(k))
    <2>0. j \in Nat /\ k \in Nat /\ \A i \in K : i \in Nat
        OBVIOUS
    <2>1. Before(j) \in SUBSET Before(k) /\ j \in Before(k) /\ j \notin Before(j)
        <3>1. \A i \in K : i < j => i < k
            BY <1>4, <2>0
        <3>2. ~(j < j) /\ j < k
            BY <1>4, <2>0
        <3> QED
            BY <3>1, <3>2
    <2> HIDE DEF Before
    <2>2. Cardinality(Before(j)) <= Cardinality(Before(k)) /\ Cardinality(Before(j)) # Cardinality(Before(k))
        <3>1. IsFiniteSet(Before(k))
            BY <1>2 DEF Before
        <3> QED
            BY <2>1, <3>1, FS_Subset
    <2>3. Cardinality(Before(j)) \in Nat /\ Cardinality(Before(k)) \in Nat
        BY <1>2 DEF Before
    <2> QED
        BY <2>2, <2>3
<1>5. rank \in [K -> 1..size]
    <2> SUFFICES ASSUME NEW k \in K PROVE Cardinality(Before(k)) + 1 \in 1..size
        OBVIOUS
    <2>1. Cardinality(Before(k)) \in Nat /\ Cardinality(Before(k)) < size
        BY <1>2, <1>3
    <2> QED
        BY <1>1, <2>1
<1>6. \A j, k \in K : rank[j] = rank[k] => j = k
    <2> SUFFICES ASSUME NEW j \in K, NEW k \in K, j # k PROVE rank[j] # rank[k]
        OBVIOUS
    <2>1. j \in Nat /\ k \in Nat
        OBVIOUS
    <2>2. Cardinality(Before(j)) \in Nat /\ Cardinality(Before(k)) \in Nat
        BY <1>2
    <2> HIDE DEF Before
    <2>3. Cardinality(Before(j)) # Cardinality(Before(k))
        BY <1>4, <2>1, <2>2
    <2> QED
        BY <2>2, <2>3
<1>7. \A i \in 1..size : \E k \in K : rank[k] = i
    <2> HIDE DEF rank
    <2> HIDE DEF size
    <2>1. rank \in Injection(K, 1..size)
        <3>1. \A a, b \in K : rank[a] = rank[b] => a = b
            BY <1>6
        <3>2. rank \in [K -> 1..size]
            BY <1>5
        <3> QED
            BY <3>1, <3>2, Zenon DEF Injection, IsInjective
    <2>2. IsFiniteSet(1..size) /\ Cardinality(1..size) = size
        BY <1>1, FS_Interval
    <2>3. Cardinality(K) = Cardinality(1..size)
        BY <2>2 DEF size
    <2>4. rank \in Surjection(K, 1..size)
        BY <2>1, <2>2, <2>3, FS_Injection
    <2> QED
        BY <2>4 DEF Surjection
<1> DEFINE At(i) == CHOOSE k \in K : Cardinality(Before(k)) = i - 1
<1>8. \A i \in 1..size : At(i) \in K /\ rank[At(i)] = i
    <2> SUFFICES ASSUME NEW i \in 1..size PROVE At(i) \in K /\ rank[At(i)] = i
        OBVIOUS
    <2>1. \E k \in K : Cardinality(Before(k)) = i - 1
        <3>1. PICK k \in K : rank[k] = i
            BY <1>7
        <3>2. Cardinality(Before(k)) \in Nat
            BY <1>2
        <3>3. Cardinality(Before(k)) + 1 = i
            BY <3>1
        <3> HIDE DEF Before, rank
        <3>4. Cardinality(Before(k)) = i - 1
            BY <3>2, <3>3
        <3> QED
            BY <3>4
    <2>2. At(i) \in K /\ Cardinality(Before(At(i))) = i - 1
        BY <2>1
    <2> HIDE DEF At
    <2>3. rank[At(i)] = Cardinality(Before(At(i))) + 1
        BY <2>2
    <2> QED
        BY <1>1, <2>2, <2>3
<1>9. Picked(s, K) = [i \in 1..size |-> s[At(i)]]
    BY DEF Picked
<1> HIDE DEF At, rank, size
<1>10. Picked(s, K) \in Seq(S)
    <2>1. \A i \in 1..size : s[At(i)] \in S
        BY <1>8
    <2>2. size \in Nat
        BY <1>1 DEF size
    <2> QED
        BY <1>9, <2>1, <2>2
<1>11. \A i \in DOMAIN Picked(s, K) : \E k \in K : Picked(s, K)[i] = s[k]
    BY <1>8, <1>9
<1>12. ASSUME NEW k \in K PROVE In(s[k], Picked(s, K))
    <2>1. rank[k] \in 1..size /\ At(rank[k]) = k
        BY <1>5, <1>6, <1>8
    <2> QED
        BY <1>9, <2>1 DEF In
<1>13. ASSUME NEW i \in DOMAIN Picked(s, K), NEW j \in DOMAIN Picked(s, K), i < j
       PROVE  \E k, l \in K : k < l /\ Picked(s, K)[i] = s[k] /\ Picked(s, K)[j] = s[l]
    <2>1. i \in 1..size /\ j \in 1..size /\ Picked(s, K)[i] = s[At(i)] /\ Picked(s, K)[j] = s[At(j)]
        BY <1>9
    <2>2. PICK k, l : k = At(i) /\ l = At(j)
        OBVIOUS
    <2>3. k \in K /\ l \in K /\ rank[k] = i /\ rank[l] = j
        BY <1>8, <2>1, <2>2
    <2>4. rank[k] = Cardinality(Before(k)) + 1 /\ rank[l] = Cardinality(Before(l)) + 1
        BY <2>3 DEF rank
    <2>5. Cardinality(Before(k)) \in Nat /\ Cardinality(Before(l)) \in Nat
        BY <1>2
    <2>6. l < k => Cardinality(Before(l)) < Cardinality(Before(k))
        BY <1>4, <2>3
    <2> HIDE DEF Before
    <2>7. ~(l < k) /\ l # k
        BY <1>13, <2>3, <2>4, <2>5, <2>6
    <2>8. k \in 1..n /\ l \in 1..n
        BY <2>3
    <2>9. k < l
        BY <2>7, <2>8
    <2> QED
        BY <2>1, <2>2, <2>3, <2>9
<1> QED
    BY <1>10, <1>11, <1>12, <1>13 DEF PickedOrder

LEMMA SeqPicked ==
    ASSUME NEW S, NEW s \in Seq(S), NEW K \in SUBSET (DOMAIN s)
    PROVE  /\ Picked(s, K) \in Seq(S)
           /\ \A x : In(x, Picked(s, K)) => \E k \in K : x = s[k]
<1>1. PICK n : n = Len(s)
    OBVIOUS
<1>2. n \in Nat /\ DOMAIN s = 1..n
    BY <1>1
<1>3. \A i \in 1..n : s[i] \in S
    BY <1>1
<1>4. K \in SUBSET (1..n)
    BY <1>2
<1>5. /\ Picked(s, K) \in Seq(S)
      /\ \A i \in DOMAIN Picked(s, K) : \E k \in K : Picked(s, K)[i] = s[k]
      /\ \A k \in K : In(s[k], Picked(s, K))
      /\ PickedOrder(Picked(s, K), s, K)
    BY <1>2, <1>3, <1>4, PickedElements
<1> QED
    BY <1>5, Zenon DEF In

LEMMA PickedAll ==
    ASSUME NEW S, NEW s \in Seq(S), NEW K \in SUBSET (DOMAIN s)
    PROVE  \A k \in K : In(s[k], Picked(s, K))
<1>1. PICK n : n = Len(s)
    OBVIOUS
<1>2. n \in Nat /\ DOMAIN s = 1..n
    BY <1>1
<1>3. \A i \in 1..n : s[i] \in S
    BY <1>1
<1>4. K \in SUBSET (1..n)
    BY <1>2
<1>5. /\ Picked(s, K) \in Seq(S)
      /\ \A i \in DOMAIN Picked(s, K) : \E k \in K : Picked(s, K)[i] = s[k]
      /\ \A k \in K : In(s[k], Picked(s, K))
      /\ PickedOrder(Picked(s, K), s, K)
    BY <1>2, <1>3, <1>4, PickedElements
<1> QED
    BY <1>5

LEMMA AppendElements ==
    ASSUME NEW S, NEW s \in Seq(S), NEW e \in S
    PROVE  Append(s, e) \in Seq(S) /\ \A x : In(x, Append(s, e)) <=> In(x, s) \/ x = e
<1>1. /\ Append(s, e) \in Seq(S) /\ Len(s) \in Nat
      /\ DOMAIN s = 1..Len(s) /\ DOMAIN Append(s, e) = 1..(Len(s) + 1)
      /\ Append(s, e)[Len(s) + 1] = e /\ \A i \in 1..Len(s) : Append(s, e)[i] = s[i]
    OBVIOUS
<1>2. \A i : i \in 1..(Len(s) + 1) <=> i \in 1..Len(s) \/ i = Len(s) + 1
    BY <1>1
<1> QED
    BY <1>1, <1>2 DEF In

LEMMA ConcatElements ==
    ASSUME NEW S, NEW s \in Seq(S), NEW t \in Seq(S)
    PROVE  /\ s \o t \in Seq(S) /\ \A x : In(x, s \o t) <=> In(x, s) \/ In(x, t)
           /\ \A i \in DOMAIN s : i \in DOMAIN (s \o t) /\ (s \o t)[i] = s[i]
<1>1. /\ s \o t \in Seq(S) /\ Len(s) \in Nat /\ Len(t) \in Nat
      /\ DOMAIN s = 1..Len(s) /\ DOMAIN t = 1..Len(t) /\ DOMAIN (s \o t) = 1..(Len(s) + Len(t))
      /\ \A i \in 1..(Len(s) + Len(t)) : (s \o t)[i] = IF i <= Len(s) THEN s[i] ELSE t[i - Len(s)]
    OBVIOUS
<1>2. \A i \in 1..Len(t) : i + Len(s) \in 1..(Len(s) + Len(t)) /\ (s \o t)[i + Len(s)] = t[i]
    BY <1>1
<1>3. \A i \in 1..Len(s) : i \in 1..(Len(s) + Len(t)) /\ (s \o t)[i] = s[i]
    BY <1>1
<1>4. ASSUME NEW i \in 1..(Len(s) + Len(t))
      PROVE  \/ i \in 1..Len(s) /\ (s \o t)[i] = s[i]
             \/ (i - Len(s)) \in 1..Len(t) /\ (s \o t)[i] = t[i - Len(s)]
    BY <1>1
<1>5. \A x : In(x, s \o t) => In(x, s) \/ In(x, t)
    BY <1>1, <1>4 DEF In
<1>6. \A x : In(x, s) \/ In(x, t) => In(x, s \o t)
    BY <1>1, <1>2, <1>3 DEF In
<1> QED
    BY <1>1, <1>3, <1>5, <1>6

LEMMA LastElement ==
    ASSUME NEW S, NEW s \in Seq(S), NEW e \in S
    PROVE  Len(s) + 1 \in DOMAIN (s \o <<e>>) /\ (s \o <<e>>)[Len(s) + 1] = e
OBVIOUS

LEMMA TailElements ==
    ASSUME NEW S, NEW s \in Seq(S), s # <<>>
    PROVE  /\ Tail(s) \in Seq(S) /\ \A x : In(x, s) <=> x = Head(s) \/ In(x, Tail(s))
           /\ Head(s) \in S /\ Head(s) = s[1] /\ 1 \in DOMAIN s
           /\ \A i \in DOMAIN s : i # 1 => (i - 1) \in DOMAIN Tail(s) /\ Tail(s)[i - 1] = s[i]
           /\ \A i \in DOMAIN Tail(s) : (i + 1) \in DOMAIN s /\ Tail(s)[i] = s[i + 1]
<1>1. /\ Tail(s) \in Seq(S) /\ Len(s) \in Nat \ {0} /\ DOMAIN s = 1..Len(s) /\ DOMAIN Tail(s) = 1..(Len(s) - 1)
      /\ Head(s) = s[1] /\ \A i \in 1..(Len(s) - 1) : Tail(s)[i] = s[i + 1]
    OBVIOUS
<1>2. 1 \in DOMAIN s /\ Head(s) \in S
    BY <1>1
<1>3. \A i \in DOMAIN s : i # 1 => (i - 1) \in DOMAIN Tail(s) /\ Tail(s)[i - 1] = s[i]
    BY <1>1
<1>4. \A i \in DOMAIN Tail(s) : (i + 1) \in DOMAIN s /\ Tail(s)[i] = s[i + 1]
    BY <1>1
<1>5. ASSUME NEW x, In(x, s) PROVE x = Head(s) \/ In(x, Tail(s))
    <2>1. PICK i \in DOMAIN s : s[i] = x
        BY <1>5 DEF In
    <2>2. CASE i = 1
        BY <1>1, <2>1, <2>2
    <2>3. CASE i # 1
        BY <1>3, <2>1, <2>3 DEF In
    <2> QED
        BY <2>2, <2>3
<1>6. ASSUME NEW x, x = Head(s) \/ In(x, Tail(s)) PROVE In(x, s)
    <2>1. CASE x = Head(s)
        BY <1>1, <1>2, <2>1 DEF In
    <2>2. CASE In(x, Tail(s))
        <3>1. PICK i \in DOMAIN Tail(s) : Tail(s)[i] = x
            BY <2>2 DEF In
        <3>2. (i + 1) \in DOMAIN s /\ s[i + 1] = x
            BY <1>4, <3>1
        <3> QED
            BY <3>2 DEF In
    <2> QED
        BY <1>6, <2>1, <2>2
<1> QED
    BY <1>1, <1>2, <1>3, <1>4, <1>5, <1>6

LEMMA OneElement ==
    /\ \A S : <<>> \in Seq(S) /\ \A x : ~In(x, <<>>)
    /\ \A S : \A e \in S : <<e>> \in Seq(S)
    /\ \A e, x : In(x, <<e>>) <=> x = e
BY DEF In

LEMMA WithoutElements ==
    ASSUME NEW S, NEW s \in Seq(S), NEW e
    PROVE  Without(s, e) \in Seq(S) /\ \A x : In(x, Without(s, e)) => In(x, s) /\ x # e
<1> DEFINE Stay == {i \in DOMAIN s : s[i] # e}
<1>1. PICK K : K = Stay
    OBVIOUS
<1>2. K \in SUBSET (DOMAIN s) /\ \A k \in K : s[k] # e
    BY <1>1
<1>3. Without(s, e) = Picked(s, K)
    BY <1>1 DEF Without
<1>4. Picked(s, K) \in Seq(S) /\ \A x : In(x, Picked(s, K)) => \E k \in K : x = s[k]
    BY <1>2, SeqPicked
<1>5. \A x : In(x, Picked(s, K)) => In(x, s) /\ x # e
    BY <1>2, <1>4 DEF In
<1> QED
    BY <1>3, <1>4, <1>5

-----------------------------------------------------------------------------
(* Numbers in increasing order.                                            *)

Rising(s) == \A i, j \in DOMAIN s : i < j => s[i] < s[j]

\* s has the numbers of S, each once and in order.
Holds(s, S) == s \in Seq(Nat) /\ Rising(s) /\ \A n : In(n, s) <=> n \in S

LEMMA PickedRising ==
    ASSUME NEW s \in Seq(Nat), Rising(s), NEW K \in SUBSET (DOMAIN s)
    PROVE  Holds(Picked(s, K), {s[k] : k \in K})
<1>1. PICK n : n = Len(s)
    OBVIOUS
<1>2. n \in Nat /\ DOMAIN s = 1..n
    BY <1>1
<1>3. \A i \in 1..n : s[i] \in Nat
    BY <1>1
<1>4. K \in SUBSET (1..n)
    BY <1>2
<1>5. /\ Picked(s, K) \in Seq(Nat)
      /\ \A i \in DOMAIN Picked(s, K) : \E k \in K : Picked(s, K)[i] = s[k]
      /\ \A k \in K : In(s[k], Picked(s, K))
      /\ PickedOrder(Picked(s, K), s, K)
    BY <1>2, <1>3, <1>4, PickedElements
<1>6. PICK p : p = Picked(s, K)
    OBVIOUS
<1>7. \A k, l \in K : k < l => s[k] < s[l]
    BY <1>2, <1>4 DEF Rising
<1>8. Rising(p)
    BY <1>5, <1>6, <1>7 DEF Rising, PickedOrder
<1>9. \A x : In(x, p) <=> x \in {s[k] : k \in K}
    BY <1>5, <1>6 DEF In
<1> QED
    BY <1>5, <1>6, <1>8, <1>9 DEF Holds

\* A number's place is how many are smaller.
LEMMA Place ==
    ASSUME NEW s, NEW S, Holds(s, S), NEW i \in DOMAIN s
    PROVE  Cardinality({m \in S : m < s[i]}) = i - 1
<1>1. /\ s \in Seq(Nat) /\ DOMAIN s = 1..Len(s) /\ Len(s) \in Nat /\ i \in Nat /\ i >= 1
      /\ \A j \in 1..Len(s) : s[j] \in Nat
    BY DEF Holds
<1>2. \A j, k \in 1..Len(s) : j < k => s[j] < s[k]
    BY <1>1 DEF Holds, Rising
<1>3. \A m : m \in S <=> \E j \in 1..Len(s) : s[j] = m
    BY <1>1 DEF Holds, In
<1>4. PICK T : T = {m \in S : m < s[i]}
    OBVIOUS
<1>5. PICK f : f = [j \in 1..(i - 1) |-> s[j]]
    OBVIOUS
<1>6. \A j \in 1..(i - 1) : j \in 1..Len(s) /\ f[j] = s[j] /\ j < i /\ i \in 1..Len(s)
    BY <1>1, <1>5
<1>7. f \in [1..(i - 1) -> T]
    BY <1>2, <1>3, <1>4, <1>5, <1>6
<1>8. \A j, k \in 1..(i - 1) : f[j] = f[k] => j = k
    <2> SUFFICES ASSUME NEW j \in 1..(i - 1), NEW k \in 1..(i - 1), f[j] = f[k] PROVE j = k
        OBVIOUS
    <2>1. s[j] = s[k] /\ j \in 1..Len(s) /\ k \in 1..Len(s) /\ s[j] \in Nat /\ s[k] \in Nat
        BY <1>1, <1>6
    <2> QED
        BY <1>2, <2>1
<1>9. \A m \in T : \E j \in 1..(i - 1) : f[j] = m
    <2> SUFFICES ASSUME NEW m \in T PROVE \E j \in 1..(i - 1) : f[j] = m
        OBVIOUS
    <2>1. m \in S /\ m < s[i]
        BY <1>4
    <2>2. PICK j \in 1..Len(s) : s[j] = m
        BY <1>3, <2>1
    <2>3. j < i
        <3>1. s[i] \in Nat /\ s[j] \in Nat /\ i \in 1..Len(s)
            BY <1>1
        <3>2. ~(s[i] < s[j]) /\ s[i] # s[j]
            BY <2>1, <2>2, <3>1
        <3> QED
            BY <1>1, <1>2, <3>1, <3>2
    <2> QED
        BY <1>1, <1>6, <2>2, <2>3
<1>10. f \in Bijection(1..(i - 1), T)
    BY <1>7, <1>8, <1>9, Zenon DEF Bijection, Injection, Surjection, IsInjective
<1>11. ExistsBijection(1..(i - 1), T)
    BY <1>10 DEF ExistsBijection
<1>12. IsFiniteSet(1..(i - 1)) /\ Cardinality(1..(i - 1)) = i - 1
    <2>1. 1 \in Int /\ i - 1 \in Int
        BY <1>1
    <2>2. Cardinality(1..(i - 1)) = IF 1 > i - 1 THEN 0 ELSE (i - 1) - 1 + 1
        BY <2>1, FS_Interval
    <2> QED
        BY <1>1, <2>1, <2>2, FS_Interval
<1>13. Cardinality(T) = Cardinality(1..(i - 1))
    BY <1>11, <1>12, FS_Bijection
<1> QED
    BY <1>4, <1>12, <1>13

\* So there is only one such sequence.
LEMMA HoldsOnce ==
    ASSUME NEW s, NEW t, NEW S, Holds(s, S), Holds(t, S)
    PROVE  s = t
<1>1. ASSUME NEW u, NEW w, Holds(u, S), Holds(w, S), NEW i \in DOMAIN u PROVE i \in DOMAIN w /\ w[i] = u[i]
    <2>1. u[i] \in S
        BY <1>1 DEF Holds, In
    <2>2. PICK j \in DOMAIN w : w[j] = u[i]
        BY <1>1, <2>1 DEF Holds, In
    <2>3. Cardinality({m \in S : m < u[i]}) = i - 1
        BY <1>1, Place
    <2>4. Cardinality({m \in S : m < w[j]}) = j - 1
        BY <1>1, Place
    <2>5. i \in Nat /\ j \in Nat
        BY <1>1 DEF Holds
    <2>6. i = j
        BY <2>2, <2>3, <2>4, <2>5
    <2> QED
        BY <2>2, <2>6
<1>2. DOMAIN s = DOMAIN t
    BY <1>1
<1>3. \A i \in DOMAIN s : s[i] = t[i]
    BY <1>1
<1>4. s \in Seq(Nat) /\ t \in Seq(Nat)
    BY DEF Holds
<1>5. Len(s) = Len(t) /\ \A i \in 1..Len(s) : s[i] = t[i]
    BY <1>2, <1>3, <1>4
<1>6. s = [i \in 1..Len(s) |-> s[i]] /\ t = [i \in 1..Len(t) |-> t[i]]
    BY <1>4
<1> QED
    BY <1>5, <1>6

LEMMA AppendHolds ==
    ASSUME NEW s, NEW S, Holds(s, S), NEW n \in Nat, \A m \in S : m < n
    PROVE  Holds(Append(s, n), S \union {n})
<1>1. s \in Seq(Nat) /\ Append(s, n) \in Seq(Nat) /\ \A x : In(x, Append(s, n)) <=> In(x, s) \/ x = n
    BY AppendElements DEF Holds
<1>2. \A x : In(x, Append(s, n)) <=> x \in S \union {n}
    BY <1>1 DEF Holds
<1>3. PICK a, k : a = Append(s, n) /\ k = Len(s)
    OBVIOUS
<1>4. k \in Nat /\ DOMAIN s = 1..k /\ DOMAIN a = 1..(k + 1) /\ a[k + 1] = n /\ \A i \in 1..k : a[i] = s[i]
    BY <1>1, <1>3
<1>5. \A i \in 1..k : s[i] < n
    BY <1>4 DEF Holds, In
<1>6. Rising(a)
    <2>1. ASSUME NEW i \in 1..(k + 1), NEW j \in 1..(k + 1), i < j PROVE a[i] < a[j]
        <3>1. i \in 1..k
            BY <1>4, <2>1
        <3>2. CASE j \in 1..k
            BY <1>4, <2>1, <3>1, <3>2 DEF Holds, Rising
        <3>3. CASE j = k + 1
            BY <1>4, <1>5, <3>1, <3>3
        <3> QED
            BY <1>4, <3>2, <3>3
    <2> QED
        BY <1>4, <2>1 DEF Rising
<1> QED
    BY <1>1, <1>2, <1>3, <1>6 DEF Holds

LEMMA TailHolds ==
    ASSUME NEW s, NEW S, Holds(s, S), s # <<>>
    PROVE  Holds(Tail(s), S \ {Head(s)})
<1>1. /\ s \in Seq(Nat) /\ Tail(s) \in Seq(Nat) /\ Head(s) = s[1]
      /\ \A x : In(x, s) <=> x = Head(s) \/ In(x, Tail(s))
    BY TailElements DEF Holds
<1>2. PICK t, k : t = Tail(s) /\ k = Len(s)
    OBVIOUS
<1>3. /\ k \in Nat /\ k >= 1 /\ DOMAIN s = 1..k /\ DOMAIN t = 1..(k - 1)
      /\ \A i \in 1..(k - 1) : t[i] = s[i + 1] /\ i + 1 \in 1..k
    BY <1>1, <1>2
<1>4. \A i, j \in 1..k : i < j => s[i] < s[j]
    BY <1>3 DEF Holds, Rising
<1>5. Rising(t)
    BY <1>3, <1>4 DEF Rising
<1>6. ~In(s[1], t)
    <2> SUFFICES ASSUME NEW i \in 1..(k - 1), t[i] = s[1] PROVE FALSE
        BY <1>3 DEF In
    <2>1. s[1] < s[i + 1] /\ s[1] \in Nat
        BY <1>1, <1>3, <1>4
    <2> QED
        BY <1>3, <2>1
<1>7. \A x : In(x, t) <=> x \in S \ {Head(s)}
    BY <1>1, <1>2, <1>6 DEF Holds
<1> QED
    BY <1>1, <1>2, <1>5, <1>7 DEF Holds
=================================================================================
