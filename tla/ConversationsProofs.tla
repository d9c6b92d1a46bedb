------------------------ MODULE ConversationsProofs -------------------------
(***************************************************************************)
(* The histories of Conversations for any exchanges, checkpoints, resumes, *)
(* caps and rounds.  First what the filter of an array chooses (Place,     *)
(* Chosen), and what trimming and a capability context leave of a history: *)
(* its end (Carried), with whoever's entries stood there.  Then the        *)
(* inductive invariant, TalkInd, and one lemma per kind of step: a turn    *)
(* pushes, a turn begins, a context is put in, a step that touches no      *)
(* array, and the calls of checkpoint() and resume().                      *)
(***************************************************************************)
EXTENDS Conversations, FiniteSetTheorems, FunctionTheorems, SequenceTheorems, TLAPS

-----------------------------------------------------------------------------
Places(P) == \E N \in Nat : P \in SUBSET (1..N)

(* How the entries at some places of a history are counted.                *)
LEMMA PlaceFacts ==
    ASSUME NEW P, Places(P)
    PROVE  /\ IsFiniteSet(P) /\ Cardinality(P) \in Nat
           /\ \A i \in P : Place(P, i) \in 1..Cardinality(P)
           /\ \A i, j \in P : i < j => Place(P, i) < Place(P, j)
           /\ \A n \in 1..Cardinality(P) : \E i \in P : Place(P, i) = n
           /\ \A i \in P : i \in Nat
<1>1. PICK N \in Nat : P \in SUBSET (1..N)
  BY DEF Places
<1>2. IsFiniteSet(P) /\ Cardinality(P) \in Nat
  <2>0. IsFiniteSet(1..N)
    BY FS_Interval
  <2>1. IsFiniteSet(P)
    BY <1>1, <2>0, FS_Subset
  <2> QED BY <2>1, FS_CardinalityType
<1>3. \A x \in P : x \in Nat
  BY <1>1
<1> DEFINE UpTo(i) == {j \in P : j <= i}
<1>4. \A i : IsFiniteSet(UpTo(i)) /\ Cardinality(UpTo(i)) \in Nat
             /\ Cardinality(UpTo(i)) <= Cardinality(P)
  BY <1>2, FS_Subset, FS_CardinalityType
<1>5. \A i : Place(P, i) = Cardinality(UpTo(i))
  BY DEF Place
<1>6. ASSUME NEW i \in P, NEW j \in P, i < j
      PROVE  Cardinality(UpTo(i)) < Cardinality(UpTo(j))
  <2>1. UpTo(i) \in SUBSET UpTo(j) /\ j \in UpTo(j) /\ j \notin UpTo(i)
    <3>1. ASSUME NEW x \in P, x <= i PROVE x <= j
      BY <1>3, <1>6, <3>1
    <3>2. j <= j /\ ~(j <= i)
      BY <1>3, <1>6
    <3> QED BY <3>1, <3>2
  <2> HIDE DEF UpTo
  <2>2. /\ Cardinality(UpTo(i)) <= Cardinality(UpTo(j))
        /\ Cardinality(UpTo(j)) = Cardinality(UpTo(i)) => UpTo(j) = UpTo(i)
    BY <1>4, <2>1, FS_Subset
  <2> QED BY <1>4, <2>1, <2>2
<1>7. ASSUME NEW i \in P PROVE Cardinality(UpTo(i)) \in 1..Cardinality(P)
  <2>1. i \in UpTo(i)
    BY <1>3
  <2> HIDE DEF UpTo
  <2>2. UpTo(i) # {}
    BY <2>1
  <2>3. Cardinality(UpTo(i)) # 0
    BY <1>4, <2>2, FS_EmptySet
  <2> QED BY <1>2, <1>4, <2>3
<1> HIDE DEF UpTo
<1>8. \A n \in 1..Cardinality(P) : \E i \in P : Cardinality(UpTo(i)) = n
  <2> DEFINE f == [i \in P |-> Cardinality(UpTo(i))]
             T == 1..Cardinality(P)
  <2>1. f \in [P -> T]
    BY <1>7
  <2>2. \A i, j \in P : i # j => f[i] # f[j]
    BY <1>3, <1>4, <1>6
  <2>3. f \in Injection(P, T)
    BY <2>1, <2>2 DEF Injection, IsInjective
  <2>4. IsFiniteSet(T) /\ Cardinality(T) = Cardinality(P)
    BY <1>2, FS_Interval
  <2>5. f \in Surjection(P, T)
    <3> HIDE DEF f, T
    <3> QED BY <1>2, <2>3, <2>4, FS_Injection
  <2> QED BY <2>5 DEF Surjection
<1> QED BY <1>3, <1>2, <1>5, <1>6, <1>7, <1>8

(* The places themselves, in order.                                        *)
Enum(P) == [n \in 1..Cardinality(P) |-> CHOOSE i \in P : Place(P, i) = n]

Enumerates(e, k, P) ==
    /\ \A n \in 1..k : e[n] \in P
    /\ \A n, m \in 1..k : n < m => e[n] < e[m]
    /\ \A i \in P : \E n \in 1..k : e[n] = i

LEMMA EnumFacts ==
    ASSUME NEW P, Places(P)
    PROVE  /\ Cardinality(P) \in Nat
           /\ Enumerates(Enum(P), Cardinality(P), P)
<1> DEFINE k == Cardinality(P)
           e == Enum(P)
<1>1. /\ k \in Nat
      /\ \A i \in P : Place(P, i) \in 1..k
      /\ \A i, j \in P : i < j => Place(P, i) < Place(P, j)
      /\ \A n \in 1..k : \E i \in P : Place(P, i) = n
  BY PlaceFacts
<1>2. \A n \in 1..k : e[n] \in P /\ Place(P, e[n]) = n
  BY <1>1 DEF Enum
<1> HIDE DEF e, k
<1>3. \A n, m \in 1..k : n < m => e[n] < e[m]
  <2> SUFFICES ASSUME NEW n \in 1..k, NEW m \in 1..k, n < m, ~(e[n] < e[m]) PROVE FALSE
    OBVIOUS
  <2>1. e[n] \in P /\ e[m] \in P /\ Place(P, e[n]) = n /\ Place(P, e[m]) = m
    BY <1>2
  <2>2. e[n] \in Nat /\ e[m] \in Nat
    <3>1. \A x \in P : x \in Nat
      BY PlaceFacts
    <3> QED BY <2>1, <3>1
  <2>3. e[m] = e[n] \/ e[m] < e[n]
    BY <2>2
  <2>4. n \in Nat /\ m \in Nat
    BY <1>1
  <2>5. e[m] # e[n]
    BY <2>1, <2>4
  <2>6. ~(e[m] < e[n])
    <3>1. \A x, y \in P : x < y => Place(P, x) < Place(P, y)
      BY <1>1
    <3>2. e[m] < e[n] => m < n
      BY <2>1, <3>1
    <3> QED BY <2>4, <3>2
  <2> QED BY <2>3, <2>5, <2>6
<1>4. ASSUME NEW i \in P PROVE \E n \in 1..k : e[n] = i
  <2> DEFINE n == Place(P, i)
  <2>1. n \in 1..k
    BY <1>1
  <2>2. e[n] \in P /\ Place(P, e[n]) = Place(P, i)
    BY <1>2, <2>1
  <2>3. i \in Nat /\ e[n] \in Nat
    <3>1. \A x \in P : x \in Nat
      BY PlaceFacts
    <3> QED BY <2>2, <3>1
  <2>4. Place(P, i) \in Nat
    BY <2>1, <1>1
  <2>5. ~(i < e[n]) /\ ~(e[n] < i)
    <3>1. \A j, l \in P : j < l => Place(P, j) < Place(P, l)
      BY <1>1
    <3>2. ~(Place(P, i) < Place(P, i))
      BY <2>4
    <3> HIDE DEF n
    <3> QED BY <2>2, <3>1, <3>2
  <2>6. e[n] = i
    BY <2>3, <2>5
  <2> QED BY <2>1, <2>6
<1> QED BY <1>1, <1>2, <1>3, <1>4 DEF Enumerates, e, k

(* There is one way only to go through the places in order.                *)
LEMMA EnumIsUnique ==
    ASSUME NEW P, NEW k, NEW e, Places(P), k \in Nat, Enumerates(e, k, P)
    PROVE  Cardinality(P) = k /\ \A n \in 1..k : Enum(P)[n] = e[n]
<1>1. /\ \A n \in 1..k : e[n] \in P
      /\ \A n, m \in 1..k : n < m => e[n] < e[m]
      /\ \A i \in P : \E n \in 1..k : e[n] = i
  BY DEF Enumerates
<1>2. \A n \in 1..k : e[n] \in Nat
  <2>1. \A x \in P : x \in Nat
    BY PlaceFacts
  <2> QED BY <1>1, <2>1
<1>3. \A n, m \in 1..k : e[m] <= e[n] <=> m <= n
  <2> SUFFICES ASSUME NEW n \in 1..k, NEW m \in 1..k PROVE e[m] <= e[n] <=> m <= n
    OBVIOUS
  <2>1. e[n] \in Nat /\ e[m] \in Nat /\ (n < m => e[n] < e[m]) /\ (m < n => e[m] < e[n])
    BY <1>1, <1>2
  <2>2. m = n => e[m] = e[n]
    OBVIOUS
  <2> QED BY <2>1, <2>2
<1>4. IsFiniteSet(P)
  BY PlaceFacts
<1>5. ASSUME NEW n \in 1..k PROVE Place(P, e[n]) = n
  <2> DEFINE Q == {j \in P : j <= e[n]}
             f == [m \in 1..n |-> e[m]]
  <2>1. \A m \in 1..n : m \in 1..k /\ e[m] \in Q
    BY <1>1, <1>3
  <2>2. f \in [1..n -> Q]
    BY <2>1
  <2>3. \A m, l \in 1..n : m # l => f[m] # f[l]
    <3> SUFFICES ASSUME NEW m \in 1..n, NEW l \in 1..n, e[m] = e[l] PROVE m = l
      OBVIOUS
    <3>1. m \in 1..k /\ l \in 1..k /\ e[m] \in Nat
      BY <2>1, <1>2
    <3>2. m <= l /\ l <= m
      BY <1>3, <3>1
    <3> QED BY <3>2
  <2>4. \A j \in Q : \E m \in 1..n : f[m] = j
    <3> SUFFICES ASSUME NEW j \in Q PROVE \E m \in 1..n : e[m] = j
      OBVIOUS
    <3>1. PICK m \in 1..k : e[m] = j
      BY <1>1
    <3>2. m <= n
      BY <1>3, <3>1
    <3> QED BY <3>1, <3>2
  <2>5. f \in Bijection(1..n, Q)
    <3> HIDE DEF f, Q
    <3> QED BY <2>2, <2>3, <2>4 DEF Bijection, Injection, Surjection, IsInjective
  <2>6. ExistsBijection(1..n, Q)
    BY <2>5 DEF ExistsBijection
  <2>7. IsFiniteSet(1..n) /\ Cardinality(1..n) = n
    BY FS_Interval
  <2>8. Cardinality(Q) = n
    <3> HIDE DEF Q
    <3> QED BY <2>6, <2>7, FS_Bijection
  <2> QED BY <2>8 DEF Place
<1>6. Cardinality(P) = k
  <2> DEFINE f == [m \in 1..k |-> e[m]]
  <2>1. f \in Bijection(1..k, P)
    <3>1. f \in [1..k -> P]
      BY <1>1
    <3>2. \A m, l \in 1..k : m # l => f[m] # f[l]
      BY <1>5
    <3>3. \A j \in P : \E m \in 1..k : f[m] = j
      BY <1>1
    <3> HIDE DEF f
    <3> QED BY <3>1, <3>2, <3>3 DEF Bijection, Injection, Surjection, IsInjective
  <2>2. ExistsBijection(1..k, P)
    BY <2>1 DEF ExistsBijection
  <2>3. IsFiniteSet(1..k) /\ Cardinality(1..k) = k
    BY FS_Interval
  <2> QED BY <2>2, <2>3, FS_Bijection
<1>7. ASSUME NEW n \in 1..k PROVE Enum(P)[n] = e[n]
  <2>1. \A i \in P : Place(P, i) = n <=> i = e[n]
    BY <1>1, <1>5
  <2>2. e[n] \in P
    BY <1>1
  <2>3. (CHOOSE i \in P : Place(P, i) = n) = e[n]
    BY <2>1, <2>2
  <2> QED BY <1>6, <2>3 DEF Enum
<1> QED BY <1>6, <1>7

(* An array's filter, by the places its entries come from.                 *)
LEMMA ChosenFacts ==
    ASSUME NEW P, NEW h, Places(P)
    PROVE  /\ Cardinality(P) \in Nat /\ Enumerates(Enum(P), Cardinality(P), P)
           /\ Len(Chosen(h, P)) = Cardinality(P)
           /\ \A n \in 1..Cardinality(P) : Chosen(h, P)[n] = h[Enum(P)[n]]
<1> DEFINE k == Cardinality(P)
           e == Enum(P)
<1>1. k \in Nat /\ Enumerates(e, k, P)
  BY EnumFacts
<1>2. Chosen(h, P) = [n \in 1..k |-> h[e[n]]]
  BY DEF Chosen, Enum
<1> HIDE DEF k, e
<1>3. Chosen(h, P) \in Seq({h[e[n]] : n \in 1..k})
  BY <1>1, <1>2
<1> QED BY <1>1, <1>2, <1>3 DEF k, e

LEMMA ChosenSeq ==
    ASSUME NEW P, NEW h, NEW S, Places(P), \A i \in P : h[i] \in S
    PROVE  Chosen(h, P) \in Seq(S)
<1> DEFINE k == Cardinality(P)
           e == Enum(P)
<1>1. k \in Nat /\ Enumerates(e, k, P)
  BY EnumFacts
<1>2. Chosen(h, P) = [n \in 1..k |-> h[e[n]]]
  BY DEF Chosen, Enum
<1> HIDE DEF k, e
<1>3. \A n \in 1..k : h[e[n]] \in S
  BY <1>1 DEF Enumerates
<1> QED BY <1>1, <1>2, <1>3

LEMMA ChosenBy ==
    ASSUME NEW P, NEW h, NEW k, NEW e, Places(P), k \in Nat, Enumerates(e, k, P)
    PROVE  Len(Chosen(h, P)) = k /\ \A n \in 1..k : Chosen(h, P)[n] = h[e[n]]
<1>1. Cardinality(P) = k /\ \A n \in 1..k : Enum(P)[n] = e[n]
  BY EnumIsUnique
<1>2. /\ Len(Chosen(h, P)) = Cardinality(P)
      /\ \A n \in 1..Cardinality(P) : Chosen(h, P)[n] = h[Enum(P)[n]]
  BY ChosenFacts
<1> QED BY <1>1, <1>2

(* Sequences with the same entries are the same.                           *)
LEMMA SameEntries ==
    ASSUME NEW S, NEW s \in Seq(S), NEW T, NEW t \in Seq(T), Len(s) = Len(t),
           \A n \in 1..Len(s) : s[n] = t[n]
    PROVE  s = t
<1>1. s \in [1..Len(s) -> S] /\ t \in [1..Len(s) -> T]
  OBVIOUS
<1> QED BY <1>1

(* Filtering what stands elsewhere, in the same order.                     *)
Moves(h, P, g, Q, d) ==
    /\ Places(P) /\ Places(Q) /\ d \in Int
    /\ \A i \in P : i + d \in Q /\ g[i + d] = h[i]
    /\ \A j \in Q : j - d \in P

LEMMA ChosenMoved ==
    ASSUME NEW h, NEW P, NEW g, NEW Q, NEW d, Moves(h, P, g, Q, d)
    PROVE  Chosen(g, Q) = Chosen(h, P)
<1>1. /\ d \in Int
      /\ \A i \in P : i + d \in Q /\ g[i + d] = h[i]
      /\ \A j \in Q : j - d \in P
  BY DEF Moves
<1>2. Places(P) /\ Places(Q)
  BY DEF Moves
<1> DEFINE k == Cardinality(P)
           e == Enum(P)
           f == [n \in 1..k |-> e[n] + d]
<1>3. /\ k \in Nat /\ Enumerates(e, k, P)
      /\ Len(Chosen(h, P)) = k /\ \A n \in 1..k : Chosen(h, P)[n] = h[e[n]]
  BY <1>2, ChosenFacts
<1>4. /\ \A n \in 1..k : e[n] \in P
      /\ \A n, m \in 1..k : n < m => e[n] < e[m]
      /\ \A i \in P : \E n \in 1..k : e[n] = i
  BY <1>3 DEF Enumerates
<1>5. (\A i \in P : i \in Nat) /\ (\A j \in Q : j \in Nat)
  BY <1>2 DEF Places
<1>6. \A j \in Q : j \in Nat
  BY <1>5
<1>7. Len(Chosen(h, P)) = k /\ \A n \in 1..k : Chosen(h, P)[n] = h[e[n]]
  BY <1>3
<1> DEFINE H == {h[i] : i \in P}
           G == {g[i] : i \in Q}
<1>8. Chosen(h, P) \in Seq(H) /\ Chosen(g, Q) \in Seq(G)
  <2>1. (\A i \in P : h[i] \in H) /\ (\A i \in Q : g[i] \in G)
    OBVIOUS
  <2> HIDE DEF H, G
  <2> QED BY <1>2, <2>1, ChosenSeq
<1> HIDE DEF H, G
<1> HIDE DEF k, e
<1>9. Enumerates(f, k, Q)
  <2>1. \A n \in 1..k : f[n] \in Q
    BY <1>4, <1>1
  <2>2. ASSUME NEW n \in 1..k, NEW m \in 1..k, n < m PROVE f[n] < f[m]
    <3>1. e[n] \in Nat /\ e[m] \in Nat /\ e[n] < e[m]
      BY <1>4, <1>5, <2>2
    <3>2. e[n] + d < e[m] + d
      BY <3>1, <1>1
    <3> QED BY <3>2
  <2>3. ASSUME NEW j \in Q PROVE \E n \in 1..k : f[n] = j
    <3>1. PICK n \in 1..k : e[n] = j - d
      BY <1>4, <1>1
    <3>2. e[n] + d = j
      BY <1>6, <1>1, <3>1
    <3> QED BY <3>2
  <2> QED BY <2>1, <2>2, <2>3 DEF Enumerates
<1>10. Len(Chosen(g, Q)) = k /\ \A n \in 1..k : Chosen(g, Q)[n] = g[f[n]]
  <2> HIDE DEF f
  <2> QED BY <1>2, <1>3, <1>9, ChosenBy
<1>11. \A n \in 1..k : g[f[n]] = h[e[n]]
  BY <1>4, <1>1
<1>12. \A n \in 1..k : Chosen(g, Q)[n] = Chosen(h, P)[n]
  BY <1>7, <1>10, <1>11
<1> HIDE DEF f
<1>13. Chosen(g, Q) = Chosen(h, P)
  BY <1>7, <1>8, <1>10, <1>12, SameEntries
<1> QED BY <1>13

(* Filtering one part after the other.                                     *)
Precede(A, B) == Places(A) /\ Places(B) /\ \A a \in A, b \in B : a < b

LEMMA ChosenInTwo ==
    ASSUME NEW A, NEW B, NEW h, Precede(A, B)
    PROVE  Chosen(h, A \cup B) = Chosen(h, A) \o Chosen(h, B)
<1>1. Places(A) /\ Places(B) /\ Places(A \cup B)
  <2>1. Places(A) /\ Places(B)
    BY DEF Precede
  <2>2. PICK N \in Nat : A \in SUBSET (1..N)
    BY <2>1 DEF Places
  <2>3. PICK M \in Nat : B \in SUBSET (1..M)
    BY <2>1 DEF Places
  <2>4. A \cup B \in SUBSET (1..(N + M)) /\ N + M \in Nat
    BY <2>2, <2>3
  <2> HIDE <2>2, <2>3
  <2> QED BY <2>1, <2>4 DEF Places
<1>2. \A a \in A, b \in B : a < b
  BY DEF Precede
<1> DEFINE k == Cardinality(A)
           l == Cardinality(B)
           e == Enum(A)
           f == Enum(B)
           g == [n \in 1..(k + l) |-> IF n <= k THEN e[n] ELSE f[n - k]]
<1>3. /\ k \in Nat /\ Enumerates(e, k, A)
      /\ \A n \in 1..k : Chosen(h, A)[n] = h[e[n]]
      /\ Len(Chosen(h, A)) = k
  BY <1>1, ChosenFacts
<1>4. /\ l \in Nat /\ Enumerates(f, l, B)
      /\ \A n \in 1..l : Chosen(h, B)[n] = h[f[n]]
      /\ Len(Chosen(h, B)) = l
  BY <1>1, ChosenFacts
<1>5. /\ \A n \in 1..k : e[n] \in A
      /\ \A n, m \in 1..k : n < m => e[n] < e[m]
      /\ \A i \in A : \E n \in 1..k : e[n] = i
  BY <1>3 DEF Enumerates
<1>6. /\ \A n \in 1..l : f[n] \in B
      /\ \A n, m \in 1..l : n < m => f[n] < f[m]
      /\ \A i \in B : \E n \in 1..l : f[n] = i
  BY <1>4 DEF Enumerates
<1>7. /\ \A n \in 1..k : Chosen(h, A)[n] = h[e[n]]
      /\ Len(Chosen(h, A)) = k
  BY <1>3
<1>8. /\ \A n \in 1..l : Chosen(h, B)[n] = h[f[n]]
      /\ Len(Chosen(h, B)) = l
  BY <1>4
<1> HIDE DEF k, l, e, f
<1>9. \A n \in 1..(k + l) : n \in Nat /\ (n <= k => n \in 1..k) /\ (~(n <= k) => n - k \in 1..l)
  BY <1>3, <1>4
<1>10. Enumerates(g, k + l, A \cup B)
  <2>1. \A n \in 1..(k + l) : g[n] \in A \cup B
    BY <1>5, <1>6, <1>9
  <2>2. ASSUME NEW n \in 1..(k + l), NEW m \in 1..(k + l), n < m PROVE g[n] < g[m]
    <3>1. CASE m <= k
      <4>1. n <= k
        BY <1>3, <1>9, <2>2, <3>1
      <4> QED BY <1>5, <1>9, <2>2, <3>1, <4>1
    <3>2. CASE ~(m <= k) /\ n <= k
      BY <1>5, <1>6, <1>9, <1>2, <3>2
    <3>3. CASE ~(m <= k) /\ ~(n <= k)
      <4>1. n - k < m - k
        BY <1>3, <1>9, <2>2
      <4>2. g[n] = f[n - k] /\ g[m] = f[m - k]
        BY <3>3
      <4> QED BY <1>6, <1>9, <3>3, <4>1, <4>2
    <3> QED BY <3>1, <3>2, <3>3
  <2>3. ASSUME NEW i \in A \cup B PROVE \E n \in 1..(k + l) : g[n] = i
    <3>1. CASE i \in A
      <4>1. PICK n \in 1..k : e[n] = i
        BY <1>5, <3>1
      <4>2. n \in 1..(k + l) /\ n <= k
        BY <1>3, <1>4
      <4> QED BY <4>1, <4>2
    <3>2. CASE i \in B
      <4>1. PICK n \in 1..l : f[n] = i
        BY <1>6, <3>2
      <4>2. n + k \in 1..(k + l) /\ ~(n + k <= k) /\ (n + k) - k = n
        BY <1>3, <1>4
      <4>3. g[n + k] = i
        BY <4>1, <4>2
      <4> QED BY <4>2, <4>3
    <3> QED BY <3>1, <3>2
  <2> QED BY <2>1, <2>2, <2>3 DEF Enumerates
<1> DEFINE s == Chosen(h, A)
           t == Chosen(h, B)
           u == Chosen(h, A \cup B)
<1>11. /\ Cardinality(A \cup B) = k + l /\ Len(u) = k + l
      /\ \A n \in 1..(k + l) : u[n] = h[g[n]]
  <2> DEFINE m == k + l
             C == A \cup B
  <2>1. m \in Nat /\ Places(C) /\ Enumerates(g, m, C)
    BY <1>1, <1>3, <1>4, <1>10
  <2> HIDE DEF g, m, C, s, t, u
  <2>2. Len(Chosen(h, C)) = m /\ \A n \in 1..m : Chosen(h, C)[n] = h[g[n]]
    BY <2>1, ChosenBy
  <2>3. Cardinality(C) = m
    BY <2>1, EnumIsUnique
  <2> QED BY <2>2, <2>3 DEF m, C, u
<1>12. \A n \in 1..(k + l) : u[n] = IF n <= k THEN s[n] ELSE t[n - k]
  BY <1>7, <1>8, <1>9, <1>11
<1> DEFINE E == {h[i] : i \in A \cup B}
<1>13. \A i \in A \cup B : h[i] \in E
  OBVIOUS
<1> HIDE DEF E
<1>14. u \in Seq(E) /\ s \in Seq(E) /\ t \in Seq(E) /\ Len(s) = k /\ Len(t) = l
  <2>1. (\A i \in A : h[i] \in E) /\ (\A i \in B : h[i] \in E)
    BY <1>13
  <2> DEFINE C == A \cup B
  <2>2. Places(C) /\ \A i \in C : h[i] \in E
    BY <1>1, <1>13
  <2> HIDE DEF C, s, t, u
  <2>3. Chosen(h, A) \in Seq(E) /\ Chosen(h, B) \in Seq(E) /\ Chosen(h, C) \in Seq(E)
    BY <1>1, <2>1, <2>2, ChosenSeq
  <2> QED BY <1>7, <1>8, <2>3 DEF s, t, u, C
<1> HIDE DEF s, t, u, g
<1>15. s \o t \in Seq(E) /\ Len(s \o t) = k + l
       /\ \A n \in 1..(k + l) : (s \o t)[n] = IF n <= k THEN s[n] ELSE t[n - k]
  BY <1>14
<1>16. u = s \o t
  <2> DEFINE w == s \o t
  <2>1. \A n \in 1..(k + l) : u[n] = w[n]
    BY <1>12, <1>15
  <2>2. w \in Seq(E) /\ Len(u) = Len(w) /\ Len(u) = k + l
    BY <1>11, <1>15
  <2> HIDE DEF w
  <2>3. \A n \in 1..Len(u) : u[n] = w[n]
    BY <2>1, <2>2
  <2>4. u = w
    BY <1>14, <2>2, <2>3, SameEntries
  <2> QED BY <2>4 DEF w
<1> QED BY <1>16 DEF s, t, u

LEMMA ChosenNone ==
    ASSUME NEW h
    PROVE  Chosen(h, {}) = <<>> /\ Cardinality({}) = 0
<1>1. Cardinality({}) = 0
  BY FS_EmptySet
<1>2. Chosen(h, {}) = [n \in 1..0 |-> h[CHOOSE i \in {} : Place({}, i) = n]]
  BY <1>1 DEF Chosen
<1> QED BY <1>1, <1>2

LEMMA ChosenOne ==
    ASSUME NEW i \in Nat \ {0}, NEW h
    PROVE  Chosen(h, {i}) = <<h[i]>> /\ Cardinality({i}) = 1
<1> DEFINE k == 1
           e == [n \in 1..k |-> i]
           P == {i}
<1>1. Enumerates(e, k, P) /\ k \in Nat
  BY DEF Enumerates
<1>2. e[k] = i /\ k \in 1..k /\ k = 1
  OBVIOUS
<1>3. Places(P)
  <2>1. P \in SUBSET (1..i) /\ i \in Nat
    OBVIOUS
  <2> HIDE DEF P
  <2> QED BY <2>1 DEF Places
<1>4. \A j \in P : h[j] \in {h[i]}
  OBVIOUS
<1> HIDE DEF e, k, P
<1>5. Cardinality(P) = k
  BY <1>1, <1>3, EnumIsUnique
<1>6. Len(Chosen(h, P)) = k /\ \A n \in 1..k : Chosen(h, P)[n] = h[e[n]]
  BY <1>1, <1>3, ChosenBy
<1>7. Chosen(h, P)[k] = h[i]
  BY <1>2, <1>6
<1>8. Chosen(h, P) \in Seq({h[i]})
  BY <1>3, <1>4, ChosenSeq
<1>9. Chosen(h, P) = <<h[i]>> /\ Cardinality(P) = 1
  BY <1>2, <1>5, <1>6, <1>7, <1>8
<1> QED BY <1>9 DEF P

(* All of a range.                                                         *)
LEMMA ChosenAll ==
    ASSUME NEW S, NEW h \in Seq(S)
    PROVE  Chosen(h, 1..Len(h)) = h /\ Cardinality(1..Len(h)) = Len(h)
<1> DEFINE n == Len(h)
           e == [i \in 1..n |-> i]
<1>1. Enumerates(e, n, 1..n) /\ n \in Nat
  BY DEF Enumerates
<1>2. \A i \in 1..n : e[i] = i
  OBVIOUS
<1>3. Places(1..n)
  BY DEF Places
<1> DEFINE P == 1..n
<1>4. Enumerates(e, n, P) /\ Places(P) /\ n \in Nat
  BY <1>1, <1>3
<1>5. \A i \in P : h[i] \in S
  OBVIOUS
<1> HIDE DEF e, n, P
<1>6. /\ Cardinality(P) = n /\ Len(Chosen(h, P)) = n
      /\ \A i \in 1..n : Chosen(h, P)[i] = h[e[i]]
  <2>1. Cardinality(P) = n
    BY <1>4, EnumIsUnique
  <2>2. Len(Chosen(h, P)) = n /\ \A i \in 1..n : Chosen(h, P)[i] = h[e[i]]
    BY <1>4, ChosenBy
  <2> QED BY <2>1, <2>2
<1>7. Chosen(h, P) \in Seq(S)
  BY <1>4, <1>5, ChosenSeq
<1>8. \A i \in 1..n : Chosen(h, P)[i] = h[i]
  BY <1>2, <1>6
<1>9. Chosen(h, P) = h
  BY <1>6, <1>7, <1>8, SameEntries DEF n
<1> QED BY <1>6, <1>9 DEF n, P

(* The entries of one kind behind a place of a history.                    *)
PlacesOf(h, from, T) == {i \in (from + 1)..Len(h) : h[i] \in T}
Picked(h, from, T) == Chosen(h, PlacesOf(h, from, T))

LEMMA PlacesOfPlaces ==
    ASSUME NEW S, NEW h \in Seq(S), NEW from \in Nat, NEW T
    PROVE  Places(PlacesOf(h, from, T))
<1>1. PlacesOf(h, from, T) \in SUBSET (1..Len(h)) /\ Len(h) \in Nat
  BY DEF PlacesOf
<1> QED BY <1>1 DEF Places

LEMMA PickedAppend ==
    ASSUME NEW S, NEW h \in Seq(S), NEW g \in Seq(S), NEW from \in 0..Len(h), NEW T
    PROVE  Picked(h \o g, from, T) = Picked(h, from, T) \o Picked(g, 0, T)
<1> DEFINE u == h \o g
           A == PlacesOf(h, from, T)
           B == PlacesOf(g, 0, T)
           C == PlacesOf(u, Len(h), T)
<1>1. /\ u \in Seq(S) /\ Len(u) = Len(h) + Len(g) /\ Len(h) \in Nat /\ Len(g) \in Nat
      /\ \A i \in 1..Len(h) : u[i] = h[i]
      /\ \A i \in 1..Len(g) : u[i + Len(h)] = g[i]
  OBVIOUS
<1>2. Places(A) /\ Places(B) /\ Places(C) /\ Places(PlacesOf(u, from, T))
  <2> HIDE DEF u
  <2> QED BY <1>1, PlacesOfPlaces
<1> HIDE DEF u
<1>3. Moves(h, A, u, A, 0)
  <2>1. \A i \in A : i \in Int /\ i + 0 = i /\ i - 0 = i /\ u[i] = h[i]
    BY <1>1 DEF PlacesOf
  <2> QED BY <1>2, <2>1 DEF Moves
<1>4. Moves(g, B, u, C, Len(h))
  <2>1. ASSUME NEW i \in B PROVE i + Len(h) \in C /\ u[i + Len(h)] = g[i]
    <3>1. i \in 1..Len(g) /\ g[i] \in T
      BY DEF PlacesOf
    <3>2. i + Len(h) \in (Len(h) + 1)..Len(u) /\ u[i + Len(h)] = g[i]
      BY <1>1, <3>1
    <3> QED BY <3>1, <3>2 DEF PlacesOf
  <2>2. ASSUME NEW j \in C PROVE j - Len(h) \in B
    <3>1. j \in (Len(h) + 1)..Len(u) /\ u[j] \in T
      BY DEF PlacesOf
    <3>2. j - Len(h) \in 1..Len(g) /\ (j - Len(h)) + Len(h) = j
      BY <1>1, <3>1
    <3>3. u[j] = g[j - Len(h)]
      BY <1>1, <3>2
    <3> QED BY <3>1, <3>2, <3>3 DEF PlacesOf
  <2>3. Len(h) \in Int
    BY <1>1
  <2> QED BY <1>2, <2>1, <2>2, <2>3 DEF Moves
<1>5. Precede(A, C)
  <2>1. \A a \in A, c \in C : a < c
    BY <1>1 DEF PlacesOf
  <2> QED BY <1>2, <2>1 DEF Precede
<1>6. PlacesOf(u, from, T) = A \cup C
  <2>1. \A i : i \in (from + 1)..Len(u) <=> i \in (from + 1)..Len(h) \/ i \in (Len(h) + 1)..Len(u)
    BY <1>1
  <2>2. \A i \in (from + 1)..Len(h) : u[i] = h[i]
    BY <1>1
  <2> QED BY <2>1, <2>2 DEF PlacesOf
<1> HIDE DEF A, B, C
<1>7. Chosen(u, A \cup C) = Chosen(u, A) \o Chosen(u, C)
  BY <1>5, ChosenInTwo
<1>8. Chosen(u, A) = Chosen(h, A) /\ Chosen(u, C) = Chosen(g, B)
  BY <1>3, <1>4, ChosenMoved
<1> QED BY <1>6, <1>7, <1>8 DEF Picked, u, A, B

LEMMA PickedNone ==
    ASSUME NEW h, NEW from, NEW T, \A i \in (from + 1)..Len(h) : h[i] \notin T
    PROVE  Picked(h, from, T) = <<>>
<1>1. PlacesOf(h, from, T) = {}
  BY DEF PlacesOf
<1> QED BY <1>1, ChosenNone DEF Picked

LEMMA PickedAll ==
    ASSUME NEW T, NEW h \in Seq(T)
    PROVE  Picked(h, 0, T) = h
<1>1. PlacesOf(h, 0, T) = 1..Len(h)
  BY DEF PlacesOf
<1> QED BY <1>1, ChosenAll DEF Picked

(* The places of a range.                                                  *)
LEMMA ChosenRange ==
    ASSUME NEW S, NEW h \in Seq(S), NEW a \in 1..(Len(h) + 1)
    PROVE  Chosen(h, a..Len(h)) = SubSeq(h, a, Len(h))
<1> DEFINE k == Len(h) - (a - 1)
           e == [n \in 1..k |-> n + (a - 1)]
           P == a..Len(h)
           s == SubSeq(h, a, Len(h))
<1>1. k \in Nat /\ a \in Nat /\ Len(h) \in Nat /\ k + (a - 1) = Len(h)
  OBVIOUS
<1>2. Places(P)
  <2>1. P \in SUBSET (1..Len(h)) /\ Len(h) \in Nat
    OBVIOUS
  <2> HIDE DEF P
  <2> QED BY <2>1 DEF Places
<1>3. Enumerates(e, k, P)
  <2>1. \A n \in 1..k : e[n] \in P
    BY <1>1
  <2>2. \A n, m \in 1..k : n < m => e[n] < e[m]
    BY <1>1
  <2>3. ASSUME NEW i \in P PROVE \E n \in 1..k : e[n] = i
    <3>1. i - (a - 1) \in 1..k /\ (i - (a - 1)) + (a - 1) = i
      BY <1>1
    <3>2. e[i - (a - 1)] = i
      BY <3>1
    <3> QED BY <3>1, <3>2
  <2> HIDE DEF e, k, P
  <2> QED BY <2>1, <2>2, <2>3 DEF Enumerates
<1>4. \A n \in 1..k : e[n] = n + (a - 1)
  OBVIOUS
<1>5. s \in Seq(S) /\ Len(s) = k /\ \A n \in 1..k : s[n] = h[n + (a - 1)]
  <2>1. s \in Seq(S) /\ Len(s) = k
    BY SubSeqProperties
  <2>2. \A n \in 1..k : s[n] = h[n + (a - 1)]
    BY <1>1, SubSeqProperties
  <2> QED BY <2>1, <2>2
<1>6. \A i \in P : h[i] \in S
  BY <1>1
<1> HIDE DEF e, k, P, s
<1>7. Len(Chosen(h, P)) = k /\ \A n \in 1..k : Chosen(h, P)[n] = h[e[n]]
  BY <1>1, <1>2, <1>3, ChosenBy
<1>8. Chosen(h, P) \in Seq(S)
  BY <1>2, <1>6, ChosenSeq
<1>9. \A n \in 1..k : Chosen(h, P)[n] = s[n]
  BY <1>4, <1>5, <1>7
<1>10. Chosen(h, P) = s
  BY <1>5, <1>7, <1>8, <1>9, SameEntries
<1> QED BY <1>10 DEF P, s

Whats == {"system", "context", "user", "ask", "tool", "reply"}
Entries == [by : Exchanges \cup {NoExchange}, what : Whats, n : Nat]

WellFormed(h) ==
    /\ h \in Seq(Entries)
    /\ \A i \in 1..Len(h) :
        /\ h[i].what = "system" <=> i = 1
        /\ h[i].what = "context" => i = 2 /\ h[i] = Context
        /\ h[i].by = NoExchange <=> h[i].what \in {"system", "context"}

Silent(x, h) == \A i \in 1..Len(h) : h[i].by # x

By(x) == {e \in Entries : e.by = x}
Tools == {e \in Entries : e.what = "tool"}

LEMMA OfIsPicked ==
    ASSUME NEW h \in Seq(Entries), NEW x
    PROVE  Of(x, h) = Picked(h, 0, By(x))
<1>1. {i \in DOMAIN h : h[i].by = x} = PlacesOf(h, 0, By(x))
  <2>1. DOMAIN h = 1..Len(h) /\ \A i \in 1..Len(h) : h[i] \in Entries
    OBVIOUS
  <2>2. \A i \in 1..Len(h) : h[i] \in By(x) <=> h[i].by = x
    BY <2>1 DEF By
  <2> QED BY <2>1, <2>2 DEF PlacesOf
<1> QED BY <1>1 DEF Of, Picked

LEMMA ToolsArePicked ==
    ASSUME NEW h \in Seq(Entries), NEW from \in Nat
    PROVE  ToolMessages(h, from) = Picked(h, from, Tools)
<1>1. {i \in (from + 1)..Len(h) : h[i].what = "tool"} = PlacesOf(h, from, Tools)
  <2>1. \A i \in (from + 1)..Len(h) : h[i] \in Entries
    OBVIOUS
  <2>2. \A i \in (from + 1)..Len(h) : h[i] \in Tools <=> h[i].what = "tool"
    BY <2>1 DEF Tools
  <2> QED BY <2>2 DEF PlacesOf
<1> QED BY <1>1 DEF ToolMessages, Picked

LEMMA OfAppend ==
    ASSUME NEW h \in Seq(Entries), NEW g \in Seq(Entries), NEW x
    PROVE  Of(x, h \o g) = Of(x, h) \o Of(x, g)
<1>1. h \o g \in Seq(Entries) /\ 0 \in 0..Len(h)
  OBVIOUS
<1>2. Picked(h \o g, 0, By(x)) = Picked(h, 0, By(x)) \o Picked(g, 0, By(x))
  BY <1>1, PickedAppend
<1>3. Of(x, h \o g) = Picked(h \o g, 0, By(x))
  <2> DEFINE u == h \o g
  <2>1. u \in Seq(Entries)
    BY <1>1
  <2> HIDE DEF u
  <2>2. Of(x, u) = Picked(u, 0, By(x))
    BY <2>1, OfIsPicked
  <2> QED BY <2>2 DEF u
<1>4. Of(x, h) = Picked(h, 0, By(x)) /\ Of(x, g) = Picked(g, 0, By(x))
  BY OfIsPicked
<1> QED BY <1>2, <1>3, <1>4

LEMMA OfOwn ==
    ASSUME NEW g \in Seq(Entries), NEW x, \A i \in 1..Len(g) : g[i].by = x
    PROVE  Of(x, g) = g
<1>1. \A i \in 1..Len(g) : g[i] \in By(x)
  BY DEF By
<1>2. g \in Seq(By(x))
  BY <1>1
<1> QED BY <1>2, PickedAll, OfIsPicked

LEMMA OfOthers ==
    ASSUME NEW g \in Seq(Entries), NEW x, Silent(x, g)
    PROVE  Of(x, g) = <<>>
<1>1. \A i \in (0 + 1)..Len(g) : g[i] \notin By(x)
  BY DEF By, Silent
<1> QED BY <1>1, PickedNone, OfIsPicked

LEMMA OfTyped ==
    ASSUME NEW g \in Seq(Entries), NEW x
    PROVE  Of(x, g) \in Seq(Entries)
<1>1. Places(PlacesOf(g, 0, By(x)))
  BY PlacesOfPlaces
<1>2. \A i \in PlacesOf(g, 0, By(x)) : g[i] \in Entries
  BY DEF PlacesOf
<1>3. Picked(g, 0, By(x)) \in Seq(Entries)
  <2> DEFINE P == PlacesOf(g, 0, By(x))
  <2>1. Places(P) /\ \A i \in P : g[i] \in Entries
    BY <1>1, <1>2
  <2> HIDE DEF P
  <2>2. Chosen(g, P) \in Seq(Entries)
    BY <2>1, ChosenSeq
  <2> QED BY <2>2 DEF P, Picked
<1> QED BY <1>3, OfIsPicked

(* What a turn pushes: its tool messages follow those there were.          *)
LEMMA ToolsAppend ==
    ASSUME NEW h \in Seq(Entries), NEW g \in Seq(Entries), NEW from \in 0..Len(h)
    PROVE  ToolMessages(h \o g, from) = ToolMessages(h, from) \o ToolMessages(g, 0)
<1>1. h \o g \in Seq(Entries) /\ from \in Nat
  OBVIOUS
<1>2. Picked(h \o g, from, Tools) = Picked(h, from, Tools) \o Picked(g, 0, Tools)
  BY PickedAppend
<1>3. ToolMessages(h \o g, from) = Picked(h \o g, from, Tools)
  <2> DEFINE u == h \o g
  <2>1. u \in Seq(Entries)
    BY <1>1
  <2> HIDE DEF u
  <2>2. ToolMessages(u, from) = Picked(u, from, Tools)
    BY <1>1, <2>1, ToolsArePicked
  <2> QED BY <2>2 DEF u
<1>4. ToolMessages(h, from) = Picked(h, from, Tools) /\ ToolMessages(g, 0) = Picked(g, 0, Tools)
  BY <1>1, ToolsArePicked
<1> QED BY <1>2, <1>3, <1>4

LEMMA NoTools ==
    ASSUME NEW h \in Seq(Entries), NEW from \in Nat,
           \A i \in (from + 1)..Len(h) : h[i].what # "tool"
    PROVE  ToolMessages(h, from) = <<>>
<1>1. \A i \in (from + 1)..Len(h) : h[i] \notin Tools
  BY DEF Tools
<1>2. Picked(h, from, Tools) = <<>>
  BY <1>1, PickedNone
<1>3. ToolMessages(h, from) = Picked(h, from, Tools)
  BY ToolsArePicked
<1> QED BY <1>2, <1>3

LEMMA Single ==
    ASSUME NEW T, NEW a \in T, NEW b \in T
    PROVE  /\ <<a>> \in Seq(T) /\ Len(<<a>>) = 1 /\ <<a, b>> \in Seq(T)
           /\ <<a>> \o <<b>> = <<a, b>>
<1> DEFINE s == <<a>>
           t == <<b>>
           u == s \o t
           v == <<a, b>>
<1>1. s \in Seq(T) /\ t \in Seq(T) /\ Len(s) = 1 /\ Len(t) = 1 /\ s[1] = a /\ t[1] = b
  OBVIOUS
<1>2. v \in Seq(T) /\ Len(v) = 2 /\ v[1] = a /\ v[2] = b
  OBVIOUS
<1> HIDE DEF s, t, v
<1>3. u \in Seq(T) /\ Len(u) = 2 /\ u[1] = s[1] /\ u[2] = t[1]
  <2>1. u \in Seq(T) /\ Len(u) = 2
    BY <1>1, ConcatProperties
  <2>2. 1 \in 1..Len(u) /\ 2 \in 1..Len(u) /\ 1 <= Len(s) /\ ~(2 <= Len(s)) /\ 2 - Len(s) = 1
    BY <1>1, <2>1
  <2>3. \A i \in 1..Len(u) : u[i] = IF i <= Len(s) THEN s[i] ELSE t[i - Len(s)]
    BY <1>1, <2>1, ConcatProperties
  <2> QED BY <2>1, <2>2, <2>3
<1> HIDE DEF u
<1>4. Len(u) = Len(v) /\ \A n \in 1..Len(u) : u[n] = v[n]
  BY <1>1, <1>2, <1>3
<1>5. u = v
  BY <1>2, <1>3, <1>4, SameEntries
<1> QED BY <1>1, <1>2, <1>5 DEF u, s, t, v

LEMMA OneTool ==
    ASSUME NEW a \in Entries, NEW b \in Entries, a.what = "tool", b.what # "tool"
    PROVE  /\ ToolMessages(<<a>>, 0) = <<a>> /\ ToolMessages(<<b>>, 0) = <<>>
           /\ ToolMessages(<<a, b>>, 0) = <<a>>
<1> DEFINE s == <<a>>
           t == <<b>>
<1>1. /\ s \in Seq(Entries) /\ t \in Seq(Entries) /\ s \in Seq(Tools)
      /\ 0 \in Nat /\ 0 \in 0..Len(s) /\ s \o t = <<a, b>>
  <2>1. a \in Tools
    BY DEF Tools
  <2>2. s \in Seq(Tools)
    BY <2>1, Single
  <2>3. s \in Seq(Entries) /\ t \in Seq(Entries)
    BY Single
  <2>4. 0 \in Nat /\ 0 \in 0..Len(s) /\ s \o t = <<a, b>>
    BY Single
  <2> QED BY <2>2, <2>3, <2>4
<1>2. \A i \in (0 + 1)..Len(t) : t[i].what # "tool"
  OBVIOUS
<1>3. s \o <<>> = s
  OBVIOUS
<1> HIDE DEF s, t
<1>4. ToolMessages(s, 0) = s
  BY <1>1, PickedAll, ToolsArePicked
<1>5. ToolMessages(t, 0) = <<>>
  BY <1>1, <1>2, NoTools
<1>6. ToolMessages(s \o t, 0) = ToolMessages(s, 0) \o ToolMessages(t, 0)
  BY <1>1, ToolsAppend
<1>7. ToolMessages(s \o t, 0) = s
  BY <1>3, <1>4, <1>5, <1>6
<1> QED BY <1>1, <1>4, <1>5, <1>7 DEF s, t

(* g is h with another beginning: its first m entries are nobody's, what   *)
(* follows is the rest of h, moved by d.                                   *)
Carried(h, g, m, d) ==
    /\ h \in Seq(Entries) /\ g \in Seq(Entries)
    /\ m \in Nat /\ d \in Int /\ Len(g) = Len(h) + d /\ m <= Len(g) /\ d <= m
    /\ \A i \in 1..m : g[i].by = NoExchange
    /\ \A i \in (m + 1)..Len(g) : g[i] = h[i - d]

EndOf(s, t) == \E k \in 0..Len(t) : s = SubSeq(t, k + 1, Len(t))

LEMMA EndOfAll ==
    ASSUME NEW S, NEW t \in Seq(S)
    PROVE  EndOf(t, t) /\ EndOf(<<>>, t)
<1>1. SubSeq(t, 0 + 1, Len(t)) = t /\ 0 \in 0..Len(t)
  BY SubSeqProperties
<1>2. SubSeq(t, Len(t) + 1, Len(t)) = <<>> /\ Len(t) \in 0..Len(t)
  BY SubSeqProperties
<1> QED BY <1>1, <1>2 DEF EndOf

LEMMA EndOfConcat ==
    ASSUME NEW S, NEW r \in Seq(S), NEW s \in Seq(S)
    PROVE  EndOf(s, r \o s)
<1> DEFINE t == r \o s
<1>1. /\ t \in Seq(S) /\ Len(t) = Len(r) + Len(s) /\ Len(r) \in 0..Len(t)
      /\ \A i \in 1..Len(s) : t[Len(r) + i] = s[i]
  OBVIOUS
<1> HIDE DEF t
<1> DEFINE u == SubSeq(t, Len(r) + 1, Len(t))
<1>2. u \in Seq(S) /\ Len(u) = Len(s) /\ \A i \in 1..Len(s) : u[i] = t[Len(r) + i]
  BY <1>1, SubSeqProperties
<1> HIDE DEF u
<1>3. u = s
  BY <1>1, <1>2, SameEntries
<1> QED BY <1>1, <1>3 DEF EndOf, u, t

LEMMA EndOfEnd ==
    ASSUME NEW S, NEW t \in Seq(S), NEW s, NEW r, EndOf(s, t), EndOf(r, s)
    PROVE  EndOf(r, t)
<1>1. PICK k \in 0..Len(t) : s = SubSeq(t, k + 1, Len(t))
  BY DEF EndOf
<1>2. s \in Seq(S) /\ Len(s) = Len(t) - k /\ \A i \in 1..Len(s) : s[i] = t[k + i]
  BY <1>1, SubSeqProperties
<1>3. PICK l \in 0..Len(s) : r = SubSeq(s, l + 1, Len(s))
  BY DEF EndOf
<1>4. r \in Seq(S) /\ Len(r) = Len(s) - l /\ \A i \in 1..Len(r) : r[i] = s[l + i]
  BY <1>2, <1>3, SubSeqProperties
<1> DEFINE u == SubSeq(t, (k + l) + 1, Len(t))
<1>5. k + l \in 0..Len(t) /\ Len(r) = Len(t) - (k + l) /\ Len(t) \in Nat
  BY <1>2, <1>4
<1>6. u \in Seq(S) /\ Len(u) = Len(t) - (k + l) /\ \A i \in 1..Len(u) : u[i] = t[(k + l) + i]
  BY <1>5, SubSeqProperties
<1>7. \A i \in 1..Len(r) : r[i] = t[(k + l) + i]
  <2> TAKE i \in 1..Len(r)
  <2>1. l + i \in 1..Len(s) /\ k + (l + i) = (k + l) + i
    BY <1>2, <1>4, <1>5
  <2> QED BY <1>2, <1>4, <2>1
<1> HIDE DEF u
<1>8. Len(u) = Len(r) /\ \A i \in 1..Len(r) : u[i] = r[i]
  BY <1>5, <1>6, <1>7
<1>9. u = r
  BY <1>4, <1>6, <1>8, SameEntries
<1> QED BY <1>5, <1>9 DEF EndOf, u

LEMMA OfCarried ==
    ASSUME NEW h, NEW g, NEW m, NEW d, Carried(h, g, m, d),
           NEW y, y # NoExchange
    PROVE  /\ EndOf(Of(y, g), Of(y, h))
           /\ (\A i \in 1..(m - d) : h[i].by # y) => Of(y, g) = Of(y, h)
<1> DEFINE T == By(y)
           A == {i \in PlacesOf(h, 0, T) : i <= m - d}
           B == {i \in PlacesOf(h, 0, T) : ~(i <= m - d)}
           C == PlacesOf(g, 0, T)
<1>1. /\ h \in Seq(Entries) /\ g \in Seq(Entries) /\ Len(h) \in Nat
      /\ m \in Nat /\ d \in Int /\ Len(g) = Len(h) + d /\ m <= Len(g) /\ d <= m
      /\ \A i \in 1..m : g[i].by = NoExchange
      /\ \A i \in (m + 1)..Len(g) : g[i] = h[i - d]
  BY DEF Carried
<1>2. Of(y, g) = Chosen(g, C) /\ Of(y, h) = Chosen(h, PlacesOf(h, 0, T))
  BY <1>1, OfIsPicked DEF Picked
<1>3. Places(PlacesOf(h, 0, T)) /\ Places(C)
  BY <1>1, PlacesOfPlaces
<1>4. Places(A) /\ Places(B)
  BY <1>3 DEF Places
<1>5. \A i \in C : i \in (m + 1)..Len(g) /\ g[i] \in T
  BY <1>1 DEF PlacesOf, By
<1>6. Moves(h, B, g, C, d)
  <2>1. ASSUME NEW i \in B PROVE i + d \in C /\ g[i + d] = h[i]
    <3>1. i \in 1..Len(h) /\ h[i] \in T /\ ~(i <= m - d)
      BY DEF PlacesOf
    <3>2. i + d \in (m + 1)..Len(g) /\ (i + d) - d = i /\ i + d \in (0 + 1)..Len(g)
      BY <1>1, <3>1
    <3>3. g[i + d] = h[i]
      BY <1>1, <3>2
    <3> QED BY <3>1, <3>2, <3>3 DEF PlacesOf
  <2>2. ASSUME NEW j \in C PROVE j - d \in B
    <3>1. j \in (m + 1)..Len(g) /\ g[j] \in T
      BY <1>5
    <3>2. j - d \in (0 + 1)..Len(h) /\ ~(j - d <= m - d) /\ g[j] = h[j - d]
      BY <1>1, <3>1
    <3> QED BY <3>1, <3>2 DEF PlacesOf
  <2> HIDE DEF B, C
  <2> QED BY <1>1, <1>3, <1>4, <2>1, <2>2 DEF Moves
<1>7. Precede(A, B)
  <2>1. \A a \in A, b \in B : a < b
    BY <1>1 DEF PlacesOf
  <2> HIDE DEF A, B
  <2> QED BY <1>4, <2>1 DEF Precede
<1>8. PlacesOf(h, 0, T) = A \cup B
  OBVIOUS
<1>9. (\A i \in 1..(m - d) : h[i].by # y) => A = {}
  BY <1>1 DEF PlacesOf, By
<1> HIDE DEF A, B, C, T
<1>10. Chosen(g, C) = Chosen(h, B)
  BY <1>6, ChosenMoved
<1>11. Chosen(h, A \cup B) = Chosen(h, A) \o Chosen(h, B)
  BY <1>7, ChosenInTwo
<1>12. Chosen(h, A) \in Seq(Entries) /\ Chosen(h, B) \in Seq(Entries)
  <2>1. (\A i \in A : h[i] \in Entries) /\ (\A i \in B : h[i] \in Entries)
    BY <1>1 DEF A, B, PlacesOf
  <2> QED BY <1>4, <2>1, ChosenSeq
<1>13. EndOf(Chosen(h, B), Chosen(h, A) \o Chosen(h, B))
  BY <1>12, EndOfConcat
<1>14. A = {} => Chosen(h, A \cup B) = Chosen(h, B)
  <2>1. A = {} => A \cup B = B
    OBVIOUS
  <2> QED BY <2>1
<1> QED BY <1>2, <1>8, <1>9, <1>10, <1>11, <1>13, <1>14

Together(h) ==
    \A i, j, k \in 1..Len(h) :
        i < j /\ j < k /\ h[i].by = h[k].by /\ h[i].by # NoExchange => h[j].by = h[i].by
Last(x, h) == \A i, j \in 1..Len(h) : i < j /\ h[i].by = x => h[j].by = x

LEMMA ShapeCarried ==
    ASSUME NEW h, NEW g, NEW m, NEW d, Carried(h, g, m, d)
    PROVE  /\ Together(h) => Together(g)
           /\ \A y : y # NoExchange /\ Last(y, h) => Last(y, g)
           /\ \A y : y # NoExchange /\ Silent(y, h) => Silent(y, g)
<1>1. /\ h \in Seq(Entries) /\ g \in Seq(Entries) /\ Len(h) \in Nat /\ Len(g) \in Nat
      /\ m \in Nat /\ d \in Int /\ Len(g) = Len(h) + d /\ m <= Len(g) /\ d <= m
      /\ \A i \in 1..m : g[i].by = NoExchange
      /\ \A i \in (m + 1)..Len(g) : g[i] = h[i - d]
  BY DEF Carried
<1>2. \A i \in 1..Len(g) : g[i].by # NoExchange => i - d \in 1..Len(h) /\ g[i] = h[i - d] /\ ~(i <= m)
  <2> TAKE i \in 1..Len(g)
  <2>1. i <= m => i \in 1..m
    OBVIOUS
  <2>2. ~(i <= m) => i \in (m + 1)..Len(g) /\ i - d \in 1..Len(h)
    BY <1>1
  <2> QED BY <1>1, <2>1, <2>2
<1>3. \A i, j \in 1..Len(g) :
        i < j /\ ~(i <= m) => ~(j <= m) /\ j - d \in 1..Len(h) /\ g[j] = h[j - d] /\ i - d < j - d
  <2> TAKE i, j \in 1..Len(g)
  <2>1. i < j /\ ~(i <= m) => j \in (m + 1)..Len(g) /\ j - d \in 1..Len(h) /\ i - d < j - d /\ ~(j <= m)
    BY <1>1
  <2> QED BY <1>1, <2>1
<1>4. ASSUME Together(h) PROVE Together(g)
  <2> SUFFICES ASSUME NEW i \in 1..Len(g), NEW j \in 1..Len(g), NEW k \in 1..Len(g),
                      i < j, j < k, g[i].by = g[k].by, g[i].by # NoExchange
               PROVE  g[j].by = g[i].by
    BY DEF Together
  <2>1. i - d \in 1..Len(h) /\ g[i] = h[i - d] /\ ~(i <= m)
    BY <1>2
  <2>2. j - d \in 1..Len(h) /\ g[j] = h[j - d] /\ i - d < j - d /\ ~(j <= m)
    BY <1>3, <2>1
  <2>3. k - d \in 1..Len(h) /\ g[k] = h[k - d] /\ j - d < k - d
    BY <1>3, <2>2
  <2> QED BY <1>4, <2>1, <2>2, <2>3 DEF Together
<1>5. ASSUME NEW y, y # NoExchange, Last(y, h) PROVE Last(y, g)
  <2> SUFFICES ASSUME NEW i \in 1..Len(g), NEW j \in 1..Len(g), i < j, g[i].by = y
               PROVE  g[j].by = y
    BY DEF Last
  <2>1. i - d \in 1..Len(h) /\ g[i] = h[i - d] /\ ~(i <= m)
    BY <1>2, <1>5
  <2>2. j - d \in 1..Len(h) /\ g[j] = h[j - d] /\ i - d < j - d
    BY <1>3, <2>1
  <2> QED BY <1>5, <2>1, <2>2 DEF Last
<1>6. ASSUME NEW y, y # NoExchange, Silent(y, h) PROVE Silent(y, g)
  BY <1>2, <1>6 DEF Silent
<1> QED BY <1>4, <1>5, <1>6

(* Appending to a history.                                                 *)
LEMMA ShapeAppend ==
    ASSUME NEW h \in Seq(Entries), NEW e \in Seq(Entries), NEW x,
           \A i \in 1..Len(e) : e[i].by = x
    PROVE  /\ \A y : y # x /\ Silent(y, h) => Silent(y, h \o e)
           /\ x # NoExchange /\ Together(h) /\ Last(x, h) => Together(h \o e)
           /\ Last(x, h) => Last(x, h \o e)
<1> DEFINE g == h \o e
<1>1. /\ g \in Seq(Entries) /\ Len(g) = Len(h) + Len(e) /\ Len(h) \in Nat /\ Len(e) \in Nat
      /\ \A i \in 1..Len(h) : g[i] = h[i]
      /\ \A i \in (Len(h) + 1)..Len(g) : g[i] = e[i - Len(h)] /\ i - Len(h) \in 1..Len(e)
  OBVIOUS
<1> HIDE DEF g
<1>2. \A i \in 1..Len(g) : (i \in 1..Len(h) /\ g[i] = h[i]) \/ (~(i <= Len(h)) /\ g[i].by = x)
  <2> TAKE i \in 1..Len(g)
  <2>1. CASE i \in 1..Len(h)
    BY <1>1, <2>1
  <2>2. CASE ~(i <= Len(h)) /\ i \in (Len(h) + 1)..Len(g)
    <3>1. i - Len(h) \in 1..Len(e) /\ g[i] = e[i - Len(h)]
      BY <1>1, <2>2
    <3>2. e[i - Len(h)].by = x
      BY <3>1
    <3>3. g[i].by = x
      BY <3>1, <3>2
    <3> QED BY <2>2, <3>3
  <2>3. i \in 1..Len(h) \/ (~(i <= Len(h)) /\ i \in (Len(h) + 1)..Len(g))
    BY <1>1
  <2> QED BY <2>1, <2>2, <2>3
<1>3. ASSUME NEW y, y # x, Silent(y, h) PROVE Silent(y, g)
  BY <1>2, <1>3 DEF Silent
<1>4. ASSUME Last(x, h) PROVE Last(x, g)
  <2> SUFFICES ASSUME NEW i \in 1..Len(g), NEW j \in 1..Len(g), i < j, g[i].by = x, g[j].by # x
               PROVE  FALSE
    BY DEF Last
  <2>1. j \in 1..Len(h) /\ g[j] = h[j]
    BY <1>2
  <2>2. i \in 1..Len(h)
    BY <1>1, <2>1
  <2>3. g[i] = h[i]
    BY <1>1, <2>2
  <2> QED BY <1>4, <2>1, <2>2, <2>3 DEF Last
<1>5. ASSUME x # NoExchange, Together(h), Last(x, h) PROVE Together(g)
  <2> SUFFICES ASSUME NEW i \in 1..Len(g), NEW j \in 1..Len(g), NEW k \in 1..Len(g),
                      i < j, j < k, g[i].by = g[k].by, g[i].by # NoExchange
               PROVE  g[j].by = g[i].by
    BY DEF Together
  <2>1. CASE g[i].by = x
    BY <1>4, <1>5, <2>1 DEF Last
  <2>2. CASE g[i].by # x
    <3>1. k \in 1..Len(h) /\ g[k] = h[k]
      BY <1>2, <2>2
    <3>2. i \in 1..Len(h) /\ j \in 1..Len(h)
      BY <1>1, <3>1
    <3>3. g[i] = h[i] /\ g[j] = h[j]
      BY <1>1, <3>2
    <3> QED BY <1>5, <3>1, <3>2, <3>3 DEF Together
  <2> QED BY <2>1, <2>2
<1> QED BY <1>3, <1>4, <1>5 DEF g

Spoken == {"user", "ask", "tool", "reply"}

LEMMA AppendOne ==
    ASSUME NEW h \in Seq(Entries), NEW e \in Entries
    PROVE  Append(h, e) = h \o <<e>>
OBVIOUS

LEMMA AppendKeepsForm ==
    ASSUME NEW h, WellFormed(h), h # <<>>, NEW e \in Seq(Entries),
           \A i \in 1..Len(e) : e[i].what \in Spoken /\ e[i].by # NoExchange
    PROVE  WellFormed(h \o e) /\ h \o e # <<>>
<1> DEFINE g == h \o e
<1>1. h \in Seq(Entries)
  BY DEF WellFormed
<1>2. /\ g \in Seq(Entries) /\ Len(g) = Len(h) + Len(e) /\ Len(h) \in Nat /\ Len(e) \in Nat
      /\ \A i \in 1..(Len(h) + Len(e)) : g[i] = IF i <= Len(h) THEN h[i] ELSE e[i - Len(h)]
  BY <1>1, ConcatProperties
<1>3. Len(h) > 0
  BY <1>1
<1> HIDE DEF g
<1>4. ASSUME NEW i \in 1..Len(g)
      PROVE  /\ g[i].what = "system" <=> i = 1
             /\ g[i].what = "context" => i = 2 /\ g[i] = Context
             /\ g[i].by = NoExchange <=> g[i].what \in {"system", "context"}
  <2>1. CASE i <= Len(h)
    <3>1. i \in 1..Len(h) /\ g[i] = h[i]
      BY <1>2, <2>1
    <3> QED BY <3>1 DEF WellFormed
  <2>2. CASE ~(i <= Len(h))
    <3>1. i - Len(h) \in 1..Len(e) /\ g[i] = e[i - Len(h)] /\ i # 1
      BY <1>2, <1>3, <2>2
    <3>2. e[i - Len(h)].what \in Spoken /\ e[i - Len(h)].by # NoExchange
      BY <3>1
    <3>3. g[i].what \in Spoken /\ g[i].by # NoExchange
      BY <3>1, <3>2
    <3> QED BY <3>1, <3>3 DEF Spoken
  <2> QED BY <2>1, <2>2
<1>5. g # <<>>
  BY <1>2, <1>3
<1>6. WellFormed(g)
  BY <1>2, <1>4 DEF WellFormed
<1> QED BY <1>5, <1>6 DEF g

(* h with another beginning.                                               *)
LEMMA Reheaded ==
    ASSUME NEW f \in Seq(Entries), NEW h \in Seq(Entries), NEW a \in 1..(Len(h) + 1)
    PROVE  LET g == f \o SubSeq(h, a, Len(h))
               d == Len(f) - (a - 1)
           IN  /\ g \in Seq(Entries) /\ Len(g) = Len(h) + d /\ d \in Int /\ d <= Len(f)
               /\ Len(f) <= Len(g) /\ Len(f) \in Nat
               /\ \A i \in 1..Len(f) : g[i] = f[i]
               /\ \A i \in (Len(f) + 1)..Len(g) : g[i] = h[i - d] /\ i - d \in a..Len(h)
<1> DEFINE s == SubSeq(h, a, Len(h))
           g == f \o s
           d == Len(f) - (a - 1)
           k == Len(h) - (a - 1)
<1>1. s \in Seq(Entries) /\ Len(s) = k /\ \A i \in 1..k : s[i] = h[(a - 1) + i]
  <2>0. a \in Nat /\ Len(h) \in Nat /\ k \in Nat
    OBVIOUS
  <2>1. s \in Seq(Entries) /\ Len(s) = k
    BY SubSeqProperties
  <2>2. \A i \in 1..k : s[i] = h[(a - 1) + i]
    BY <2>0, SubSeqProperties
  <2> QED BY <2>1, <2>2
<1>2. /\ Len(f) \in Nat /\ Len(h) \in Nat /\ a \in Nat /\ k \in Nat /\ d \in Int
      /\ d <= Len(f) /\ Len(f) + k = Len(h) + d
  OBVIOUS
<1> HIDE DEF s
<1>3. /\ g \in Seq(Entries) /\ Len(g) = Len(f) + k
      /\ \A i \in 1..(Len(f) + k) : g[i] = IF i <= Len(f) THEN f[i] ELSE s[i - Len(f)]
  <2>1. /\ f \o s \in Seq(Entries) /\ Len(f \o s) = Len(f) + Len(s)
        /\ \A i \in 1..(Len(f) + Len(s)) : (f \o s)[i] = IF i <= Len(f) THEN f[i] ELSE s[i - Len(f)]
    BY <1>1, ConcatProperties
  <2> HIDE DEF k
  <2> QED BY <1>1, <2>1
<1> HIDE DEF g
<1>4. \A i \in 1..Len(f) : g[i] = f[i]
  BY <1>2, <1>3
<1>5. ASSUME NEW i \in (Len(f) + 1)..Len(g) PROVE g[i] = h[i - d] /\ i - d \in a..Len(h)
  <2>1. i \in 1..(Len(f) + k) /\ ~(i <= Len(f)) /\ i - Len(f) \in 1..k
    BY <1>2, <1>3
  <2>2. (a - 1) + (i - Len(f)) = i - d /\ i - d \in a..Len(h)
    BY <1>2, <2>1
  <2>3. g[i] = s[i - Len(f)]
    BY <1>3, <2>1
  <2> QED BY <1>1, <2>1, <2>2, <2>3
<1>6. Len(g) = Len(h) + d /\ Len(f) <= Len(g)
  BY <1>2, <1>3
<1> HIDE DEF d
<1>7. /\ g \in Seq(Entries) /\ Len(g) = Len(h) + d /\ d \in Int /\ d <= Len(f)
      /\ Len(f) <= Len(g) /\ Len(f) \in Nat
      /\ \A i \in 1..Len(f) : g[i] = f[i]
      /\ \A i \in (Len(f) + 1)..Len(g) : g[i] = h[i - d] /\ i - d \in a..Len(h)
  BY <1>2, <1>3, <1>4, <1>5, <1>6
<1> QED BY <1>7 DEF g, s, d

Trimmed(h) == <<Head(h)>> \o SubSeq(h, Len(h) - HistoryTail + 1, Len(h))

LEMMA TrimKeepsForm ==
    ASSUME NEW h, WellFormed(h), Len(h) > HistoryCap
    PROVE  /\ WellFormed(Trimmed(h)) /\ Trimmed(h) # <<>>
           /\ \E m, d : Carried(h, Trimmed(h), m, d)
<1> DEFINE a == Len(h) - HistoryTail + 1
           f == <<Head(h)>>
           g == f \o SubSeq(h, a, Len(h))
           d == Len(f) - (a - 1)
<1>1. h \in Seq(Entries) /\ Len(h) \in Nat /\ HistoryTail \in Nat /\ HistoryTail > 0 /\ HistoryCap \in Nat
      /\ HistoryTail <= HistoryCap
  BY ConversationAssumption DEF WellFormed
<1>2. h # <<>> /\ Head(h) = h[1] /\ Head(h) \in Entries /\ 1 \in 1..Len(h)
  BY <1>1
<1>3. f \in Seq(Entries) /\ Len(f) = 1 /\ f[1] = h[1]
  BY <1>2
<1>4. a \in 1..(Len(h) + 1) /\ a \in Nat /\ a >= 2
  BY <1>1
<1> HIDE DEF f, a
<1>5. /\ g \in Seq(Entries) /\ Len(g) = Len(h) + d /\ d \in Int /\ d <= Len(f)
      /\ Len(f) <= Len(g) /\ Len(f) \in Nat
      /\ \A i \in 1..Len(f) : g[i] = f[i]
      /\ \A i \in (Len(f) + 1)..Len(g) : g[i] = h[i - d] /\ i - d \in a..Len(h)
  BY <1>1, <1>3, <1>4, Reheaded
<1>6. d <= 0 /\ d = 2 - a
  BY <1>3, <1>4
<1>7. h[1].by = NoExchange /\ h[1].what = "system"
  BY <1>2 DEF WellFormed
<1> HIDE DEF g, d
<1>8. Carried(h, g, 1, d)
  <2>1. \A i \in 1..1 : g[i].by = NoExchange
    BY <1>3, <1>5, <1>7
  <2> QED BY <1>1, <1>3, <1>5, <1>6, <2>1 DEF Carried
<1>9. ASSUME NEW i \in 1..Len(g)
      PROVE  /\ g[i].what = "system" <=> i = 1
             /\ g[i].what = "context" => i = 2 /\ g[i] = Context
             /\ g[i].by = NoExchange <=> g[i].what \in {"system", "context"}
  <2>1. CASE i = 1
    <3>1. g[i] = h[1]
      BY <1>3, <1>5, <2>1
    <3> QED BY <1>2, <2>1, <3>1 DEF WellFormed
  <2>2. CASE i # 1
    <3>1. i \in (Len(f) + 1)..Len(g)
      BY <1>3, <1>5, <2>2
    <3>2. g[i] = h[i - d] /\ i - d \in 1..Len(h) /\ i - d # 1
      BY <1>4, <1>5, <3>1
    <3>3. i - d = 2 => i = 2
      BY <1>5, <1>6, <2>2
    <3>4. /\ h[i - d].what = "system" <=> i - d = 1
          /\ h[i - d].what = "context" => i - d = 2 /\ h[i - d] = Context
          /\ h[i - d].by = NoExchange <=> h[i - d].what \in {"system", "context"}
      BY <3>2 DEF WellFormed
    <3> QED BY <2>2, <3>2, <3>3, <3>4
  <2> QED BY <2>1, <2>2
<1>10. WellFormed(g) /\ g # <<>>
  BY <1>3, <1>5, <1>9 DEF WellFormed
<1>11. g = Trimmed(h)
  BY DEF g, f, a, Trimmed
<1> QED BY <1>8, <1>10, <1>11

LEMMA ContextKeepsForm ==
    ASSUME NEW h, WellFormed(h), h # <<>>
    PROVE  /\ WellFormed(WithContext(h)) /\ WithContext(h) # <<>>
           /\ \E d \in {0, 1} : /\ Carried(h, WithContext(h), 2, d)
                                /\ \A i \in 1..(2 - d) : h[i].by = NoExchange
           /\ Len(h) >= 2 /\ h[Len(h)].what = "user" =>
                /\ Len(WithContext(h)) \in {Len(h), Len(h) + 1}
                /\ WithContext(h)[Len(WithContext(h))] = h[Len(h)]
<1> DEFINE f == <<Head(h), Context>>
           a == IF Len(h) >= 2 /\ h[2] = Context THEN 3 ELSE 2
           g == f \o SubSeq(h, a, Len(h))
           d == Len(f) - (a - 1)
           P == {i \in 2..Len(h) : h[i] # Context}
<1>1. h \in Seq(Entries) /\ Len(h) \in Nat /\ Len(h) > 0
  BY DEF WellFormed
<1>2. Head(h) = h[1] /\ Head(h) \in Entries /\ 1 \in 1..Len(h)
  BY <1>1
<1>3. Context \in Entries /\ Context.by = NoExchange /\ Context.what = "context"
  BY DEF Context, Entry, Entries, Whats
<1>4. f \in Seq(Entries) /\ Len(f) = 2 /\ f[1] = h[1] /\ f[2] = Context
  BY <1>2, <1>3
<1>5. a \in 1..(Len(h) + 1) /\ a \in {2, 3} /\ (a = 3 => Len(h) >= 2 /\ h[2] = Context)
  BY <1>1
<1>6. \A i \in 3..Len(h) : h[i] # Context
  BY <1>1, <1>3 DEF WellFormed
<1>7. P = a..Len(h)
  <2>1. CASE a = 3
    BY <1>1, <1>5, <1>6, <2>1
  <2>2. CASE a = 2
    <3>1. \A i \in 2..Len(h) : h[i] # Context
      <4> TAKE i \in 2..Len(h)
      <4>1. i = 2 => h[i] # Context
        BY <1>1, <2>2
      <4>2. i # 2 => i \in 3..Len(h)
        BY <1>1
      <4> QED BY <1>6, <4>1, <4>2
    <3> QED BY <2>2, <3>1
  <2> QED BY <1>5, <2>1, <2>2
<1>8. WithContext(h) = g
  <2>1. Chosen(h, a..Len(h)) = SubSeq(h, a, Len(h))
    <3> HIDE DEF a
    <3> QED BY <1>1, <1>5, ChosenRange
  <2> HIDE DEF a
  <2> QED BY <1>7, <2>1 DEF WithContext
<1> HIDE DEF f, a
<1>9. /\ g \in Seq(Entries) /\ Len(g) = Len(h) + d /\ d \in Int /\ d <= Len(f)
      /\ Len(f) <= Len(g) /\ Len(f) \in Nat
      /\ \A i \in 1..Len(f) : g[i] = f[i]
      /\ \A i \in (Len(f) + 1)..Len(g) : g[i] = h[i - d] /\ i - d \in a..Len(h)
  BY <1>1, <1>4, <1>5, Reheaded
<1>10. d \in {0, 1} /\ d = 3 - a
  BY <1>4, <1>5
<1>11. h[1].by = NoExchange /\ h[1].what = "system"
  BY <1>2 DEF WellFormed
<1> HIDE DEF g, d
<1>12. g[1] = h[1] /\ g[2] = Context
  BY <1>4, <1>9
<1>13. Carried(h, g, 2, d)
  <2>1. \A i \in 1..2 : i = 1 \/ i = 2
    OBVIOUS
  <2>2. \A i \in 1..2 : g[i].by = NoExchange
    BY <1>3, <1>11, <1>12, <2>1
  <2> QED BY <1>1, <1>4, <1>9, <1>10, <2>2 DEF Carried
<1>14. \A i \in 1..(2 - d) : h[i].by = NoExchange
  <2> TAKE i \in 1..(2 - d)
  <2>1. i = 1 \/ (i = 2 /\ a = 3)
    BY <1>5, <1>10
  <2> QED BY <1>3, <1>5, <1>11, <2>1
<1>15. ASSUME NEW i \in 1..Len(g)
       PROVE  /\ g[i].what = "system" <=> i = 1
              /\ g[i].what = "context" => i = 2 /\ g[i] = Context
              /\ g[i].by = NoExchange <=> g[i].what \in {"system", "context"}
  <2>1. CASE i = 1
    <3>1. g[i] = h[1]
      BY <1>12, <2>1
    <3> QED BY <1>2, <2>1, <3>1 DEF WellFormed
  <2>2. CASE i = 2
    BY <1>3, <1>12, <2>2
  <2>3. CASE i # 1 /\ i # 2
    <3>1. i \in (Len(f) + 1)..Len(g)
      BY <1>4, <1>9, <2>3
    <3>2. g[i] = h[i - d] /\ i - d \in a..Len(h)
      BY <1>9, <3>1
    <3>3. i - d \in 2..Len(h) /\ h[i - d] # Context
      BY <1>5, <1>7, <3>2
    <3>4. i - d \in 1..Len(h) /\ i - d # 1
      BY <3>3
    <3>5. /\ h[i - d].what = "system" <=> i - d = 1
          /\ h[i - d].what = "context" => i - d = 2 /\ h[i - d] = Context
          /\ h[i - d].by = NoExchange <=> h[i - d].what \in {"system", "context"}
      BY <3>4 DEF WellFormed
    <3> QED BY <2>3, <3>2, <3>3, <3>4, <3>5
  <2> QED BY <2>1, <2>2, <2>3
<1>16. WellFormed(g) /\ g # <<>>
  BY <1>4, <1>9, <1>15 DEF WellFormed
<1>17. Len(h) >= 2 /\ h[Len(h)].what = "user" =>
         Len(g) \in {Len(h), Len(h) + 1} /\ g[Len(g)] = h[Len(h)]
  <2> SUFFICES ASSUME Len(h) >= 2, h[Len(h)].what = "user"
               PROVE  Len(g) \in {Len(h), Len(h) + 1} /\ g[Len(g)] = h[Len(h)]
    OBVIOUS
  <2>1. Len(h) >= a
    BY <1>1, <1>3, <1>5
  <2>2. Len(g) \in (Len(f) + 1)..Len(g) /\ Len(g) - d = Len(h)
    BY <1>1, <1>4, <1>9, <1>10, <1>5, <2>1
  <2>3. g[Len(g)] = h[Len(g) - d]
    BY <1>9, <2>2
  <2>4. g[Len(g)] = h[Len(h)]
    BY <2>2, <2>3
  <2>5. Len(g) \in {Len(h), Len(h) + 1}
    BY <1>1, <1>9, <1>10
  <2> QED BY <2>4, <2>5
<1> QED BY <1>8, <1>10, <1>13, <1>14, <1>16, <1>17

-----------------------------------------------------------------------------
(* The inductive invariant.                                                *)

TalkTypes ==
    /\ door \in Doors /\ phase \in [Exchanges -> Phases]
    /\ before \in [Exchanges -> Exchanges \cup {NoExchange}]
    /\ queueTail \in Exchanges \cup {NoExchange}
    /\ live \in Lists \cup {NoList} /\ lists \in [AllLists -> Seq(Entries)]
    /\ held \in [Exchanges \cup Checkpoints -> Lists \cup {NoList}]
    /\ toolStart \in [Exchanges -> Nat] /\ announced \in [Exchanges -> Nat]
    /\ results \in [Exchanges -> Seq(Entries)]
    /\ step \in [Checkpoints \cup Resumes -> {"new", "saving", "saved"}]
    /\ stored \in Seq(Entries) /\ said \in [Exchanges -> Seq(Entries)]
    /\ shared \in [Exchanges -> BOOLEAN] /\ kept \in [Checkpoints -> Seq(Entries)]

(* Every history is well-formed, and those that are in use hold something. *)
Forms ==
    /\ \A l \in AllLists : WellFormed(lists[l])
    /\ WellFormed(stored)
Filled ==
    /\ live # NoList => lists[live] # <<>>
    /\ \A y \in Exchanges \cup Checkpoints : held[y] # NoList => lists[held[y]] # <<>>
    /\ \A c \in Checkpoints : step[c] = "saved" => lists[CopyOf(c)] # <<>>

(* The array of an exchange or a call is nobody's before it begins.        *)
Unused(l) == live # l /\ \A y \in Exchanges \cup Checkpoints : held[y] # l
NewUnused ==
    /\ \A x \in Exchanges : phase[x] \in {"new", "queued"} =>
         Unused(x) /\ held[x] = NoList /\ announced[x] = 0
    /\ \A c \in Checkpoints \cup Resumes : step[c] = "new" => Unused(c)

Holders ==
    /\ \A x \in Exchanges :
         phase[x] \in {"preparing", "model", "tools", "recording"}
         \/ (door = "library" /\ phase[x] = "failing") => held[x] # NoList
    /\ \A c \in Checkpoints : step[c] = "saving" => held[c] # NoList

(* Who took no array stands in none.                                       *)
NobodyElse ==
    \A x \in Exchanges : held[x] = NoList =>
        (\A l \in AllLists : Silent(x, lists[l])) /\ Silent(x, stored)

LibraryOnly == door # "library" => stored = <<>> /\ \A c \in Checkpoints \cup Resumes : step[c] = "new"

(* The queue of a channel: who is pending, one behind the other, and only  *)
(* the first of them may be under way.                                     *)
Lined(q) ==
    /\ q \in Seq(Exchanges)
    /\ \A x \in Exchanges : phase[x] \notin {"new", "over"} <=> \E i \in 1..Len(q) : q[i] = x
    /\ \A i, j \in 1..Len(q) : q[i] = q[j] => i = j
    /\ \A i \in 2..Len(q) : phase[q[i]] = "queued" /\ before[q[i]] = q[i - 1]
    /\ q # <<>> => before[q[1]] \in {NoExchange} \cup {y \in Exchanges : phase[y] = "over"}
    /\ queueTail = IF q = <<>> THEN NoExchange ELSE q[Len(q)]

QueueOK == door = "channel" => \E q : Lined(q)

(* The one that is under way stands at the end of its array, and nowhere   *)
(* else.                                                                   *)
LastOfAll(x) ==
    \A l \in AllLists : IF held[x] = l THEN Last(x, lists[l]) ELSE Silent(x, lists[l])

TogetherOK ==
    door = "channel" =>
        /\ \A l \in AllLists : Together(lists[l]) /\ \A x \in Exchanges : EndOf(Of(x, lists[l]), said[x])
        /\ \A x \in Exchanges : UnderWay(x) => LastOfAll(x)

(* A turn of the library that shares its array with no other: what stands  *)
(* behind its start are its own tool messages, one per record.             *)
OwnTools(x) == \A i \in 1..Len(said[x]) : said[x][i].what = "tool" => said[x][i].n > 0
ToolsOf(x, k) == [i \in 1..k |-> Entry(x, "tool", i)]

Alone(x) == \A y \in Exchanges \ {x} : UnderWay(y) => held[y] # held[x]

RecordsFrom(x, h, start) ==
    /\ start \in 1..Len(h)
    /\ OwnTools(x) => ToolMessages(h, start) = ToolsOf(x, announced[x])
    /\ phase[x] = "preparing" =>
         Len(h) = start /\ h[start] = Entry(x, "user", 0) /\ announced[x] = 0

RecordsOK ==
    door = "library" =>
        \A x \in Exchanges :
            /\ phase[x] # "over" => results[x] = <<>>
            /\ UnderWay(x) /\ ~ shared[x] =>
                 Alone(x) /\ RecordsFrom(x, lists[held[x]], toolStart[x])

ResultsOK ==
    door = "library" =>
        \A x \in Exchanges :
            phase[x] = "over" /\ ~ shared[x] /\ OwnTools(x) =>
                \E k \in Nat : results[x] = ToolsOf(x, k)

TalkInd ==
    /\ TalkTypes /\ Forms /\ Filled /\ CopiesFrozen /\ NewUnused /\ Holders /\ NobodyElse /\ LibraryOnly
    /\ SaysAllItSaid /\ QueueOK /\ TogetherOK /\ RecordsOK /\ ResultsOK

-----------------------------------------------------------------------------
LEMMA NamesApart ==
    /\ \A c \in Checkpoints : CopyOf(c) \in AllLists /\ CopyOf(c) \notin Lists
    /\ \A c, e \in Checkpoints : CopyOf(c) = CopyOf(e) => c = e
    /\ \A l \in Lists : l \in AllLists
    /\ NoList \notin AllLists /\ NoExchange \notin Exchanges
    /\ \A x \in Exchanges : x \in Lists /\ x \notin Checkpoints \cup Resumes
    /\ \A c \in Checkpoints \cup Resumes : c \in Lists /\ c \notin Exchanges
    /\ \A c \in Checkpoints : c \notin Resumes
<1>1. \A c \in Checkpoints : CopyOf(c) \in Checkpoints \X {"copy"} /\ CopyOf(c) \in AllLists
  BY DEF CopyOf, AllLists
<1>2. \A c, e \in Checkpoints : CopyOf(c) = CopyOf(e) => c = e
  BY DEF CopyOf
<1>3. Lists \cap (Checkpoints \X {"copy"}) = {} /\ NoList \notin Lists \cup (Checkpoints \X {"copy"})
  BY ConversationAssumption DEF Lists
<1>4. NoList \notin AllLists
  BY <1>1, <1>3 DEF AllLists
<1>5. \A l \in Lists : l \in AllLists
  BY DEF AllLists
<1>6. NoExchange \notin Exchanges /\ Exchanges \cap (Checkpoints \cup Resumes) = {}
      /\ Checkpoints \cap Resumes = {}
  BY ConversationAssumption
<1> QED BY <1>1, <1>2, <1>3, <1>4, <1>5, <1>6 DEF Lists

(* What the pushes of a turn do.                                           *)
ToolStep(x, e) ==
    \/ announced' = announced /\ ToolMessages(e, 0) = <<>>
    \/ /\ announced' = [announced EXCEPT ![x] = announced[x] + 1]
       /\ ToolMessages(e, 0) = <<Entry(x, "tool", announced[x] + 1)>>
    \/ announced' = announced /\ \E i \in 1..Len(e) : e[i].what = "tool" /\ e[i].n = 0

PushStep(x, e) ==
    /\ phase[x] \in {"model", "tools"}
    /\ \E to \in {"model", "tools", "recording"} : phase' = [phase EXCEPT ![x] = to]
    /\ e \in Seq(Entries) /\ \A i \in 1..Len(e) : e[i].by = x /\ e[i].what \in Spoken
    /\ lists' = [lists EXCEPT ![held[x]] = lists[held[x]] \o e]
    /\ said' = [said EXCEPT ![x] = said[x] \o e]
    /\ ToolStep(x, e)
    /\ UNCHANGED <<door, before, queueTail, live, held, toolStart, results, step, stored, shared, kept>>

LEMMA EntryTyped ==
    ASSUME NEW x \in Exchanges, NEW w \in Whats, NEW n \in Nat
    PROVE  /\ Entry(x, w, n) \in Entries /\ Entry(x, w, n).by = x
           /\ Entry(x, w, n).what = w /\ Entry(x, w, n).n = n
BY DEF Entry, Entries

LEMMA ModelAsksPushes ==
    ASSUME TalkTypes, NEW x \in Exchanges, ModelAsksTools(x) \/ ModelAnswers(x)
    PROVE  \E e : PushStep(x, e)
<1>1. PICK w \in {"ask", "reply"}, n \in Nat : Pushes(x, <<Entry(x, w, n)>>)
  BY DEF ModelAsksTools, ModelAnswers
<1> DEFINE a == Entry(x, w, n)
           e == <<a>>
<1>2. w \in Whats /\ w \in Spoken /\ w # "tool"
  BY DEF Whats, Spoken
<1>3. a \in Entries /\ a.by = x /\ a.what = w
  BY <1>2, EntryTyped
<1>4. Pushes(x, e)
  BY <1>1
<1> HIDE DEF a
<1>5. e \in Seq(Entries) /\ Len(e) = 1 /\ e[1] = a
  BY <1>3
<1>6. \A i \in 1..Len(e) : e[i].by = x /\ e[i].what \in Spoken /\ e[i].what # "tool"
  BY <1>2, <1>3, <1>5
<1> HIDE DEF e
<1>7. ToolMessages(e, 0) = <<>>
  <2>1. \A i \in (0 + 1)..Len(e) : e[i].what # "tool"
    BY <1>6
  <2>2. 0 \in Nat
    OBVIOUS
  <2> QED BY <1>5, <2>1, <2>2, NoTools
<1>8. PushStep(x, e)
  BY <1>4, <1>5, <1>6, <1>7 DEF ModelAsksTools, ModelAnswers, Pushes, Enters, PushStep, ToolStep,
     queueVars, checkpointVars
<1> QED BY <1>8

LEMMA ToolAnswerPushes ==
    ASSUME TalkTypes, NEW x \in Exchanges, ToolAnswered(x)
    PROVE  \E e : PushStep(x, e)
<1>1. PICK known \in BOOLEAN, cut \in BOOLEAN :
        LET n == IF known THEN announced[x] + 1 ELSE 0
            output == Entry(x, "tool", n)
        IN  /\ Pushes(x, IF cut THEN <<output, Entry(x, "reply", 0)>> ELSE <<output>>)
            /\ announced' = IF known THEN [announced EXCEPT ![x] = n] ELSE announced
            /\ Enters(x, IF cut THEN "recording" ELSE IF owing[x] = 1 THEN "model" ELSE "tools")
  BY DEF ToolAnswered
<1> DEFINE n == IF known THEN announced[x] + 1 ELSE 0
           a == Entry(x, "tool", n)
           b == Entry(x, "reply", 0)
           e == IF cut THEN <<a, b>> ELSE <<a>>
<1>2. n \in Nat /\ announced[x] \in Nat
  BY DEF TalkTypes
<1>3. a \in Entries /\ a.by = x /\ a.what = "tool" /\ a.n = n
  <2>1. "tool" \in Whats
    BY DEF Whats
  <2> HIDE DEF n
  <2> QED BY <1>2, <2>1, EntryTyped
<1>4. b \in Entries /\ b.by = x /\ b.what = "reply"
  <2>1. "reply" \in Whats /\ 0 \in Nat
    BY DEF Whats
  <2> QED BY <2>1, EntryTyped
<1>5. Pushes(x, e)
  BY <1>1
<1>6. \/ known /\ announced' = [announced EXCEPT ![x] = announced[x] + 1] /\ n = announced[x] + 1
      \/ ~known /\ announced' = announced /\ n = 0
  BY <1>1
<1>7. \E to \in {"model", "tools", "recording"} : phase' = [phase EXCEPT ![x] = to]
  BY <1>1 DEF Enters
<1>8. known => a = Entry(x, "tool", announced[x] + 1)
  OBVIOUS
<1> HIDE DEF n, a, b
<1>9. e \in Seq(Entries) /\ Len(e) \in Nat /\ 1 \in 1..Len(e) /\ e[1] = a
      /\ \A i \in 1..Len(e) : e[i] = a \/ e[i] = b
  <2>1. CASE cut
    BY <1>3, <1>4, <2>1
  <2>2. CASE ~cut
    BY <1>3, <1>4, <2>2
  <2> QED BY <2>1, <2>2
<1>10. ToolMessages(e, 0) = <<a>>
  <2>1. b.what # "tool"
    BY <1>4
  <2> QED BY <1>3, <1>4, <2>1, OneTool
<1> HIDE DEF e
<1>11. \A i \in 1..Len(e) : e[i].by = x /\ e[i].what \in Spoken
  BY <1>3, <1>4, <1>9 DEF Spoken
<1>12. ToolStep(x, e)
  <2>1. CASE known
    BY <1>6, <1>8, <1>10, <2>1 DEF ToolStep
  <2>2. CASE ~known
    BY <1>3, <1>6, <1>9, <2>2 DEF ToolStep
  <2> QED BY <2>1, <2>2
<1>13. PushStep(x, e)
  BY <1>5, <1>7, <1>9, <1>11, <1>12 DEF ToolAnswered, Pushes, PushStep, queueVars, checkpointVars
<1> QED BY <1>13

Neighbours(x, l) == {y \in Exchanges \ {x} : UnderWay(y) /\ held[y] = l}

BeginStep(x, l, h) ==
    /\ phase[x] \in {"new", "queued"}
    /\ IF door = "channel" THEN ItsTurn(x) ELSE phase[x] = "new"
    /\ \E to \in {"model", "preparing"} : phase' = [phase EXCEPT ![x] = to]
    /\ l = x \/ (l = live /\ live # NoList /\ h = lists[live])
    /\ WellFormed(h) /\ h # <<>>
    /\ \E g, m, d : /\ Carried(g, h, m, d)
                    /\ g = <<>> \/ (live # NoList /\ g = lists[live])
    /\ live' = l /\ lists' = [lists EXCEPT ![l] = h \o <<Entry(x, "user", 0)>>]
    /\ held' = [held EXCEPT ![x] = l]
    /\ toolStart' = [toolStart EXCEPT ![x] = Len(h) + 1]
    /\ said' = [said EXCEPT ![x] = <<Entry(x, "user", 0)>>]
    /\ shared' = [y \in Exchanges |-> shared[y] \/ y \in Neighbours(x, l)
                                      \/ (y = x /\ Neighbours(x, l) # {})]
    /\ UNCHANGED <<door, before, queueTail, announced, results, step, stored, kept>>

LEMMA UntouchedCarried ==
    ASSUME NEW h \in Seq(Entries)
    PROVE  Carried(h, h, 0, 0)
<1>1. \A i \in (0 + 1)..Len(h) : i - 0 = i
  OBVIOUS
<1>2. \A i \in (0 + 1)..Len(h) : h[i] = h[i - 0]
  BY <1>1
<1>3. \A i \in 1..0 : h[i].by = NoExchange
  OBVIOUS
<1>4. Len(h) = Len(h) + 0 /\ 0 <= Len(h)
  OBVIOUS
<1> QED BY <1>2, <1>3, <1>4 DEF Carried

LEMMA NewHistory ==
    /\ WellFormed(<<SystemPrompt>>) /\ <<SystemPrompt>> # <<>>
    /\ Carried(<<>>, <<SystemPrompt>>, 1, 1)
<1> DEFINE h == <<SystemPrompt>>
<1>1. SystemPrompt \in Entries /\ SystemPrompt.by = NoExchange /\ SystemPrompt.what = "system"
  BY DEF SystemPrompt, Entry, Entries, Whats
<1>2. h \in Seq(Entries) /\ Len(h) = 1 /\ h[1] = SystemPrompt /\ h # <<>>
  BY <1>1
<1>3. <<>> \in Seq(Entries) /\ Len(<<>>) = 0
  OBVIOUS
<1> HIDE DEF h
<1>4. \A i \in 1..Len(h) : i = 1 /\ h[i] = SystemPrompt
  BY <1>2
<1>5. WellFormed(h)
  BY <1>1, <1>2, <1>4 DEF WellFormed
<1>6. \A i \in 1..1 : h[i].by = NoExchange
  BY <1>1, <1>2, <1>4
<1>7. \A i \in (1 + 1)..Len(h) : h[i] = <<>>[i - 1]
  <2> SUFFICES ASSUME NEW i \in (1 + 1)..Len(h) PROVE FALSE
    OBVIOUS
  <2>1. i <= 1 /\ i >= 2
    BY <1>2
  <2> QED BY <2>1
<1>8. Carried(<<>>, h, 1, 1)
  BY <1>2, <1>3, <1>6, <1>7 DEF Carried
<1> QED BY <1>2, <1>5, <1>8 DEF h

LEMMA TurnBeginsHere ==
    ASSUME TalkTypes, Forms, Filled, NEW x \in Exchanges, TurnBegins(x)
    PROVE  \E l, h : BeginStep(x, l, h)
<1>1. PICK fresh \in BOOLEAN : TakesHistory(x, fresh)
  BY DEF TurnBegins
<1> DEFINE found == IF fresh \/ live = NoList THEN <<SystemPrompt>> ELSE lists[live]
           long == door # "library" /\ Len(found) > HistoryCap
           newest == IF long THEN Trimmed(found) ELSE found
           l == IF fresh \/ live = NoList \/ long THEN x ELSE live
           user == Entry(x, "user", 0)
<1>2. /\ live' = l /\ lists' = [lists EXCEPT ![l] = Append(newest, user)]
      /\ held' = [held EXCEPT ![x] = l]
      /\ toolStart' = [toolStart EXCEPT ![x] = Len(newest) + 1]
      /\ said' = [said EXCEPT ![x] = <<user>>]
      /\ shared' = [y \in Exchanges |-> shared[y] \/ y \in Neighbours(x, l)
                                        \/ (y = x /\ Neighbours(x, l) # {})]
      /\ kept' = kept
  BY <1>1 DEF TakesHistory, Neighbours, Trimmed
<1>3. /\ WellFormed(found) /\ found # <<>>
      /\ \E g, m, d : Carried(g, found, m, d) /\ (g = <<>> \/ (live # NoList /\ g = lists[live]))
  <2>1. CASE fresh \/ live = NoList
    BY <2>1, NewHistory
  <2>2. CASE ~(fresh \/ live = NoList)
    <3>1. live \in AllLists
      BY <2>2, NamesApart DEF TalkTypes
    <3>2. WellFormed(lists[live]) /\ lists[live] # <<>> /\ lists[live] \in Seq(Entries)
      BY <2>2, <3>1 DEF Forms, Filled, WellFormed
    <3>3. Carried(lists[live], lists[live], 0, 0)
      BY <3>2, UntouchedCarried
    <3> QED BY <2>2, <3>2, <3>3
  <2> QED BY <2>1, <2>2
<1>4. ~long => newest = found
  OBVIOUS
<1>5. long => WellFormed(newest) /\ newest # <<>> /\ \E m, d : Carried(found, newest, m, d)
  <2> SUFFICES ASSUME long PROVE WellFormed(newest) /\ newest # <<>> /\ \E m, d : Carried(found, newest, m, d)
    OBVIOUS
  <2>1. newest = Trimmed(found) /\ Len(found) > HistoryCap
    OBVIOUS
  <2> HIDE DEF found, newest
  <2> QED BY <1>3, <2>1, TrimKeepsForm
<1>6. long => found = lists[live] /\ live # NoList
  <2> SUFFICES ASSUME long, fresh \/ live = NoList PROVE FALSE
    OBVIOUS
  <2>1. Len(found) = 1
    OBVIOUS
  <2>2. HistoryCap \in Nat /\ HistoryCap >= 1
    BY ConversationAssumption
  <2> QED BY <2>1, <2>2
<1>7. /\ WellFormed(newest) /\ newest # <<>>
      /\ \E g, m, d : Carried(g, newest, m, d) /\ (g = <<>> \/ (live # NoList /\ g = lists[live]))
  <2> HIDE DEF found, newest, long
  <2>1. CASE long
    BY <1>5, <1>6, <2>1
  <2>2. CASE ~long
    BY <1>3, <1>4, <2>2
  <2> QED BY <2>1, <2>2
<1>8. l = x \/ (l = live /\ live # NoList /\ newest = lists[live])
  OBVIOUS
<1>9. Append(newest, user) = newest \o <<user>>
  <2>1. user \in Entries
    <3>1. "user" \in Whats /\ 0 \in Nat
      BY DEF Whats
    <3> QED BY <3>1, EntryTyped
  <2>2. newest \in Seq(Entries)
    BY <1>7 DEF WellFormed
  <2> HIDE DEF newest, user
  <2> QED BY <2>1, <2>2, AppendOne
<1>10. /\ phase[x] \in {"new", "queued"}
       /\ IF door = "channel" THEN ItsTurn(x) ELSE phase[x] = "new"
       /\ \E to \in {"model", "preparing"} : phase' = [phase EXCEPT ![x] = to]
       /\ UNCHANGED <<door, before, queueTail, announced, results, step, stored>>
  BY DEF TurnBegins, ItsTurn, Enters, queueVars, checkpointVars
<1> HIDE DEF found, long, newest, l
<1>11. BeginStep(x, l, newest)
  BY <1>2, <1>7, <1>8, <1>9, <1>10 DEF BeginStep
<1> QED BY <1>11

ContextStep(x) ==
    /\ phase[x] = "preparing" /\ phase' = [phase EXCEPT ![x] = "model"]
    /\ lists' = [lists EXCEPT ![held[x]] = WithContext(lists[held[x]])]
    /\ UNCHANGED <<door, before, queueTail, live, held, toolStart, announced, results, step, stored,
                   said, shared, kept>>

LEMMA DiscoveryInserts ==
    ASSUME NEW x \in Exchanges, DiscoveryAnswers(x)
    PROVE  ContextStep(x)
BY DEF DiscoveryAnswers, Enters, ContextStep, queueVars, turnState, checkpointVars, talkHistory

(* A step of exchange x that touches no array.                             *)
QuietStep(x) ==
    /\ UNCHANGED <<door, live, lists, held, toolStart, announced, step, stored, said, shared, kept>>
    /\ \/ /\ phase[x] = "new" /\ phase' = [phase EXCEPT ![x] = "queued"] /\ door = "channel"
          /\ before' = [before EXCEPT ![x] = queueTail] /\ queueTail' = x /\ results' = results
       \/ /\ ItsTurn(x) /\ phase' = [phase EXCEPT ![x] = "failing"]
          /\ UNCHANGED <<before, queueTail, results>>
       \/ /\ phase[x] \in {"preparing", "model"}
          /\ \E to \in {"model", "recording", "failing"} : phase' = [phase EXCEPT ![x] = to]
          /\ UNCHANGED <<before, queueTail, results>>
       \/ /\ phase[x] \in {"recording", "failing"} /\ phase' = [phase EXCEPT ![x] = "over"]
          /\ before' = before /\ queueTail' = IF queueTail = x THEN NoExchange ELSE queueTail
          /\ IF door = "library" /\ phase[x] = "recording"
             THEN results' = [results EXCEPT ![x] = Attached(x)]
             ELSE results' = results

LEMMA QuietActions ==
    ASSUME NEW x \in Exchanges,
           \/ MessageArrives(x) \/ MessageRefused(x) \/ DiscoverySkipped(x) \/ LoopsUsedUp(x)
           \/ ModelThrows(x) \/ TurnReturns(x) \/ TurnFails(x)
    PROVE  QuietStep(x)
<1>1. CASE MessageArrives(x)
  BY <1>1 DEF MessageArrives, Enters, QuietStep, historyVars, turnState, checkpointVars, talkHistory
<1>2. CASE MessageRefused(x)
  BY <1>2 DEF MessageRefused, Enters, QuietStep, queueVars, historyVars, turnState, checkpointVars, talkHistory
<1>3. CASE DiscoverySkipped(x) \/ LoopsUsedUp(x) \/ ModelThrows(x)
  BY <1>3 DEF DiscoverySkipped, LoopsUsedUp, ModelThrows, Enters, QuietStep, queueVars, historyVars,
     turnState, checkpointVars, talkHistory
<1>4. CASE TurnReturns(x)
  BY <1>4 DEF TurnReturns, LeavesQueue, Enters, QuietStep, historyVars, checkpointVars, talkHistory
<1>5. CASE TurnFails(x)
  BY <1>5 DEF TurnFails, LeavesQueue, Enters, QuietStep, historyVars, turnState, checkpointVars, talkHistory
<1> QED BY <1>1, <1>2, <1>3, <1>4, <1>5

(* The queue: who has the turn, and who is under way, is the first.        *)
LEMMA FirstInLine ==
    ASSUME TalkTypes, NEW q, Lined(q), NEW x \in Exchanges, UnderWay(x) \/ ItsTurn(x)
    PROVE  1 \in 1..Len(q) /\ q[1] = x /\ \A i \in 2..Len(q) : q[i] # x
<1>1. /\ q \in Seq(Exchanges) /\ Len(q) \in Nat
      /\ \A i \in 2..Len(q) : phase[q[i]] = "queued" /\ before[q[i]] = q[i - 1]
      /\ \A y \in Exchanges : phase[y] \notin {"new", "over"} <=> \E i \in 1..Len(q) : q[i] = y
  BY DEF Lined
<1>2. PICK k \in 1..Len(q) : q[k] = x
  BY <1>1 DEF UnderWay, ItsTurn
<1>3. ASSUME NEW i \in 2..Len(q) PROVE q[i] # x
  <2>1. CASE UnderWay(x)
    BY <1>1, <2>1 DEF UnderWay
  <2>2. CASE ItsTurn(x)
    <3>1. i - 1 \in 1..Len(q) /\ q[i - 1] \in Exchanges
      BY <1>1
    <3>2. q[i - 1] # NoExchange /\ phase[q[i - 1]] # "over"
      BY <1>1, <3>1, ConversationAssumption
    <3> QED BY <1>1, <2>2, <3>2 DEF ItsTurn
  <2> QED BY <2>1, <2>2
<1>4. k = 1
  BY <1>1, <1>2, <1>3
<1> QED BY <1>2, <1>3, <1>4

LEMMA OneUnderWay ==
    ASSUME TalkTypes, QueueOK, door = "channel",
           NEW x \in Exchanges, UnderWay(x) \/ ItsTurn(x),
           NEW y \in Exchanges, UnderWay(y) \/ ItsTurn(y)
    PROVE  y = x
<1>1. PICK q : Lined(q)
  BY DEF QueueOK
<1> QED BY <1>1, FirstInLine

(* The first in the line goes on with its turn.                            *)
LEMMA LineKept ==
    ASSUME TalkTypes, QueueOK, NEW x \in Exchanges, UnderWay(x) \/ ItsTurn(x),
           NEW to \in {"preparing", "model", "tools", "recording", "failing"},
           phase' = [phase EXCEPT ![x] = to], UNCHANGED <<door, before, queueTail>>
    PROVE  QueueOK'
<1> SUFFICES ASSUME door = "channel" PROVE \E q : Lined(q)'
  BY DEF QueueOK
<1>1. PICK q : Lined(q)
  BY DEF QueueOK
<1>2. \A i \in 2..Len(q) : q[i] # x
  BY <1>1, FirstInLine
<1>3. phase[x] \notin {"new", "over"}
  BY DEF UnderWay, ItsTurn
<1>4. phase'[x] = to /\ \A y \in Exchanges : y # x => phase'[y] = phase[y]
  BY DEF TalkTypes
<1>5. /\ q \in Seq(Exchanges) /\ Len(q) \in Nat
      /\ \A y \in Exchanges : phase[y] \notin {"new", "over"} <=> \E i \in 1..Len(q) : q[i] = y
      /\ \A i, j \in 1..Len(q) : q[i] = q[j] => i = j
      /\ \A i \in 2..Len(q) : phase[q[i]] = "queued" /\ before[q[i]] = q[i - 1]
      /\ q # <<>> => before[q[1]] \in {NoExchange} \cup {y \in Exchanges : phase[y] = "over"}
      /\ queueTail = IF q = <<>> THEN NoExchange ELSE q[Len(q)]
  BY <1>1 DEF Lined
<1>6. \A y \in Exchanges : phase'[y] \notin {"new", "over"} <=> \E i \in 1..Len(q) : q[i] = y
  BY <1>3, <1>4, <1>5
<1>7. \A i \in 2..Len(q) : phase'[q[i]] = "queued" /\ before'[q[i]] = q[i - 1]
  <2> TAKE i \in 2..Len(q)
  <2>1. q[i] \in Exchanges /\ q[i] # x
    BY <1>2, <1>5
  <2> QED BY <1>4, <1>5, <2>1
<1>8. {y \in Exchanges : phase'[y] = "over"} = {y \in Exchanges : phase[y] = "over"}
  BY <1>3, <1>4
<1>9. Lined(q)'
  BY <1>5, <1>6, <1>7, <1>8 DEF Lined
<1> QED BY <1>9

LEMMA ToolsOfMore ==
    ASSUME NEW x \in Exchanges, NEW k \in Nat
    PROVE  /\ ToolsOf(x, 0) = <<>> /\ ToolsOf(x, k) \in Seq(Entries)
           /\ ToolsOf(x, k) \o <<Entry(x, "tool", k + 1)>> = ToolsOf(x, k + 1)
<1>1. "tool" \in Whats
  BY DEF Whats
<1>2. ASSUME NEW n \in Nat PROVE ToolsOf(x, n) \in Seq(Entries) /\ Len(ToolsOf(x, n)) = n
                                /\ \A i \in 1..n : ToolsOf(x, n)[i] = Entry(x, "tool", i)
  <2>1. \A i \in 1..n : Entry(x, "tool", i) \in Entries
    BY <1>1, EntryTyped
  <2> QED BY <2>1 DEF ToolsOf
<1> DEFINE a == Entry(x, "tool", k + 1)
           s == ToolsOf(x, k)
           t == <<a>>
           u == s \o t
           v == ToolsOf(x, k + 1)
<1>3. a \in Entries
  BY <1>1, EntryTyped
<1>4. t \in Seq(Entries) /\ Len(t) = 1 /\ t[1] = a
  BY <1>3
<1>5. s \in Seq(Entries) /\ Len(s) = k /\ \A i \in 1..k : s[i] = Entry(x, "tool", i)
  BY <1>2
<1>6. v \in Seq(Entries) /\ Len(v) = k + 1 /\ \A i \in 1..(k + 1) : v[i] = Entry(x, "tool", i)
  BY <1>2
<1> HIDE DEF s, t, v
<1>7. u \in Seq(Entries) /\ Len(u) = k + 1 /\ \A i \in 1..(k + 1) : u[i] = IF i <= k THEN s[i] ELSE t[i - k]
  BY <1>4, <1>5, ConcatProperties
<1> HIDE DEF u
<1>8. \A i \in 1..(k + 1) : u[i] = Entry(x, "tool", i)
  <2> TAKE i \in 1..(k + 1)
  <2>1. CASE i <= k
    BY <1>5, <1>7, <2>1
  <2>2. CASE i = k + 1
    <3>1. i - k = 1 /\ ~(i <= k)
      BY <2>2
    <3> QED BY <1>4, <1>7, <2>2, <3>1
  <2> QED BY <2>1, <2>2
<1>9. u = v
  <2>1. Len(u) = Len(v) /\ \A n \in 1..Len(u) : u[n] = v[n]
    BY <1>6, <1>7, <1>8
  <2> QED BY <1>6, <1>7, <2>1, SameEntries
<1>10. ToolsOf(x, 0) = <<>>
  BY DEF ToolsOf
<1> QED BY <1>5, <1>9, <1>10 DEF u, v, s, t

(* A step of a turn's loop keeps the invariant.                            *)
LEMMA PushKeeps ==
    ASSUME TalkInd, NEW x \in Exchanges, NEW e, PushStep(x, e)
    PROVE  TalkInd'
<1> DEFINE l == held[x]
           h == lists[l]
           g == h \o e
<1>1. /\ TalkTypes /\ Forms /\ Filled /\ CopiesFrozen /\ NewUnused /\ Holders /\ NobodyElse /\ LibraryOnly
      /\ SaysAllItSaid /\ QueueOK /\ TogetherOK /\ RecordsOK /\ ResultsOK
  BY DEF TalkInd
<1>2. /\ x \in Exchanges /\ phase[x] \in {"model", "tools"} /\ UnderWay(x)
      /\ e \in Seq(Entries) /\ \A i \in 1..Len(e) : e[i].by = x /\ e[i].what \in Spoken
      /\ UNCHANGED <<door, before, queueTail, live, held, toolStart, results, step, stored, shared, kept>>
  BY DEF PushStep, UnderWay
<1>3. x # NoExchange
  BY NamesApart
<1>4. l \in Lists /\ l \in AllLists /\ l # NoList
  BY <1>1, <1>2, NamesApart DEF Holders, TalkTypes
<1>5. h \in Seq(Entries) /\ h # <<>> /\ WellFormed(h)
  BY <1>1, <1>4 DEF Forms, Filled, TalkTypes
<1>6. g \in Seq(Entries) /\ Len(g) = Len(h) + Len(e) /\ Len(h) \in Nat /\ Len(e) \in Nat
      /\ \A i \in 1..Len(h) : g[i] = h[i]
  BY <1>2, <1>5
<1>7. lists' = [lists EXCEPT ![l] = g] /\ said' = [said EXCEPT ![x] = said[x] \o e]
  BY DEF PushStep
<1>8. PICK to \in {"model", "tools", "recording"} : phase' = [phase EXCEPT ![x] = to]
  BY DEF PushStep
<1>9. ToolStep(x, e)
  BY DEF PushStep
<1> HIDE DEF l, h, g
<1>10. \A k \in AllLists : lists'[k] = IF k = l THEN g ELSE lists[k]
  BY <1>1, <1>7 DEF TalkTypes
<1>11. \A y \in Exchanges : said'[y] = IF y = x THEN said[x] \o e ELSE said[y]
  BY <1>1, <1>7 DEF TalkTypes
<1>12. \A y \in Exchanges : phase'[y] = IF y = x THEN to ELSE phase[y]
  BY <1>1, <1>8 DEF TalkTypes
<1>13. announced' = announced \/ announced' = [announced EXCEPT ![x] = announced[x] + 1]
  BY <1>9 DEF ToolStep
<1>14. announced \in [Exchanges -> Nat] /\ announced[x] + 1 \in Nat
  BY <1>1 DEF TalkTypes
<1>15. \A y \in Exchanges \ {x} : announced'[y] = announced[y]
  BY <1>13, <1>14
<1>16. announced' \in [Exchanges -> Nat]
  <2>1. CASE announced' = announced
    BY <1>14, <2>1
  <2>2. CASE announced' = [announced EXCEPT ![x] = announced[x] + 1]
    BY <1>14, <2>2
  <2> QED BY <1>13, <2>1, <2>2
<1>17. said[x] \in Seq(Entries) /\ said[x] \o e \in Seq(Entries)
  BY <1>1, <1>2 DEF TalkTypes
<1>18. WellFormed(g) /\ g # <<>>
  <2>1. \A i \in 1..Len(e) : e[i].what \in Spoken /\ e[i].by # NoExchange
    BY <1>2, <1>3
  <2> QED BY <1>2, <1>5, <2>1, AppendKeepsForm DEF g
<1>19. \A y \in Exchanges : UnderWay(y)' <=> UnderWay(y)
  BY <1>2, <1>12 DEF UnderWay
<1>20. Of(x, e) = e /\ \A y : y # x => Of(y, e) = <<>>
  <2>1. Of(x, e) = e
    BY <1>2, OfOwn
  <2>2. ASSUME NEW y, y # x PROVE Of(y, e) = <<>>
    <3>1. Silent(y, e)
      BY <1>2, <2>2 DEF Silent
    <3> QED BY <1>2, <3>1, OfOthers
  <2> QED BY <2>1, <2>2
<1>21. Of(x, g) = Of(x, h) \o e /\ \A y : y # x => Of(y, g) = Of(y, h)
  <2>1. \A y : Of(y, g) = Of(y, h) \o Of(y, e) /\ Of(y, h) \in Seq(Entries)
    BY <1>2, <1>5, OfAppend, OfTyped DEF g
  <2>2. \A y : Of(y, h) \o <<>> = Of(y, h)
    BY <2>1
  <2> QED BY <1>20, <2>1, <2>2
<1>22. TalkTypes'
  <2>1. lists' \in [AllLists -> Seq(Entries)]
    BY <1>1, <1>6, <1>7 DEF TalkTypes
  <2>2. said' \in [Exchanges -> Seq(Entries)]
    BY <1>1, <1>7, <1>17 DEF TalkTypes
  <2>3. phase' \in [Exchanges -> Phases]
    BY <1>1, <1>8 DEF TalkTypes, Phases
  <2> QED BY <1>1, <1>2, <1>16, <2>1, <2>2, <2>3 DEF TalkTypes
<1>23. Forms'
  BY <1>1, <1>2, <1>10, <1>18 DEF Forms
<1>24. Filled'
  <2>1. \A k \in AllLists : lists[k] # <<>> => lists'[k] # <<>>
    BY <1>10, <1>18
  <2>2. live \in AllLists \cup {NoList} /\ \A y \in Exchanges \cup Checkpoints : held[y] \in AllLists \cup {NoList}
    BY <1>1, NamesApart DEF TalkTypes
  <2>3. \A c \in Checkpoints : CopyOf(c) \in AllLists
    BY NamesApart
  <2> QED BY <1>1, <1>2, <2>1, <2>2, <2>3 DEF Filled
<1>25. CopiesFrozen'
  <2>1. \A c \in Checkpoints : CopyOf(c) \in AllLists /\ CopyOf(c) # l
    BY <1>4, NamesApart
  <2> QED BY <1>1, <1>2, <1>10, <2>1 DEF CopiesFrozen
<1>26. NewUnused'
  BY <1>1, <1>2, <1>12, <1>15 DEF NewUnused, Unused
<1>27. Holders'
  BY <1>1, <1>2, <1>12 DEF Holders
<1>28. NobodyElse'
  <2> SUFFICES ASSUME NEW y \in Exchanges, held[y] = NoList
               PROVE  (\A k \in AllLists : Silent(y, lists'[k])) /\ Silent(y, stored)
    BY <1>2 DEF NobodyElse, Silent
  <2>1. y # x
    BY <1>4 DEF l
  <2>2. Silent(y, g)
    <3>1. Silent(y, h)
      BY <1>1, <1>4 DEF NobodyElse, h
    <3> QED BY <1>2, <1>5, <2>1, <3>1, ShapeAppend DEF g
  <2> QED BY <1>1, <1>10, <2>2 DEF NobodyElse
<1>29. LibraryOnly'
  BY <1>1, <1>2 DEF LibraryOnly
<1>30. SaysAllItSaid'
  <2> SUFFICES ASSUME NEW y \in Exchanges, held[y] # NoList PROVE Of(y, lists'[held[y]]) = said'[y]
    BY <1>2 DEF SaysAllItSaid
  <2>1. held[y] \in AllLists /\ Of(y, lists[held[y]]) = said[y]
    BY <1>1, NamesApart DEF SaysAllItSaid, TalkTypes
  <2>2. CASE held[y] = l
    BY <1>10, <1>11, <1>21, <2>1, <2>2 DEF h
  <2>3. CASE held[y] # l
    BY <1>10, <1>11, <2>1, <2>3 DEF l
  <2> QED BY <2>2, <2>3
<1>31. QueueOK'
  BY <1>1, <1>2, <1>8, LineKept
<1>32. TogetherOK'
  <2> SUFFICES ASSUME door = "channel"
               PROVE  /\ \A k \in AllLists : /\ Together(lists'[k])
                                              /\ \A y \in Exchanges : EndOf(Of(y, lists'[k]), said'[y])
                      /\ \A y \in Exchanges : UnderWay(y) =>
                           \A k \in AllLists : IF held[y] = k THEN Last(y, lists'[k]) ELSE Silent(y, lists'[k])
    BY <1>2, <1>19 DEF TogetherOK, LastOfAll
  <2>1. /\ Last(x, h) /\ Together(h)
        /\ \A k \in AllLists : k # l => Silent(x, lists[k])
    BY <1>1, <1>2, <1>4 DEF TogetherOK, LastOfAll, l, h
  <2>2. Together(g) /\ Last(x, g)
    BY <1>2, <1>3, <1>5, <2>1, ShapeAppend DEF g
  <2>3. \A k \in AllLists : Together(lists'[k])
    BY <1>1, <1>10, <2>2 DEF TogetherOK
  <2>4. ASSUME NEW k \in AllLists, NEW y \in Exchanges PROVE EndOf(Of(y, lists'[k]), said'[y])
    <3>1. CASE y # x
      <4>1. EndOf(Of(y, lists[k]), said[y])
        BY <1>1 DEF TogetherOK
      <4>2. Of(y, lists'[k]) = Of(y, lists[k])
        BY <1>10, <1>21, <3>1 DEF h
      <4> QED BY <1>11, <3>1, <4>1, <4>2
    <3>2. CASE y = x /\ k = l
      <4>1. Of(x, lists'[l]) = said'[x]
        BY <1>4, <1>2, <1>30 DEF SaysAllItSaid, l
      <4>2. said'[x] \in Seq(Entries)
        BY <1>11, <1>17
      <4> QED BY <3>2, <4>1, <4>2, EndOfAll
    <3>3. CASE y = x /\ k # l
      <4>1. Of(x, lists'[k]) = <<>>
        BY <1>1, <1>10, <2>1, <3>3, OfOthers DEF TalkTypes
      <4>2. said'[x] \in Seq(Entries)
        BY <1>11, <1>17
      <4> QED BY <3>3, <4>1, <4>2, EndOfAll
    <3> QED BY <3>1, <3>2, <3>3
  <2>5. ASSUME NEW y \in Exchanges, UnderWay(y), NEW k \in AllLists
        PROVE  IF held[y] = k THEN Last(y, lists'[k]) ELSE Silent(y, lists'[k])
    <3>1. y = x
      BY <1>1, <1>2, <2>5, OneUnderWay
    <3> QED BY <1>10, <2>1, <2>2, <3>1 DEF l
  <2> QED BY <2>3, <2>4, <2>5
<1>33. \A y \in Exchanges : OwnTools(y)' => OwnTools(y)
  <2> SUFFICES ASSUME NEW y \in Exchanges, OwnTools(y)', NEW i \in 1..Len(said[y]), said[y][i].what = "tool"
               PROVE  said[y][i].n > 0
    BY DEF OwnTools
  <2>1. i \in 1..Len(said'[y]) /\ said'[y][i] = said[y][i]
    <3>1. y = x => i \in 1..Len(said[x] \o e) /\ (said[x] \o e)[i] = said[x][i]
      BY <1>2, <1>17
    <3> QED BY <1>11, <3>1
  <2> QED BY <2>1 DEF OwnTools
<1>34. OwnTools(x)' => \A i \in 1..Len(e) : e[i].what = "tool" => e[i].n > 0
  <2> SUFFICES ASSUME OwnTools(x)', NEW i \in 1..Len(e), e[i].what = "tool"
               PROVE  e[i].n > 0
    OBVIOUS
  <2>1. Len(said[x]) + i \in 1..Len(said'[x]) /\ said'[x][Len(said[x]) + i] = e[i]
    <3>1. Len(said[x]) + i \in 1..Len(said[x] \o e) /\ (said[x] \o e)[Len(said[x]) + i] = e[i]
      BY <1>2, <1>17
    <3> QED BY <1>11, <3>1
  <2> QED BY <2>1 DEF OwnTools
<1>35. RecordsOK'
  <2> SUFFICES ASSUME door = "library", NEW y \in Exchanges
               PROVE  /\ phase'[y] # "over" => results[y] = <<>>
                      /\ UnderWay(y) /\ ~ shared[y] =>
                           Alone(y)' /\ RecordsFrom(y, lists[held[y]], toolStart[y])'
    BY <1>2, <1>19 DEF RecordsOK
  <2>1. phase'[y] # "over" => results[y] = <<>>
    BY <1>1, <1>2, <1>12 DEF RecordsOK
  <2> SUFFICES ASSUME UnderWay(y), ~ shared[y]
               PROVE  Alone(y)' /\ RecordsFrom(y, lists[held[y]], toolStart[y])'
    BY <2>1
  <2>2. Alone(y) /\ RecordsFrom(y, lists[held[y]], toolStart[y])
    BY <1>1 DEF RecordsOK
  <2>3. Alone(y)'
    BY <1>2, <1>19, <2>2 DEF Alone
  <2>4. CASE y # x
    <3>1. held[y] # l /\ held[y] \in Lists \cup {NoList}
      BY <1>1, <1>2, <2>2, <2>4 DEF Alone, l, TalkTypes
    <3>2. held[y] # NoList => lists'[held[y]] = lists[held[y]]
      BY <1>10, <3>1, NamesApart
    <3>3. lists'[held[y]] = lists[held[y]]
      BY <1>1, <1>7, <3>1 DEF TalkTypes
    <3>4. phase'[y] = phase[y] /\ announced'[y] = announced[y] /\ toolStart'[y] = toolStart[y] /\ held'[y] = held[y]
      BY <1>2, <1>12, <1>15, <2>4
    <3>5. lists'[held'[y]] = lists[held[y]]
      BY <3>3, <3>4
    <3> QED BY <1>33, <2>2, <2>3, <3>4, <3>5 DEF RecordsFrom
  <2>5. CASE y = x
    <3> DEFINE s == toolStart[x]
               m == announced[x]
    <3>1. s \in 1..Len(h) /\ (OwnTools(x) => ToolMessages(h, s) = ToolsOf(x, m)) /\ m \in Nat
      BY <1>1, <2>2, <2>5 DEF RecordsFrom, h, l, TalkTypes
    <3>2. s \in 0..Len(h) /\ s \in 1..Len(g)
      BY <1>6, <3>1
    <3>3. ToolMessages(g, s) = ToolMessages(h, s) \o ToolMessages(e, 0)
      <4> HIDE DEF s
      <4> QED BY <1>2, <1>5, <3>2, ToolsAppend DEF g
    <3>4. OwnTools(x)' => ToolMessages(g, s) = ToolsOf(x, announced'[x])
      <4> SUFFICES ASSUME OwnTools(x)' PROVE ToolMessages(g, s) = ToolsOf(x, announced'[x])
        OBVIOUS
      <4>1. ToolMessages(h, s) = ToolsOf(x, m)
        BY <1>33, <3>1
      <4>2. CASE announced' = announced /\ ToolMessages(e, 0) = <<>>
        <5>1. ToolsOf(x, m) \in Seq(Entries)
          BY <3>1, ToolsOfMore
        <5>2. ToolsOf(x, m) \o <<>> = ToolsOf(x, m)
          BY <5>1
        <5> QED BY <3>3, <4>1, <4>2, <5>2
      <4>3. CASE /\ announced' = [announced EXCEPT ![x] = announced[x] + 1]
                 /\ ToolMessages(e, 0) = <<Entry(x, "tool", announced[x] + 1)>>
        <5>1. announced'[x] = m + 1
          BY <1>1, <4>3 DEF TalkTypes
        <5>2. ToolsOf(x, m) \o <<Entry(x, "tool", m + 1)>> = ToolsOf(x, m + 1)
          BY <3>1, ToolsOfMore
        <5> QED BY <3>3, <4>1, <4>3, <5>1, <5>2
      <4>4. CASE announced' = announced /\ \E i \in 1..Len(e) : e[i].what = "tool" /\ e[i].n = 0
        BY <1>34, <4>4
      <4> QED BY <1>9, <4>2, <4>3, <4>4 DEF ToolStep
    <3>5. phase'[x] # "preparing" /\ lists'[held'[x]] = g /\ toolStart'[x] = s
      BY <1>2, <1>4, <1>10, <1>12 DEF l
    <3> HIDE DEF s, m
    <3>6. /\ toolStart'[x] \in 1..Len(lists'[held'[x]])
          /\ OwnTools(x)' => ToolMessages(lists'[held'[x]], toolStart'[x]) = ToolsOf(x, announced'[x])
      BY <3>2, <3>4, <3>5
    <3>7. RecordsFrom(x, lists[held[x]], toolStart[x])'
      BY <3>5, <3>6 DEF RecordsFrom
    <3> QED BY <2>3, <2>5, <3>7
  <2> QED BY <2>4, <2>5
<1>36. ResultsOK'
  <2> SUFFICES ASSUME door = "library", NEW y \in Exchanges, phase'[y] = "over", ~ shared[y], OwnTools(y)'
               PROVE  \E k \in Nat : results[y] = ToolsOf(y, k)
    BY <1>2 DEF ResultsOK, ToolsOf, Entry
  <2>1. phase[y] = "over"
    BY <1>12
  <2> QED BY <1>1, <1>33, <2>1 DEF ResultsOK
<1> QED BY <1>22, <1>23, <1>24, <1>25, <1>26, <1>27, <1>28, <1>29, <1>30, <1>31, <1>32, <1>35, <1>36
    DEF TalkInd

(* The beginning of a turn keeps the invariant.                            *)
LEMMA BeginKeeps ==
    ASSUME TalkInd, NEW x \in Exchanges, NEW l, NEW h, BeginStep(x, l, h)
    PROVE  TalkInd'
<1> DEFINE u == <<Entry(x, "user", 0)>>
           g == h \o u
           others == Neighbours(x, l)
<1>1. /\ TalkTypes /\ Forms /\ Filled /\ CopiesFrozen /\ NewUnused /\ Holders /\ NobodyElse /\ LibraryOnly
      /\ SaysAllItSaid /\ QueueOK /\ TogetherOK /\ RecordsOK /\ ResultsOK
  BY DEF TalkInd
<1>2. /\ phase[x] \in {"new", "queued"} /\ (door = "channel" => ItsTurn(x))
      /\ WellFormed(h) /\ h \in Seq(Entries) /\ h # <<>> /\ live' = l
      /\ UNCHANGED <<door, before, queueTail, announced, results, step, stored, kept>>
  BY DEF BeginStep, WellFormed
<1>3. x # NoExchange /\ x \in Lists
  BY NamesApart
<1>4. l = x \/ (l = live /\ live # NoList /\ h = lists[live])
  BY DEF BeginStep
<1>5. l \in Lists /\ l \in AllLists /\ l # NoList
  BY <1>1, <1>3, <1>4, NamesApart DEF TalkTypes
<1>6. Unused(x) /\ held[x] = NoList /\ announced[x] = 0
  BY <1>1, <1>2 DEF NewUnused
<1>7. PICK f, m, d : Carried(f, h, m, d) /\ (f = <<>> \/ (live # NoList /\ f = lists[live]))
  BY DEF BeginStep
<1>8. PICK to \in {"model", "preparing"} : phase' = [phase EXCEPT ![x] = to]
  BY DEF BeginStep
<1>9. Entry(x, "user", 0) \in Entries /\ Entry(x, "user", 0).by = x /\ Entry(x, "user", 0).what = "user"
  <2>1. "user" \in Whats /\ 0 \in Nat
    BY DEF Whats
  <2> QED BY <2>1, EntryTyped
<1>10. u \in Seq(Entries) /\ Len(u) = 1 /\ u[1] = Entry(x, "user", 0)
  BY <1>9
<1>11. /\ lists' = [lists EXCEPT ![l] = g] /\ held' = [held EXCEPT ![x] = l]
       /\ toolStart' = [toolStart EXCEPT ![x] = Len(h) + 1] /\ said' = [said EXCEPT ![x] = u]
       /\ shared' = [y \in Exchanges |-> shared[y] \/ y \in others \/ (y = x /\ others # {})]
  BY DEF BeginStep
<1> HIDE DEF u
<1>12. \A i \in 1..Len(u) : u[i].by = x /\ u[i].what = "user"
  BY <1>9, <1>10
<1>13. g \in Seq(Entries) /\ Len(g) = Len(h) + 1 /\ Len(h) \in Nat /\ Len(h) + 1 \in 1..Len(g)
       /\ g[Len(h) + 1] = u[1]
  <2>1. /\ h \o u \in Seq(Entries) /\ Len(h \o u) = Len(h) + Len(u)
        /\ \A i \in 1..(Len(h) + Len(u)) : (h \o u)[i] = IF i <= Len(h) THEN h[i] ELSE u[i - Len(h)]
    BY <1>2, <1>10, ConcatProperties
  <2>2. Len(h) \in Nat
    BY <1>2
  <2>3. Len(h) + 1 \in 1..(Len(h) + Len(u)) /\ ~(Len(h) + 1 <= Len(h)) /\ (Len(h) + 1) - Len(h) = 1
    BY <1>10, <2>2
  <2> QED BY <1>10, <2>1, <2>2, <2>3
<1> HIDE DEF g, others
<1>14. \A k \in AllLists : lists'[k] = IF k = l THEN g ELSE lists[k]
  BY <1>1, <1>11 DEF TalkTypes
<1>15. \A y \in Exchanges : said'[y] = IF y = x THEN u ELSE said[y]
  BY <1>1, <1>11 DEF TalkTypes
<1>16. \A y \in Exchanges : phase'[y] = IF y = x THEN to ELSE phase[y]
  BY <1>1, <1>8 DEF TalkTypes
<1>17. \A y \in Exchanges \cup Checkpoints : held'[y] = IF y = x THEN l ELSE held[y]
  BY <1>1, <1>11 DEF TalkTypes
<1>18. \A y \in Exchanges : toolStart'[y] = IF y = x THEN Len(h) + 1 ELSE toolStart[y]
  BY <1>1, <1>11 DEF TalkTypes
<1>19. \A y \in Exchanges : ~shared'[y] => ~shared[y] /\ y \notin others /\ (y = x => others = {})
  BY <1>11
<1>20. WellFormed(g) /\ g # <<>>
  <2>1. \A i \in 1..Len(u) : u[i].what \in Spoken /\ u[i].by # NoExchange
    BY <1>3, <1>12 DEF Spoken
  <2> QED BY <1>2, <1>10, <2>1, AppendKeepsForm DEF g
<1>21. \A y \in Exchanges : UnderWay(y)' <=> y = x \/ UnderWay(y)
  BY <1>8, <1>16 DEF UnderWay
<1>22. \A y \in Exchanges : y # x /\ held[y] = l => h = lists[l]
  <2>1. l = x => \A y \in Exchanges : held[y] # l
    BY <1>6 DEF Unused
  <2> QED BY <1>4, <2>1
<1>23. /\ \A y : y # NoExchange /\ Silent(y, f) => Silent(y, h)
       /\ Together(f) => Together(h)
       /\ \A y : y # NoExchange => EndOf(Of(y, h), Of(y, f))
  <2>1. ASSUME NEW y, y # NoExchange PROVE EndOf(Of(y, h), Of(y, f))
    BY <1>7, <2>1, OfCarried
  <2> QED BY <1>7, <2>1, ShapeCarried
<1>24. f \in Seq(Entries) /\ (f = <<>> \/ (live \in AllLists /\ f = lists[live]))
  BY <1>1, <1>7, NamesApart DEF Carried, TalkTypes
<1>25. \A y \in Exchanges : held[y] = NoList => Silent(y, h)
  <2> SUFFICES ASSUME NEW y \in Exchanges, held[y] = NoList PROVE Silent(y, h)
    OBVIOUS
  <2>1. CASE f = <<>>
    <3>1. Silent(y, f)
      BY <2>1 DEF Silent
    <3> QED BY <1>23, <3>1, NamesApart
  <2>2. CASE live \in AllLists /\ f = lists[live]
    BY <1>1, <1>23, <2>2, NamesApart DEF NobodyElse
  <2> QED BY <1>24, <2>1, <2>2
<1>26. Of(x, u) = u /\ \A y : y # x => Of(y, u) = <<>>
  <2>1. Of(x, u) = u
    BY <1>10, <1>12, OfOwn
  <2>2. ASSUME NEW y, y # x PROVE Of(y, u) = <<>>
    <3>1. Silent(y, u)
      BY <1>12, <2>2 DEF Silent
    <3> QED BY <1>10, <3>1, OfOthers
  <2> QED BY <2>1, <2>2
<1>27. Of(x, g) = u /\ \A y : y # x => Of(y, g) = Of(y, h)
  <2>1. \A y : Of(y, g) = Of(y, h) \o Of(y, u) /\ Of(y, h) \in Seq(Entries)
    BY <1>2, <1>10, OfAppend, OfTyped DEF g
  <2>2. \A y : Of(y, h) \o <<>> = Of(y, h)
    BY <2>1
  <2>3. Of(x, h) = <<>>
    BY <1>2, <1>6, <1>25, OfOthers
  <2>4. <<>> \o u = u
    BY <1>10
  <2> QED BY <1>26, <2>1, <2>2, <2>3, <2>4
<1>28. TalkTypes'
  <2>1. lists' \in [AllLists -> Seq(Entries)] /\ live' \in Lists \cup {NoList}
    BY <1>1, <1>2, <1>5, <1>11, <1>13 DEF TalkTypes
  <2>2. said' \in [Exchanges -> Seq(Entries)]
    BY <1>1, <1>10, <1>11 DEF TalkTypes
  <2>3. phase' \in [Exchanges -> Phases]
    BY <1>1, <1>8 DEF TalkTypes, Phases
  <2>4. held' \in [Exchanges \cup Checkpoints -> Lists \cup {NoList}] /\ toolStart' \in [Exchanges -> Nat]
    BY <1>1, <1>5, <1>11, <1>13 DEF TalkTypes
  <2>5. shared' \in [Exchanges -> BOOLEAN]
    <3>1. \A y \in Exchanges : (shared[y] \/ y \in others \/ (y = x /\ others # {})) \in BOOLEAN
      BY <1>1 DEF TalkTypes
    <3> QED BY <1>11, <3>1
  <2> QED BY <1>1, <1>2, <2>1, <2>2, <2>3, <2>4, <2>5 DEF TalkTypes
<1>29. Forms'
  BY <1>1, <1>2, <1>14, <1>20 DEF Forms
<1>30. Filled'
  <2>1. \A k \in AllLists : lists[k] # <<>> \/ k = l => lists'[k] # <<>>
    BY <1>14, <1>20
  <2>2. \A y \in Exchanges \cup Checkpoints :
          held'[y] # NoList => held'[y] \in AllLists /\ (lists[held'[y]] # <<>> \/ held'[y] = l)
    BY <1>1, <1>5, <1>17, NamesApart DEF TalkTypes, Filled
  <2>3. \A c \in Checkpoints : CopyOf(c) \in AllLists
    BY NamesApart
  <2> QED BY <1>1, <1>2, <1>5, <2>1, <2>2, <2>3 DEF Filled
<1>31. CopiesFrozen'
  <2>1. \A c \in Checkpoints : CopyOf(c) \in AllLists /\ CopyOf(c) # l
    BY <1>5, NamesApart
  <2> QED BY <1>1, <1>2, <1>14, <2>1 DEF CopiesFrozen
<1>32. NewUnused'
  <2>1. ASSUME NEW k, k # x, Unused(k) PROVE Unused(k)'
    <3>1. l # k
      BY <1>4, <2>1 DEF Unused
    <3> QED BY <1>2, <1>17, <2>1, <3>1 DEF Unused
  <2>2. ASSUME NEW y \in Exchanges, phase'[y] \in {"new", "queued"}
        PROVE  Unused(y)' /\ held'[y] = NoList /\ announced'[y] = 0
    <3>1. y # x /\ phase[y] \in {"new", "queued"}
      BY <1>8, <1>16, <2>2
    <3> QED BY <1>1, <1>2, <1>17, <2>1, <3>1 DEF NewUnused
  <2>3. ASSUME NEW c \in Checkpoints \cup Resumes, step'[c] = "new" PROVE Unused(c)'
    <3>1. c # x
      BY NamesApart
    <3> QED BY <1>1, <1>2, <2>1, <2>3, <3>1 DEF NewUnused
  <2> QED BY <2>2, <2>3 DEF NewUnused
<1>33. Holders'
  <2>1. \A y \in Exchanges \cup Checkpoints : held[y] # NoList => held'[y] # NoList
    BY <1>5, <1>17
  <2> QED BY <1>1, <1>2, <1>5, <1>16, <1>17, <2>1 DEF Holders
<1>34. NobodyElse'
  <2> SUFFICES ASSUME NEW y \in Exchanges, held'[y] = NoList
               PROVE  (\A k \in AllLists : Silent(y, lists'[k])) /\ Silent(y, stored')
    BY DEF NobodyElse, Silent
  <2>1. y # x /\ held[y] = NoList
    BY <1>5, <1>17
  <2>2. Silent(y, g)
    BY <1>2, <1>10, <1>12, <1>25, <2>1, ShapeAppend DEF g
  <2> QED BY <1>1, <1>2, <1>14, <2>1, <2>2 DEF NobodyElse
<1>35. LibraryOnly'
  BY <1>1, <1>2 DEF LibraryOnly
<1>36. SaysAllItSaid'
  <2> SUFFICES ASSUME NEW y \in Exchanges, held'[y] # NoList PROVE Of(y, lists'[held'[y]]) = said'[y]
    BY DEF SaysAllItSaid
  <2>1. CASE y = x
    BY <1>5, <1>14, <1>15, <1>17, <1>27, <2>1
  <2>2. CASE y # x
    <3>1. held'[y] = held[y] /\ said'[y] = said[y]
      BY <1>15, <1>17, <2>2
    <3>2. held[y] \in AllLists /\ Of(y, lists[held[y]]) = said[y]
      BY <1>1, <3>1, NamesApart DEF SaysAllItSaid, TalkTypes
    <3>3. CASE held[y] = l
      BY <1>14, <1>22, <1>27, <2>2, <3>1, <3>2, <3>3
    <3>4. CASE held[y] # l
      BY <1>14, <3>1, <3>2, <3>4
    <3> QED BY <3>3, <3>4
  <2> QED BY <2>1, <2>2
<1>37. QueueOK'
  <2>1. CASE door = "channel"
    BY <1>1, <1>2, <1>8, <2>1, LineKept
  <2>2. CASE door # "channel"
    BY <1>2, <2>2 DEF QueueOK
  <2> QED BY <2>1, <2>2
<1>38. TogetherOK'
  <2> SUFFICES ASSUME door = "channel"
               PROVE  /\ \A k \in AllLists : /\ Together(lists'[k])
                                              /\ \A y \in Exchanges : EndOf(Of(y, lists'[k]), said'[y])
                      /\ \A y \in Exchanges : UnderWay(y)' =>
                           \A k \in AllLists : IF held'[y] = k THEN Last(y, lists'[k]) ELSE Silent(y, lists'[k])
    BY <1>2 DEF TogetherOK, LastOfAll
  <2>1. Silent(x, h) /\ \A k \in AllLists : Silent(x, lists[k])
    BY <1>1, <1>6, <1>25 DEF NobodyElse
  <2>2. Last(x, h)
    BY <2>1 DEF Last, Silent
  <2>3. Together(h)
    <3>1. Together(f)
      <4>1. CASE f = <<>>
        BY <4>1 DEF Together
      <4>2. CASE live \in AllLists /\ f = lists[live]
        BY <1>1, <4>2 DEF TogetherOK
      <4> QED BY <1>24, <4>1, <4>2
    <3> QED BY <1>23, <3>1
  <2>4. Together(g) /\ Last(x, g)
    BY <1>2, <1>3, <1>10, <1>12, <2>2, <2>3, ShapeAppend DEF g
  <2>5. \A k \in AllLists : Together(lists'[k])
    BY <1>1, <1>14, <2>4 DEF TogetherOK
  <2>6. ASSUME NEW k \in AllLists, NEW y \in Exchanges PROVE EndOf(Of(y, lists'[k]), said'[y])
    <3>1. CASE y # x /\ k = l
      <4>1. Of(y, lists'[k]) = Of(y, h) /\ said'[y] = said[y] /\ y # NoExchange
        BY <1>14, <1>15, <1>27, <3>1, NamesApart
      <4>2. said[y] \in Seq(Entries)
        BY <1>1 DEF TalkTypes
      <4>3. EndOf(Of(y, f), said[y])
        <5>1. CASE f = <<>>
          <6>1. Silent(y, f)
            BY <5>1 DEF Silent
          <6>2. Of(y, f) = <<>>
            BY <1>24, <6>1, OfOthers
          <6> QED BY <4>2, <6>2, EndOfAll
        <5>2. CASE live \in AllLists /\ f = lists[live]
          BY <1>1, <5>2 DEF TogetherOK
        <5> QED BY <1>24, <5>1, <5>2
      <4>4. EndOf(Of(y, h), Of(y, f))
        BY <1>23, <4>1
      <4> QED BY <4>1, <4>2, <4>3, <4>4, EndOfEnd
    <3>2. CASE y # x /\ k # l
      BY <1>1, <1>14, <1>15, <3>2 DEF TogetherOK
    <3>3. CASE y = x /\ k = l
      BY <1>10, <1>14, <1>15, <1>27, <3>3, EndOfAll
    <3>4. CASE y = x /\ k # l
      <4>1. Of(x, lists'[k]) = <<>>
        BY <1>1, <1>14, <2>1, <3>4, OfOthers DEF TalkTypes
      <4> QED BY <1>10, <1>15, <3>4, <4>1, EndOfAll
    <3> QED BY <3>1, <3>2, <3>3, <3>4
  <2>7. ASSUME NEW y \in Exchanges, UnderWay(y)', NEW k \in AllLists
        PROVE  IF held'[y] = k THEN Last(y, lists'[k]) ELSE Silent(y, lists'[k])
    <3>1. y = x
      <4>1. ASSUME UnderWay(y) PROVE y = x
        BY <1>1, <1>2, <4>1, OneUnderWay
      <4> QED BY <1>21, <2>7, <4>1
    <3> QED BY <1>14, <1>17, <2>1, <2>4, <3>1
  <2> QED BY <2>5, <2>6, <2>7
<1>39. \A y \in Exchanges : y # x /\ OwnTools(y)' => OwnTools(y)
  BY <1>15 DEF OwnTools
<1>40. RecordsOK'
  <2> SUFFICES ASSUME door = "library", NEW y \in Exchanges
               PROVE  /\ phase'[y] # "over" => results[y] = <<>>
                      /\ UnderWay(y)' /\ ~ shared'[y] =>
                           Alone(y)' /\ RecordsFrom(y, lists[held[y]], toolStart[y])'
    BY <1>2 DEF RecordsOK
  <2>1. phase'[y] # "over" => results[y] = <<>>
    BY <1>1, <1>2, <1>16 DEF RecordsOK
  <2> SUFFICES ASSUME UnderWay(y)', ~ shared'[y]
               PROVE  Alone(y)' /\ RecordsFrom(y, lists[held[y]], toolStart[y])'
    BY <2>1
  <2>2. ~shared[y] /\ y \notin others /\ (y = x => others = {})
    BY <1>19
  <2>3. CASE y # x
    <3>1. UnderWay(y) /\ Alone(y) /\ RecordsFrom(y, lists[held[y]], toolStart[y])
      BY <1>1, <1>21, <2>2, <2>3 DEF RecordsOK
    <3>2. held[y] # l
      BY <2>2, <2>3, <3>1 DEF others, Neighbours
    <3>3. held'[y] = held[y]
      BY <1>17, <2>3
    <3>4. Alone(y)'
      BY <1>17, <1>21, <3>1, <3>2, <3>3 DEF Alone
    <3>5. lists'[held'[y]] = lists[held[y]]
      BY <1>1, <1>11, <3>2, <3>3 DEF TalkTypes
    <3>6. phase'[y] = phase[y] /\ announced'[y] = announced[y] /\ toolStart'[y] = toolStart[y]
      BY <1>2, <1>16, <1>18, <2>3
    <3> QED BY <1>39, <2>3, <3>1, <3>4, <3>5, <3>6 DEF RecordsFrom
  <2>4. CASE y = x
    <3>1. held'[x] = l /\ lists'[held'[x]] = g /\ toolStart'[x] = Len(g) /\ announced'[x] = 0
      BY <1>2, <1>5, <1>6, <1>13, <1>14, <1>17, <1>18
    <3>2. Alone(x)'
      <4>1. \A z \in Exchanges \ {x} : UnderWay(z) => held[z] # l
        BY <2>2, <2>4 DEF others, Neighbours
      <4> QED BY <1>17, <1>21, <3>1, <4>1 DEF Alone
    <3>3. ToolMessages(g, Len(g)) = <<>>
      <4>1. Len(g) \in Nat /\ \A i \in (Len(g) + 1)..Len(g) : g[i].what # "tool"
        BY <1>13
      <4> QED BY <1>13, <4>1, NoTools
    <3>4. ToolsOf(x, announced'[x]) = <<>>
      BY <3>1, ToolsOfMore
    <3>5. /\ toolStart'[x] \in 1..Len(lists'[held'[x]])
          /\ ToolMessages(lists'[held'[x]], toolStart'[x]) = ToolsOf(x, announced'[x])
      BY <1>13, <3>1, <3>3, <3>4
    <3>6. /\ Len(lists'[held'[x]]) = toolStart'[x]
          /\ lists'[held'[x]][toolStart'[x]] = Entry(x, "user", 0) /\ announced'[x] = 0
      BY <1>10, <1>13, <3>1
    <3>7. RecordsFrom(x, lists[held[x]], toolStart[x])'
      BY <3>5, <3>6 DEF RecordsFrom
    <3> QED BY <2>4, <3>2, <3>7
  <2> QED BY <2>3, <2>4
<1>41. ResultsOK'
  <2> SUFFICES ASSUME door = "library", NEW y \in Exchanges, phase'[y] = "over", ~ shared'[y], OwnTools(y)'
               PROVE  \E k \in Nat : results[y] = ToolsOf(y, k)
    BY <1>2 DEF ResultsOK, ToolsOf, Entry
  <2>1. phase[y] = "over" /\ y # x /\ ~shared[y]
    BY <1>8, <1>16, <1>19
  <2> QED BY <1>1, <1>39, <2>1 DEF ResultsOK
<1> QED BY <1>28, <1>29, <1>30, <1>31, <1>32, <1>33, <1>34, <1>35, <1>36, <1>37, <1>38, <1>40, <1>41
    DEF TalkInd

(* A capability context that is put in keeps the invariant.                *)
LEMMA ContextKeeps ==
    ASSUME TalkInd, NEW x \in Exchanges, ContextStep(x)
    PROVE  TalkInd'
<1> DEFINE l == held[x]
           h == lists[l]
           g == WithContext(h)
<1>1. /\ TalkTypes /\ Forms /\ Filled /\ CopiesFrozen /\ NewUnused /\ Holders /\ NobodyElse /\ LibraryOnly
      /\ SaysAllItSaid /\ QueueOK /\ TogetherOK /\ RecordsOK /\ ResultsOK
  BY DEF TalkInd
<1>2. /\ phase[x] = "preparing" /\ UnderWay(x) /\ phase' = [phase EXCEPT ![x] = "model"]
      /\ UNCHANGED <<door, before, queueTail, live, held, toolStart, announced, results, step, stored,
                     said, shared, kept>>
  BY DEF ContextStep, UnderWay
<1>3. l \in Lists /\ l \in AllLists /\ l # NoList
  BY <1>1, <1>2, NamesApart DEF Holders, TalkTypes
<1>4. h \in Seq(Entries) /\ h # <<>> /\ WellFormed(h)
  BY <1>1, <1>3 DEF Forms, Filled, TalkTypes
<1>5. lists' = [lists EXCEPT ![l] = g]
  BY DEF ContextStep
<1> HIDE DEF l, h
<1>6. /\ WellFormed(g) /\ g # <<>>
      /\ \E d \in {0, 1} : /\ Carried(h, g, 2, d)
                           /\ \A i \in 1..(2 - d) : h[i].by = NoExchange
      /\ Len(h) >= 2 /\ h[Len(h)].what = "user" =>
           Len(g) \in {Len(h), Len(h) + 1} /\ g[Len(g)] = h[Len(h)]
  BY <1>4, ContextKeepsForm
<1> HIDE DEF g
<1>7. PICK d \in {0, 1} : Carried(h, g, 2, d) /\ \A i \in 1..(2 - d) : h[i].by = NoExchange
  BY <1>6
<1>8. g \in Seq(Entries)
  BY <1>6 DEF WellFormed
<1>9. \A k \in AllLists : lists'[k] = IF k = l THEN g ELSE lists[k]
  BY <1>1, <1>5 DEF TalkTypes
<1>10. \A y \in Exchanges : phase'[y] = IF y = x THEN "model" ELSE phase[y]
  BY <1>1, <1>2 DEF TalkTypes
<1>11. \A y \in Exchanges : UnderWay(y)' <=> UnderWay(y)
  BY <1>2, <1>10 DEF UnderWay
<1>12. \A y \in Exchanges : Of(y, g) = Of(y, h)
  <2> SUFFICES ASSUME NEW y \in Exchanges PROVE Of(y, g) = Of(y, h)
    OBVIOUS
  <2>1. y # NoExchange
    BY NamesApart
  <2> DEFINE m == 2
  <2>2. Carried(h, g, m, d) /\ \A i \in 1..(m - d) : h[i].by # y
    BY <1>7, <2>1
  <2> HIDE DEF m
  <2> QED BY <2>1, <2>2, OfCarried
<1>13. /\ Together(h) => Together(g)
       /\ \A y \in Exchanges : Last(y, h) => Last(y, g)
       /\ \A y \in Exchanges : Silent(y, h) => Silent(y, g)
  <2> DEFINE m == 2
  <2>1. Carried(h, g, m, d) /\ \A y \in Exchanges : y # NoExchange
    BY <1>7, NamesApart
  <2> HIDE DEF m
  <2> QED BY <2>1, ShapeCarried
<1>14. TalkTypes'
  <2>1. lists' \in [AllLists -> Seq(Entries)]
    BY <1>1, <1>5, <1>8 DEF TalkTypes
  <2>2. phase' \in [Exchanges -> Phases]
    BY <1>1, <1>2 DEF TalkTypes, Phases
  <2> QED BY <1>1, <1>2, <2>1, <2>2 DEF TalkTypes
<1>15. Forms'
  BY <1>1, <1>2, <1>6, <1>9 DEF Forms
<1>16. Filled'
  <2>1. \A k \in AllLists : lists[k] # <<>> => lists'[k] # <<>>
    BY <1>6, <1>9
  <2>2. live \in AllLists \cup {NoList} /\ \A y \in Exchanges \cup Checkpoints : held[y] \in AllLists \cup {NoList}
    BY <1>1, NamesApart DEF TalkTypes
  <2>3. \A c \in Checkpoints : CopyOf(c) \in AllLists
    BY NamesApart
  <2> QED BY <1>1, <1>2, <2>1, <2>2, <2>3 DEF Filled
<1>17. CopiesFrozen'
  <2>1. \A c \in Checkpoints : CopyOf(c) \in AllLists /\ CopyOf(c) # l
    BY <1>3, NamesApart
  <2> QED BY <1>1, <1>2, <1>9, <2>1 DEF CopiesFrozen
<1>18. NewUnused'
  BY <1>1, <1>2, <1>10 DEF NewUnused, Unused
<1>19. Holders'
  BY <1>1, <1>2, <1>10 DEF Holders
<1>20. NobodyElse'
  <2> SUFFICES ASSUME NEW y \in Exchanges, held'[y] = NoList
               PROVE  (\A k \in AllLists : Silent(y, lists'[k])) /\ Silent(y, stored')
    BY DEF NobodyElse
  <2>1. Silent(y, h) /\ \A k \in AllLists : Silent(y, lists[k])
    BY <1>1, <1>2, <1>3 DEF NobodyElse, h
  <2> QED BY <1>1, <1>2, <1>9, <1>13, <2>1 DEF NobodyElse
<1>21. LibraryOnly'
  BY <1>1, <1>2 DEF LibraryOnly
<1>22. SaysAllItSaid'
  <2> SUFFICES ASSUME NEW y \in Exchanges, held'[y] # NoList PROVE Of(y, lists'[held'[y]]) = said'[y]
    BY DEF SaysAllItSaid
  <2>1. held'[y] = held[y] /\ held[y] \in AllLists /\ Of(y, lists[held[y]]) = said[y] /\ said'[y] = said[y]
    BY <1>1, <1>2, NamesApart DEF SaysAllItSaid, TalkTypes
  <2> QED BY <1>9, <1>12, <2>1 DEF h
<1>23. QueueOK'
  BY <1>1, <1>2, LineKept
<1>24. TogetherOK'
  <2> SUFFICES ASSUME door = "channel"
               PROVE  /\ \A k \in AllLists : /\ Together(lists'[k])
                                              /\ \A y \in Exchanges : EndOf(Of(y, lists'[k]), said'[y])
                      /\ \A y \in Exchanges : UnderWay(y)' =>
                           \A k \in AllLists : IF held'[y] = k THEN Last(y, lists'[k]) ELSE Silent(y, lists'[k])
    BY <1>2 DEF TogetherOK, LastOfAll
  <2>1. \A k \in AllLists : Together(lists'[k])
    BY <1>1, <1>9, <1>13 DEF TogetherOK, h
  <2>2. ASSUME NEW k \in AllLists, NEW y \in Exchanges PROVE EndOf(Of(y, lists'[k]), said'[y])
    <3>1. EndOf(Of(y, lists[k]), said[y])
      BY <1>1 DEF TogetherOK
    <3>2. Of(y, lists'[k]) = Of(y, lists[k]) /\ said'[y] = said[y]
      BY <1>2, <1>9, <1>12 DEF h
    <3> QED BY <3>1, <3>2
  <2>3. ASSUME NEW y \in Exchanges, UnderWay(y)', NEW k \in AllLists
        PROVE  IF held'[y] = k THEN Last(y, lists'[k]) ELSE Silent(y, lists'[k])
    <3>1. UnderWay(y) /\ held'[y] = held[y]
      BY <1>2, <1>11, <2>3
    <3>2. IF held[y] = k THEN Last(y, lists[k]) ELSE Silent(y, lists[k])
      BY <1>1, <3>1 DEF TogetherOK, LastOfAll
    <3> QED BY <1>9, <1>13, <3>1, <3>2 DEF h
  <2> QED BY <2>1, <2>2, <2>3
<1>25. \A y \in Exchanges : OwnTools(y)' => OwnTools(y)
  BY <1>2 DEF OwnTools
<1>26. RecordsOK'
  <2> SUFFICES ASSUME door = "library", NEW y \in Exchanges
               PROVE  /\ phase'[y] # "over" => results[y] = <<>>
                      /\ UnderWay(y)' /\ ~ shared[y] =>
                           Alone(y)' /\ RecordsFrom(y, lists[held[y]], toolStart[y])'
    BY <1>2 DEF RecordsOK
  <2>1. phase'[y] # "over" => results[y] = <<>>
    BY <1>1, <1>2, <1>10 DEF RecordsOK
  <2> SUFFICES ASSUME UnderWay(y)', ~ shared[y]
               PROVE  Alone(y)' /\ RecordsFrom(y, lists[held[y]], toolStart[y])'
    BY <2>1
  <2>2. UnderWay(y) /\ Alone(y) /\ RecordsFrom(y, lists[held[y]], toolStart[y])
    BY <1>1, <1>11 DEF RecordsOK
  <2>3. Alone(y)'
    BY <1>2, <1>11, <2>2 DEF Alone
  <2>4. CASE y # x
    <3>1. held[y] # l
      BY <1>2, <2>2, <2>4 DEF Alone, l
    <3>2. lists'[held'[y]] = lists[held[y]]
      BY <1>1, <1>2, <1>5, <3>1 DEF TalkTypes
    <3>3. phase'[y] = phase[y] /\ announced'[y] = announced[y] /\ toolStart'[y] = toolStart[y]
      BY <1>2, <1>10, <2>4
    <3> QED BY <1>25, <2>2, <2>3, <3>2, <3>3 DEF RecordsFrom
  <2>5. CASE y = x
    <3> DEFINE s == toolStart[x]
    <3>1. s = Len(h) /\ s \in 1..Len(h) /\ h[s] = Entry(x, "user", 0) /\ announced[x] = 0
      BY <1>2, <2>2, <2>5 DEF RecordsFrom, h, l
    <3>2. h[Len(h)].what = "user"
      BY <3>1 DEF Entry
    <3>3. Len(h) >= 2 /\ Len(h) \in Nat
      <4>1. h[1].what = "system" /\ Len(h) \in Nat
        BY <1>4, <3>1 DEF WellFormed
      <4> QED BY <3>1, <3>2, <4>1
    <3>4. Len(g) \in {Len(h), Len(h) + 1} /\ g[Len(g)].what = "user"
      BY <1>6, <3>2, <3>3
    <3>5. s \in 1..Len(g) /\ s \in Nat
      BY <3>1, <3>3, <3>4
    <3> HIDE DEF s
    <3>6. ToolMessages(g, s) = <<>>
      <4>1. \A i \in (s + 1)..Len(g) : i = Len(g)
        BY <3>1, <3>3, <3>4
      <4>2. \A i \in (s + 1)..Len(g) : g[i].what # "tool"
        BY <3>4, <4>1
      <4> QED BY <1>8, <3>5, <4>2, NoTools
    <3>7. ToolsOf(x, announced'[x]) = <<>>
      BY <1>2, <3>1, ToolsOfMore
    <3>8. lists'[held'[x]] = g /\ toolStart'[x] = s /\ phase'[x] # "preparing"
      BY <1>2, <1>3, <1>9, <1>10 DEF l, s
    <3>9. /\ toolStart'[x] \in 1..Len(lists'[held'[x]])
          /\ ToolMessages(lists'[held'[x]], toolStart'[x]) = ToolsOf(x, announced'[x])
      BY <3>5, <3>6, <3>7, <3>8
    <3>10. RecordsFrom(x, lists[held[x]], toolStart[x])'
      BY <3>8, <3>9 DEF RecordsFrom
    <3> QED BY <2>3, <2>5, <3>10
  <2> QED BY <2>4, <2>5
<1>27. ResultsOK'
  <2> SUFFICES ASSUME door = "library", NEW y \in Exchanges, phase'[y] = "over", ~ shared[y], OwnTools(y)'
               PROVE  \E k \in Nat : results[y] = ToolsOf(y, k)
    BY <1>2 DEF ResultsOK, ToolsOf, Entry
  <2>1. phase[y] = "over"
    BY <1>10
  <2> QED BY <1>1, <1>25, <2>1 DEF ResultsOK
<1> QED BY <1>14, <1>15, <1>16, <1>17, <1>18, <1>19, <1>20, <1>21, <1>22, <1>23, <1>24, <1>26, <1>27
    DEF TalkInd

(* The queue grows at its end and gives up its first.                      *)
LEMMA LineGrows ==
    ASSUME TalkTypes, QueueOK, door = "channel", NEW x \in Exchanges, phase[x] = "new",
           phase' = [phase EXCEPT ![x] = "queued"], before' = [before EXCEPT ![x] = queueTail],
           queueTail' = x
    PROVE  QueueOK'
<1>1. PICK q : Lined(q)
  BY DEF QueueOK
<1>2. /\ q \in Seq(Exchanges) /\ Len(q) \in Nat
      /\ \A y \in Exchanges : phase[y] \notin {"new", "over"} <=> \E i \in 1..Len(q) : q[i] = y
      /\ \A i, j \in 1..Len(q) : q[i] = q[j] => i = j
      /\ \A i \in 2..Len(q) : phase[q[i]] = "queued" /\ before[q[i]] = q[i - 1]
      /\ q # <<>> => before[q[1]] \in {NoExchange} \cup {y \in Exchanges : phase[y] = "over"}
      /\ queueTail = IF q = <<>> THEN NoExchange ELSE q[Len(q)]
  BY <1>1 DEF Lined
<1> DEFINE p == Append(q, x)
<1>3. /\ p \in Seq(Exchanges) /\ Len(p) = Len(q) + 1 /\ p # <<>> /\ p[Len(q) + 1] = x
      /\ \A i \in 1..Len(q) : p[i] = q[i]
  <2>1. p \in Seq(Exchanges) /\ Len(p) = Len(q) + 1
    BY <1>2
  <2>2. p[Len(q) + 1] = x
    BY <1>2
  <2>3. \A i \in 1..Len(q) : p[i] = q[i]
    BY <1>2
  <2> HIDE DEF p
  <2>4. p # <<>>
    BY <1>2, <2>1
  <2> QED BY <2>1, <2>2, <2>3, <2>4
<1> HIDE DEF p
<1>4. \A y \in Exchanges : phase'[y] = IF y = x THEN "queued" ELSE phase[y]
  BY DEF TalkTypes
<1>5. \A y \in Exchanges : before'[y] = IF y = x THEN queueTail ELSE before[y]
  BY DEF TalkTypes
<1>6. \A i \in 1..Len(q) : q[i] # x /\ q[i] \in Exchanges
  BY <1>2
<1>7. \A i \in 1..Len(p) : i \in 1..Len(q) \/ i = Len(q) + 1
  BY <1>2, <1>3
<1>8. \A y \in Exchanges : phase'[y] \notin {"new", "over"} <=> \E i \in 1..Len(p) : p[i] = y
  <2>1. ASSUME NEW y \in Exchanges, phase'[y] \notin {"new", "over"} PROVE \E i \in 1..Len(p) : p[i] = y
    <3>1. CASE y = x
      <4>1. Len(q) + 1 \in 1..Len(p)
        BY <1>2, <1>3
      <4> QED BY <1>3, <3>1, <4>1
    <3>2. CASE y # x
      <4>1. PICK i \in 1..Len(q) : q[i] = y
        BY <1>2, <1>4, <2>1, <3>2
      <4>2. i \in 1..Len(p)
        BY <1>2, <1>3
      <4> QED BY <1>3, <4>1, <4>2
    <3> QED BY <3>1, <3>2
  <2>2. ASSUME NEW y \in Exchanges, NEW i \in 1..Len(p), p[i] = y PROVE phase'[y] \notin {"new", "over"}
    <3>1. CASE i \in 1..Len(q)
      BY <1>2, <1>3, <1>4, <2>2, <3>1
    <3>2. CASE i = Len(q) + 1
      BY <1>3, <1>4, <2>2, <3>2
    <3> QED BY <1>7, <3>1, <3>2
  <2> QED BY <2>1, <2>2
<1>9. \A i, j \in 1..Len(p) : p[i] = p[j] => i = j
  BY <1>2, <1>3, <1>6, <1>7
<1>10. ASSUME NEW i \in 2..Len(p) PROVE phase'[p[i]] = "queued" /\ before'[p[i]] = p[i - 1]
  <2>1. i - 1 \in 1..Len(q) /\ p[i - 1] = q[i - 1]
    BY <1>2, <1>3
  <2>2. CASE i \in 1..Len(q)
    <3>1. i \in 2..Len(q) /\ p[i] = q[i] /\ q[i] # x /\ q[i] \in Exchanges
      BY <1>2, <1>3, <1>6, <2>2
    <3> QED BY <1>2, <1>4, <1>5, <2>1, <3>1
  <2>3. CASE i = Len(q) + 1
    <3>1. p[i] = x /\ i - 1 = Len(q) /\ q # <<>>
      BY <1>2, <1>3, <2>1, <2>3
    <3> QED BY <1>2, <1>4, <1>5, <2>1, <3>1
  <2>4. i \in 1..Len(p)
    OBVIOUS
  <2> QED BY <1>7, <2>2, <2>3, <2>4
<1>11. {y \in Exchanges : phase'[y] = "over"} = {y \in Exchanges : phase[y] = "over"}
  BY <1>4
<1>12. before'[p[1]] \in {NoExchange} \cup {y \in Exchanges : phase[y] = "over"}
  <2>1. CASE q = <<>>
    <3>1. p[1] = x /\ queueTail = NoExchange
      BY <1>2, <1>3, <2>1
    <3> QED BY <1>5, <3>1
  <2>2. CASE q # <<>>
    <3>1. 1 \in 1..Len(q)
      BY <1>2, <2>2
    <3>2. p[1] = q[1] /\ q[1] # x /\ q[1] \in Exchanges
      BY <1>3, <1>6, <3>1
    <3> QED BY <1>2, <1>5, <2>2, <3>2
  <2> QED BY <2>1, <2>2
<1>13. queueTail' = IF p = <<>> THEN NoExchange ELSE p[Len(p)]
  BY <1>3
<1>14. Lined(p)'
  BY <1>3, <1>8, <1>9, <1>10, <1>11, <1>12, <1>13 DEF Lined
<1> QED BY <1>14 DEF QueueOK

LEMMA LineMovesUp ==
    ASSUME TalkTypes, QueueOK, door = "channel", NEW x \in Exchanges, UnderWay(x),
           phase' = [phase EXCEPT ![x] = "over"], before' = before,
           queueTail' = IF queueTail = x THEN NoExchange ELSE queueTail
    PROVE  QueueOK'
<1>1. PICK q : Lined(q)
  BY DEF QueueOK
<1>2. /\ q \in Seq(Exchanges) /\ Len(q) \in Nat
      /\ \A y \in Exchanges : phase[y] \notin {"new", "over"} <=> \E i \in 1..Len(q) : q[i] = y
      /\ \A i, j \in 1..Len(q) : q[i] = q[j] => i = j
      /\ \A i \in 2..Len(q) : phase[q[i]] = "queued" /\ before[q[i]] = q[i - 1]
      /\ queueTail = IF q = <<>> THEN NoExchange ELSE q[Len(q)]
  BY <1>1 DEF Lined
<1>3. 1 \in 1..Len(q) /\ q[1] = x /\ \A i \in 2..Len(q) : q[i] # x
  BY <1>1, FirstInLine
<1> DEFINE p == Tail(q)
<1>4. q # <<>>
  BY <1>2, <1>3
<1>5. /\ p \in Seq(Exchanges) /\ Len(p) = Len(q) - 1 /\ \A i \in 1..Len(p) : p[i] = q[i + 1]
      /\ (p = <<>> <=> Len(q) = 1)
  <2>1. p \in Seq(Exchanges) /\ Len(p) = Len(q) - 1
    BY <1>2, <1>4
  <2>2. \A i \in 1..Len(p) : p[i] = q[i + 1]
    BY <1>2, <1>4
  <2> HIDE DEF p
  <2>3. p = <<>> <=> Len(q) = 1
    BY <1>2, <2>1
  <2> QED BY <2>1, <2>2, <2>3
<1> HIDE DEF p
<1>6. \A y \in Exchanges : phase'[y] = IF y = x THEN "over" ELSE phase[y]
  BY DEF TalkTypes
<1>7. \A i \in 1..Len(p) : i + 1 \in 2..Len(q) /\ i + 1 \in 1..Len(q) /\ q[i + 1] \in Exchanges
  BY <1>2, <1>5
<1>8. \A y \in Exchanges : phase'[y] \notin {"new", "over"} <=> \E i \in 1..Len(p) : p[i] = y
  <2>1. ASSUME NEW y \in Exchanges, phase'[y] \notin {"new", "over"} PROVE \E i \in 1..Len(p) : p[i] = y
    <3>1. y # x /\ phase[y] \notin {"new", "over"}
      BY <1>6, <2>1
    <3>2. PICK i \in 1..Len(q) : q[i] = y
      BY <1>2, <3>1
    <3>3. i # 1
      BY <1>3, <3>1, <3>2
    <3>4. i - 1 \in 1..Len(p) /\ (i - 1) + 1 = i
      BY <1>2, <1>5, <3>3
    <3> QED BY <1>5, <3>2, <3>4
  <2>2. ASSUME NEW y \in Exchanges, NEW i \in 1..Len(p), p[i] = y PROVE phase'[y] \notin {"new", "over"}
    BY <1>2, <1>3, <1>5, <1>6, <1>7, <2>2
  <2> QED BY <2>1, <2>2
<1>9. ASSUME NEW i \in 1..Len(p), NEW j \in 1..Len(p), p[i] = p[j] PROVE i = j
  <2>1. q[i + 1] = q[j + 1] /\ i + 1 \in 1..Len(q) /\ j + 1 \in 1..Len(q)
    BY <1>5, <1>7, <1>9
  <2>2. i + 1 = j + 1
    BY <1>2, <2>1
  <2> QED BY <2>2
<1>10. ASSUME NEW i \in 2..Len(p) PROVE phase'[p[i]] = "queued" /\ before'[p[i]] = p[i - 1]
  <2>1. /\ i \in 1..Len(p) /\ i - 1 \in 1..Len(p) /\ (i - 1) + 1 = i /\ (i + 1) - 1 = i
        /\ Len(p) \in Nat
    BY <1>2, <1>5
  <2>2. p[i] = q[i + 1] /\ p[i - 1] = q[i] /\ i + 1 \in 2..Len(q)
    BY <1>5, <1>7, <2>1
  <2>3. phase[q[i + 1]] = "queued" /\ before[q[i + 1]] = q[i]
    BY <1>2, <2>1, <2>2
  <2>4. q[i + 1] # x /\ q[i + 1] \in Exchanges
    BY <1>3, <1>7, <2>1, <2>2
  <2> QED BY <1>6, <2>2, <2>3, <2>4
<1>11. p # <<>> => before'[p[1]] = x
  <2> SUFFICES ASSUME p # <<>> PROVE before'[p[1]] = x
    OBVIOUS
  <2>1. 1 \in 1..Len(p) /\ 2 \in 2..Len(q) /\ 1 + 1 = 2 /\ 2 - 1 = 1
    BY <1>2, <1>3, <1>5
  <2>2. p[1] = q[2] /\ before[q[2]] = q[1]
    BY <1>2, <1>5, <2>1
  <2> QED BY <1>3, <2>2
<1>12. queueTail' = IF p = <<>> THEN NoExchange ELSE p[Len(p)]
  <2>1. CASE p = <<>>
    BY <1>2, <1>3, <1>4, <1>5, <2>1
  <2>2. CASE p # <<>>
    <3>1. Len(q) \in 2..Len(q) /\ Len(p) \in 1..Len(p) /\ Len(p) + 1 = Len(q)
      BY <1>2, <1>3, <1>5, <2>2
    <3>2. p[Len(p)] = q[Len(q)] /\ q[Len(q)] # x
      BY <1>3, <1>5, <3>1
    <3> QED BY <1>2, <1>4, <2>2, <3>2
  <2> QED BY <2>1, <2>2
<1>13. x \in {y \in Exchanges : phase'[y] = "over"}
  BY <1>6
<1>14. Lined(p)'
  BY <1>5, <1>8, <1>9, <1>10, <1>11, <1>12, <1>13 DEF Lined
<1> QED BY <1>14 DEF QueueOK

(* The outputs a turn takes are as many as it has records.                 *)
LEMMA AttachesItsOwn ==
    ASSUME TalkTypes, NEW x \in Exchanges,
           NEW k \in Nat, announced[x] = k, ToolMessages(lists[held[x]], toolStart[x]) = ToolsOf(x, k)
    PROVE  Attached(x) = ToolsOf(x, k)
<1> DEFINE t == ToolsOf(x, k)
<1>1. t \in Seq(Entries) /\ Len(t) = k
  <2>1. t \in Seq(Entries)
    BY ToolsOfMore
  <2>2. Len(t) = k
    BY DEF ToolsOf
  <2> QED BY <2>1, <2>2
<1>2. Attached(x) = SubSeq(t, 1, IF k < Len(t) THEN k ELSE Len(t))
  BY DEF Attached
<1> HIDE DEF t
<1>3. SubSeq(t, 1, Len(t)) = t
  BY <1>1
<1> QED BY <1>1, <1>2, <1>3 DEF t

(* What a turn takes from a history are entries.                           *)
LEMMA AttachedTyped ==
    ASSUME TalkTypes, NEW x \in Exchanges, held[x] # NoList
    PROVE  Attached(x) \in Seq(Entries)
<1> DEFINE h == lists[held[x]]
           s == toolStart[x]
           t == ToolMessages(h, s)
<1>1. h \in Seq(Entries) /\ s \in Nat
  BY NamesApart DEF TalkTypes
<1>2. Attached(x) = SubSeq(t, 1, IF announced[x] < Len(t) THEN announced[x] ELSE Len(t))
  BY DEF Attached
<1>3. announced[x] \in Nat
  BY DEF TalkTypes
<1> HIDE DEF h, s
<1>4. t \in Seq(Entries)
  <2> DEFINE P == PlacesOf(h, s, Tools)
  <2>1. Places(P)
    BY <1>1, PlacesOfPlaces
  <2>2. \A i \in P : h[i] \in Entries
    BY <1>1 DEF PlacesOf
  <2> HIDE DEF P
  <2>3. Chosen(h, P) \in Seq(Entries)
    BY <2>1, <2>2, ChosenSeq
  <2> QED BY <1>1, <2>3, ToolsArePicked DEF P, Picked
<1> HIDE DEF t
<1>5. \A m \in 0..Len(t) : SubSeq(t, 1, m) \in Seq(Entries)
  BY <1>4, SubSeqProperties
<1>6. (IF announced[x] < Len(t) THEN announced[x] ELSE Len(t)) \in 0..Len(t)
  BY <1>3, <1>4
<1> QED BY <1>2, <1>5, <1>6

(* A step that touches no array keeps the invariant.                       *)
LEMMA QuietKeeps ==
    ASSUME TalkInd, NEW x \in Exchanges, QuietStep(x)
    PROVE  TalkInd'
<1>1. /\ TalkTypes /\ Forms /\ Filled /\ CopiesFrozen /\ NewUnused /\ Holders /\ NobodyElse /\ LibraryOnly
      /\ SaysAllItSaid /\ QueueOK /\ TogetherOK /\ RecordsOK /\ ResultsOK
  BY DEF TalkInd
<1>2. UNCHANGED <<door, live, lists, held, toolStart, announced, step, stored, said, shared, kept>>
  BY DEF QuietStep
<1> DEFINE Arrives == /\ phase[x] = "new" /\ phase' = [phase EXCEPT ![x] = "queued"] /\ door = "channel"
                      /\ before' = [before EXCEPT ![x] = queueTail] /\ queueTail' = x
                      /\ results' = results
           Refused == /\ ItsTurn(x) /\ phase' = [phase EXCEPT ![x] = "failing"]
                      /\ UNCHANGED <<before, queueTail, results>>
           GoesOn == /\ phase[x] \in {"preparing", "model"}
                     /\ \E to \in {"model", "recording", "failing"} : phase' = [phase EXCEPT ![x] = to]
                     /\ UNCHANGED <<before, queueTail, results>>
           Leaves == /\ phase[x] \in {"recording", "failing"} /\ phase' = [phase EXCEPT ![x] = "over"]
                     /\ before' = before
                     /\ queueTail' = IF queueTail = x THEN NoExchange ELSE queueTail
                     /\ IF door = "library" /\ phase[x] = "recording"
                        THEN results' = [results EXCEPT ![x] = Attached(x)]
                        ELSE results' = results
<1>3. Arrives \/ Refused \/ GoesOn \/ Leaves
  BY DEF QuietStep
<1>4. PICK to \in {"queued", "model", "recording", "failing", "over"} : phase' = [phase EXCEPT ![x] = to]
  BY <1>3
<1>5. \A y \in Exchanges : phase'[y] = IF y = x THEN to ELSE phase[y]
  BY <1>1, <1>4 DEF TalkTypes
<1>6. phase'[x] = to
  BY <1>5
<1>7. /\ Arrives => phase'[x] = "queued"
      /\ Refused => phase'[x] = "failing"
      /\ GoesOn => phase'[x] \in {"model", "recording", "failing"}
      /\ Leaves => phase'[x] = "over"
  BY <1>1 DEF TalkTypes
<1>8. \/ /\ phase[x] = "new" /\ to = "queued" /\ door = "channel"
      \/ /\ phase[x] = "queued" /\ ItsTurn(x) /\ to = "failing" /\ door = "channel"
      \/ /\ phase[x] \in {"preparing", "model"} /\ to \in {"model", "recording", "failing"}
      \/ /\ phase[x] \in {"recording", "failing"} /\ to = "over"
  BY <1>3, <1>6, <1>7 DEF ItsTurn
<1>9. \A y \in Exchanges \ {x} : results'[y] = results[y]
  BY <1>1, <1>3 DEF TalkTypes
<1>10. to # "over" => results' = results
  BY <1>3, <1>6, <1>7
<1>11. \A y \in Exchanges : UnderWay(y)' => UnderWay(y) \/ (y = x /\ ItsTurn(x) /\ door = "channel")
  BY <1>5, <1>8 DEF UnderWay
<1> HIDE DEF Arrives, Refused, GoesOn, Leaves
<1>12. TalkTypes'
  <2>1. phase' \in [Exchanges -> Phases]
    BY <1>1, <1>4 DEF TalkTypes, Phases
  <2>2. before' \in [Exchanges -> Exchanges \cup {NoExchange}] /\ queueTail' \in Exchanges \cup {NoExchange}
    BY <1>1, <1>3 DEF TalkTypes, Arrives, Refused, GoesOn, Leaves
  <2>3. results' \in [Exchanges -> Seq(Entries)]
    <3>1. CASE results' = results
      BY <1>1, <3>1 DEF TalkTypes
    <3>2. CASE results' # results
      <4>1. phase[x] = "recording" /\ results' = [results EXCEPT ![x] = Attached(x)]
        BY <1>3, <3>2 DEF Arrives, Refused, GoesOn, Leaves
      <4>2. held[x] # NoList
        BY <1>1, <4>1 DEF Holders
      <4>3. Attached(x) \in Seq(Entries)
        BY <1>1, <4>2, AttachedTyped
      <4> QED BY <1>1, <4>1, <4>3 DEF TalkTypes
    <3> QED BY <3>1, <3>2
  <2> QED BY <1>1, <1>2, <2>1, <2>2, <2>3 DEF TalkTypes
<1>13. Forms' /\ Filled' /\ CopiesFrozen' /\ LibraryOnly'
  BY <1>1, <1>2 DEF Forms, Filled, CopiesFrozen, LibraryOnly
<1>14. NobodyElse'
  BY <1>1, <1>2 DEF NobodyElse, Silent
<1>15. SaysAllItSaid'
  <2> SUFFICES ASSUME NEW y \in Exchanges, held'[y] # NoList PROVE Of(y, lists'[held'[y]]) = said'[y]
    BY DEF SaysAllItSaid
  <2> QED BY <1>1, <1>2 DEF SaysAllItSaid
<1>16. NewUnused'
  BY <1>1, <1>2, <1>5, <1>8 DEF NewUnused, Unused
<1>17. Holders'
  BY <1>1, <1>2, <1>5, <1>8 DEF Holders
<1>18. QueueOK'
  <2> SUFFICES ASSUME door = "channel" PROVE QueueOK'
    BY <1>2 DEF QueueOK
  <2>1. CASE Arrives
    BY <1>1, <2>1, LineGrows DEF Arrives
  <2>2. CASE Refused
    BY <1>1, <1>2, <2>2, LineKept DEF Refused
  <2>3. CASE GoesOn
    <3>1. PICK go \in {"model", "recording", "failing"} : phase' = [phase EXCEPT ![x] = go]
      BY <2>3 DEF GoesOn
    <3>2. UnderWay(x) /\ UNCHANGED <<before, queueTail>>
      BY <2>3 DEF GoesOn, UnderWay
    <3> QED BY <1>1, <1>2, <3>1, <3>2, LineKept
  <2>4. CASE Leaves
    <3>1. UnderWay(x)
      BY <2>4 DEF Leaves, UnderWay
    <3> QED BY <1>1, <2>4, <3>1, LineMovesUp DEF Leaves
  <2> QED BY <1>3, <2>1, <2>2, <2>3, <2>4
<1>19. TogetherOK'
  <2> SUFFICES ASSUME door = "channel"
               PROVE  /\ \A k \in AllLists : /\ Together(lists'[k])
                                              /\ \A y \in Exchanges : EndOf(Of(y, lists'[k]), said'[y])
                      /\ \A y \in Exchanges : UnderWay(y)' =>
                           \A k \in AllLists : IF held'[y] = k THEN Last(y, lists'[k]) ELSE Silent(y, lists'[k])
    BY <1>2 DEF TogetherOK, LastOfAll
  <2>1. \A k \in AllLists : Together(lists'[k]) /\ \A y \in Exchanges : EndOf(Of(y, lists'[k]), said'[y])
    BY <1>1, <1>2 DEF TogetherOK
  <2>2. ASSUME NEW y \in Exchanges, UnderWay(y)', NEW k \in AllLists
        PROVE  IF held'[y] = k THEN Last(y, lists'[k]) ELSE Silent(y, lists'[k])
    <3>1. CASE UnderWay(y)
      BY <1>1, <1>2, <3>1 DEF TogetherOK, LastOfAll
    <3>2. CASE ItsTurn(y)
      <4>1. held[y] = NoList /\ held[y] # k
        BY <1>1, <3>2, NamesApart DEF NewUnused, ItsTurn
      <4> QED BY <1>1, <1>2, <4>1 DEF NobodyElse
    <3> QED BY <1>11, <2>2, <3>1, <3>2
  <2> QED BY <2>1, <2>2
<1>20. \A y \in Exchanges : OwnTools(y)' => OwnTools(y)
  BY <1>2 DEF OwnTools
<1>21. RecordsOK'
  <2> SUFFICES ASSUME door = "library", NEW y \in Exchanges
               PROVE  /\ phase'[y] # "over" => results'[y] = <<>>
                      /\ UnderWay(y)' /\ ~ shared'[y] =>
                           Alone(y)' /\ RecordsFrom(y, lists[held[y]], toolStart[y])'
    BY <1>2 DEF RecordsOK
  <2>1. phase'[y] # "over" => results'[y] = <<>>
    BY <1>1, <1>5, <1>8, <1>9, <1>10 DEF RecordsOK
  <2> SUFFICES ASSUME UnderWay(y)', ~ shared'[y]
               PROVE  Alone(y)' /\ RecordsFrom(y, lists[held[y]], toolStart[y])'
    BY <2>1
  <2>2. UnderWay(y) /\ ~shared[y]
    BY <1>2, <1>11
  <2>3. Alone(y) /\ RecordsFrom(y, lists[held[y]], toolStart[y])
    BY <1>1, <2>2 DEF RecordsOK
  <2>4. Alone(y)'
    BY <1>2, <1>11, <2>3 DEF Alone
  <2>5. phase'[y] = "preparing" => phase[y] = "preparing"
    BY <1>5, <1>8
  <2> QED BY <1>2, <1>20, <2>3, <2>4, <2>5 DEF RecordsFrom
<1>22. ResultsOK'
  <2> SUFFICES ASSUME door = "library", NEW y \in Exchanges, phase'[y] = "over", ~ shared'[y], OwnTools(y)'
               PROVE  \E k \in Nat : results'[y] = ToolsOf(y, k)
    BY <1>2 DEF ResultsOK
  <2>1. ~shared[y] /\ OwnTools(y)
    BY <1>2, <1>20
  <2>2. CASE y # x
    BY <1>1, <1>5, <1>9, <2>1, <2>2 DEF ResultsOK
  <2>3. CASE y = x
    <3>1. Leaves /\ UnderWay(x)
      BY <1>3, <1>7, <2>3 DEF Leaves, UnderWay
    <3>2. /\ results[x] = <<>> /\ RecordsFrom(x, lists[held[x]], toolStart[x])
          /\ announced[x] \in Nat
      BY <1>1, <2>1, <2>3, <3>1 DEF RecordsOK, UnderWay, TalkTypes
    <3>3. CASE phase[x] = "recording"
      <4>1. results'[x] = Attached(x)
        BY <1>1, <3>1, <3>3 DEF Leaves, TalkTypes
      <4>2. Attached(x) = ToolsOf(x, announced[x])
        BY <1>1, <2>1, <2>3, <3>2, AttachesItsOwn DEF RecordsFrom
      <4> QED BY <2>3, <3>2, <4>1, <4>2
    <3>4. CASE phase[x] # "recording"
      <4>1. results'[x] = ToolsOf(x, 0) /\ 0 \in Nat
        BY <3>1, <3>2, <3>4, ToolsOfMore DEF Leaves
      <4> QED BY <2>3, <4>1
    <3> QED BY <3>3, <3>4
  <2> QED BY <2>2, <2>3
<1> QED BY <1>12, <1>13, <1>14, <1>15, <1>16, <1>17, <1>18, <1>19, <1>21, <1>22 DEF TalkInd

(* A call of the library's session writes an array that no turn holds, or  *)
(* writes nothing new.                                                     *)
CopyStep(l, g) ==
    /\ door = "library"
    /\ UNCHANGED <<door, phase, before, queueTail, toolStart, announced, results, said, shared>>
    /\ \A y \in Exchanges : held'[y] = held[y]
    /\ l \in AllLists /\ lists' = [lists EXCEPT ![l] = g]
    /\ g = lists[l] \/ \A y \in Exchanges : held[y] # l
    /\ WellFormed(g) /\ g # <<>>
    /\ \A y \in Exchanges : held[y] = NoList => Silent(y, g)

LEMMA CopyKeepsTurns ==
    ASSUME TalkInd, NEW l, NEW g, CopyStep(l, g)
    PROVE  /\ lists' \in [AllLists -> Seq(Entries)]
           /\ \A k \in AllLists : lists'[k] = IF k = l THEN g ELSE lists[k]
           /\ \A y \in Exchanges : held[y] = NoList => \A k \in AllLists : Silent(y, lists'[k])
           /\ SaysAllItSaid' /\ QueueOK' /\ TogetherOK' /\ RecordsOK' /\ ResultsOK'
<1>1. TalkTypes /\ NobodyElse /\ SaysAllItSaid /\ RecordsOK /\ ResultsOK
  BY DEF TalkInd
<1>2. /\ door = "library" /\ l \in AllLists /\ g \in Seq(Entries)
      /\ UNCHANGED <<door, phase, before, queueTail, toolStart, announced, results, said, shared>>
      /\ \A y \in Exchanges : held'[y] = held[y]
      /\ lists' = [lists EXCEPT ![l] = g]
  BY DEF CopyStep, WellFormed
<1>3. lists' \in [AllLists -> Seq(Entries)]
  BY <1>1, <1>2 DEF TalkTypes
<1>4. \A k \in AllLists : lists'[k] = IF k = l THEN g ELSE lists[k]
  BY <1>1, <1>2 DEF TalkTypes
<1>5. \A y \in Exchanges : held[y] = NoList => \A k \in AllLists : Silent(y, lists'[k])
  BY <1>1, <1>4 DEF CopyStep, NobodyElse
<1>6. \A y \in Exchanges : held[y] \in AllLists => lists'[held[y]] = lists[held[y]]
  BY <1>4 DEF CopyStep
<1>7. SaysAllItSaid'
  <2> SUFFICES ASSUME NEW y \in Exchanges, held'[y] # NoList PROVE Of(y, lists'[held'[y]]) = said'[y]
    BY DEF SaysAllItSaid
  <2>1. held'[y] = held[y] /\ held[y] \in AllLists
    BY <1>1, <1>2, NamesApart DEF TalkTypes
  <2> QED BY <1>1, <1>2, <1>6, <2>1 DEF SaysAllItSaid
<1>8. QueueOK' /\ TogetherOK'
  BY <1>2 DEF QueueOK, TogetherOK
<1>9. \A y \in Exchanges : (UnderWay(y)' <=> UnderWay(y)) /\ (OwnTools(y)' <=> OwnTools(y))
  BY <1>2 DEF UnderWay, OwnTools
<1>10. RecordsOK'
  <2> SUFFICES ASSUME NEW y \in Exchanges
               PROVE  /\ phase'[y] # "over" => results'[y] = <<>>
                      /\ UnderWay(y)' /\ ~ shared'[y] =>
                           Alone(y)' /\ RecordsFrom(y, lists[held[y]], toolStart[y])'
    BY <1>2 DEF RecordsOK
  <2>1. phase'[y] # "over" => results'[y] = <<>>
    BY <1>1, <1>2 DEF RecordsOK
  <2> SUFFICES ASSUME UnderWay(y)', ~ shared'[y]
               PROVE  Alone(y)' /\ RecordsFrom(y, lists[held[y]], toolStart[y])'
    BY <2>1
  <2>2. UnderWay(y) /\ Alone(y) /\ RecordsFrom(y, lists[held[y]], toolStart[y])
    BY <1>1, <1>2, <1>9 DEF RecordsOK
  <2>3. Alone(y)'
    BY <1>2, <1>9, <2>2 DEF Alone
  <2>4. held[y] \in AllLists
    BY <1>1, <1>2, <2>2, NamesApart DEF TalkInd, Holders, TalkTypes, UnderWay
  <2>5. lists'[held'[y]] = lists[held[y]]
    BY <1>2, <1>6, <2>4
  <2> QED BY <1>2, <1>9, <2>2, <2>3, <2>5 DEF RecordsFrom
<1>11. ResultsOK'
  <2> SUFFICES ASSUME NEW y \in Exchanges, phase'[y] = "over", ~ shared'[y], OwnTools(y)'
               PROVE  \E k \in Nat : results'[y] = ToolsOf(y, k)
    BY DEF ResultsOK
  <2>1. phase[y] = "over" /\ ~ shared[y] /\ OwnTools(y)
    BY <1>2, <1>9
  <2>2. \E k \in Nat : results[y] = ToolsOf(y, k)
    BY <1>1, <1>2, <2>1 DEF ResultsOK
  <2> QED BY <1>2, <2>2
<1> QED BY <1>3, <1>4, <1>5, <1>7, <1>8, <1>10, <1>11

LEMMA CheckpointTakesKeeps ==
    ASSUME TalkInd, NEW c \in Checkpoints, CheckpointTakes(c)
    PROVE  TalkInd'
<1> DEFINE l == IF live = NoList THEN c ELSE live
           g == IF live = NoList THEN <<SystemPrompt>> ELSE lists[live]
<1>1. TalkTypes /\ Forms /\ Filled /\ CopiesFrozen /\ NewUnused /\ Holders /\ NobodyElse /\ LibraryOnly
  BY DEF TalkInd
<1>2. /\ door = "library" /\ step[c] = "new" /\ live' = l /\ lists' = [lists EXCEPT ![l] = g]
      /\ held' = [held EXCEPT ![c] = l] /\ stored' = g /\ step' = [step EXCEPT ![c] = "saving"]
      /\ UNCHANGED <<door, phase, before, queueTail, toolStart, announced, results, said, shared, kept>>
  BY DEF CheckpointTakes, queueVars, turnState, talkHistory
<1>3. Unused(c) /\ c \in Lists /\ c \notin Exchanges /\ c \in AllLists
  BY <1>1, <1>2, NamesApart DEF NewUnused
<1>4. l \in Lists /\ l \in AllLists /\ l # NoList /\ (l = c \/ l = live)
  BY <1>1, <1>3, NamesApart DEF TalkTypes
<1>5. WellFormed(g) /\ g # <<>> /\ \A y \in Exchanges : held[y] = NoList => Silent(y, g)
  <2>1. CASE live = NoList
    <3>1. g = <<SystemPrompt>>
      BY <2>1
    <3>2. \A y \in Exchanges : Silent(y, <<SystemPrompt>>)
      BY NamesApart DEF Silent, SystemPrompt, Entry
    <3> QED BY <3>1, <3>2, NewHistory
  <2>2. CASE live # NoList
    <3>1. live \in AllLists /\ g = lists[live]
      BY <1>4, <2>2
    <3> QED BY <1>1, <2>2, <3>1 DEF Forms, Filled, NobodyElse
  <2> QED BY <2>1, <2>2
<1>6. g = lists[l] \/ \A y \in Exchanges : held[y] # l
  <2>1. CASE live = NoList
    BY <1>3, <2>1 DEF Unused
  <2>2. CASE live # NoList
    BY <2>2
  <2> QED BY <2>1, <2>2
<1> HIDE DEF l, g
<1>7. \A y \in Exchanges \cup Checkpoints : held'[y] = IF y = c THEN l ELSE held[y]
  BY <1>1, <1>2 DEF TalkTypes
<1>8. \A k \in Checkpoints \cup Resumes : step'[k] = IF k = c THEN "saving" ELSE step[k]
  BY <1>1, <1>2 DEF TalkTypes
<1>9. CopyStep(l, g)
  BY <1>2, <1>3, <1>4, <1>5, <1>6, <1>7 DEF CopyStep
<1>10. /\ lists' \in [AllLists -> Seq(Entries)]
       /\ \A k \in AllLists : lists'[k] = IF k = l THEN g ELSE lists[k]
       /\ \A y \in Exchanges : held[y] = NoList => \A k \in AllLists : Silent(y, lists'[k])
       /\ SaysAllItSaid' /\ QueueOK' /\ TogetherOK' /\ RecordsOK' /\ ResultsOK'
  BY <1>9, CopyKeepsTurns
<1>11. TalkTypes'
  <2>1. live' \in Lists \cup {NoList} /\ held' \in [Exchanges \cup Checkpoints -> Lists \cup {NoList}]
    BY <1>1, <1>2, <1>4 DEF TalkTypes
  <2>2. step' \in [Checkpoints \cup Resumes -> {"new", "saving", "saved"}] /\ stored' \in Seq(Entries)
    BY <1>1, <1>2, <1>5 DEF TalkTypes, WellFormed
  <2> QED BY <1>1, <1>2, <1>10, <2>1, <2>2 DEF TalkTypes
<1>12. Forms'
  BY <1>1, <1>2, <1>5, <1>10 DEF Forms
<1>13. Filled'
  <2>1. \A k \in AllLists : lists[k] # <<>> \/ k = l => lists'[k] # <<>>
    BY <1>5, <1>10
  <2>2. ASSUME NEW y \in Exchanges \cup Checkpoints, held'[y] # NoList PROVE lists'[held'[y]] # <<>>
    <3>1. CASE y = c
      BY <1>4, <1>7, <2>1, <3>1
    <3>2. CASE y # c
      <4>1. held'[y] = held[y] /\ held[y] \in AllLists /\ lists[held[y]] # <<>>
        BY <1>1, <1>7, <2>2, <3>2, NamesApart DEF Filled, TalkTypes
      <4> QED BY <2>1, <4>1
    <3> QED BY <3>1, <3>2
  <2>3. \A d \in Checkpoints : step'[d] = "saved" => lists'[CopyOf(d)] # <<>>
    BY <1>1, <1>8, <2>1, NamesApart DEF Filled
  <2>4. lists'[live'] # <<>>
    BY <1>2, <1>4, <2>1
  <2> QED BY <2>2, <2>3, <2>4 DEF Filled
<1>14. CopiesFrozen'
  <2>1. \A d \in Checkpoints : CopyOf(d) \in AllLists /\ CopyOf(d) # l
    BY <1>4, NamesApart
  <2> QED BY <1>1, <1>2, <1>10, <2>1 DEF CopiesFrozen
<1>15. NewUnused'
  <2>1. ASSUME NEW k, k # c, Unused(k) PROVE Unused(k)'
    <3>1. l # k
      BY <1>4, <2>1 DEF Unused
    <3> QED BY <1>2, <1>7, <2>1, <3>1 DEF Unused
  <2>2. ASSUME NEW y \in Exchanges, phase'[y] \in {"new", "queued"}
        PROVE  Unused(y)' /\ held'[y] = NoList /\ announced'[y] = 0
    <3>1. y # c
      BY <1>3
    <3> QED BY <1>1, <1>2, <1>7, <2>1, <2>2, <3>1 DEF NewUnused
  <2>3. ASSUME NEW d \in Checkpoints \cup Resumes, step'[d] = "new" PROVE Unused(d)'
    <3>1. d # c /\ step[d] = "new"
      BY <1>8, <2>3
    <3> QED BY <1>1, <2>1, <3>1 DEF NewUnused
  <2> QED BY <2>2, <2>3 DEF NewUnused
<1>16. Holders'
  <2>1. \A y \in Exchanges \cup Checkpoints : held[y] # NoList \/ y = c => held'[y] # NoList
    BY <1>4, <1>7
  <2> QED BY <1>1, <1>2, <1>8, <2>1 DEF Holders
<1>17. NobodyElse'
  <2> SUFFICES ASSUME NEW y \in Exchanges, held'[y] = NoList
               PROVE  (\A k \in AllLists : Silent(y, lists'[k])) /\ Silent(y, stored')
    BY DEF NobodyElse
  <2>1. held[y] = NoList
    BY <1>3, <1>7
  <2> QED BY <1>2, <1>5, <1>10, <2>1
<1>18. LibraryOnly'
  BY <1>2 DEF LibraryOnly
<1> QED BY <1>10, <1>11, <1>12, <1>13, <1>14, <1>15, <1>16, <1>17, <1>18 DEF TalkInd

LEMMA CheckpointSavedKeeps ==
    ASSUME TalkInd, NEW c \in Checkpoints, CheckpointSaved(c)
    PROVE  TalkInd'
<1> DEFINE l == CopyOf(c)
           g == lists[held[c]]
<1>1. TalkTypes /\ Forms /\ Filled /\ CopiesFrozen /\ NewUnused /\ Holders /\ NobodyElse /\ LibraryOnly
  BY DEF TalkInd
<1>2. /\ step[c] = "saving" /\ lists' = [lists EXCEPT ![l] = g] /\ kept' = [kept EXCEPT ![c] = g]
      /\ step' = [step EXCEPT ![c] = "saved"]
      /\ UNCHANGED <<door, phase, before, queueTail, live, held, toolStart, announced, results, stored,
                     said, shared>>
  BY DEF CheckpointSaved, queueVars, turnState
<1>3. held[c] # NoList /\ held[c] \in AllLists
  BY <1>1, <1>2, NamesApart DEF Holders, TalkTypes
<1>4. l \in AllLists /\ l \notin Lists /\ \A y \in Exchanges \cup Checkpoints : held[y] # l
  BY <1>1, NamesApart DEF TalkTypes
<1>5. WellFormed(g) /\ g # <<>> /\ \A y \in Exchanges : held[y] = NoList => Silent(y, g)
  BY <1>1, <1>3 DEF Forms, Filled, NobodyElse
<1>6. door = "library"
  BY <1>1, <1>2 DEF LibraryOnly
<1> HIDE DEF l, g
<1>7. \A k \in Checkpoints \cup Resumes : step'[k] = IF k = c THEN "saved" ELSE step[k]
  BY <1>1, <1>2 DEF TalkTypes
<1>8. CopyStep(l, g)
  BY <1>2, <1>4, <1>5, <1>6 DEF CopyStep
<1>9. /\ lists' \in [AllLists -> Seq(Entries)]
      /\ \A k \in AllLists : lists'[k] = IF k = l THEN g ELSE lists[k]
      /\ \A y \in Exchanges : held[y] = NoList => \A k \in AllLists : Silent(y, lists'[k])
      /\ SaysAllItSaid' /\ QueueOK' /\ TogetherOK' /\ RecordsOK' /\ ResultsOK'
  BY <1>8, CopyKeepsTurns
<1>10. TalkTypes'
  <2>1. kept' \in [Checkpoints -> Seq(Entries)]
    BY <1>1, <1>2, <1>5 DEF TalkTypes, WellFormed
  <2>2. step' \in [Checkpoints \cup Resumes -> {"new", "saving", "saved"}]
    BY <1>1, <1>2 DEF TalkTypes
  <2> QED BY <1>1, <1>2, <1>9, <2>1, <2>2 DEF TalkTypes
<1>11. Forms'
  BY <1>1, <1>2, <1>5, <1>9 DEF Forms
<1>12. Filled'
  <2>1. \A k \in AllLists : lists[k] # <<>> \/ k = l => lists'[k] # <<>>
    BY <1>5, <1>9
  <2>2. live \in AllLists \cup {NoList} /\ \A y \in Exchanges \cup Checkpoints : held[y] \in AllLists \cup {NoList}
    BY <1>1, NamesApart DEF TalkTypes
  <2>3. \A d \in Checkpoints : step'[d] = "saved" => lists'[CopyOf(d)] # <<>>
    BY <1>1, <1>7, <2>1, NamesApart DEF Filled, l
  <2> QED BY <1>1, <1>2, <2>1, <2>2, <2>3 DEF Filled
<1>13. CopiesFrozen'
  <2> SUFFICES ASSUME NEW d \in Checkpoints PROVE lists'[CopyOf(d)] = kept'[d]
    BY DEF CopiesFrozen, CopyOf
  <2>1. CopyOf(d) \in AllLists /\ (CopyOf(d) = l => d = c)
    BY NamesApart DEF l
  <2>2. kept'[d] = IF d = c THEN g ELSE kept[d]
    BY <1>1, <1>2 DEF TalkTypes
  <2> QED BY <1>1, <1>9, <2>1, <2>2 DEF CopiesFrozen, l
<1>14. NewUnused'
  BY <1>1, <1>2, <1>7 DEF NewUnused, Unused
<1>15. Holders'
  BY <1>1, <1>2, <1>7 DEF Holders
<1>16. NobodyElse'
  <2> SUFFICES ASSUME NEW y \in Exchanges, held'[y] = NoList
               PROVE  (\A k \in AllLists : Silent(y, lists'[k])) /\ Silent(y, stored')
    BY DEF NobodyElse
  <2> QED BY <1>1, <1>2, <1>9 DEF NobodyElse
<1>17. LibraryOnly'
  BY <1>2, <1>6 DEF LibraryOnly
<1> QED BY <1>9, <1>10, <1>11, <1>12, <1>13, <1>14, <1>15, <1>16, <1>17 DEF TalkInd

LEMMA ResumesFromKeeps ==
    ASSUME TalkInd, NEW r \in Resumes, ResumesFrom(r)
    PROVE  TalkInd'
<1>1. TalkTypes /\ Forms /\ Filled /\ CopiesFrozen /\ NewUnused /\ Holders /\ NobodyElse /\ LibraryOnly
  BY DEF TalkInd
<1>2. PICK g \in {lists[CopyOf(c)] : c \in {d \in Checkpoints : step[d] = "saved"}}
                 \cup (IF stored = <<>> THEN {} ELSE {stored}) : lists' = [lists EXCEPT ![r] = g]
  BY DEF ResumesFrom
<1>3. /\ step[r] = "new" /\ live' = r /\ step' = [step EXCEPT ![r] = "saved"]
      /\ UNCHANGED <<door, phase, before, queueTail, held, toolStart, announced, results, stored,
                     said, shared, kept>>
  BY DEF ResumesFrom, queueVars, turnState, talkHistory
<1>4. Unused(r) /\ r \in Lists /\ r \in AllLists /\ r \notin Exchanges /\ r \notin Checkpoints /\ r # NoList
  BY <1>1, <1>3, NamesApart DEF NewUnused
<1>5. WellFormed(g) /\ g # <<>> /\ \A y \in Exchanges : held[y] = NoList => Silent(y, g)
  <2>1. CASE g \in {lists[CopyOf(c)] : c \in {d \in Checkpoints : step[d] = "saved"}}
    <3>1. PICK c \in Checkpoints : step[c] = "saved" /\ g = lists[CopyOf(c)]
      BY <2>1
    <3>2. CopyOf(c) \in AllLists
      BY NamesApart
    <3> QED BY <1>1, <3>1, <3>2 DEF Forms, Filled, NobodyElse
  <2>2. CASE g = stored /\ stored # <<>>
    BY <1>1, <2>2 DEF Forms, NobodyElse
  <2> QED BY <1>2, <2>1, <2>2
<1>6. door = "library"
  BY <1>1, <1>2 DEF LibraryOnly
<1>7. \A k \in Checkpoints \cup Resumes : step'[k] = IF k = r THEN "saved" ELSE step[k]
  BY <1>1, <1>3 DEF TalkTypes
<1>8. CopyStep(r, g)
  BY <1>2, <1>3, <1>4, <1>5, <1>6 DEF CopyStep, Unused
<1>9. /\ lists' \in [AllLists -> Seq(Entries)]
      /\ \A k \in AllLists : lists'[k] = IF k = r THEN g ELSE lists[k]
      /\ \A y \in Exchanges : held[y] = NoList => \A k \in AllLists : Silent(y, lists'[k])
      /\ SaysAllItSaid' /\ QueueOK' /\ TogetherOK' /\ RecordsOK' /\ ResultsOK'
  BY <1>8, CopyKeepsTurns
<1>10. TalkTypes'
  <2>1. step' \in [Checkpoints \cup Resumes -> {"new", "saving", "saved"}]
    BY <1>1, <1>3 DEF TalkTypes
  <2> QED BY <1>1, <1>3, <1>4, <1>9, <2>1 DEF TalkTypes
<1>11. Forms'
  BY <1>1, <1>3, <1>5, <1>9 DEF Forms
<1>12. Filled'
  <2>1. \A k \in AllLists : lists[k] # <<>> \/ k = r => lists'[k] # <<>>
    BY <1>5, <1>9
  <2>2. \A y \in Exchanges \cup Checkpoints : held[y] \in AllLists \cup {NoList}
    BY <1>1, NamesApart DEF TalkTypes
  <2>3. \A d \in Checkpoints : step'[d] = "saved" => lists'[CopyOf(d)] # <<>>
    BY <1>1, <1>4, <1>7, <2>1, NamesApart DEF Filled
  <2> QED BY <1>1, <1>3, <1>4, <2>1, <2>2, <2>3 DEF Filled
<1>13. CopiesFrozen'
  <2>1. \A d \in Checkpoints : CopyOf(d) \in AllLists /\ CopyOf(d) # r
    BY <1>4, NamesApart
  <2> QED BY <1>1, <1>3, <1>9, <2>1 DEF CopiesFrozen
<1>14. NewUnused'
  <2>1. ASSUME NEW k, k # r, Unused(k) PROVE Unused(k)'
    BY <1>3, <2>1 DEF Unused
  <2>2. ASSUME NEW y \in Exchanges, phase'[y] \in {"new", "queued"}
        PROVE  Unused(y)' /\ held'[y] = NoList /\ announced'[y] = 0
    <3>1. y # r
      BY <1>4
    <3> QED BY <1>1, <1>3, <2>1, <2>2, <3>1 DEF NewUnused
  <2>3. ASSUME NEW d \in Checkpoints \cup Resumes, step'[d] = "new" PROVE Unused(d)'
    <3>1. d # r /\ step[d] = "new"
      BY <1>7, <2>3
    <3> QED BY <1>1, <2>1, <3>1 DEF NewUnused
  <2> QED BY <2>2, <2>3 DEF NewUnused
<1>15. Holders'
  BY <1>1, <1>3, <1>4, <1>7 DEF Holders
<1>16. NobodyElse'
  <2> SUFFICES ASSUME NEW y \in Exchanges, held'[y] = NoList
               PROVE  (\A k \in AllLists : Silent(y, lists'[k])) /\ Silent(y, stored')
    BY DEF NobodyElse
  <2> QED BY <1>1, <1>3, <1>9 DEF NobodyElse
<1>17. LibraryOnly'
  BY <1>3, <1>6 DEF LibraryOnly
<1> QED BY <1>9, <1>10, <1>11, <1>12, <1>13, <1>14, <1>15, <1>16, <1>17 DEF TalkInd

LEMMA TalkStart == ConversationInit => TalkInd
<1> SUFFICES ASSUME ConversationInit PROVE TalkInd
  OBVIOUS
<1> USE DEF ConversationInit
<1>1. <<>> \in Seq(Entries) /\ Len(<<>>) = 0 /\ 1..0 = {}
  OBVIOUS
<1>2. TalkTypes
  BY <1>1 DEF TalkTypes, Phases
<1>3. \A l \in AllLists : lists[l] = <<>>
  OBVIOUS
<1>4. Forms
  BY <1>1, <1>3 DEF Forms, WellFormed
<1>5. Filled /\ NewUnused /\ Holders
  <2>1. \A y \in Exchanges \cup Checkpoints : held[y] = NoList
    OBVIOUS
  <2>2. \A c \in Checkpoints \cup Resumes : step[c] = "new" /\ c # NoList
    BY NamesApart
  <2>3. \A x \in Exchanges : phase[x] = "new" /\ announced[x] = 0 /\ x # NoList
    BY NamesApart
  <2> QED BY <2>1, <2>2, <2>3 DEF Filled, NewUnused, Unused, Holders
<1>6. CopiesFrozen
  BY NamesApart DEF CopiesFrozen
<1>7. NobodyElse
  BY <1>1, <1>3 DEF NobodyElse, Silent
<1>8. LibraryOnly
  BY DEF LibraryOnly
<1>9. SaysAllItSaid
  BY DEF SaysAllItSaid
<1>10. QueueOK
  <2>1. /\ <<>> \in Seq(Exchanges) /\ Len(<<>>) = 0
        /\ \A i \in 1..0 : FALSE
        /\ \A i \in 2..0 : FALSE
    OBVIOUS
  <2> DEFINE q == <<>>
  <2>2. q \in Seq(Exchanges) /\ q = <<>> /\ (\A i \in 1..Len(q) : FALSE) /\ (\A i \in 2..Len(q) : FALSE)
    BY <2>1
  <2>3. \A x \in Exchanges : phase[x] = "new"
    OBVIOUS
  <2> HIDE DEF q
  <2>4. Lined(q)
    BY <2>2, <2>3 DEF Lined
  <2> QED BY <2>4 DEF QueueOK
<1>11. TogetherOK
  <2>1. \A l \in AllLists : Together(lists[l])
    BY <1>1, <1>3 DEF Together
  <2>2. \A l \in AllLists, x \in Exchanges : EndOf(Of(x, lists[l]), said[x])
    <3>1. \A x : Silent(x, <<>>)
      BY <1>1 DEF Silent
    <3>2. \A x : Of(x, <<>>) = <<>>
      BY <1>1, <3>1, OfOthers
    <3>3. \A x \in Exchanges : said[x] \in Seq(Entries)
      BY <1>2 DEF TalkTypes
    <3> QED BY <1>3, <3>2, <3>3, EndOfAll
  <2>3. \A x \in Exchanges : ~UnderWay(x)
    BY DEF UnderWay
  <2> QED BY <2>1, <2>2, <2>3 DEF TogetherOK
<1>12. RecordsOK /\ ResultsOK
  BY DEF RecordsOK, ResultsOK, UnderWay
<1> QED BY <1>2, <1>4, <1>5, <1>6, <1>7, <1>8, <1>9, <1>10, <1>11, <1>12 DEF TalkInd

LEMMA NothingHappensKeeps == TalkInd /\ UNCHANGED conversationVars => TalkInd'
<1> SUFFICES ASSUME TalkInd, UNCHANGED conversationVars PROVE TalkInd'
  OBVIOUS
<1>1. /\ TalkTypes /\ Forms /\ Filled /\ CopiesFrozen /\ NewUnused /\ Holders /\ NobodyElse /\ LibraryOnly
      /\ SaysAllItSaid /\ QueueOK /\ TogetherOK /\ RecordsOK /\ ResultsOK
  BY DEF TalkInd
<1>2. UNCHANGED <<door, phase, before, queueTail, live, lists, held, toolStart, announced, results,
                  step, stored, said, shared, kept>>
  BY DEF conversationVars, queueVars, historyVars, turnState, checkpointVars, talkHistory
<1>3. TalkTypes' /\ Forms' /\ Filled' /\ Holders' /\ LibraryOnly'
  BY <1>1, <1>2 DEF TalkTypes, Forms, Filled, Holders, LibraryOnly
<1>4. CopiesFrozen' /\ NewUnused' /\ NobodyElse'
  BY <1>1, <1>2 DEF CopiesFrozen, NewUnused, Unused, NobodyElse
<1>5. SaysAllItSaid'
  BY <1>1, <1>2 DEF SaysAllItSaid
<1>6. QueueOK'
  BY <1>1, <1>2 DEF QueueOK, Lined
<1>7. \A x \in Exchanges : (UnderWay(x)' <=> UnderWay(x)) /\ (OwnTools(x)' <=> OwnTools(x))
  BY <1>2 DEF UnderWay, OwnTools
<1>8. TogetherOK'
  BY <1>1, <1>2, <1>7 DEF TogetherOK, LastOfAll
<1>9. RecordsOK'
  BY <1>1, <1>2, <1>7 DEF RecordsOK, RecordsFrom, Alone
<1>10. ResultsOK'
  BY <1>1, <1>2, <1>7 DEF ResultsOK
<1> QED BY <1>3, <1>4, <1>5, <1>6, <1>8, <1>9, <1>10 DEF TalkInd

LEMMA TalkStep == TalkInd /\ [ConversationNext]_conversationVars => TalkInd'
<1> SUFFICES ASSUME TalkInd, [ConversationNext]_conversationVars PROVE TalkInd'
  OBVIOUS
<1>1. TalkTypes /\ Forms /\ Filled
  BY DEF TalkInd
<1>2. ASSUME NEW x \in Exchanges,
             \/ MessageArrives(x) \/ MessageRefused(x) \/ DiscoverySkipped(x) \/ LoopsUsedUp(x)
             \/ ModelThrows(x) \/ TurnReturns(x) \/ TurnFails(x)
      PROVE  TalkInd'
  BY <1>2, QuietActions, QuietKeeps
<1>3. ASSUME NEW x \in Exchanges, TurnBegins(x) PROVE TalkInd'
  BY <1>1, <1>3, TurnBeginsHere, BeginKeeps
<1>4. ASSUME NEW x \in Exchanges, DiscoveryAnswers(x) PROVE TalkInd'
  BY <1>4, DiscoveryInserts, ContextKeeps
<1>5. ASSUME NEW x \in Exchanges, ModelAsksTools(x) \/ ModelAnswers(x) PROVE TalkInd'
  BY <1>1, <1>5, ModelAsksPushes, PushKeeps
<1>6. ASSUME NEW x \in Exchanges, ToolAnswered(x) PROVE TalkInd'
  BY <1>1, <1>6, ToolAnswerPushes, PushKeeps
<1>7. ASSUME NEW c \in Checkpoints, CheckpointTakes(c) \/ CheckpointSaved(c) PROVE TalkInd'
  BY <1>7, CheckpointTakesKeeps, CheckpointSavedKeeps
<1>8. ASSUME NEW r \in Resumes, ResumesFrom(r) PROVE TalkInd'
  BY <1>8, ResumesFromKeeps
<1>9. CASE UNCHANGED conversationVars
  BY <1>9, NothingHappensKeeps
<1> QED BY <1>2, <1>3, <1>4, <1>5, <1>6, <1>7, <1>8, <1>9 DEF ConversationNext

LEMMA TalkMeans == TalkInd => ConversationInv /\ ReportsOwnResults
<1> SUFFICES ASSUME TalkInd PROVE ConversationInv /\ ReportsOwnResults
  OBVIOUS
<1>1. TalkTypes /\ Forms /\ Holders /\ CopiesFrozen /\ SaysAllItSaid /\ TogetherOK /\ ResultsOK
  BY DEF TalkInd
<1>2. ConversationTypeOK
  <2>1. live \in AllLists \cup {NoList}
    BY <1>1, NamesApart DEF TalkTypes
  <2>2. ASSUME NEW x \in Exchanges, UnderWay(x), phase[x] # "failing" PROVE held[x] \in AllLists
    BY <1>1, <2>2, NamesApart DEF Holders, UnderWay, TalkTypes
  <2> QED BY <1>1, <2>1, <2>2 DEF ConversationTypeOK, TalkTypes
<1>3. OneContextOnTop
  <2> SUFFICES ASSUME NEW l \in AllLists, NEW i \in DOMAIN lists[l]
               PROVE  /\ lists[l][i].what = "system" <=> i = 1
                      /\ lists[l][i].what = "context" => i = 2
    BY DEF OneContextOnTop
  <2>1. WellFormed(lists[l]) /\ lists[l] \in Seq(Entries)
    BY <1>1 DEF Forms, WellFormed
  <2>2. i \in 1..Len(lists[l])
    BY <2>1
  <2> QED BY <2>1, <2>2 DEF WellFormed
<1>4. QueuedTurnsStandTogether
  <2> SUFFICES ASSUME door = "channel", NEW l \in AllLists
               PROVE  /\ \A i, j, k \in DOMAIN lists[l] :
                           i < j /\ j < k /\ lists[l][i].by = lists[l][k].by /\ lists[l][i].by # NoExchange
                           => lists[l][j].by = lists[l][i].by
                      /\ \A x \in Exchanges :
                           LET here == Of(x, lists[l])
                           IN  here # <<>> => here = SubSeq(said[x], Len(said[x]) - Len(here) + 1, Len(said[x]))
    BY DEF QueuedTurnsStandTogether
  <2>1. Together(lists[l]) /\ \A x \in Exchanges : EndOf(Of(x, lists[l]), said[x])
    BY <1>1 DEF TogetherOK
  <2>2. lists[l] \in Seq(Entries) /\ DOMAIN lists[l] = 1..Len(lists[l])
    BY <1>1 DEF TalkTypes
  <2>3. ASSUME NEW x \in Exchanges
        PROVE  Of(x, lists[l]) = SubSeq(said[x], Len(said[x]) - Len(Of(x, lists[l])) + 1, Len(said[x]))
    <3> DEFINE s == Of(x, lists[l])
               t == said[x]
    <3>1. t \in Seq(Entries)
      BY <1>1 DEF TalkTypes
    <3>2. PICK k \in 0..Len(t) : s = SubSeq(t, k + 1, Len(t))
      BY <2>1 DEF EndOf
    <3> HIDE DEF s, t
    <3>3. Len(s) = Len(t) - k
      BY <3>1, <3>2, SubSeqProperties
    <3>4. Len(t) - Len(s) + 1 = k + 1
      BY <3>1, <3>3
    <3>5. s = SubSeq(t, Len(t) - Len(s) + 1, Len(t))
      BY <3>2, <3>4
    <3> QED BY <3>5 DEF s, t
  <2> QED BY <2>1, <2>2, <2>3 DEF Together
<1>5. ReportsOwnResults
  <2> SUFFICES ASSUME NEW x \in Exchanges, door = "library", phase[x] = "over", ~ shared[x],
                      \A i \in DOMAIN said[x] : said[x][i].what = "tool" => said[x][i].n > 0
               PROVE  results[x] = [i \in DOMAIN results[x] |-> Entry(x, "tool", i)]
    BY DEF ReportsOwnResults
  <2>1. OwnTools(x)
    <3>1. DOMAIN said[x] = 1..Len(said[x])
      BY <1>1 DEF TalkTypes
    <3> QED BY <3>1 DEF OwnTools
  <2>2. PICK k \in Nat : results[x] = ToolsOf(x, k)
    BY <1>1, <2>1 DEF ResultsOK
  <2>3. DOMAIN results[x] = 1..k
    BY <2>2 DEF ToolsOf
  <2> QED BY <2>2, <2>3 DEF ToolsOf
<1> QED BY <1>1, <1>2, <1>3, <1>4, <1>5 DEF ConversationInv

(* The histories of the sessions stay well-formed however turns, trimming, *)
(* capability discovery, checkpoints and resumes overlap: one system       *)
(* prompt, one capability context behind it, all that a turn said in the   *)
(* array it took, copies as they were saved, and the turns of a channel's  *)
(* queue one behind the other.                                             *)
THEOREM HistoriesStayWhole == ConversationSpec => []ConversationInv
<1>1. ConversationSpec => []TalkInd
  BY TalkStart, TalkStep, PTL DEF ConversationSpec
<1>2. TalkInd => ConversationInv
  BY TalkMeans
<1> QED BY <1>1, <1>2, PTL

(* A turn of the library that shared its history with no other and asked   *)
(* for no unknown tool reports its own tool outputs, record by record.     *)
THEOREM TurnsReportTheirOwn == ConversationSpec => []ReportsOwnResults
<1>1. ConversationSpec => []TalkInd
  BY TalkStart, TalkStep, PTL DEF ConversationSpec
<1>2. TalkInd => ReportsOwnResults
  BY TalkMeans
<1> QED BY <1>1, <1>2, PTL
=============================================================================
