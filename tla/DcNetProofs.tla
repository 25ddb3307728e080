------------------------------ MODULE DcNetProofs ----------------------------
(***************************************************************************)
(* Proofs about DcNet.                                                     *)
(***************************************************************************)
EXTENDS DcNet, PolySolverProofs, SequenceTheorems

-----------------------------------------------------------------------------
(* Sorting.                                                                *)

InOrder(f, b, n) == \A i \in 2 .. n : f[b[i - 1]] <= f[b[i]]

\* The greatest element goes last.
LEMMA OrderExists ==
    ASSUME NEW f, NEW S, IsFiniteSet(S), \A x \in S : f[x] \in Int
    PROVE  \E b \in Bijection(1 .. Cardinality(S), S) : InOrder(f, b, Cardinality(S))
  <1> DEFINE G == {T \in SUBSET S : \E b \in Bijection(1 .. Cardinality(T), T) : InOrder(f, b, Cardinality(T))}
  <1>1. ASSUME NEW T \in SUBSET S, \A U \in SUBSET T : U # T => U \in G
        PROVE  T \in G
    <2>0. IsFiniteSet(T) /\ Cardinality(T) \in Nat
      BY FS_Subset, FS_CardinalityType
    <2>1. CASE T = {}
      <3>1. Cardinality(T) = 0
        BY <2>1, FS_EmptySet
      <3> DEFINE b == [i \in 1 .. 0 |-> {}]
      <3>2. b \in Bijection(1 .. 0, {})
        BY DEF Bijection, Injection, Surjection, IsInjective
      <3>3. InOrder(f, b, 0)
        BY DEF InOrder
      <3> QED
        BY <2>1, <3>1, <3>2, <3>3
    <2>2. CASE T # {}
      <3>1. PICK x \in T : \A y \in T : f[y] <= f[x]
        BY <2>0, <2>2, Greatest
      <3> DEFINE U == T \ {x}
                 m == Cardinality(U)
                 n == Cardinality(T)
      <3>2. U \in G
        BY <1>1
      <3>3. m \in Nat /\ n = m + 1
        <4>1. IsFiniteSet(U) /\ U = T \ {x} /\ U \cup {x} = T /\ x \notin U
          BY <2>0, FS_RemoveElement
        <4> HIDE DEF U
        <4> QED
          BY <4>1, FS_AddElement, FS_CardinalityType
      <3>4. PICK b \in Bijection(1 .. m, U) : InOrder(f, b, m)
        BY <3>2
      <3> DEFINE c == [i \in 1 .. n |-> IF i = n THEN x ELSE b[i]]
      <3> HIDE DEF n, m
      <3>5. /\ b \in [1 .. m -> U] /\ \A i, j \in 1 .. m : b[i] = b[j] => i = j
            /\ \A y \in U : \E i \in 1 .. m : b[i] = y
        BY <3>4 DEF Bijection, Injection, Surjection, IsInjective
      <3>6. c \in Bijection(1 .. n, T)
        <4>1. c \in [1 .. n -> T]
          BY <3>3, <3>5
        <4>2. \A i, j \in 1 .. n : c[i] = c[j] => i = j
          <5> SUFFICES ASSUME NEW i \in 1 .. n, NEW j \in 1 .. n, c[i] = c[j], i # j PROVE FALSE
            OBVIOUS
          <5>1. CASE i = n
            <6>1. j \in 1 .. m /\ c[j] = b[j] /\ c[i] = x
              BY <3>3, <5>1
            <6> QED
              BY <3>5, <6>1
          <5>2. CASE j = n
            <6>1. i \in 1 .. m /\ c[i] = b[i] /\ c[j] = x
              BY <3>3, <5>2
            <6> QED
              BY <3>5, <6>1
          <5>3. CASE i # n /\ j # n
            <6>1. i \in 1 .. m /\ j \in 1 .. m /\ c[i] = b[i] /\ c[j] = b[j]
              BY <3>3, <5>3
            <6> QED
              BY <3>5, <6>1
          <5> QED
            BY <5>1, <5>2, <5>3
        <4>3. \A y \in T : \E i \in 1 .. n : c[i] = y
          <5> SUFFICES ASSUME NEW y \in T PROVE \E i \in 1 .. n : c[i] = y
            OBVIOUS
          <5>1. CASE y = x
            <6>1. n \in 1 .. n /\ c[n] = y
              BY <3>3, <5>1
            <6> QED
              BY <6>1
          <5>2. CASE y # x
            <6>1. PICK i \in 1 .. m : b[i] = y
              BY <3>5, <5>2
            <6>2. i \in 1 .. n /\ c[i] = y
              BY <3>3, <6>1
            <6> QED
              BY <6>2
          <5> QED
            BY <5>1, <5>2
        <4> HIDE DEF c
        <4> QED
          BY <4>1, <4>2, <4>3 DEF Bijection, Injection, Surjection, IsInjective
      <3>7. InOrder(f, c, n)
        <4> SUFFICES ASSUME NEW i \in 2 .. n PROVE f[c[i - 1]] <= f[c[i]]
          BY DEF InOrder
        <4>1. CASE i = n
          <5>1. c[i] = x /\ c[i - 1] \in T
            BY <3>3, <3>5, <4>1
          <5> QED
            BY <3>1, <5>1
        <4>2. CASE i # n
          <5>1. i \in 2 .. m /\ c[i] = b[i] /\ c[i - 1] = b[i - 1]
            BY <3>3, <4>2
          <5> QED
            BY <3>4, <5>1 DEF InOrder
        <4> QED
          BY <4>1, <4>2
      <3> HIDE DEF c
      <3>8. \E a \in Bijection(1 .. Cardinality(T), T) : InOrder(f, a, Cardinality(T))
        BY <3>6, <3>7 DEF n
      <3> QED
        BY <3>8
    <2> QED
      BY <2>1, <2>2
  <1>2. S \in G
    <2> HIDE DEF G
    <2> QED
      BY <1>1, SetInduction
  <1> QED
    BY <1>2

LEMMA SortedIs ==
    ASSUME NEW f, IsFiniteSet(DOMAIN f), \A x \in DOMAIN f : f[x] \in Int
    PROVE  \E b \in Bijection(1 .. Cardinality(DOMAIN f), DOMAIN f) :
             /\ Sorted(f) = [i \in 1 .. Cardinality(DOMAIN f) |-> f[b[i]]]
             /\ \A i \in 2 .. Cardinality(DOMAIN f) : f[b[i - 1]] <= f[b[i]]
  <1> DEFINE n == Cardinality(DOMAIN f)
             b == CHOOSE a \in Bijection(1 .. n, DOMAIN f) : \A i \in 2 .. n : f[a[i - 1]] <= f[a[i]]
  <1>1. \E a \in Bijection(1 .. n, DOMAIN f) : \A i \in 2 .. n : f[a[i - 1]] <= f[a[i]]
    BY OrderExists DEF InOrder
  <1>2. b \in Bijection(1 .. n, DOMAIN f) /\ \A i \in 2 .. n : f[b[i - 1]] <= f[b[i]]
    BY <1>1
  <1>3. Sorted(f) = [i \in 1 .. n |-> f[b[i]]]
    BY DEF Sorted
  <1> HIDE DEF n, b
  <1>4. \E a \in Bijection(1 .. n, DOMAIN f) :
             /\ Sorted(f) = [i \in 1 .. n |-> f[a[i]]]
             /\ \A i \in 2 .. n : f[a[i - 1]] <= f[a[i]]
    BY <1>2, <1>3
  <1> QED
    BY <1>4 DEF n

-----------------------------------------------------------------------------
(* Sums over the elements of several sequences.                            *)

Places(D, T) == UNION {{p} \X D[p] : p \in T}

LEMMA PlacesFinite ==
    ASSUME NEW D, NEW S, IsFiniteSet(S), \A p \in S : IsFiniteSet(D[p])
    PROVE  IsFiniteSet(Places(D, S))
  <1> DEFINE G == {T \in SUBSET S : IsFiniteSet(Places(D, T))}
  <1>1. {} \in G
    <2>1. Places(D, {}) = {}
      BY DEF Places
    <2> QED
      BY <2>1, FS_EmptySet
  <1>2. ASSUME NEW T \in SUBSET S, NEW x \in S \ T, T \in G PROVE T \cup {x} \in G
    <2>1. Places(D, T \cup {x}) = Places(D, T) \cup ({x} \X D[x])
      BY DEF Places
    <2>2. IsFiniteSet({x} \X D[x])
      BY FS_Singleton, FS_Product
    <2>3. IsFiniteSet(Places(D, T) \cup ({x} \X D[x]))
      BY <1>2, <2>2, FS_Union
    <2>4. T \cup {x} \in SUBSET S
      OBVIOUS
    <2> QED
      BY <2>1, <2>3, <2>4
  <1>3. S \in G
    <2> HIDE DEF G
    <2> QED
      BY <1>1, <1>2, FiniteInduction
  <1> QED
    BY <1>3

LEMMA TotalPlaces ==
    ASSUME NEW D, NEW S, IsFiniteSet(S), \A p \in S : IsFiniteSet(D[p]),
           NEW g, \A p \in S : \A i \in D[p] : g[<<p, i>>] \in Int,
           NEW row, \A p \in S : \A i \in D[p] : row[p][i] = g[<<p, i>>],
           NEW h, \A p \in S : h[p] = Total(row[p], D[p])
    PROVE  Total(g, Places(D, S)) = Total(h, S)
  <1> DEFINE G == {T \in SUBSET S : Total(g, Places(D, T)) = Total(h, T)}
  <1>0. ASSUME NEW p \in S PROVE h[p] \in Int
    <2>1. IsFiniteSet(D[p]) /\ \A i \in D[p] : row[p][i] \in Int
      OBVIOUS
    <2>2. Total(row[p], D[p]) \in Int
      BY <2>1, TotalType
    <2> QED
      BY <2>2
  <1>1. {} \in G
    <2>1. Places(D, {}) = {}
      BY DEF Places
    <2> QED
      BY <2>1, TotalEmpty
  <1>2. ASSUME NEW T \in SUBSET S, NEW x \in S \ T, T \in G PROVE T \cup {x} \in G
    <2> DEFINE A == Places(D, T)
               B == {x} \X D[x]
    <2>1. Places(D, T \cup {x}) = A \cup B /\ A \cap B = {}
      BY DEF Places
    <2>2. IsFiniteSet(B)
      BY FS_Singleton, FS_Product
    <2>3. IsFiniteSet(A)
      <3>1. IsFiniteSet(T)
        BY FS_Subset
      <3> QED
        BY <3>1, PlacesFinite
    <2>4. \A z \in A \cup B : g[z] \in Int
      BY DEF Places
    <2>5. Total(row[x], D[x]) = Total(g, B)
      <3> DEFINE b == [i \in D[x] |-> <<x, i>>]
      <3>1. b \in Bijection(D[x], B)
        <4>1. b \in [D[x] -> B]
          OBVIOUS
        <4>2. \A i, j \in D[x] : b[i] = b[j] => i = j
          OBVIOUS
        <4>3. \A z \in B : \E i \in D[x] : b[i] = z
          OBVIOUS
        <4> QED
          BY <4>1, <4>2, <4>3 DEF Bijection, Injection, Surjection, IsInjective
      <3>2. \A i \in D[x] : row[x][i] \in Int /\ row[x][i] = g[b[i]]
        OBVIOUS
      <3>3. IsFiniteSet(D[x])
        OBVIOUS
      <3> HIDE DEF b, B
      <3> QED
        BY <3>1, <3>2, <3>3, TotalMapped
    <2>6. Total(h, T \cup {x}) = h[x] + Total(h, T) /\ Total(h, T) \in Int /\ h[x] \in Int
      <3>1. IsFiniteSet(T) /\ \A y \in T \cup {x} : h[y] \in Int
        BY <1>0, FS_Subset
      <3> QED
        BY <3>1, TotalAdd, TotalType
    <2>7. Total(g, A \cup B) = Total(g, A) + Total(g, B)
      <3> HIDE DEF A, B
      <3> QED
        BY <2>1, <2>2, <2>3, <2>4, TotalUnion
    <2>8. Total(g, A) = Total(h, T) /\ Total(g, B) = h[x]
      BY <1>2, <2>5
    <2>9. T \cup {x} \in SUBSET S
      OBVIOUS
    <2>10. Total(g, A \cup B) = Total(h, T \cup {x})
      <3> HIDE DEF A, B, G
      <3> QED
        BY <2>6, <2>7, <2>8
    <2> QED
      BY <2>1, <2>9, <2>10
  <1>3. S \in G
    <2> HIDE DEF G
    <2> QED
      BY <1>1, <1>2, FiniteInduction
  <1> QED
    BY <1>3

-----------------------------------------------------------------------------
(* The messages of several peers together.                                 *)

LEMMA TogetherIs ==
    ASSUME NEW R, IsFiniteSet(DOMAIN R), \A p \in DOMAIN R : IsFiniteSet(DOMAIN R[p]),
           \A p \in DOMAIN R : \A i \in DOMAIN R[p] : R[p][i] \in Int
    PROVE  LET D == [p \in DOMAIN R |-> DOMAIN R[p]] IN
           /\ DOMAIN Together(R) = Places(D, DOMAIN R) /\ IsFiniteSet(DOMAIN Together(R))
           /\ \A p \in DOMAIN R : \A i \in DOMAIN R[p] :
                <<p, i>> \in DOMAIN Together(R) /\ Together(R)[<<p, i>>] = R[p][i]
           /\ \A z \in DOMAIN Together(R) :
                \E p \in DOMAIN R : \E i \in DOMAIN R[p] : z = <<p, i>> /\ Together(R)[z] = R[p][i]
           /\ \A z \in DOMAIN Together(R) : Together(R)[z] \in Int
  <1> DEFINE D == [p \in DOMAIN R |-> DOMAIN R[p]]
             P == Places(D, DOMAIN R)
  <1>1. P = UNION {{p} \X DOMAIN R[p] : p \in DOMAIN R}
    BY DEF Places
  <1>2. Together(R) = [pi \in P |-> R[pi[1]][pi[2]]]
    BY <1>1 DEF Together
  <1>3. IsFiniteSet(P)
    <2>1. \A p \in DOMAIN R : IsFiniteSet(D[p])
      OBVIOUS
    <2> HIDE DEF D
    <2> QED
      BY <2>1, PlacesFinite
  <1>4. \A p \in DOMAIN R : \A i \in DOMAIN R[p] : <<p, i>> \in P
    BY <1>1
  <1>5. \A z \in P : \E p \in DOMAIN R : \E i \in DOMAIN R[p] : z = <<p, i>>
    BY <1>1
  <1> HIDE DEF P
  <1>6. DOMAIN Together(R) = P /\ \A z \in P : Together(R)[z] = R[z[1]][z[2]]
    BY <1>2
  <1>7. \A p \in DOMAIN R : \A i \in DOMAIN R[p] : <<p, i>> \in P /\ Together(R)[<<p, i>>] = R[p][i]
    BY <1>4, <1>6
  <1>8. \A z \in P : \E p \in DOMAIN R : \E i \in DOMAIN R[p] : z = <<p, i>> /\ Together(R)[z] = R[p][i]
    BY <1>5, <1>7
  <1>9. \A z \in P : Together(R)[z] \in Int
    BY <1>8
  <1> QED
    BY <1>3, <1>6, <1>7, <1>8, <1>9 DEF P

\* Power sums of all are sums of the power sums of each.
LEMMA PowerSumTogether ==
    ASSUME NEW R, IsFiniteSet(DOMAIN R), \A p \in DOMAIN R : IsFiniteSet(DOMAIN R[p]),
           \A p \in DOMAIN R : \A i \in DOMAIN R[p] : R[p][i] \in Int,
           NEW k \in Nat
    PROVE  PowerSum(Together(R), k) = Sum([p \in DOMAIN R |-> PowerSum(R[p], k)])
  <1> DEFINE S == DOMAIN R
             D == [p \in S |-> DOMAIN R[p]]
             g == [z \in DOMAIN Together(R) |-> Exp(Together(R)[z], k)]
             row == [p \in S |-> [i \in DOMAIN R[p] |-> Exp(R[p][i], k)]]
             h == [p \in S |-> Total(row[p], DOMAIN R[p])]
             w == [p \in S |-> PowerSum(R[p], k)]
  <1>1. PowerSum(Together(R), k) = Total(g, Places(D, S)) % Prime
    BY TogetherIs, PowerSumIs
  <1>2. /\ \A p \in S : \A i \in D[p] : g[<<p, i>>] \in Int
        /\ \A p \in S : \A i \in D[p] : row[p][i] = g[<<p, i>>]
    BY TogetherIs, ExpType
  <1>3. \A p \in S : h[p] = Total(row[p], D[p])
    OBVIOUS
  <1>4. IsFiniteSet(S) /\ \A p \in S : IsFiniteSet(D[p])
    OBVIOUS
  <1>5. \A p \in S : w[p] = h[p] % Prime
    BY PowerSumIs
  <1>6. Sum(w) = Total(w, S) % Prime
    BY SumIs
  <1> HIDE DEF S, D, g, row, h, w
  <1>7. Total(g, Places(D, S)) = Total(h, S)
    BY <1>2, <1>3, <1>4, TotalPlaces
  <1>8. \A p \in S : h[p] \in Int /\ w[p] \in Int /\ h[p] % Prime = w[p] % Prime
    <2> SUFFICES ASSUME NEW p \in S PROVE h[p] \in Int /\ w[p] \in Int /\ h[p] % Prime = w[p] % Prime
      OBVIOUS
    <2>1. IsFiniteSet(D[p]) /\ \A i \in D[p] : row[p][i] \in Int
      BY <1>2, <1>4
    <2>2. h[p] \in Int
      BY <1>3, <2>1, TotalType
    <2> QED
      BY <1>5, <2>2, ModType, ModMod
  <1>9. Total(h, S) % Prime = Total(w, S) % Prime
    BY <1>4, <1>8, TotalMod
  <1> QED
    BY <1>1, <1>6, <1>7, <1>9 DEF w, S

\* Sorting does not change power sums.
LEMMA PowerSumSorted ==
    ASSUME NEW f, IsFiniteSet(DOMAIN f), \A x \in DOMAIN f : f[x] \in Int, NEW k \in Nat
    PROVE  PowerSum(Sorted(f), k) = PowerSum(f, k)
  <1> DEFINE n == Cardinality(DOMAIN f)
             S == DOMAIN f
             g == [x \in S |-> Exp(f[x], k)]
             h == [i \in 1 .. n |-> Exp(Sorted(f)[i], k)]
  <1>1. PICK b \in Bijection(1 .. n, S) : Sorted(f) = [i \in 1 .. n |-> f[b[i]]]
    BY SortedIs
  <1>2. DOMAIN Sorted(f) = 1 .. n
    BY <1>1
  <1>3. PowerSum(Sorted(f), k) = Total(h, 1 .. n) % Prime /\ PowerSum(f, k) = Total(g, S) % Prime
    BY <1>2, PowerSumIs
  <1>4. \A i \in 1 .. n : h[i] \in Int /\ h[i] = g[b[i]]
    <2>1. \A i \in 1 .. n : b[i] \in S /\ Sorted(f)[i] = f[b[i]] /\ Sorted(f)[i] \in Int
      BY <1>1 DEF Bijection, Injection
    <2> QED
      BY <2>1, ExpType
  <1>5. IsFiniteSet(1 .. n)
    BY FS_CardinalityType, FS_Interval
  <1> DEFINE I == 1 .. n
  <1>6. b \in Bijection(I, S) /\ IsFiniteSet(I) /\ \A i \in I : h[i] \in Int /\ h[i] = g[b[i]]
    BY <1>1, <1>4, <1>5
  <1> HIDE DEF n, S, g, h, I
  <1>7. Total(h, I) = Total(g, S)
    BY <1>6, TotalMapped
  <1> QED
    BY <1>3, <1>7 DEF I

-----------------------------------------------------------------------------
(* Paddings.                                                               *)

LEMMA PeerIs ==
    /\ Peer = 1 .. Len(NumMsg) /\ Len(NumMsg) \in Nat /\ IsFiniteSet(Peer)
    /\ \A p \in Peer : p \in Nat \ {0} /\ NumMsg[p] \in Nat \ {0}
    /\ TotalMsg = Total(NumMsg, Peer) /\ TotalMsg \in Nat
  <1>1. Peer = 1 .. Len(NumMsg) /\ Len(NumMsg) \in Nat /\ \A p \in Peer : p \in Nat \ {0} /\ NumMsg[p] \in Nat \ {0}
    BY ConstantsOK DEF Peer
  <1>2. IsFiniteSet(Peer)
    BY <1>1, FS_Interval
  <1>3. TotalMsg = Total(NumMsg, Peer)
    BY DEF TotalMsg, SumFunction, Total, Peer
  <1>4. Total(NumMsg, Peer) \in Nat
    BY <1>1, <1>2, TotalNat
  <1> QED
    BY <1>1, <1>2, <1>3, <1>4

PaddingType == padding \in [Pairs -> Paddings]

LEMMA SharedType ==
    ASSUME PaddingType, NEW p \in Peer, NEW q \in Peer, p # q
    PROVE  Shared(p, q) \in Int /\ Shared(p, q) = Shared(q, p)
  <1>1. p < q \/ q < p
    BY PeerIs
  <1>2. <<p, q>> \in Pairs \/ <<q, p>> \in Pairs
    BY <1>1 DEF Pairs
  <1>3. Paddings \subseteq Int
    BY ConstantsOK, ModField
  <1>4. ~(p < q /\ q < p)
    BY PeerIs
  <1>5. CASE p < q
    BY <1>3, <1>4, <1>5 DEF Shared, PaddingType, Pairs
  <1>6. CASE q < p
    BY <1>3, <1>4, <1>6 DEF Shared, PaddingType, Pairs
  <1> QED
    BY <1>1, <1>5, <1>6

\* The paddings with their signs, and nothing of a peer with itself.
Gives == [p \in Peer |-> [q \in Peer |-> IF p = q THEN 0 ELSE IF p > q THEN Shared(p, q) ELSE -Shared(p, q)]]

LEMMA PaddingOfMod ==
    ASSUME PaddingType, NEW p \in Peer
    PROVE  /\ PaddingOf(p) \in Field /\ Total(Gives[p], Peer) \in Int
           /\ PaddingOf(p) % Prime = Total(Gives[p], Peer) % Prime
  <1> DEFINE Others == Peer \ {p}
             s == [q \in Others |-> Signed(p, q)]
  <1>1. IsFiniteSet(Peer) /\ IsFiniteSet(Others)
    BY PeerIs, FS_RemoveElement
  <1>2. PaddingOf(p) = Total(s, Others) % Prime
    BY SumIs DEF PaddingOf
  <1>3. \A q \in Others : s[q] \in Int /\ Gives[p][q] \in Int /\ s[q] % Prime = Gives[p][q] % Prime
    <2> SUFFICES ASSUME NEW q \in Others
                 PROVE  s[q] \in Int /\ Gives[p][q] \in Int /\ s[q] % Prime = Gives[p][q] % Prime
      OBVIOUS
    <2>1. Shared(p, q) \in Int /\ -Shared(p, q) \in Int
      BY SharedType
    <2>2. s[q] = IF p > q THEN Shared(p, q) ELSE Neg(Shared(p, q))
      BY DEF Signed, Adds
    <2>3. Gives[p][q] = IF p > q THEN Shared(p, q) ELSE -Shared(p, q)
      BY DEF Gives
    <2> QED
      BY <2>1, <2>2, <2>3, NegMod
  <1>4. \A q \in Peer : Gives[p][q] \in Int
    <2>1. Gives[p][p] = 0
      BY DEF Gives
    <2> QED
      BY <1>3, <2>1
  <1> HIDE DEF s
  <1>5. Total(s, Others) % Prime = Total(Gives[p], Others) % Prime /\ Total(s, Others) \in Int
        /\ Total(Gives[p], Others) \in Int
    BY <1>1, <1>3, TotalMod, TotalType
  <1>6. Total(Gives[p], Peer) = Total(Gives[p], Others)
    <2>1. Total(Gives[p], Peer) = Gives[p][p] + Total(Gives[p], Peer \ {p})
      BY <1>1, <1>4, TotalRemove
    <2>2. Gives[p][p] = 0
      BY DEF Gives
    <2> QED
      BY <1>5, <2>1, <2>2
  <1> QED
    BY <1>2, <1>5, <1>6, ModType, ModMod

\* The paddings of all peers cancel.
LEMMA PaddingsCancel ==
    ASSUME PaddingType
    PROVE  Total([p \in Peer |-> PaddingOf(p)], Peer) % Prime = 0
  <1> DEFINE f == [p \in Peer |-> PaddingOf(p)]
             g == [p \in Peer |-> Total(Gives[p], Peer)]
  <1>1. Antisymmetric(Gives, Peer)
    <2> SUFFICES ASSUME NEW p \in Peer, NEW q \in Peer
                 PROVE  Gives[p][q] \in Int /\ Gives[p][q] + Gives[q][p] = 0
      BY DEF Antisymmetric
    <2>1. CASE p = q
      <3>1. Gives[p][q] = 0 /\ Gives[q][p] = 0
        BY <2>1 DEF Gives
      <3> QED
        BY <3>1
    <2>2. CASE p # q
      <3>1. Shared(p, q) \in Int /\ Shared(p, q) = Shared(q, p) /\ p \in Int /\ q \in Int
        BY <2>2, SharedType, PeerIs
      <3> QED
        BY <2>2, <3>1 DEF Gives
    <2> QED
      BY <2>1, <2>2
  <1>2. IsFiniteSet(Peer)
    BY PeerIs
  <1>3. Total(g, Peer) = 0
    BY <1>1, <1>2, TotalAntisymmetric
  <1>4. \A p \in Peer : f[p] \in Int /\ g[p] \in Int /\ f[p] % Prime = g[p] % Prime
    BY PaddingOfMod, ModField
  <1> HIDE DEF f, g
  <1>5. Total(f, Peer) % Prime = Total(g, Peer) % Prime
    BY <1>2, <1>4, TotalMod
  <1>6. 0 % Prime = 0
    BY ModField, PrimeType DEF Field
  <1> QED
    BY <1>3, <1>5, <1>6 DEF f

LEMMA PaddedIs ==
    ASSUME PaddingType, NEW p \in Peer, NEW D, NEW v \in [D -> Field]
    PROVE  /\ Padded(PaddingOf(p), v) \in [D -> Field] /\ Unpadded(PaddingOf(p), v) \in [D -> Field]
           /\ Unpadded(PaddingOf(p), Padded(PaddingOf(p), v)) = v /\ Padded(PaddingOf(p), Unpadded(PaddingOf(p), v)) = v
  <1>1. PaddingOf(p) \in Int
    BY PaddingOfMod, ModField
  <1>2. \A i \in D : v[i] \in Field /\ v[i] \in Int
    BY ModField
  <1>3. Padded(PaddingOf(p), v) \in [D -> Field] /\ Unpadded(PaddingOf(p), v) \in [D -> Field]
    BY <1>1, <1>2, PlusMod, MinusMod DEF Padded, Unpadded
  <1>4. Unpadded(PaddingOf(p), Padded(PaddingOf(p), v)) = [i \in D |-> Minus(Plus(v[i], PaddingOf(p)), PaddingOf(p))]
    BY DEF Padded, Unpadded
  <1>5. Padded(PaddingOf(p), Unpadded(PaddingOf(p), v)) = [i \in D |-> Plus(Minus(v[i], PaddingOf(p)), PaddingOf(p))]
    BY DEF Padded, Unpadded
  <1>6. \A i \in D : /\ Minus(Plus(v[i], PaddingOf(p)), PaddingOf(p)) = v[i]
                     /\ Plus(Minus(v[i], PaddingOf(p)), PaddingOf(p)) = v[i]
    BY <1>1, <1>2, MinusPlus
  <1>7. v = [i \in D |-> v[i]]
    OBVIOUS
  <1> QED
    BY <1>3, <1>4, <1>5, <1>6, <1>7

VectorType == expVector \in [Peer -> [1 .. TotalMsg -> Field]]

\* The sum of all vectors is the sum of all without their paddings.
LEMMA CombineIs ==
    ASSUME PaddingType, VectorType, NEW i \in 1 .. TotalMsg
    PROVE  DcCombine[i] = Sum([p \in Peer |-> Unpadded(PaddingOf(p), expVector[p])[i]])
  <1> DEFINE f == [p \in Peer |-> expVector[p][i]]
             u == [p \in Peer |-> Unpadded(PaddingOf(p), expVector[p])[i]]
             c == [p \in Peer |-> PaddingOf(p)]
             h == [p \in Peer |-> u[p] + c[p]]
  <1>1. \A p \in Peer : f[p] \in Int /\ c[p] \in Int /\ u[p] = Minus(f[p], c[p])
    <2> SUFFICES ASSUME NEW p \in Peer
                 PROVE  f[p] \in Int /\ c[p] \in Int /\ u[p] = Minus(f[p], c[p])
      OBVIOUS
    <2>1. expVector[p] \in [1 .. TotalMsg -> Field]
      BY DEF VectorType
    <2>2. expVector[p][i] \in Field /\ Unpadded(PaddingOf(p), expVector[p])[i] = Minus(expVector[p][i], PaddingOf(p))
      BY <2>1 DEF Unpadded
    <2>3. PaddingOf(p) \in Int
      BY PaddingOfMod, ModField
    <2> QED
      BY <2>2, <2>3, ModField
  <1>2. DcCombine[i] = Total(f, Peer) % Prime /\ Sum(u) = Total(u, Peer) % Prime
    BY SumIs DEF DcCombine
  <1>3. IsFiniteSet(Peer) /\ Total(c, Peer) % Prime = 0
    BY PeerIs, PaddingsCancel
  <1>4. \A p \in Peer : h[p] = u[p] + c[p]
    OBVIOUS
  <1> HIDE DEF f, u, c, h
  <1>5. \A p \in Peer : u[p] \in Int /\ h[p] \in Int /\ h[p] % Prime = f[p] % Prime
    <2> SUFFICES ASSUME NEW p \in Peer
                 PROVE  u[p] \in Int /\ h[p] \in Int /\ h[p] % Prime = f[p] % Prime
      OBVIOUS
    <2> DEFINE a == f[p]
               b == c[p]
               d == u[p]
    <2>1. a \in Int /\ b \in Int /\ d = Minus(a, b) /\ h[p] = d + b
      BY <1>1, <1>4
    <2> HIDE DEF a, b, d
    <2>2. d \in Int /\ d % Prime = (a - b) % Prime
      BY <2>1, MinusMod
    <2>3. a - b \in Int /\ (a - b) + b = a
      BY <2>1
    <2>4. (d + b) % Prime = ((a - b) + b) % Prime
      BY <2>1, <2>2, <2>3, ModSum
    <2> QED
      BY <2>1, <2>2, <2>3, <2>4 DEF a, d
  <1>6. Total(h, Peer) % Prime = Total(f, Peer) % Prime
    BY <1>1, <1>3, <1>5, TotalMod
  <1>7. Total(h, Peer) = Total(u, Peer) + Total(c, Peer)
    BY <1>1, <1>3, <1>4, <1>5, TotalPlus
  <1> DEFINE y == Total(u, Peer)
             z == Total(c, Peer)
  <1>8. y \in Int /\ z \in Int /\ z % Prime = 0
    BY <1>1, <1>3, <1>5, TotalType
  <1> HIDE DEF y, z
  <1>9. 0 % Prime = 0
    BY ModField, PrimeType DEF Field
  <1>10. (y + z) % Prime = (y + 0) % Prime
    BY <1>8, <1>9, ModSum
  <1>11. (y + z) % Prime = y % Prime
    BY <1>8, <1>10
  <1> QED
    BY <1>2, <1>6, <1>7, <1>11 DEF y, z, u

-----------------------------------------------------------------------------
(* As many messages of each peer as it announced.                          *)

Listed(R) == DOMAIN R = Peer /\ \A p \in Peer : R[p] \in [1 .. NumMsg[p] -> Field]

LEMMA ListedIs ==
    ASSUME NEW R, Listed(R)
    PROVE  /\ IsFiniteSet(DOMAIN R) /\ \A p \in DOMAIN R : IsFiniteSet(DOMAIN R[p])
           /\ \A p \in DOMAIN R : DOMAIN R[p] = 1 .. NumMsg[p]
           /\ \A p \in DOMAIN R : \A i \in DOMAIN R[p] : R[p][i] \in Field /\ R[p][i] \in Int
  <1>1. \A p \in Peer : DOMAIN R[p] = 1 .. NumMsg[p] /\ \A i \in 1 .. NumMsg[p] : R[p][i] \in Field
    BY DEF Listed
  <1>2. ASSUME NEW p \in Peer PROVE IsFiniteSet(1 .. NumMsg[p])
    <2>1. NumMsg[p] \in Int
      BY PeerIs
    <2> QED
      BY <2>1, FS_Interval
  <1> QED
    BY <1>1, <1>2, PeerIs, ModField DEF Listed

\* There are as many together as were announced.
LEMMA TogetherSize ==
    ASSUME NEW Q \in SUBSET Peer, NEW R, DOMAIN R = Q, \A p \in Q : R[p] \in [1 .. NumMsg[p] -> Field]
    PROVE  Cardinality(DOMAIN Together(R)) = Total(NumMsg, Q)
  <1> DEFINE D == [p \in Q |-> DOMAIN R[p]]
             g == [z \in Places(D, Q) |-> 1]
             row == [p \in Q |-> [i \in DOMAIN R[p] |-> 1]]
  <1>0. ASSUME NEW p \in Q
        PROVE  /\ NumMsg[p] \in Nat \ {0} /\ DOMAIN R[p] = 1 .. NumMsg[p] /\ IsFiniteSet(DOMAIN R[p])
               /\ \A i \in DOMAIN R[p] : R[p][i] \in Int
    <2>1. NumMsg[p] \in Nat \ {0} /\ R[p] \in [1 .. NumMsg[p] -> Field]
      BY PeerIs
    <2>2. IsFiniteSet(1 .. NumMsg[p])
      BY <2>1, FS_Interval
    <2> QED
      BY <2>1, <2>2, ModField
  <1>1. IsFiniteSet(Q) /\ \A p \in Q : IsFiniteSet(D[p]) /\ D[p] = 1 .. NumMsg[p]
    BY <1>0, PeerIs, FS_Subset
  <1>2. DOMAIN Together(R) = Places(D, Q)
    BY <1>0, <1>1, TogetherIs
  <1>3. \A p \in Q : \A i \in D[p] : <<p, i>> \in Places(D, Q)
    BY DEF Places
  <1>4. \A p \in Q : \A i \in D[p] : g[<<p, i>>] \in Int /\ row[p][i] = g[<<p, i>>] /\ row[p][i] = 1
    <2>1. \A p \in Q : \A i \in D[p] : g[<<p, i>>] = 1
      BY <1>3
    <2>2. \A p \in Q : \A i \in D[p] : row[p][i] = 1
      OBVIOUS
    <2> SUFFICES ASSUME NEW p \in Q, NEW i \in D[p]
                 PROVE  g[<<p, i>>] \in Int /\ row[p][i] = g[<<p, i>>] /\ row[p][i] = 1
      OBVIOUS
    <2>3. g[<<p, i>>] = 1
      BY <2>1
    <2>4. row[p][i] = 1
      BY <2>2
    <2> HIDE DEF D, g, row
    <2> QED
      BY <2>3, <2>4
  <1>5. \A z \in Places(D, Q) : g[z] = 1
    OBVIOUS
  <1> HIDE DEF D, g, row
  <1>6. IsFiniteSet(Places(D, Q))
    BY <1>1, PlacesFinite
  <1>7. Total(g, Places(D, Q)) = Cardinality(Places(D, Q))
    BY <1>5, <1>6, TotalOnes
  <1>8. ASSUME NEW p \in Q PROVE NumMsg[p] = Total(row[p], D[p])
    <2> DEFINE f == row[p]
               E == D[p]
    <2>1. IsFiniteSet(E) /\ \A i \in E : f[i] = 1
      BY <1>1, <1>4
    <2> HIDE DEF f, E
    <2>2. Total(f, E) = Cardinality(E)
      BY <2>1, TotalOnes
    <2>3. Cardinality(1 .. NumMsg[p]) = NumMsg[p]
      <3>1. NumMsg[p] \in Nat \ {0}
        BY <1>0
      <3> QED
        BY <3>1, FS_Interval
    <2> QED
      BY <1>1, <2>2, <2>3 DEF f, E
  <1>9. Total(g, Places(D, Q)) = Total(NumMsg, Q)
    BY <1>1, <1>4, <1>8, TotalPlaces
  <1> QED
    BY <1>2, <1>7, <1>9

LEMMA SortedTogether ==
    ASSUME NEW R, Listed(R)
    PROVE  /\ Sorted(Together(R)) \in Ordered(TotalMsg)
           /\ \E b \in Bijection(1 .. TotalMsg, DOMAIN Together(R)) :
                Sorted(Together(R)) = [i \in 1 .. TotalMsg |-> Together(R)[b[i]]]
           /\ \A k \in Nat : PowerSum(Sorted(Together(R)), k) = Sum([p \in Peer |-> PowerSum(R[p], k)])
  <1> DEFINE U == Together(R)
  <1>1. /\ IsFiniteSet(DOMAIN U) /\ Cardinality(DOMAIN U) = TotalMsg
        /\ \A z \in DOMAIN U : U[z] \in Field /\ U[z] \in Int
    <2>1. IsFiniteSet(DOMAIN U) /\ \A z \in DOMAIN U :
             \E p \in DOMAIN R : \E i \in DOMAIN R[p] : z = <<p, i>> /\ U[z] = R[p][i]
      BY ListedIs, TogetherIs
    <2> HIDE DEF U
    <2>2. \A z \in DOMAIN U : U[z] \in Field /\ U[z] \in Int
      BY <2>1, ListedIs
    <2>3. Cardinality(DOMAIN U) = Total(NumMsg, Peer)
      BY TogetherSize DEF Listed, U
    <2> QED
      BY <2>1, <2>2, <2>3, PeerIs
  <1>2. PICK b \in Bijection(1 .. TotalMsg, DOMAIN U) :
             /\ Sorted(U) = [i \in 1 .. TotalMsg |-> U[b[i]]]
             /\ \A i \in 2 .. TotalMsg : U[b[i - 1]] <= U[b[i]]
    <2> HIDE DEF U
    <2> QED
      BY <1>1, SortedIs
  <1>3. Sorted(U) \in Ordered(TotalMsg)
    <2> HIDE DEF U
    <2>1. \A i \in 1 .. TotalMsg : b[i] \in DOMAIN U
      BY DEF Bijection, Injection
    <2>2. Sorted(U) \in [1 .. TotalMsg -> Field]
      BY <1>1, <1>2, <2>1
    <2>3. \A i \in 2 .. TotalMsg : i - 1 \in 1 .. TotalMsg /\ i \in 1 .. TotalMsg
      BY PeerIs
    <2>4. \A i \in 2 .. TotalMsg : Sorted(U)[i - 1] <= Sorted(U)[i]
      BY <1>2, <2>3
    <2> QED
      BY <2>2, <2>4 DEF Ordered
  <1>4. ASSUME NEW k \in Nat
        PROVE  PowerSum(Sorted(U), k) = Sum([p \in Peer |-> PowerSum(R[p], k)])
    <2>1. PowerSum(U, k) = Sum([p \in Peer |-> PowerSum(R[p], k)])
      BY ListedIs, PowerSumTogether DEF Listed
    <2> HIDE DEF U
    <2> QED
      BY <1>1, <2>1, PowerSumSorted
  <1> HIDE DEF U
  <1>5. \E a \in Bijection(1 .. TotalMsg, DOMAIN U) : Sorted(U) = [i \in 1 .. TotalMsg |-> U[a[i]]]
    BY <1>2
  <1> QED
    BY <1>3, <1>4, <1>5 DEF U

\* Of what the server computes when all vectors are of this kind.
LEMMA CombineSolved ==
    ASSUME PaddingType, VectorType, NEW R, Listed(R),
           \A p \in Peer : Unpadded(PaddingOf(p), expVector[p]) = PowerSums(R[p], TotalMsg)
    PROVE  DcCombine = PowerSums(Sorted(Together(R)), TotalMsg)
  <1>1. ASSUME NEW i \in 1 .. TotalMsg
        PROVE  DcCombine[i] = PowerSum(Sorted(Together(R)), i)
    <2>1. DcCombine[i] = Sum([p \in Peer |-> Unpadded(PaddingOf(p), expVector[p])[i]])
      BY CombineIs
    <2>2. \A p \in Peer : Unpadded(PaddingOf(p), expVector[p])[i] = PowerSum(R[p], i)
      BY DEF PowerSums
    <2>3. [p \in Peer |-> Unpadded(PaddingOf(p), expVector[p])[i]] = [p \in Peer |-> PowerSum(R[p], i)]
      BY <2>2
    <2> QED
      BY <2>1, <2>3, SortedTogether
  <1> QED
    BY <1>1 DEF DcCombine, PowerSums

-----------------------------------------------------------------------------
(* Bit strings under xor.                                                  *)

LEMMA XorAllIs ==
    ASSUME NEW f, IsFiniteSet(DOMAIN f), NEW t
    PROVE  t \in XorAll(f) <=> Cardinality({p \in DOMAIN f : t \in f[p]}) % 2 = 1
  <1>1. ASSUME Cardinality({p \in DOMAIN f : t \in f[p]}) % 2 = 1
        PROVE  t \in UNION Range(f)
    <2>1. {p \in DOMAIN f : t \in f[p]} # {}
      BY <1>1, FS_EmptySet
    <2> QED
      BY <2>1 DEF Range
  <1> QED
    BY <1>1 DEF XorAll

LEMMA XorAllNone ==
    ASSUME NEW f, IsFiniteSet(DOMAIN f), NEW t, \A p \in DOMAIN f : t \notin f[p]
    PROVE  t \notin XorAll(f)
  BY DEF XorAll, Range

LEMMA XorAllOne ==
    ASSUME NEW f, IsFiniteSet(DOMAIN f), NEW t, NEW p \in DOMAIN f, t \in f[p],
           \A q \in DOMAIN f : t \in f[q] => q = p
    PROVE  t \in XorAll(f)
  <1>1. {q \in DOMAIN f : t \in f[q]} = {p}
    OBVIOUS
  <1>2. Cardinality({p}) = 1
    BY FS_Singleton
  <1>3. 1 % 2 = 1
    OBVIOUS
  <1> QED
    BY <1>1, <1>2, <1>3, XorAllIs

LEMMA XorAllTwo ==
    ASSUME NEW f, IsFiniteSet(DOMAIN f), NEW t, NEW p \in DOMAIN f, NEW q \in DOMAIN f, p # q,
           \A r \in DOMAIN f : t \in f[r] <=> r \in {p, q}
    PROVE  t \notin XorAll(f)
  <1>1. {r \in DOMAIN f : t \in f[r]} = {p} \cup {q}
    OBVIOUS
  <1>2. Cardinality({p} \cup {q}) = 2
    <2>1. IsFiniteSet({p}) /\ Cardinality({p}) = 1 /\ q \notin {p}
      BY FS_Singleton
    <2>2. Cardinality({p} \cup {q}) = Cardinality({p}) + 1
      BY <2>1, FS_AddElement
    <2> QED
      BY <2>1, <2>2
  <1>3. 2 % 2 = 0
    OBVIOUS
  <1> QED
    BY <1>1, <1>2, <1>3, XorAllIs

RandomToken(p, q) == IF p < q THEN <<"random", p, q>> ELSE <<"random", q, p>>

LEMMA RandomOfIs ==
    ASSUME NEW p \in Peer
    PROVE  RandomOf(p) = {RandomToken(p, q) : q \in Peer \ {p}}
  <1> DEFINE f == [q \in Peer \ {p} |-> Random(p, q)]
  <1>1. IsFiniteSet(DOMAIN f)
    BY PeerIs, FS_RemoveElement
  <1>2. \A q \in DOMAIN f : q \in Peer \ {p} /\ f[q] = {RandomToken(p, q)}
    BY DEF Random, RandomToken
  <1>3. ASSUME NEW q \in Peer \ {p} PROVE RandomToken(p, q) \in XorAll(f)
    <2>1. \A r \in Peer \ {p} : RandomToken(p, r) = RandomToken(p, q) => r = q
      <3> SUFFICES ASSUME NEW r \in Peer \ {p}, RandomToken(p, r) = RandomToken(p, q) PROVE r = q
        OBVIOUS
      <3>1. p \in Int /\ q \in Int /\ r \in Int /\ p # q /\ p # r
        BY PeerIs
      <3>2. RandomToken(p, r)[2] = RandomToken(p, q)[2] /\ RandomToken(p, r)[3] = RandomToken(p, q)[3]
        OBVIOUS
      <3>3. /\ RandomToken(p, r)[2] = (IF p < r THEN p ELSE r) /\ RandomToken(p, r)[3] = (IF p < r THEN r ELSE p)
            /\ RandomToken(p, q)[2] = (IF p < q THEN p ELSE q) /\ RandomToken(p, q)[3] = (IF p < q THEN q ELSE p)
        BY DEF RandomToken
      <3> QED
        BY <3>1, <3>2, <3>3
    <2>2. q \in DOMAIN f /\ RandomToken(p, q) \in f[q]
      BY <1>2
    <2>3. \A r \in DOMAIN f : RandomToken(p, q) \in f[r] => r = q
      BY <1>2, <2>1
    <2> HIDE DEF f
    <2> QED
      BY <1>1, <2>2, <2>3, XorAllOne
  <1>4. ASSUME NEW t \in XorAll(f) PROVE t \in {RandomToken(p, q) : q \in Peer \ {p}}
    <2>1. PICK q \in DOMAIN f : t \in f[q]
      BY DEF XorAll, Range
    <2> QED
      BY <1>2, <2>1
  <1> QED
    BY <1>3, <1>4 DEF RandomOf

\* The paddings of all peers cancel under xor.
LEMMA XorWithout ==
    ASSUME NEW own, DOMAIN own = Peer, \A p \in Peer : \A t \in own[p] : t[1] # "random",
           NEW f, DOMAIN f = Peer, \A p \in Peer : f[p] = Xor(own[p], RandomOf(p))
    PROVE  XorAll(f) = XorAll(own)
  <1>0. IsFiniteSet(DOMAIN f) /\ IsFiniteSet(DOMAIN own)
    BY PeerIs
  <1>1. ASSUME NEW t, t[1] # "random" PROVE t \in XorAll(f) <=> t \in XorAll(own)
    <2>1. ASSUME NEW p \in Peer PROVE t \notin RandomOf(p)
      <3> SUFFICES ASSUME t \in RandomOf(p) PROVE FALSE
        OBVIOUS
      <3>1. PICK q \in Peer : t = RandomToken(p, q)
        BY RandomOfIs
      <3>2. RandomToken(p, q)[1] = "random"
        BY DEF RandomToken
      <3> QED
        BY <1>1, <3>1, <3>2
    <2>2. \A p \in Peer : t \in f[p] <=> t \in own[p]
      BY <2>1 DEF Xor
    <2>3. {p \in DOMAIN f : t \in f[p]} = {p \in DOMAIN own : t \in own[p]}
      BY <2>2
    <2>4. t \in XorAll(f) <=> Cardinality({p \in DOMAIN f : t \in f[p]}) % 2 = 1
      BY <1>0, XorAllIs
    <2>5. t \in XorAll(own) <=> Cardinality({p \in DOMAIN own : t \in own[p]}) % 2 = 1
      BY <1>0, XorAllIs
    <2> QED
      BY <2>3, <2>4, <2>5
  <1>2. ASSUME NEW t, t[1] = "random" PROVE t \notin XorAll(f) /\ t \notin XorAll(own)
    <2>1. \A p \in Peer : t \notin own[p]
      BY <1>2
    <2>2. t \notin XorAll(own)
      BY <1>0, <2>1, XorAllNone
    <2>3. \A p \in Peer : t \in f[p] <=> t \in RandomOf(p)
      BY <2>1 DEF Xor
    <2>4. CASE \A p \in Peer : t \notin RandomOf(p)
      BY <1>0, <2>2, <2>3, <2>4, XorAllNone
    <2>5. ASSUME NEW p \in Peer, t \in RandomOf(p) PROVE t \notin XorAll(f)
      <3>1. PICK q \in Peer \ {p} : t = RandomToken(p, q)
        BY <2>5, RandomOfIs
      <3>2. \A r \in Peer : t \in RandomOf(r) <=> r \in {p, q}
        <4> SUFFICES ASSUME NEW r \in Peer PROVE t \in RandomOf(r) <=> r \in {p, q}
          OBVIOUS
        <4>1. p \in Int /\ q \in Int /\ r \in Int /\ p # q
          BY PeerIs
        <4>2. t \in RandomOf(r) <=> \E s \in Peer \ {r} : t = RandomToken(r, s)
          BY RandomOfIs
        <4>3. RandomToken(p, q) = RandomToken(q, p)
          BY <4>1 DEF RandomToken
        <4>4. r \in {p, q} => t \in RandomOf(r)
          BY <3>1, <4>2, <4>3
        <4>5. ASSUME NEW s \in Peer \ {r}, t = RandomToken(r, s) PROVE r \in {p, q}
          <5>1. s \in Int
            BY PeerIs
          <5>2. RandomToken(r, s)[2] = RandomToken(p, q)[2] /\ RandomToken(r, s)[3] = RandomToken(p, q)[3]
            BY <3>1, <4>5
          <5>3. /\ RandomToken(r, s)[2] = (IF r < s THEN r ELSE s) /\ RandomToken(r, s)[3] = (IF r < s THEN s ELSE r)
                /\ RandomToken(p, q)[2] = (IF p < q THEN p ELSE q) /\ RandomToken(p, q)[3] = (IF p < q THEN q ELSE p)
            BY DEF RandomToken
          <5> QED
            BY <4>1, <5>1, <5>2, <5>3
        <4> QED
          BY <4>2, <4>4, <4>5
      <3>3. \A r \in DOMAIN f : t \in f[r] <=> r \in {p, q}
        BY <2>3, <3>2
      <3> QED
        BY <1>0, <3>3, XorAllTwo
    <2> QED
      BY <2>2, <2>4, <2>5
  <1> QED
    BY <1>1, <1>2

-----------------------------------------------------------------------------
(* Messages and slots.                                                     *)

LEMMA Increasing ==
    ASSUME NEW n \in Nat, NEW f, \A i \in 1 .. n : f[i] \in Int, \A i \in 2 .. n : f[i - 1] < f[i],
           NEW i \in 1 .. n, NEW j \in 1 .. n, i < j
    PROVE  f[i] < f[j]
  <1> DEFINE G == {k \in 0 .. n - i - 1 : f[i] < f[i + k + 1]}
  <1>1. 0 \in G
    <2>1. i + 1 \in 2 .. n /\ (i + 1) - 1 = i /\ i + 0 + 1 = i + 1 /\ 0 \in 0 .. n - i - 1
      OBVIOUS
    <2>2. f[(i + 1) - 1] < f[i + 1]
      BY <2>1
    <2> QED
      BY <2>1, <2>2
  <1>2. ASSUME NEW k \in 0 .. (j - i - 1) - 1, k \in G PROVE k + 1 \in G
    <2>1. /\ i + k + 2 \in 2 .. n /\ (i + k + 2) - 1 = i + k + 1 /\ i + (k + 1) + 1 = i + k + 2
          /\ k + 1 \in 0 .. n - i - 1 /\ i + k + 1 \in 1 .. n /\ i + k + 2 \in 1 .. n
      OBVIOUS
    <2>2. f[(i + k + 2) - 1] < f[i + k + 2]
      BY <2>1
    <2>3. f[i] < f[i + k + 1]
      BY <1>2
    <2>4. f[i] \in Int /\ f[i + k + 1] \in Int /\ f[i + k + 2] \in Int
      BY <2>1
    <2>5. f[i] < f[i + k + 2]
      BY <2>1, <2>2, <2>3, <2>4
    <2> QED
      BY <2>1, <2>5
  <1>3. j - i - 1 \in G
    <2>1. j - i - 1 \in Nat
      OBVIOUS
    <2> HIDE DEF G
    <2> QED
      BY <1>1, <1>2, <2>1, Counting
  <1> QED
    BY <1>3

LEMMA MessagesAre ==
    ASSUME msgs \in Messages
    PROVE  /\ Listed(msgs) /\ \A p \in Peer : msgs[p] \in Ordered(NumMsg[p])
           /\ \A p, q \in Peer : \A i \in 1 .. NumMsg[p] : \A j \in 1 .. NumMsg[q] :
                msgs[p][i] = msgs[q][j] => p = q /\ i = j
  <1>1. DOMAIN msgs = Peer
    BY DEF Messages
  <1>2. ASSUME NEW p \in Peer
        PROVE  /\ msgs[p] \in [1 .. NumMsg[p] -> Field]
               /\ \A i \in 2 .. NumMsg[p] : msgs[p][i - 1] < msgs[p][i]
    <2>1. msgs[p] \in UNION {[1 .. NumMsg[q] -> Hashes] : q \in Peer}
      BY DEF Messages
    <2>2. PICK q \in Peer : msgs[p] \in [1 .. NumMsg[q] -> Hashes]
      BY <2>1
    <2>3. NumMsg[q] \in Nat /\ NumMsg[p] \in Nat
      BY PeerIs
    <2>4. Len(msgs[p]) = NumMsg[p] /\ \A i \in 2 .. Len(msgs[p]) : msgs[p][i - 1] < msgs[p][i]
      BY DEF Messages
    <2>5. Len(msgs[p]) = NumMsg[q]
      BY <2>2, <2>3, LenProperties
    <2>6. Hashes \subseteq Field
      BY ConstantsOK
    <2> QED
      BY <2>2, <2>4, <2>5, <2>6
  <1>3. Listed(msgs)
    BY <1>1, <1>2 DEF Listed
  <1>4. ASSUME NEW p \in Peer PROVE msgs[p] \in Ordered(NumMsg[p])
    <2>1. \A i \in 1 .. NumMsg[p] : msgs[p][i] \in Int
      BY <1>2, ModField
    <2>2. \A i \in 2 .. NumMsg[p] : i - 1 \in 1 .. NumMsg[p] /\ i \in 1 .. NumMsg[p]
      BY PeerIs
    <2>3. \A i \in 2 .. NumMsg[p] : msgs[p][i - 1] <= msgs[p][i]
      BY <1>2, <2>1, <2>2
    <2> QED
      BY <1>2, <2>3 DEF Ordered
  <1>5. ASSUME NEW p \in Peer, NEW q \in Peer, NEW i \in 1 .. NumMsg[p], NEW j \in 1 .. NumMsg[q],
               msgs[p][i] = msgs[q][j]
        PROVE  p = q /\ i = j
    <2>1. msgs[p][i] \in Range(msgs[p]) /\ msgs[q][j] \in Range(msgs[q])
      BY <1>2 DEF Range
    <2>2. p = q
      BY <1>5, <2>1 DEF Messages
    <2>3. \A k \in 1 .. NumMsg[p] : msgs[p][k] \in Int
      BY <1>2, ModField
    <2>4. NumMsg[p] \in Nat
      BY PeerIs
    <2>5. \A k \in 2 .. NumMsg[p] : msgs[p][k - 1] < msgs[p][k]
      BY <1>2
    <2>6. \A k, l \in 1 .. NumMsg[p] : k < l => msgs[p][k] < msgs[p][l]
      BY <2>3, <2>4, <2>5, Increasing
    <2>7. i = j
      <3>1. i \in 1 .. NumMsg[p] /\ j \in 1 .. NumMsg[p] /\ msgs[p][i] = msgs[p][j]
        BY <1>5, <2>2
      <3>2. msgs[p][i] \in Int /\ msgs[p][j] \in Int
        BY <2>3, <3>1
      <3>3. ~(i < j) /\ ~(j < i)
        BY <2>6, <3>1, <3>2
      <3> QED
        BY <2>4, <3>1, <3>3
    <2> QED
      BY <2>2, <2>7
  <1> QED
    BY <1>3, <1>4, <1>5

RootsType == roots \in [1 .. TotalMsg -> Field]

LEMMA SlotIs ==
    ASSUME RootsType, NEW m \in Range(roots)
    PROVE  /\ Slot(m) \in 1 .. TotalMsg /\ Slot(m) \in DOMAIN roots /\ roots[Slot(m)] = m
           /\ \A i \in DOMAIN roots : roots[i] = m => Slot(m) <= i
  <1> DEFINE C == {i \in 1 .. TotalMsg : roots[i] = m}
             f == [i \in C |-> -i]
  <1>1. IsFiniteSet(C) /\ C # {}
    <2>1. IsFiniteSet(1 .. TotalMsg) /\ C \in SUBSET (1 .. TotalMsg)
      BY PeerIs, FS_Interval
    <2> QED
      BY <2>1, FS_Subset DEF Range, RootsType
  <1>2. \A x \in C : f[x] \in Int
    BY PeerIs
  <1>3. PICK i \in C : \A j \in C : f[j] <= f[i]
    <2> HIDE DEF C, f
    <2> QED
      BY <1>1, <1>2, Greatest
  <1>4. ASSUME NEW j \in C PROVE i <= j
    <2>1. i \in Int /\ j \in Int
      BY PeerIs
    <2>2. f[i] = -i /\ f[j] = -j
      OBVIOUS
    <2>3. f[j] <= f[i]
      BY <1>3
    <2> HIDE DEF C, f
    <2> QED
      BY <2>1, <2>2, <2>3
  <1>5. DOMAIN roots = 1 .. TotalMsg /\ TotalMsg \in Nat
    BY PeerIs DEF RootsType
  <1>6. i \in DOMAIN roots /\ roots[i] = m /\ \A j \in 1 .. i - 1 : roots[j] # m
    BY <1>4, <1>5
  <1>7. Slot(m) \in DOMAIN roots /\ roots[Slot(m)] = m /\ \A j \in 1 .. Slot(m) - 1 : roots[j] # m
    BY <1>6 DEF Slot
  <1> HIDE DEF C
  <1>8. \A j \in DOMAIN roots : roots[j] = m => Slot(m) <= j
    BY <1>5, <1>7
  <1> QED
    BY <1>5, <1>7, <1>8

\* What an honest peer has in a slot, but for the paddings.
Own(p, i) == IF roots[i] \in Range(msgs[p]) /\ Slot(roots[i]) = i THEN Token(roots[i]) ELSE {}

LEMMA HonestXorIs ==
    ASSUME RootsType, NEW p \in Peer, HasFound(p)
    PROVE  HonestXor(p) = [i \in DOMAIN roots |-> Xor(Own(p, i), RandomOf(p))]
  <1>1. ASSUME NEW i \in DOMAIN roots
        PROVE  UNION {Token(m) : m \in {x \in Range(msgs[p]) : Slot(x) = i}} = Own(p, i)
    <2>1. \A x \in Range(msgs[p]) : roots[Slot(x)] = x
      BY SlotIs DEF HasFound
    <2>2. {x \in Range(msgs[p]) : Slot(x) = i} =
            IF roots[i] \in Range(msgs[p]) /\ Slot(roots[i]) = i THEN {roots[i]} ELSE {}
      BY <2>1
    <2> QED
      BY <2>2 DEF Own
  <1>2. \A a, b : Xor(a, b) = Xor(b, a)
    BY DEF Xor
  <1>3. \A i \in DOMAIN roots :
          Xor(RandomOf(p), UNION {Token(m) : m \in {x \in Range(msgs[p]) : Slot(x) = i}}) = Xor(Own(p, i), RandomOf(p))
    BY <1>1, <1>2
  <1> QED
    BY <1>3 DEF HonestXor

-----------------------------------------------------------------------------
(* What the server recovers from one vector.                               *)

\* The solver gets a number of messages that it accepts; else it refuses the sums
\* of honest peers, too (solverflint.cpp:23-50).
Sizes == 2 <= TotalMsg /\ TotalMsg <= 1000 /\ TotalMsg < Prime

LEMMA NumMsgBound == \A p \in Peer : NumMsg[p] <= TotalMsg
  <1> SUFFICES ASSUME NEW p \in Peer PROVE NumMsg[p] <= TotalMsg
    OBVIOUS
  <1>1. IsFiniteSet(Peer) /\ IsFiniteSet(Peer \ {p}) /\ \A q \in Peer : NumMsg[q] \in Nat /\ NumMsg[q] \in Int
    BY PeerIs, FS_RemoveElement
  <1>2. Total(NumMsg, Peer) = NumMsg[p] + Total(NumMsg, Peer \ {p})
    BY <1>1, TotalRemove
  <1>3. Total(NumMsg, Peer \ {p}) \in Nat
    BY <1>1, TotalNat
  <1> QED
    BY <1>1, <1>2, <1>3, PeerIs

\* The revealed key of a peer is that of its public key.
RightKey(p) == taken[p] = PaddingOf(p)

LEMMA OwnSumsIs ==
    ASSUME PaddingType, VectorType, Sizes, NEW p \in Peer, RightKey(p)
    PROVE  /\ OwnSums(p) = [i \in 1 .. NumMsg[p] |-> Unpadded(PaddingOf(p), expVector[p])[i]]
           /\ OwnSums(p) \in [1 .. NumMsg[p] -> Field]
  <1> DEFINE u == Unpadded(PaddingOf(p), expVector[p])
             n == NumMsg[p]
  <1>1. n \in Nat \ {0} /\ n <= TotalMsg /\ TotalMsg \in Nat
    BY PeerIs, NumMsgBound
  <1>2. u \in [1 .. TotalMsg -> Field]
    BY PaddedIs DEF VectorType
  <1>3. OwnSums(p) = SubSeq(u, 1, n)
    BY DEF OwnSums, RightKey
  <1> HIDE DEF u, n
  <1>4. \A i \in 1 .. n : u[i] \in Field
    BY <1>1, <1>2
  <1>5. /\ SubSeq(u, 1, n) \in Seq(Field) /\ Len(SubSeq(u, 1, n)) = n
        /\ \A i \in 1 .. n : SubSeq(u, 1, n)[i] = u[i]
    BY <1>1, <1>4, SubSeqProperties
  <1>6. DOMAIN SubSeq(u, 1, n) = 1 .. n /\ SubSeq(u, 1, n) = [i \in 1 .. n |-> SubSeq(u, 1, n)[i]]
    BY <1>5, LenProperties
  <1>7. SubSeq(u, 1, n) = [i \in 1 .. n |-> u[i]]
    BY <1>5, <1>6
  <1> QED
    BY <1>3, <1>4, <1>7 DEF u, n

LEMMA PowerSumOfOne ==
    ASSUME NEW ms \in [1 .. 1 -> Field]
    PROVE  PowerSum(ms, 1) = ms[1]
  <1> DEFINE f == [i \in 1 .. 1 |-> Exp(ms[i], 1)]
  <1>1. PowerSum(ms, 1) = Total(f, 1 .. 1) % Prime
    BY PowerSumIs
  <1>2. 1 .. 1 = {} \cup {1} /\ f[1] = ms[1] /\ ms[1] \in Int /\ ms[1] % Prime = ms[1]
    BY ExpOne, ModField
  <1> HIDE DEF f
  <1>3. Total(f, {} \cup {1}) = f[1] + Total(f, {})
    BY <1>2, FS_EmptySet, TotalAdd
  <1> QED
    BY <1>1, <1>2, <1>3, TotalEmpty

LEMMA SolvedOrdered ==
    ASSUME NEW n \in Nat, NEW sums \in [1 .. n -> Field], GetRoots(sums).ret = Solved
    PROVE  GetRoots(sums).roots \in Ordered(n)
  <1>1. Len(sums) = n
    BY LenProperties
  <1>2. GetRoots(sums) = [ret |-> Solved, roots |-> CHOOSE rs \in Factorizations(sums) : TRUE]
        /\ Factorizations(sums) # {}
    BY DEF GetRoots, Solved, RET_INVALID, RET_INPUT_ERROR
  <1>3. GetRoots(sums).roots \in Factorizations(sums)
    BY <1>2
  <1>4. Factorizations(sums) \subseteq [1 .. n -> Field]
    BY <1>1 DEF Factorizations
  <1>5. \A rs \in Factorizations(sums) : \A i \in 1 .. n - 1 : rs[i] <= rs[i + 1]
    BY <1>1 DEF Factorizations
  <1>6. \A i \in 2 .. n : i - 1 \in 1 .. n - 1 /\ (i - 1) + 1 = i
    OBVIOUS
  <1> QED
    BY <1>3, <1>4, <1>5, <1>6 DEF Ordered

LEMMA RecoveredOrdered ==
    ASSUME PaddingType, VectorType, Sizes, NEW p \in Peer, RightKey(p), Recovered(p).ret = Solved
    PROVE  Recovered(p).roots \in Ordered(NumMsg[p])
  <1>1. OwnSums(p) \in [1 .. NumMsg[p] -> Field] /\ NumMsg[p] \in Nat
    BY OwnSumsIs, PeerIs
  <1>2. CASE NumMsg[p] = 1
    <2>1. Recovered(p).roots = OwnSums(p)
      BY <1>2 DEF Recovered
    <2>2. 2 .. 1 = {}
      OBVIOUS
    <2> QED
      BY <1>1, <1>2, <2>1, <2>2 DEF Ordered
  <1>3. CASE NumMsg[p] # 1
    <2>1. Recovered(p) = GetRoots(OwnSums(p))
      BY <1>3 DEF Recovered
    <2> QED
      BY <1>1, <2>1, SolvedOrdered
  <1> QED
    BY <1>2, <1>3

\* A vector of power sums of ordered messages gives these messages.
LEMMA RecoveredIs ==
    ASSUME PaddingType, VectorType, Sizes, NEW p \in Peer, RightKey(p),
           NEW ms \in Ordered(NumMsg[p]), Unpadded(PaddingOf(p), expVector[p]) = PowerSums(ms, TotalMsg)
    PROVE  Recovered(p) = [ret |-> Solved, roots |-> ms]
  <1>1. NumMsg[p] \in Nat \ {0} /\ NumMsg[p] <= TotalMsg /\ TotalMsg \in Nat
    BY PeerIs, NumMsgBound
  <1>2. OwnSums(p) = PowerSums(ms, NumMsg[p])
    <2>1. \A i \in 1 .. NumMsg[p] : i \in 1 .. TotalMsg
      BY <1>1
    <2>2. \A i \in 1 .. NumMsg[p] : Unpadded(PaddingOf(p), expVector[p])[i] = PowerSum(ms, i)
      BY <2>1 DEF PowerSums
    <2> QED
      BY <2>2, OwnSumsIs DEF PowerSums
  <1>3. CASE NumMsg[p] = 1
    <2>1. ms \in [1 .. 1 -> Field]
      BY <1>3 DEF Ordered
    <2>2. OwnSums(p) = [i \in 1 .. 1 |-> ms[i]]
      BY <1>2, <1>3, <2>1, PowerSumOfOne DEF PowerSums
    <2>3. ms = [i \in 1 .. 1 |-> ms[i]]
      BY <2>1
    <2> QED
      BY <1>3, <2>2, <2>3 DEF Recovered
  <1>4. CASE NumMsg[p] # 1
    <2>1. NumMsg[p] \in Lengths
      BY <1>1, <1>4, PrimeType DEF Lengths, Sizes
    <2>2. GetRoots(PowerSums(ms, NumMsg[p])) = [ret |-> Solved, roots |-> ms]
      BY <2>1, SolverComplete
    <2> QED
      BY <1>2, <1>4, <2>2 DEF Recovered
  <1> QED
    BY <1>3, <1>4

LEMMA AllSolved ==
    ASSUME PaddingType, VectorType, Sizes, NEW R, Listed(R),
           \A p \in Peer : Unpadded(PaddingOf(p), expVector[p]) = PowerSums(R[p], TotalMsg)
    PROVE  GetRoots(DcCombine) = [ret |-> Solved, roots |-> Sorted(Together(R))]
  <1>0. TotalMsg \in Nat
    BY PeerIs
  <1>1. TotalMsg \in Lengths
    BY <1>0 DEF Sizes, Lengths
  <1>2. Sorted(Together(R)) \in Ordered(TotalMsg)
    BY SortedTogether
  <1>3. DcCombine = PowerSums(Sorted(Together(R)), TotalMsg)
    BY CombineSolved
  <1> QED
    BY <1>1, <1>2, <1>3, SolverComplete

-----------------------------------------------------------------------------
(* The inductive invariant.                                                *)

\* What is given before the first step and stays.
Given ==
    /\ msgs \in Messages /\ PaddingType /\ VectorType
    /\ deviant \in Peer \cup {NoPeer}
    /\ \A p \in Honest : expVector[p] = Padded(PaddingOf(p), PowerSums(msgs[p], TotalMsg))

\* The solution of the exponential round.
Rounds ==
    /\ state \in {"DcExponential", "DcXor", "TxInput", "RevealSecret"}
    /\ state = "DcExponential" => roots = <<>>
    /\ state # "DcExponential" => GetRoots(DcCombine) = [ret |-> Solved, roots |-> roots]

Unsent == xorVector = [p \in Peer |-> <<>>]

\* The second vector of a peer that has sent one.
Right(p) ==
    /\ DOMAIN xorVector[p] = DOMAIN roots
    /\ p \in Honest => HasFound(p) /\ xorVector[p] = HonestXor(p)

Coming == scripts = <<>> /\ \A p \in Peer : xorVector[p] = <<>> \/ Right(p)
Sent == \A p \in Peer : Right(p)

Combined == scripts = [i \in DOMAIN roots |-> XorAll([p \in Peer |-> xorVector[p][i]])]

\* The vectors of the xor round: none, some, or all and combined.
Vectors ==
    /\ DOMAIN xorVector = Peer
    /\ \/ Unsent /\ scripts = <<>> /\ state = "DcExponential"
       \/ Coming /\ state \in {"DcXor", "RevealSecret"}
       \/ Sent /\ Combined /\ state \in {"TxInput", "RevealSecret"}

\* Why the secret keys were asked for.
Unsolved == state = "DcExponential" /\ GetRoots(DcCombine).ret # Solved
LostHash == state # "DcExponential" /\ \E p \in Honest : ~HasFound(p)
LostScript ==
    /\ state \in {"TxInput", "RevealSecret"} /\ Sent /\ Combined
    /\ \E p \in Honest : \E m \in Range(msgs[p]) : scripts[Slot(m)] # Token(m)

\* The keys that came are right, but for the deviator's.
Keys ==
    /\ wrongKeys \subseteq {deviant}
    /\ taken # <<>> => asked /\ \A p \in Peer : p \notin wrongKeys => RightKey(p)

Verdict == wrongKeys \cup WrongExp \cup IF state \in {"TxInput", "RevealSecret"} THEN WrongXor ELSE {}

Reasons ==
    /\ accuser # NoPeer => asked /\ state # "DcExponential"
    /\ asked => FalseAlarm \/ Unsolved \/ LostHash \/ LostScript
    /\ replayed => taken # <<>> /\ blamed = Verdict

IInv == Given /\ Rounds /\ Vectors /\ Keys /\ Reasons

LEMMA DcCombineType == ASSUME VectorType PROVE DcCombine \in [1 .. TotalMsg -> Field]
  <1>1. ASSUME NEW i \in 1 .. TotalMsg PROVE DcCombine[i] \in Field
    <2> DEFINE f == [p \in Peer |-> expVector[p][i]]
    <2>1. \A p \in Peer : f[p] \in Int
      BY ModField DEF VectorType
    <2>2. DcCombine[i] = Total(f, Peer) % Prime
      BY SumIs DEF DcCombine
    <2> HIDE DEF f
    <2>3. Total(f, Peer) \in Int
      BY <2>1, PeerIs, TotalType
    <2> QED
      BY <2>2, <2>3, ModType
  <1> QED
    BY <1>1 DEF DcCombine

LEMMA RootsTypeIs ==
    ASSUME Sizes, Given, Rounds, state # "DcExponential"
    PROVE  /\ roots \in Ordered(TotalMsg) /\ RootsType /\ DOMAIN roots = 1 .. TotalMsg
           /\ 1 \in DOMAIN roots /\ 1 \in Peer
  <1>1. TotalMsg \in Nat
    BY PeerIs
  <1>2. DcCombine \in [1 .. TotalMsg -> Field]
    BY DcCombineType DEF Given
  <1>3. roots \in Ordered(TotalMsg)
    BY <1>1, <1>2, SolvedOrdered DEF Rounds
  <1>4. Peer # {}
    <2>1. Peer = {} => TotalMsg = 0
      BY PeerIs, TotalEmpty
    <2> QED
      BY <2>1 DEF Sizes
  <1> QED
    BY <1>1, <1>3, <1>4, PeerIs DEF Ordered, RootsType, Sizes

LEMMA InitIInv == Init => IInv
  <1> SUFFICES ASSUME Init PROVE IInv
    OBVIOUS
  <1>1. msgs \in Messages /\ PaddingType /\ deviant \in Peer \cup {NoPeer}
    BY DEF Init, PaddingType
  <1>2. PICK err \in [1 .. TotalMsg -> Errors] :
          expVector = [p \in Peer |->
                LET honest == Padded(PaddingOf(p), PowerSums(msgs[p], TotalMsg))
                IN IF p = deviant THEN [i \in DOMAIN err |-> Plus(honest[i], err[i])] ELSE honest]
    BY DEF Init
  <1>3. \A p \in Honest : expVector[p] = Padded(PaddingOf(p), PowerSums(msgs[p], TotalMsg))
    BY <1>2 DEF Honest
  <1>4. ASSUME NEW p \in Peer PROVE expVector[p] \in [1 .. TotalMsg -> Field]
    <2> DEFINE honest == Padded(PaddingOf(p), PowerSums(msgs[p], TotalMsg))
    <2>1. honest \in [1 .. TotalMsg -> Field]
      BY <1>1, MessagesAre, PeerIs, PowerSumsType, PaddedIs DEF Listed
    <2>2. expVector[p] = IF p = deviant THEN [i \in DOMAIN err |-> Plus(honest[i], err[i])] ELSE honest
      BY <1>2
    <2>3. DOMAIN err = 1 .. TotalMsg /\ \A i \in 1 .. TotalMsg : err[i] \in Int
      BY ConstantsOK, ModField
    <2> HIDE DEF honest
    <2>4. \A i \in 1 .. TotalMsg : honest[i] \in Int
      BY <2>1, ModField
    <2>5. \A i \in 1 .. TotalMsg : Plus(honest[i], err[i]) \in Field
      BY <2>3, <2>4, PlusMod
    <2> QED
      BY <2>1, <2>2, <2>3, <2>5
  <1>5. VectorType
    BY <1>2, <1>4 DEF VectorType
  <1> QED
    BY <1>1, <1>3, <1>5 DEF Init, IInv, Given, Rounds, Vectors, Unsent, Keys, Reasons

LEMMA GivenUnchanged ==
    ASSUME UNCHANGED <<msgs, padding, deviant, expVector>>
    PROVE  /\ Given' = Given /\ DcCombine' = DcCombine /\ Honest' = Honest
           /\ \A p \in Peer : PaddingOf(p)' = PaddingOf(p)
  <1>1. PaddingType' = PaddingType
    BY DEF PaddingType
  <1>2. VectorType' = VectorType
    BY DEF VectorType
  <1>3. Honest' = Honest /\ DcCombine' = DcCombine
    BY DEF Honest, DcCombine
  <1>4. ASSUME NEW p \in Peer PROVE PaddingOf(p)' = PaddingOf(p)
    BY DEF PaddingOf, Signed, Shared
  <1>5. ASSUME NEW p \in Peer, NEW v PROVE Padded(PaddingOf(p), v)' = Padded(PaddingOf(p), v)
    BY <1>4 DEF Padded
  <1>6. Given' = Given
    BY <1>1, <1>2, <1>3, <1>5 DEF Given, Honest
  <1> QED
    BY <1>3, <1>4, <1>6

LEMMA ReplayUnchanged ==
    ASSUME UNCHANGED <<msgs, padding, deviant, expVector, state, xorVector, taken, wrongKeys>>
    PROVE  Verdict' = Verdict
  <1>1. ASSUME NEW p \in Peer PROVE Recovered(p)' = Recovered(p)
    BY DEF Recovered, OwnSums, Unpadded
  <1>2. WrongExp' = WrongExp
    BY <1>1 DEF WrongExp, Differs, Padded
  <1>3. SlotInfos' = SlotInfos
    BY <1>1 DEF SlotInfos
  <1>4. AllMsgHash' = AllMsgHash
    <2>1. [p \in SlotInfos |-> Recovered(p).roots]' = [p \in SlotInfos |-> Recovered(p).roots]
      BY <1>1, <1>3 DEF SlotInfos
    <2> QED
      BY <2>1 DEF AllMsgHash
  <1>5. SlotInfos \subseteq Peer
    BY DEF SlotInfos
  <1>6. \A p \in SlotInfos : (\E i \in DOMAIN xorVector[p] :
          LET own == Xor(xorVector[p][i], RandomOf(p))
          IN IF i \in DOMAIN AllMsgHash /\ AllMsgHash[i] \in Range(Recovered(p).roots)
               THEN own # Token(AllMsgHash[i]) ELSE own # {})'
        <=> (\E i \in DOMAIN xorVector[p] :
          LET own == Xor(xorVector[p][i], RandomOf(p))
          IN IF i \in DOMAIN AllMsgHash /\ AllMsgHash[i] \in Range(Recovered(p).roots)
               THEN own # Token(AllMsgHash[i]) ELSE own # {})
    BY <1>1, <1>4, <1>5
  <1>7. WrongXor' = WrongXor
    BY <1>3, <1>6 DEF WrongXor
  <1> QED
    BY <1>2, <1>7 DEF Verdict

LEMMA HonestUnchanged ==
    ASSUME UNCHANGED <<msgs, roots>>
    PROVE  \A p \in Peer : HasFound(p)' = HasFound(p) /\ HonestXor(p)' = HonestXor(p)
  <1>1. \A m : Slot(m)' = Slot(m)
    BY DEF Slot
  <1> QED
    BY <1>1 DEF HasFound, HonestXor

\* A second vector that is sent has an element for each root.
LEMMA XorVectorsAre ==
    ASSUME NEW p \in Peer, NEW v \in XorVectors(p)
    PROVE  DOMAIN v = DOMAIN roots /\ (p \in Honest => v = HonestXor(p))
  <1>1. DOMAIN HonestXor(p) = DOMAIN roots
    BY DEF HonestXor
  <1>2. CASE p = deviant
    <2> DEFINE sent == IF HasFound(p) THEN HonestXor(p) ELSE [i \in DOMAIN roots |-> RandomOf(p)]
    <2>1. DOMAIN sent = DOMAIN roots
      BY <1>1
    <2>2. \E i \in DOMAIN roots : \E t : v = [sent EXCEPT ![i] = Xor(@, t)]
      BY <1>2 DEF XorVectors
    <2> HIDE DEF sent
    <2> QED
      BY <1>2, <2>1, <2>2 DEF Honest
  <1>3. CASE p # deviant
    BY <1>1, <1>3 DEF XorVectors
  <1> QED
    BY <1>2, <1>3

LEMMA SubmitXorIInv ==
    ASSUME Sizes, IInv, NEW p \in Peer, SubmitXor(p)
    PROVE  IInv'
  <1>1. /\ UNCHANGED <<msgs, padding, deviant, expVector, asked, roots, accuser, taken, wrongKeys,
                       blamed, replayed>>
        /\ roots # <<>> /\ ~replayed /\ xorVector[p] = <<>> /\ (p # deviant => HasFound(p))
    BY DEF SubmitXor
  <1>2. Given' /\ DcCombine' = DcCombine /\ Honest' = Honest /\ \A q \in Peer : PaddingOf(q)' = PaddingOf(q)
    BY <1>1, GivenUnchanged DEF IInv
  <1>3. state # "DcExponential" /\ GetRoots(DcCombine) = [ret |-> Solved, roots |-> roots]
    BY <1>1 DEF IInv, Rounds
  <1>4. DOMAIN roots # {}
    BY <1>3, RootsTypeIs DEF IInv
  <1>5. ~Sent /\ Coming /\ state \in {"DcXor", "RevealSecret"}
    <2>1. DOMAIN <<>> = {}
      OBVIOUS
    <2>2. ~Right(p)
      BY <1>1, <1>4, <2>1 DEF Right
    <2> QED
      BY <1>3, <2>2 DEF IInv, Vectors, Sent
  <1>6. PICK v \in XorVectors(p) : xorVector' = [xorVector EXCEPT ![p] = v]
    BY DEF SubmitXor
  <1>7. DOMAIN v = DOMAIN roots /\ (p \in Honest => v = HonestXor(p))
    BY XorVectorsAre
  <1>8. \A q \in Peer : HasFound(q)' = HasFound(q) /\ HonestXor(q)' = HonestXor(q)
    BY <1>1, HonestUnchanged
  <1>9. DOMAIN xorVector = Peer
    BY DEF IInv, Vectors
  <1>10. DOMAIN xorVector' = Peer /\ \A q \in Peer : xorVector'[q] = IF q = p THEN v ELSE xorVector[q]
    BY <1>6, <1>9
  <1>11. \A q \in Peer : xorVector'[q] = <<>> \/ Right(q)'
    <2> SUFFICES ASSUME NEW q \in Peer PROVE xorVector'[q] = <<>> \/ Right(q)'
      OBVIOUS
    <2>1. CASE q = p
      BY <1>1, <1>2, <1>7, <1>8, <1>10, <2>1 DEF Right, Honest
    <2>2. CASE q # p
      BY <1>1, <1>2, <1>5, <1>8, <1>10, <2>2 DEF Coming, Right
    <2> QED
      BY <2>1, <2>2
  <1>12. state' # "DcExponential" /\ Vectors' /\ state' \in {"DcXor", "TxInput", "RevealSecret"}
    <2>1. CASE \E q \in Peer : xorVector'[q] = <<>>
      <3>1. UNCHANGED <<state, scripts>>
        BY <2>1 DEF SubmitXor
      <3>2. Coming'
        BY <1>5, <1>11, <3>1 DEF Coming
      <3> QED
        BY <1>5, <1>10, <3>1, <3>2 DEF Vectors
    <2>2. CASE ~\E q \in Peer : xorVector'[q] = <<>>
      <3>1. state' = "TxInput" /\ scripts' = [i \in DOMAIN roots |-> XorAll([q \in Peer |-> xorVector'[q][i]])]
        BY <2>2 DEF SubmitXor
      <3>2. Sent'
        BY <1>11, <2>2 DEF Sent
      <3>3. Combined'
        BY <1>1, <3>1 DEF Combined
      <3> QED
        BY <1>10, <3>1, <3>2, <3>3 DEF Vectors
    <2> QED
      BY <2>1, <2>2
  <1>13. Rounds'
    BY <1>1, <1>2, <1>3, <1>12 DEF Rounds
  <1>14. Keys'
    BY <1>1, <1>2 DEF IInv, Keys, RightKey
  <1>15. Reasons'
    <2>1. ~LostScript /\ ~Unsolved
      BY <1>3, <1>5 DEF LostScript, Unsolved
    <2>2. LostHash => LostHash'
      BY <1>2, <1>8, <1>12 DEF LostHash, Honest
    <2>3. FalseAlarm => FalseAlarm'
      BY <1>1 DEF FalseAlarm
    <2> QED
      BY <1>1, <1>12, <2>1, <2>2, <2>3 DEF IInv, Reasons
  <1> QED
    BY <1>2, <1>12, <1>13, <1>14, <1>15 DEF IInv

\* A complaint changes nothing but who made it, and has a reason if it is honest.
LEMMA ComplainIInv ==
    ASSUME Sizes, IInv, NEW p \in Peer, Complain(p), state \in {"DcXor", "TxInput"},
           p = deviant \/ LostHash \/ LostScript
    PROVE  IInv'
  <1>1. /\ UNCHANGED <<msgs, padding, deviant, expVector, roots, xorVector, scripts, taken, wrongKeys,
                       blamed, replayed>>
        /\ ~asked /\ asked' = TRUE /\ accuser' = p /\ state' = "RevealSecret"
    BY DEF Complain
  <1>2. Given' /\ DcCombine' = DcCombine /\ Honest' = Honest /\ \A q \in Peer : PaddingOf(q)' = PaddingOf(q)
    BY <1>1, GivenUnchanged DEF IInv
  <1>3. \A q \in Peer : HasFound(q)' = HasFound(q) /\ HonestXor(q)' = HonestXor(q)
    BY <1>1, HonestUnchanged
  <1>4. \A q \in Peer : Right(q)' = Right(q)
    BY <1>1, <1>2, <1>3 DEF Right
  <1>5. (Coming => Coming') /\ (Sent => Sent') /\ (Combined => Combined')
    <2>1. Coming => Coming'
      BY <1>1, <1>4 DEF Coming
    <2>2. Sent => Sent'
      BY <1>4 DEF Sent
    <2>3. Combined => Combined'
      BY <1>1 DEF Combined
    <2> QED
      BY <2>1, <2>2, <2>3
  <1>6. Vectors'
    BY <1>1, <1>5 DEF IInv, Vectors
  <1>7. Rounds'
    BY <1>1, <1>2 DEF IInv, Rounds
  <1>8. taken = <<>> /\ ~replayed
    BY <1>1 DEF IInv, Keys, Reasons
  <1>9. Keys'
    BY <1>1, <1>8 DEF IInv, Keys
  <1>10. Reasons'
    <2>1. LostHash => LostHash'
      BY <1>1, <1>2, <1>3 DEF LostHash, Honest
    <2>2. \A m : Slot(m)' = Slot(m)
      BY <1>1 DEF Slot
    <2>3. LostScript => LostScript'
      BY <1>1, <1>2, <1>5, <2>2 DEF LostScript
    <2>4. p = deviant => FalseAlarm'
      BY <1>1, PeerIs DEF FalseAlarm, NoPeer
    <2> QED
      BY <1>1, <1>8, <2>1, <2>3, <2>4 DEF Reasons
  <1> QED
    BY <1>2, <1>6, <1>7, <1>9, <1>10 DEF IInv

LEMMA NextIInv ==
    ASSUME Sizes, IInv, [Next]_vars
    PROVE  IInv'
  <1>1. UNCHANGED <<msgs, padding, deviant, expVector>>
    BY DEF Next, vars, CombineExp, SubmitXor, MissingInExp, MissingInXor, Complain, Reveal, Replay
  <1>2. Given' /\ DcCombine' = DcCombine /\ Honest' = Honest /\ \A p \in Peer : PaddingOf(p)' = PaddingOf(p)
    BY <1>1, GivenUnchanged DEF IInv
  <1>3. Honest \subseteq Peer
    BY DEF Honest
  <1>4. CASE CombineExp
    <2>1. /\ UNCHANGED <<xorVector, scripts, accuser, taken, wrongKeys, blamed, replayed>>
          /\ state = "DcExponential" /\ ~asked
      BY <1>4 DEF CombineExp
    <2>2. ~replayed /\ taken = <<>> /\ accuser = NoPeer
      BY <2>1 DEF IInv, Keys, Reasons
    <2>3. Unsent /\ scripts = <<>>
      BY <2>1 DEF IInv, Vectors
    <2>4. Unsent' /\ scripts' = <<>>
      BY <2>1, <2>3 DEF Unsent
    <2>5. Keys'
      BY <1>1, <2>1, <2>2 DEF IInv, Keys
    <2> DEFINE solution == GetRoots(DcCombine)
    <2>6. CASE solution.ret # Solved
      <3>1. asked' /\ UNCHANGED <<state, roots>>
        BY <1>4, <2>6 DEF CombineExp
      <3>2. Unsolved' /\ Rounds' /\ Vectors'
        BY <1>2, <2>1, <2>4, <2>6, <3>1 DEF IInv, Rounds, Vectors, Unsolved
      <3> QED
        BY <1>2, <2>1, <2>2, <2>5, <3>1, <3>2 DEF IInv, Reasons
    <2>7. CASE solution.ret = Solved
      <3>1. roots' = solution.roots /\ state' = "DcXor" /\ UNCHANGED asked
        BY <1>4, <2>7 DEF CombineExp
      <3>2. solution = [ret |-> Solved, roots |-> roots']
        <4>1. solution = [ret |-> solution.ret, roots |-> solution.roots]
          BY DEF GetRoots
        <4> HIDE DEF solution
        <4> QED
          BY <2>7, <3>1, <4>1
      <3>3. Rounds'
        BY <1>2, <3>1, <3>2 DEF Rounds
      <3>4. Vectors'
        BY <2>4, <3>1 DEF Vectors, Coming, Unsent
      <3> QED
        BY <1>2, <2>1, <2>2, <2>5, <3>1, <3>3, <3>4 DEF IInv, Reasons
    <2> QED
      BY <2>6, <2>7
  <1>5. ASSUME NEW p \in Peer, SubmitXor(p) PROVE IInv'
    BY <1>5, SubmitXorIInv
  <1>6. ASSUME NEW p \in Peer, MissingInExp(p) PROVE IInv'
    <2>1. state = "DcXor" /\ Complain(p) /\ (p = deviant \/ LostHash)
      BY <1>6 DEF MissingInExp, LostHash, Honest
    <2> QED
      BY <2>1, ComplainIInv
  <1>7. ASSUME NEW p \in Peer, MissingInXor(p) PROVE IInv'
    <2>1. state = "TxInput" /\ Complain(p)
      BY <1>7 DEF MissingInXor
    <2>2. Sent /\ Combined
      BY <2>1 DEF IInv, Vectors
    <2>3. p = deviant \/ LostScript
      BY <1>7, <2>1, <2>2 DEF MissingInXor, LostScript, Honest
    <2> QED
      BY <2>1, <2>3, ComplainIInv
  <1>8. CASE Reveal \/ Replay \/ UNCHANGED vars
    <2>1. UNCHANGED <<msgs, padding, deviant, expVector, state, asked, roots, xorVector, scripts, accuser>>
      BY <1>8 DEF Reveal, Replay, vars
    <2>2. \A m : Slot(m)' = Slot(m)
      BY <2>1 DEF Slot
    <2>3. \A p \in Peer : HasFound(p)' = HasFound(p) /\ HonestXor(p)' = HonestXor(p)
      BY <2>1, HonestUnchanged
    <2>4. \A p \in Peer : Right(p)' <=> Right(p)
      BY <1>2, <2>1, <2>3 DEF Right
    <2>5. (Unsent' <=> Unsent) /\ (Coming' <=> Coming) /\ (Sent' <=> Sent) /\ (Combined' <=> Combined)
      <3>1. (Unsent' <=> Unsent) /\ (Combined' <=> Combined)
        BY <2>1 DEF Unsent, Combined
      <3>2. (Coming' <=> Coming) /\ (Sent' <=> Sent)
        BY <2>1, <2>4 DEF Coming, Sent
      <3> QED
        BY <3>1, <3>2
    <2>6. /\ FalseAlarm' <=> FalseAlarm
          /\ Unsolved' <=> Unsolved
          /\ LostHash' <=> LostHash
          /\ LostScript' <=> LostScript
      <3>1. (FalseAlarm' <=> FalseAlarm) /\ (Unsolved' <=> Unsolved)
        BY <1>2, <2>1 DEF FalseAlarm, Unsolved
      <3>2. LostHash' <=> LostHash
        BY <1>2, <1>3, <2>1, <2>3 DEF LostHash
      <3>3. LostScript' <=> LostScript
        BY <1>2, <2>1, <2>2, <2>5 DEF LostScript
      <3> QED
        BY <3>1, <3>2, <3>3
    <2>7. Rounds' /\ Vectors'
      BY <1>2, <2>1, <2>5 DEF IInv, Rounds, Vectors
    <2>8. CASE Reveal
      <3>1. asked /\ taken = <<>> /\ wrongKeys' \subseteq {deviant} /\ UNCHANGED <<blamed, replayed>>
        BY <2>8 DEF Reveal
      <3>2. \A p \in Peer : p \notin wrongKeys' => taken'[p] = PaddingOf(p)
        BY <2>8 DEF Reveal
      <3>3. Keys'
        BY <1>2, <2>1, <3>1, <3>2 DEF Keys, RightKey
      <3>4. Reasons'
        BY <2>1, <2>6, <3>1 DEF IInv, Reasons
      <3> QED
        BY <1>2, <2>7, <3>3, <3>4 DEF IInv
    <2>9. CASE Replay \/ UNCHANGED vars
      <3>1. UNCHANGED <<taken, wrongKeys>>
        BY <2>9 DEF Replay, vars
      <3>2. Verdict' = Verdict
        BY <2>1, <3>1, ReplayUnchanged
      <3>3. Keys'
        BY <1>2, <2>1, <3>1 DEF IInv, Keys, RightKey
      <3>4. replayed' => taken # <<>> /\ blamed' = Verdict
        BY <2>9 DEF Replay, vars, IInv, Reasons, Verdict
      <3>5. Reasons'
        BY <2>1, <2>6, <3>1, <3>2, <3>4 DEF IInv, Reasons
      <3> QED
        BY <1>2, <2>7, <3>3, <3>5 DEF IInv
    <2> QED
      BY <1>8, <2>8, <2>9
  <1> QED
    BY <1>4, <1>5, <1>6, <1>7, <1>8 DEF Next

-----------------------------------------------------------------------------
(* Nobody deviates.                                                        *)

LEMMA HonestSums ==
    ASSUME Given, NEW p \in Honest
    PROVE  Unpadded(PaddingOf(p), expVector[p]) = PowerSums(msgs[p], TotalMsg)
  <1>1. p \in Peer /\ expVector[p] = Padded(PaddingOf(p), PowerSums(msgs[p], TotalMsg))
    BY DEF Given, Honest
  <1>2. PowerSums(msgs[p], TotalMsg) \in [1 .. TotalMsg -> Field]
    BY <1>1, MessagesAre, PeerIs, PowerSumsType DEF Given, Listed
  <1> DEFINE v == PowerSums(msgs[p], TotalMsg)
             D == 1 .. TotalMsg
  <1>3. v \in [D -> Field] /\ PaddingType
    BY <1>2 DEF Given
  <1> HIDE DEF v, D
  <1>4. Unpadded(PaddingOf(p), Padded(PaddingOf(p), v)) = v
    BY <1>1, <1>3, PaddedIs
  <1> QED
    BY <1>1, <1>4 DEF v

\* All messages are there, each in one place.
LEMMA AllMessagesAre ==
    ASSUME msgs \in Messages
    PROVE  /\ \A p \in Peer : Range(msgs[p]) \subseteq Range(AllMessages)
           /\ \A i, j \in 1 .. TotalMsg : AllMessages[i] = AllMessages[j] => i = j
           /\ \A i \in 1 .. TotalMsg : \E p \in Peer : AllMessages[i] \in Range(msgs[p])
  <1> DEFINE U == Together(msgs)
  <1>1. PICK b \in Bijection(1 .. TotalMsg, DOMAIN U) : AllMessages = [i \in 1 .. TotalMsg |-> U[b[i]]]
    BY MessagesAre, SortedTogether DEF AllMessages
  <1>2. /\ \A p \in Peer : \A i \in DOMAIN msgs[p] : <<p, i>> \in DOMAIN U /\ U[<<p, i>>] = msgs[p][i]
        /\ \A z \in DOMAIN U : \E p \in Peer : \E i \in DOMAIN msgs[p] : z = <<p, i>> /\ U[z] = msgs[p][i]
    <2>1. Listed(msgs) /\ DOMAIN msgs = Peer
      BY MessagesAre DEF Listed
    <2>2. /\ IsFiniteSet(DOMAIN msgs) /\ \A p \in DOMAIN msgs : IsFiniteSet(DOMAIN msgs[p])
          /\ \A p \in DOMAIN msgs : \A i \in DOMAIN msgs[p] : msgs[p][i] \in Int
      BY <2>1, ListedIs
    <2> QED
      BY <2>1, <2>2, TogetherIs
  <1> HIDE DEF U
  <1>3. /\ b \in [1 .. TotalMsg -> DOMAIN U]
        /\ \A i, j \in 1 .. TotalMsg : b[i] = b[j] => i = j
        /\ \A z \in DOMAIN U : \E i \in 1 .. TotalMsg : b[i] = z
    BY DEF Bijection, Injection, Surjection, IsInjective
  <1>4. \A y, z \in DOMAIN U : U[y] = U[z] => y = z
    <2> SUFFICES ASSUME NEW y \in DOMAIN U, NEW z \in DOMAIN U, U[y] = U[z] PROVE y = z
      OBVIOUS
    <2>1. PICK p \in Peer : \E i \in DOMAIN msgs[p] : y = <<p, i>> /\ U[y] = msgs[p][i]
      BY <1>2
    <2>2. PICK i \in DOMAIN msgs[p] : y = <<p, i>> /\ U[y] = msgs[p][i]
      BY <2>1
    <2>3. PICK q \in Peer : \E j \in DOMAIN msgs[q] : z = <<q, j>> /\ U[z] = msgs[q][j]
      BY <1>2
    <2>4. PICK j \in DOMAIN msgs[q] : z = <<q, j>> /\ U[z] = msgs[q][j]
      BY <2>3
    <2>5. DOMAIN msgs[p] = 1 .. NumMsg[p] /\ DOMAIN msgs[q] = 1 .. NumMsg[q]
      BY MessagesAre DEF Listed
    <2> QED
      BY <2>2, <2>4, <2>5, MessagesAre
  <1>5. ASSUME NEW p \in Peer, NEW m \in Range(msgs[p]) PROVE m \in Range(AllMessages)
    <2>1. PICK i \in DOMAIN msgs[p] : msgs[p][i] = m
      BY DEF Range
    <2>2. PICK j \in 1 .. TotalMsg : b[j] = <<p, i>>
      BY <1>2, <1>3
    <2>3. AllMessages[j] = m
      BY <1>1, <1>2, <2>1, <2>2
    <2> QED
      BY <1>1, <2>3 DEF Range
  <1>6. \A i \in 1 .. TotalMsg : \E p \in Peer : AllMessages[i] \in Range(msgs[p])
    BY <1>1, <1>2, <1>3 DEF Range
  <1>7. \A i, j \in 1 .. TotalMsg : AllMessages[i] = AllMessages[j] => i = j
    BY <1>1, <1>3, <1>4
  <1> QED
    BY <1>5, <1>6, <1>7

LEMMA NobodyDeviates ==
    ASSUME Sizes, Given, deviant = NoPeer
    PROVE  Honest = Peer /\ GetRoots(DcCombine) = [ret |-> Solved, roots |-> AllMessages]
  <1>1. Honest = Peer
    BY PeerIs DEF Honest, NoPeer
  <1>2. \A p \in Peer : Unpadded(PaddingOf(p), expVector[p]) = PowerSums(msgs[p], TotalMsg)
    BY <1>1, HonestSums
  <1>3. Listed(msgs)
    BY MessagesAre DEF Given
  <1> QED
    BY <1>1, <1>2, <1>3, AllSolved DEF Given, AllMessages

\* One peer has a pkscript in a slot, and the others nothing.
LEMMA OneOwner ==
    ASSUME NEW own, DOMAIN own = Peer, NEW m, NEW p \in Peer, own[p] = Token(m),
           \A q \in Peer \ {p} : own[q] = {},
           NEW f, DOMAIN f = Peer, \A q \in Peer : f[q] = Xor(own[q], RandomOf(q))
    PROVE  XorAll(f) = Token(m)
  <1>1. \A q \in Peer : \A t \in own[q] : t = <<"script", m>> /\ q = p
    BY DEF Token
  <1>2. \A q \in Peer : \A t \in own[q] : t[1] # "random"
    BY <1>1
  <1>3. XorAll(f) = XorAll(own)
    BY <1>2, XorWithout
  <1>4. <<"script", m>> \in XorAll(own)
    BY <1>1, PeerIs, XorAllOne DEF Token
  <1>5. \A t \in XorAll(own) : t = <<"script", m>>
    BY <1>1 DEF XorAll, Range
  <1> QED
    BY <1>3, <1>4, <1>5 DEF Token

LEMMA HonestScripts ==
    ASSUME Given, RootsType, roots = AllMessages, Honest = Peer, Sent, Combined, NEW i \in DOMAIN roots
    PROVE  scripts[i] = Token(roots[i])
  <1> DEFINE own == [p \in Peer |-> Own(p, i)]
             f == [p \in Peer |-> xorVector[p][i]]
  <1>1. i \in 1 .. TotalMsg /\ roots[i] \in Range(roots)
    BY DEF RootsType, Range
  <1>2. Slot(roots[i]) = i
    BY <1>1, SlotIs, AllMessagesAre DEF Given
  <1>3. PICK p \in Peer : roots[i] \in Range(msgs[p])
    BY <1>1, AllMessagesAre DEF Given
  <1>4. own[p] = Token(roots[i])
    BY <1>2, <1>3 DEF Own
  <1>5. \A q \in Peer \ {p} : own[q] = {}
    BY <1>3 DEF Own, Given, Messages
  <1>6. \A q \in Peer : f[q] = Xor(own[q], RandomOf(q))
    BY HonestXorIs DEF Sent, Right
  <1>7. DOMAIN own = Peer /\ DOMAIN f = Peer
    OBVIOUS
  <1> HIDE DEF own, f
  <1>8. XorAll(f) = Token(roots[i])
    BY <1>4, <1>5, <1>6, <1>7, OneOwner
  <1> QED
    BY <1>8 DEF Combined, f

LEMMA HonestMixIs ==
    ASSUME Sizes, IInv
    PROVE  HonestMix
  <1> SUFFICES ASSUME deviant = NoPeer
               PROVE  /\ ~asked
                      /\ roots # <<>> => roots = AllMessages
                      /\ scripts # <<>> => \A i \in DOMAIN roots : scripts[i] = Token(roots[i])
    BY DEF HonestMix
  <1>1. Honest = Peer /\ GetRoots(DcCombine) = [ret |-> Solved, roots |-> AllMessages]
    BY NobodyDeviates DEF IInv
  <1>2. state # "DcExponential" => roots = AllMessages /\ RootsType
    BY <1>1, RootsTypeIs DEF IInv, Rounds
  <1>3. roots # <<>> => roots = AllMessages
    BY <1>2 DEF IInv, Rounds
  <1>4. Sent /\ Combined /\ state # "DcExponential" => \A i \in DOMAIN roots : scripts[i] = Token(roots[i])
    BY <1>1, <1>2, HonestScripts DEF IInv
  <1>5. scripts # <<>> => Sent /\ Combined /\ state # "DcExponential"
    BY DEF IInv, Vectors, Coming
  <1>6. ~Unsolved
    BY <1>1 DEF Unsolved
  <1>7. ~LostHash
    BY <1>2, AllMessagesAre DEF LostHash, HasFound, Honest, IInv, Given
  <1>8. ~LostScript
    <2> SUFFICES ASSUME LostScript PROVE FALSE
      OBVIOUS
    <2>1. PICK p \in Honest : \E m \in Range(msgs[p]) : scripts[Slot(m)] # Token(m)
      BY DEF LostScript
    <2>2. PICK m \in Range(msgs[p]) : scripts[Slot(m)] # Token(m)
      BY <2>1
    <2>3. m \in Range(roots) /\ RootsType
      BY <1>1, <1>2, AllMessagesAre DEF LostScript, IInv, Given
    <2>4. Slot(m) \in DOMAIN roots /\ roots[Slot(m)] = m
      BY <2>3, SlotIs
    <2> QED
      BY <1>4, <2>2, <2>4 DEF LostScript
  <1> QED
    BY <1>3, <1>4, <1>5, <1>6, <1>7, <1>8 DEF IInv, Reasons, FalseAlarm

-----------------------------------------------------------------------------
(* Somebody is blamed.                                                     *)

LEMMA TogetherHas ==
    ASSUME NEW R, Listed(R)
    PROVE  LET all == Sorted(Together(R)) IN
           /\ \A p \in Peer : \A m \in Range(R[p]) : \E j \in 1 .. TotalMsg : all[j] = m
           /\ \A p, q \in Peer : \A m \in Range(R[p]) \cap Range(R[q]) :
                p # q => \E j, k \in 1 .. TotalMsg : j # k /\ all[j] = m /\ all[k] = m
  <1> DEFINE U == Together(R)
             all == Sorted(U)
  <1>1. PICK b \in Bijection(1 .. TotalMsg, DOMAIN U) : all = [i \in 1 .. TotalMsg |-> U[b[i]]]
    BY SortedTogether
  <1>2. \A p \in Peer : \A i \in DOMAIN R[p] : <<p, i>> \in DOMAIN U /\ U[<<p, i>>] = R[p][i]
    BY ListedIs, TogetherIs DEF Listed
  <1> HIDE DEF U, all
  <1>3. ASSUME NEW p \in Peer, NEW m \in Range(R[p])
        PROVE  \E i \in DOMAIN R[p] : \E j \in 1 .. TotalMsg : b[j] = <<p, i>> /\ all[j] = m
    <2>1. PICK i \in DOMAIN R[p] : R[p][i] = m
      BY DEF Range
    <2>2. <<p, i>> \in DOMAIN U /\ U[<<p, i>>] = m
      BY <1>2, <2>1
    <2>3. PICK j \in 1 .. TotalMsg : b[j] = <<p, i>>
      BY <2>2 DEF Bijection, Surjection
    <2> QED
      BY <1>1, <2>2, <2>3
  <1>4. \A p \in Peer : \A m \in Range(R[p]) : \E j \in 1 .. TotalMsg : all[j] = m
    BY <1>3
  <1>5. ASSUME NEW p \in Peer, NEW q \in Peer, NEW m \in Range(R[p]) \cap Range(R[q]), p # q
        PROVE  \E j, k \in 1 .. TotalMsg : j # k /\ all[j] = m /\ all[k] = m
    <2>1. PICK i \in DOMAIN R[p] : \E j \in 1 .. TotalMsg : b[j] = <<p, i>> /\ all[j] = m
      BY <1>3
    <2>2. PICK j \in 1 .. TotalMsg : b[j] = <<p, i>> /\ all[j] = m
      BY <2>1
    <2>3. PICK l \in DOMAIN R[q] : \E k \in 1 .. TotalMsg : b[k] = <<q, l>> /\ all[k] = m
      BY <1>3
    <2>4. PICK k \in 1 .. TotalMsg : b[k] = <<q, l>> /\ all[k] = m
      BY <2>3
    <2>5. j # k
      BY <1>5, <2>2, <2>4
    <2> QED
      BY <2>2, <2>4, <2>5
  <1> QED
    BY <1>4, <1>5 DEF all, U

\* If no first vector is wrong, the messages of all are recovered, and are what
\* the solution gives.
LEMMA NoWrongExp ==
    ASSUME Sizes, Given, WrongExp = {}, \A p \in Peer : RightKey(p)
    PROVE  LET R == [p \in Peer |-> Recovered(p).roots] IN
           /\ Listed(R) /\ SlotInfos = Peer /\ AllMsgHash = Sorted(Together(R))
           /\ GetRoots(DcCombine) = [ret |-> Solved, roots |-> AllMsgHash]
           /\ \A p \in Honest : R[p] = msgs[p]
  <1> DEFINE R == [p \in Peer |-> Recovered(p).roots]
  <1>0. PaddingType /\ VectorType /\ msgs \in Messages
    BY DEF Given
  <1>1. \A p \in Peer : /\ Recovered(p).ret = Solved
                        /\ expVector[p] = Padded(PaddingOf(p), PowerSums(R[p], TotalMsg))
    BY DEF WrongExp, Differs, RightKey
  <1>2. \A p \in Peer : R[p] \in Ordered(NumMsg[p])
    BY <1>0, <1>1, RecoveredOrdered
  <1>3. Listed(R)
    BY <1>2 DEF Listed, Ordered
  <1>4. SlotInfos = Peer
    BY <1>1 DEF SlotInfos
  <1>5. AllMsgHash = Sorted(Together(R))
    BY <1>4 DEF AllMsgHash
  <1>6. ASSUME NEW p \in Honest PROVE R[p] = msgs[p]
    <2>1. p \in Peer /\ msgs[p] \in Ordered(NumMsg[p]) /\ Unpadded(PaddingOf(p), expVector[p]) = PowerSums(msgs[p], TotalMsg)
      BY <1>0, HonestSums, MessagesAre DEF Honest
    <2>2. Recovered(p) = [ret |-> Solved, roots |-> msgs[p]]
      BY <1>0, <2>1, RecoveredIs
    <2> QED
      BY <2>1, <2>2
  <1> HIDE DEF R
  <1>7. ASSUME NEW p \in Peer PROVE Unpadded(PaddingOf(p), expVector[p]) = PowerSums(R[p], TotalMsg)
    <2> DEFINE v == PowerSums(R[p], TotalMsg)
               D == 1 .. TotalMsg
    <2>1. v \in [D -> Field]
      BY <1>3, PeerIs, PowerSumsType DEF Listed
    <2>2. expVector[p] = Padded(PaddingOf(p), v)
      BY <1>1
    <2> HIDE DEF v, D
    <2>3. Unpadded(PaddingOf(p), Padded(PaddingOf(p), v)) = v
      BY <1>0, <2>1, PaddedIs
    <2> QED
      BY <2>2, <2>3 DEF v
  <1>8. GetRoots(DcCombine) = [ret |-> Solved, roots |-> Sorted(Together(R))]
    BY <1>0, <1>3, <1>7, AllSolved
  <1> QED
    BY <1>3, <1>4, <1>5, <1>6, <1>8 DEF R

LEMMA SomebodyIsBlamedIs ==
    ASSUME Sizes, IInv
    PROVE  SomebodyIsBlamed
  <1> SUFFICES ASSUME replayed, ~FalseAlarm, blamed = {} PROVE FALSE
    BY DEF SomebodyIsBlamed
  <1> DEFINE R == [p \in Peer |-> Recovered(p).roots]
             all == AllMsgHash
  <1>0. asked /\ blamed = Verdict
    BY DEF IInv, Reasons, Keys
  <1>1. /\ wrongKeys = {} /\ WrongExp = {}
        /\ state \in {"TxInput", "RevealSecret"} => WrongXor = {}
    BY <1>0 DEF Verdict
  <1>2. /\ Listed(R) /\ SlotInfos = Peer /\ all = Sorted(Together(R))
        /\ GetRoots(DcCombine) = [ret |-> Solved, roots |-> all]
        /\ \A p \in Honest : R[p] = msgs[p]
    <2>1. \A p \in Peer : RightKey(p)
      BY <1>1 DEF IInv, Keys, Reasons
    <2> QED
      BY <1>1, <2>1, NoWrongExp DEF IInv
  <1>3. \A p \in Peer : R[p] = Recovered(p).roots
    OBVIOUS
  <1> HIDE DEF R, all
  <1>4. ~Unsolved
    BY <1>2 DEF Unsolved
  <1>5. state # "DcExponential" => roots = all /\ RootsType /\ DOMAIN roots = 1 .. TotalMsg
    BY <1>2, RootsTypeIs DEF IInv, Rounds
  <1>6. \A p \in Honest : \A m \in Range(msgs[p]) : \E j \in 1 .. TotalMsg : all[j] = m
    BY <1>2, TogetherHas DEF Honest
  <1>7. ~LostHash
    <2> SUFFICES ASSUME LostHash PROVE FALSE
      OBVIOUS
    <2>1. PICK p \in Honest : ~HasFound(p)
      BY DEF LostHash
    <2>2. roots = all /\ DOMAIN roots = 1 .. TotalMsg
      BY <1>5 DEF LostHash
    <2> QED
      BY <1>6, <2>1, <2>2 DEF HasFound, Range
  <1>8. ~LostScript
    <2> SUFFICES ASSUME LostScript PROVE FALSE
      OBVIOUS
    <2>1. PICK p \in Honest : \E m \in Range(msgs[p]) : scripts[Slot(m)] # Token(m)
      BY DEF LostScript
    <2>2. PICK m \in Range(msgs[p]) : scripts[Slot(m)] # Token(m)
      BY <2>1
    <2>3. roots = all /\ RootsType /\ DOMAIN roots = 1 .. TotalMsg /\ WrongXor = {} /\ Sent /\ Combined /\ p \in Peer
      BY <1>1, <1>5 DEF LostScript, Honest
    <2>4. \A q \in Peer : \A i \in 1 .. TotalMsg :
            Xor(xorVector[q][i], RandomOf(q)) = IF roots[i] \in Range(R[q]) THEN Token(roots[i]) ELSE {}
      <3> SUFFICES ASSUME NEW q \in Peer, NEW i \in 1 .. TotalMsg
                   PROVE  Xor(xorVector[q][i], RandomOf(q)) = IF roots[i] \in Range(R[q]) THEN Token(roots[i]) ELSE {}
        OBVIOUS
      <3>1. i \in DOMAIN xorVector[q]
        BY <2>3 DEF Sent, Right
      <3>2. q \in SlotInfos /\ q \notin WrongXor
        BY <1>2, <2>3
      <3> QED
        BY <1>3, <2>3, <3>1, <3>2 DEF WrongXor, all
    <2> DEFINE s == Slot(m)
    <2>5. s \in 1 .. TotalMsg /\ roots[s] = m
      <3>1. m \in Range(roots)
        BY <1>6, <2>3 DEF Range
      <3> QED
        BY <2>3, <3>1, SlotIs
    <2> DEFINE own == [q \in Peer |-> Xor(xorVector[q][s], RandomOf(q))]
               f == [q \in Peer |-> xorVector[q][s]]
    <2>6. DOMAIN own = Peer /\ DOMAIN f = Peer /\ \A q \in Peer : f[q] = Xor(own[q], RandomOf(q))
      <3>1. \A a, b : Xor(Xor(a, b), b) = a
        BY DEF Xor
      <3> QED
        BY <3>1
    <2>7. m \in Range(R[p])
      BY <1>2
    <2>8. own[p] = Token(m)
      BY <2>3, <2>4, <2>5, <2>7
    <2>9. scripts[s] = XorAll(f)
      BY <2>3, <2>5 DEF Combined
    <2>10. ASSUME NEW q \in Peer \ {p}, own[q] # {} PROVE FALSE
      <3>1. own[q] = IF roots[s] \in Range(R[q]) THEN Token(roots[s]) ELSE {}
        BY <2>4, <2>5
      <3>2. m \in Range(R[q])
        BY <2>5, <2>10, <3>1
      <3>3. PICK j \in 1 .. TotalMsg : j # s /\ roots[j] = m
        <4>1. \E j, k \in 1 .. TotalMsg : j # k /\ all[j] = m /\ all[k] = m
          <5>1. m \in Range(R[p]) \cap Range(R[q]) /\ p \in Peer /\ q \in Peer /\ p # q
            BY <2>3, <2>7, <3>2
          <5> HIDE DEF own, f, s
          <5>2. \E j, k \in 1 .. TotalMsg : j # k /\ Sorted(Together(R))[j] = m /\ Sorted(Together(R))[k] = m
            BY <1>2, <5>1, TogetherHas
          <5> QED
            BY <1>2, <5>2
        <4> QED
          BY <2>3, <4>1
      <3>4. Xor(xorVector[p][j], RandomOf(p)) = Token(m)
        BY <2>3, <2>4, <2>7, <3>3
      <3>5. xorVector[p][j] = Xor(Own(p, j), RandomOf(p)) /\ Own(p, j) = {}
        <4>1. xorVector[p] = HonestXor(p) /\ HasFound(p)
          BY <2>1, <2>3 DEF Sent, Right
        <4>2. HonestXor(p) = [i \in DOMAIN roots |-> Xor(Own(p, i), RandomOf(p))]
          BY <2>3, <4>1, HonestXorIs
        <4>3. Own(p, j) = {}
          BY <3>3 DEF Own
        <4> QED
          BY <2>3, <3>3, <4>1, <4>2, <4>3
      <3>6. \A a, b : Xor(Xor(a, b), b) = a
        BY DEF Xor
      <3>7. {} = Token(m)
        <4> HIDE DEF own, f, s
        <4> QED
          BY <3>4, <3>5, <3>6
      <3> QED
        BY <3>7 DEF Token
    <2> HIDE DEF own, f, s
    <2>11. XorAll(f) = Token(m)
      BY <2>3, <2>6, <2>8, <2>10, OneOwner
    <2> QED
      BY <2>2, <2>9, <2>11 DEF s
  <1> QED
    BY <1>0, <1>4, <1>7, <1>8 DEF IInv, Reasons

-----------------------------------------------------------------------------
(* Nobody else is blamed.                                                  *)

LEMMA FieldEqual ==
    ASSUME NEW a \in Field, NEW b \in Field, NEW c \in Int, (a + c) % Prime = (b + c) % Prime
    PROVE  a = b
  <1>1. a \in Int /\ b \in Int /\ a % Prime = a /\ b % Prime = b
    BY ModField
  <1> DEFINE x == a + c
             y == b + c
  <1>2. x \in Int /\ y \in Int /\ x % Prime = y % Prime /\ x - c = a /\ y - c = b
    BY <1>1
  <1> HIDE DEF x, y
  <1>3. (x - c) % Prime = (y - c) % Prime
    BY <1>2, ModDifference
  <1> QED
    BY <1>1, <1>2, <1>3

\* If all others have found their messages, what they leave is what the vector
\* of the one that deviates is made of.
LEMMA RestOfRoots ==
    ASSUME Sizes, Given, RootsType, deviant \in Peer,
           GetRoots(DcCombine) = [ret |-> Solved, roots |-> roots], \A p \in Honest : HasFound(p)
    PROVE  \E ms \in Ordered(NumMsg[deviant]) :
             Unpadded(PaddingOf(deviant), expVector[deviant]) = PowerSums(ms, TotalMsg)
  <1> DEFINE n == TotalMsg
             d == deviant
             H == [p \in Honest |-> msgs[p]]
             U == Together(H)
             S == DOMAIN U
             at == [z \in S |-> Slot(U[z])]
             I == {at[z] : z \in S}
             D == (1 .. n) \ I
             left == [i \in D |-> roots[i]]
             X == Sorted(left)
  <1>0. /\ n \in Nat /\ NumMsg[d] \in Nat /\ Honest = Peer \ {d} /\ d \in Peer /\ IsFiniteSet(Peer) /\ IsFiniteSet(Honest)
        /\ PaddingType /\ VectorType /\ msgs \in Messages
    BY PeerIs, FS_RemoveElement DEF Honest, Given
  <1>1. /\ \A p \in Honest : H[p] \in [1 .. NumMsg[p] -> Field] /\ DOMAIN H[p] = 1 .. NumMsg[p]
        /\ DOMAIN H = Honest
    BY <1>0, MessagesAre DEF Listed
  <1>2. /\ \A p \in DOMAIN H : IsFiniteSet(DOMAIN H[p])
        /\ \A p \in DOMAIN H : \A i \in DOMAIN H[p] : H[p][i] \in Int
    <2>1. ASSUME NEW p \in Honest PROVE IsFiniteSet(DOMAIN H[p]) /\ \A i \in DOMAIN H[p] : H[p][i] \in Int
      <3>1. NumMsg[p] \in Nat
        BY <1>0, PeerIs
      <3>2. IsFiniteSet(1 .. NumMsg[p])
        BY <3>1, FS_Interval
      <3> HIDE DEF H
      <3> QED
        BY <1>1, <3>2, ModField
    <2> QED
      BY <2>1, <1>1
  <1>3. /\ IsFiniteSet(S)
        /\ \A z \in S : \E p \in Honest : \E i \in 1 .. NumMsg[p] : z = <<p, i>> /\ U[z] = msgs[p][i]
        /\ \A z \in S : U[z] \in Int
    <2>1. H \in [Honest -> Range(H)] /\ IsFiniteSet(DOMAIN H) /\ \A p \in Honest : H[p] = msgs[p]
      BY <1>0, <1>1 DEF Range
    <2> HIDE DEF H
    <2>2. /\ IsFiniteSet(S) /\ \A z \in S : U[z] \in Int
          /\ \A z \in S : \E p \in DOMAIN H : \E i \in DOMAIN H[p] : z = <<p, i>> /\ U[z] = H[p][i]
      BY <1>2, <2>1, TogetherIs
    <2> HIDE DEF U, S
    <2>3. ASSUME NEW z \in S
          PROVE  \E p \in Honest : \E i \in 1 .. NumMsg[p] : z = <<p, i>> /\ U[z] = msgs[p][i]
      <3>1. PICK p \in DOMAIN H : \E i \in DOMAIN H[p] : z = <<p, i>> /\ U[z] = H[p][i]
        BY <2>2
      <3>2. PICK i \in DOMAIN H[p] : z = <<p, i>> /\ U[z] = H[p][i]
        BY <3>1
      <3>3. p \in Honest /\ i \in 1 .. NumMsg[p] /\ H[p] = msgs[p]
        BY <1>1, <2>1
      <3> QED
        BY <3>2, <3>3
    <2> QED
      BY <2>2, <2>3
  <1>4. Cardinality(S) = Total(NumMsg, Honest)
    <2>1. Honest \in SUBSET Peer
      BY <1>0
    <2> HIDE DEF H
    <2> QED
      BY <1>1, <2>1, TogetherSize
  <1>5. \A k \in Nat : PowerSum(U, k) = Sum([p \in Honest |-> PowerSum(msgs[p], k)])
    <2>1. ASSUME NEW k \in Nat PROVE PowerSum(U, k) = Sum([p \in Honest |-> PowerSum(msgs[p], k)])
      <3>1. \A p \in Honest : H[p] = msgs[p]
        OBVIOUS
      <3> HIDE DEF H
      <3>2. PowerSum(U, k) = Sum([p \in DOMAIN H |-> PowerSum(H[p], k)])
        BY <1>0, <1>1, <1>2, PowerSumTogether
      <3>3. [p \in DOMAIN H |-> PowerSum(H[p], k)] = [p \in Honest |-> PowerSum(msgs[p], k)]
        BY <1>1, <3>1
      <3> QED
        BY <3>2, <3>3
    <2> QED
      BY <2>1
  <1> HIDE DEF H, U, S
  <1>6. /\ \A z \in S : at[z] \in 1 .. n /\ roots[at[z]] = U[z]
        /\ \A y, z \in S : at[y] = at[z] => y = z
    <2>1. \A z \in S : U[z] \in Range(roots)
      <3>1. \A p \in Honest : DOMAIN msgs[p] = 1 .. NumMsg[p]
        BY <1>1 DEF H
      <3>2. \A p \in Honest : \A i \in 1 .. NumMsg[p] : msgs[p][i] \in Range(msgs[p])
        BY <3>1 DEF Range
      <3>3. \A p \in Honest : \A i \in 1 .. NumMsg[p] : msgs[p][i] \in Range(roots)
        BY <3>2 DEF HasFound
      <3> QED
        BY <1>3, <3>3
    <2>2. \A z \in S : at[z] \in 1 .. n /\ roots[at[z]] = U[z]
      BY <2>1, SlotIs
    <2>3. ASSUME NEW y \in S, NEW z \in S, U[y] = U[z] PROVE y = z
      <3>1. PICK p \in Honest : \E i \in 1 .. NumMsg[p] : y = <<p, i>> /\ U[y] = msgs[p][i]
        BY <1>3
      <3>2. PICK i \in 1 .. NumMsg[p] : y = <<p, i>> /\ U[y] = msgs[p][i]
        BY <3>1
      <3>3. PICK q \in Honest : \E j \in 1 .. NumMsg[q] : z = <<q, j>> /\ U[z] = msgs[q][j]
        BY <1>3
      <3>4. PICK j \in 1 .. NumMsg[q] : z = <<q, j>> /\ U[z] = msgs[q][j]
        BY <3>3
      <3> QED
        BY <1>0, <2>3, <3>2, <3>4, MessagesAre
    <2> QED
      BY <2>2, <2>3
  <1>7. at \in Bijection(S, I) /\ I \subseteq 1 .. n
    <2>1. at \in [S -> I] /\ \A i \in I : \E z \in S : at[z] = i
      OBVIOUS
    <2>2. I \subseteq 1 .. n
      BY <1>6
    <2> HIDE DEF at, I
    <2> QED
      BY <1>6, <2>1, <2>2 DEF Bijection, Injection, Surjection, IsInjective
  <1>8. /\ IsFiniteSet(1 .. n) /\ IsFiniteSet(I) /\ IsFiniteSet(D) /\ I \cap D = {} /\ I \cup D = 1 .. n
        /\ Cardinality(D) = NumMsg[d]
    <2>1. IsFiniteSet(1 .. n) /\ Cardinality(1 .. n) = n
      BY <1>0, FS_Interval
    <2>2. I \in SUBSET (1 .. n) /\ D \in SUBSET (1 .. n) /\ I \cap D = {} /\ I \cup D = 1 .. n /\ (1 .. n) \cap I = I
      BY <1>7
    <2> HIDE DEF I, at
    <2>3. IsFiniteSet(I) /\ IsFiniteSet(D) /\ Cardinality(D) = n - Cardinality(I)
      BY <2>1, <2>2, FS_Subset, FS_Difference
    <2>4. Cardinality(I) = Cardinality(S)
      BY <1>3, <1>7, FS_Bijection DEF ExistsBijection
    <2>5. n = NumMsg[d] + Total(NumMsg, Honest)
      <3>1. \A p \in Peer : NumMsg[p] \in Int
        BY PeerIs
      <3> QED
        BY <1>0, <3>1, PeerIs, TotalRemove
    <2>6. Total(NumMsg, Honest) \in Int
      <3>1. \A p \in Honest : NumMsg[p] \in Int
        BY <1>0, PeerIs
      <3> QED
        BY <1>0, <3>1, TotalType
    <2>7. Cardinality(D) = NumMsg[d]
      <3> HIDE DEF n, d, D
      <3> QED
        BY <1>0, <1>4, <2>3, <2>4, <2>5, <2>6
    <2> QED
      BY <2>1, <2>2, <2>3, <2>7
  <1>9. IsFiniteSet(DOMAIN left) /\ DOMAIN left = D /\ \A i \in D : left[i] = roots[i] /\ left[i] \in Field /\ left[i] \in Int
    <2>1. \A i \in 1 .. n : roots[i] \in Field /\ roots[i] \in Int
      BY ModField DEF RootsType
    <2>2. D \subseteq 1 .. n
      OBVIOUS
    <2> HIDE DEF D
    <2> QED
      BY <1>8, <2>1, <2>2
  <1> HIDE DEF at, I, D, left
  <1>10. X \in Ordered(NumMsg[d])
    <2>1. PICK b \in Bijection(1 .. NumMsg[d], D) :
             /\ X = [i \in 1 .. NumMsg[d] |-> left[b[i]]]
             /\ \A i \in 2 .. NumMsg[d] : left[b[i - 1]] <= left[b[i]]
      BY <1>8, <1>9, SortedIs
    <2>2. \A i \in 1 .. NumMsg[d] : b[i] \in D
      BY DEF Bijection, Injection
    <2>3. X \in [1 .. NumMsg[d] -> Field]
      BY <1>9, <2>1, <2>2
    <2>4. \A i \in 2 .. NumMsg[d] : i - 1 \in 1 .. NumMsg[d] /\ i \in 1 .. NumMsg[d]
      BY <1>0
    <2>5. \A i \in 2 .. NumMsg[d] : X[i - 1] <= X[i]
      BY <2>1, <2>4
    <2> QED
      BY <2>3, <2>5 DEF Ordered
  <1>11. ASSUME NEW k \in 1 .. n PROVE Unpadded(PaddingOf(d), expVector[d])[k] = PowerSum(X, k)
    <2> DEFINE E == [i \in 1 .. n |-> Exp(roots[i], k)]
               g == [z \in S |-> Exp(U[z], k)]
               l == [i \in D |-> Exp(left[i], k)]
               w == [p \in Peer |-> Unpadded(PaddingOf(p), expVector[p])[k]]
               v == [p \in Honest |-> PowerSum(msgs[p], k)]
    <2>0. k \in Nat /\ k \in 1 .. n
      BY <1>0
    <2>1. DcCombine[k] = PowerSum(roots, k)
      <3>1. n \in Lengths
        BY <1>0 DEF Lengths, Sizes
      <3>2. DcCombine \in [1 .. n -> Field]
        BY <1>0, DcCombineType
      <3>3. PowerSums(roots, n) = DcCombine
        <4>1. GetRoots(DcCombine).ret = Solved /\ GetRoots(DcCombine).roots = roots
          OBVIOUS
        <4> QED
          BY <3>1, <3>2, <4>1, SolverSound
      <3> QED
        BY <2>0, <3>3 DEF PowerSums
    <2>2. PowerSum(roots, k) = Total(E, 1 .. n) % Prime
      BY PowerSumIs DEF RootsType
    <2>3. /\ \A i \in 1 .. n : E[i] \in Int /\ E[i] = Exp(roots[i], k)
          /\ \A z \in S : g[z] \in Int /\ g[z] = Exp(U[z], k)
          /\ \A i \in D : l[i] \in Int /\ l[i] = Exp(roots[i], k)
      <3>1. \A i \in 1 .. n : roots[i] \in Int
        BY ModField DEF RootsType
      <3> QED
        BY <1>3, <1>9, <2>0, <3>1, ExpType
    <2>4. PowerSum(U, k) = Total(g, S) % Prime /\ PowerSum(left, k) = Total(l, D) % Prime
      BY <1>9, PowerSumIs DEF S
    <2>5. PowerSum(X, k) = PowerSum(left, k)
      BY <1>9, <2>0, PowerSumSorted
    <2>6. Sum(w) = Total(w, Peer) % Prime /\ Sum(v) = Total(v, Honest) % Prime /\ DcCombine[k] = Sum(w)
      BY <1>0, <2>0, SumIs, CombineIs
    <2>7. PowerSum(U, k) = Sum(v)
      BY <1>5, <2>0
    <2>8. /\ \A p \in Peer : w[p] \in Field /\ w[p] \in Int
          /\ \A p \in Honest : v[p] = w[p]
          /\ w[d] = Unpadded(PaddingOf(d), expVector[d])[k]
      <3>1. \A p \in Peer : Unpadded(PaddingOf(p), expVector[p]) \in [1 .. n -> Field]
        BY <1>0, PaddedIs DEF VectorType
      <3>2. \A p \in Honest : Unpadded(PaddingOf(p), expVector[p])[k] = PowerSum(msgs[p], k)
        BY <2>0, HonestSums DEF PowerSums
      <3> QED
        BY <1>0, <2>0, <3>1, <3>2, ModField
    <2> HIDE DEF E, g, l, w, v
    <2>9. Total(g, S) = Total(E, I)
      <3>1. \A z \in S : g[z] = E[at[z]]
        BY <1>6, <2>3
      <3> QED
        BY <1>3, <1>7, <2>3, <3>1, TotalMapped
    <2>10. Total(E, 1 .. n) = Total(E, I) + Total(E, D)
      <3>1. \A i \in I \cup D : E[i] \in Int
        BY <1>8, <2>3
      <3>2. Total(E, I \cup D) = Total(E, I) + Total(E, D)
        BY <1>8, <3>1, TotalUnion
      <3> QED
        BY <1>8, <3>2
    <2>11. Total(l, D) = Total(E, D)
      <3>1. \A i \in D : l[i] \in Int /\ E[i] = l[i]
        BY <1>8, <2>3
      <3> QED
        BY <1>8, <3>1, TotalSame
    <2>12. Total(w, Peer) = w[d] + Total(w, Honest)
      BY <1>0, <2>8, TotalRemove
    <2>13. Total(v, Honest) = Total(w, Honest)
      BY <1>0, <2>8, TotalSame
    <2> DEFINE a == w[d]
               x == PowerSum(X, k)
               c == Total(w, Honest)
               e == Total(E, I)
               y == Total(E, D)
    <2>14. a \in Int /\ c \in Int /\ e \in Int /\ y \in Int /\ a \in Field /\ x = y % Prime
      <3>1. \A i \in I : E[i] \in Int
        BY <1>8, <2>3
      <3>2. \A i \in D : E[i] \in Int
        BY <1>8, <2>3
      <3>3. e \in Int /\ y \in Int
        BY <1>8, <3>1, <3>2, TotalType
      <3>4. c \in Int
        BY <1>0, <2>8, TotalType
      <3>5. x = y % Prime
        BY <2>4, <2>5, <2>11
      <3> QED
        BY <1>0, <2>8, <3>3, <3>4, <3>5
    <2>15. (a + c) % Prime = (e + y) % Prime /\ e % Prime = c % Prime
      BY <2>1, <2>2, <2>4, <2>6, <2>7, <2>9, <2>10, <2>12, <2>13
    <2> HIDE DEF a, x, c, e, y
    <2>16. x \in Field /\ x \in Int /\ x % Prime = y % Prime
      BY <2>14, ModType, ModMod
    <2>17. (x + c) % Prime = (y + e) % Prime /\ y + e = e + y
      BY <2>14, <2>15, <2>16, ModSum
    <2>18. a = x
      BY <2>14, <2>15, <2>16, <2>17, FieldEqual
    <2> QED
      BY <2>8, <2>18 DEF a, x
  <1>12. Unpadded(PaddingOf(d), expVector[d]) = PowerSums(X, n)
    <2>1. Unpadded(PaddingOf(d), expVector[d]) \in [1 .. n -> Field]
      BY <1>0, PaddedIs DEF VectorType
    <2>2. Unpadded(PaddingOf(d), expVector[d]) = [k \in 1 .. n |-> Unpadded(PaddingOf(d), expVector[d])[k]]
      BY <2>1
    <2> HIDE DEF X, n, d
    <2> QED
      BY <1>11, <2>2 DEF PowerSums
  <1> QED
    BY <1>10, <1>12

LEMMA RecoveredHonest ==
    ASSUME Sizes, Given, NEW p \in Honest, RightKey(p)
    PROVE  p \in Peer /\ Recovered(p) = [ret |-> Solved, roots |-> msgs[p]]
  <1>1. p \in Peer /\ PaddingType /\ VectorType /\ msgs[p] \in Ordered(NumMsg[p])
    BY MessagesAre DEF Given, Honest
  <1> QED
    BY <1>1, HonestSums, RecoveredIs

\* If all but one have found their messages, the replay recovers the solution.
LEMMA AllMsgHashIs ==
    ASSUME Sizes, Given, RootsType, deviant \in Peer,
           GetRoots(DcCombine) = [ret |-> Solved, roots |-> roots], \A p \in Honest : HasFound(p),
           \A p \in Peer : RightKey(p)
    PROVE  AllMsgHash = roots
  <1>1. PICK ms \in Ordered(NumMsg[deviant]) : Unpadded(PaddingOf(deviant), expVector[deviant]) = PowerSums(ms, TotalMsg)
    BY RestOfRoots
  <1> DEFINE R == [p \in Peer |-> IF p = deviant THEN ms ELSE msgs[p]]
  <1>2. \A p \in Honest : p \in Peer /\ p # deviant
    BY DEF Honest
  <1>3. \A p \in Peer : p # deviant => p \in Honest
    BY DEF Honest
  <1>4. PaddingType /\ VectorType
    BY DEF Given
  <1>5. ASSUME NEW p \in Peer
        PROVE  /\ R[p] \in [1 .. NumMsg[p] -> Field]
               /\ Unpadded(PaddingOf(p), expVector[p]) = PowerSums(R[p], TotalMsg)
               /\ Recovered(p) = [ret |-> Solved, roots |-> R[p]]
    <2>1. CASE p = deviant
      <3>1. Recovered(deviant) = [ret |-> Solved, roots |-> ms]
        BY <1>1, <1>4, RecoveredIs
      <3> QED
        BY <1>1, <2>1, <3>1 DEF Ordered
    <2>2. CASE p # deviant
      <3>1. p \in Honest /\ R[p] = msgs[p]
        BY <1>3, <2>2
      <3>2. msgs[p] \in [1 .. NumMsg[p] -> Field]
        BY MessagesAre DEF Given, Listed
      <3> QED
        BY <3>1, <3>2, HonestSums, RecoveredHonest
    <2> QED
      BY <2>1, <2>2
  <1>6. DOMAIN R = Peer
    OBVIOUS
  <1> HIDE DEF R
  <1>7. Listed(R)
    BY <1>5, <1>6 DEF Listed
  <1>8. GetRoots(DcCombine) = [ret |-> Solved, roots |-> Sorted(Together(R))]
    BY <1>4, <1>5, <1>7, AllSolved
  <1>9. SlotInfos = Peer
    BY <1>5 DEF SlotInfos
  <1>10. [p \in SlotInfos |-> Recovered(p).roots] = R
    <2>1. R = [p \in Peer |-> R[p]]
      BY <1>7 DEF Listed, R
    <2> QED
      BY <1>5, <1>9, <2>1
  <1> QED
    BY <1>8, <1>10 DEF AllMsgHash

LEMMA HonestAreNotBlamedIs ==
    ASSUME Sizes, IInv
    PROVE  HonestAreNotBlamed
  <1> SUFFICES ASSUME replayed, NEW p \in blamed, p # deviant,
                      (\A q \in Honest : xorVector[q] = <<>>) \/ SameSlots
               PROVE  FALSE
    BY DEF HonestAreNotBlamed
  <1>1. asked /\ taken # <<>> /\ blamed = Verdict /\ wrongKeys \subseteq {deviant}
    BY DEF IInv, Keys, Reasons
  <1>2. p \in Honest /\ p \in Peer
    BY <1>1 DEF Verdict, WrongExp, WrongXor, SlotInfos, Honest
  <1>3. RightKey(p)
    BY <1>1, <1>2 DEF IInv, Keys
  <1>4. Recovered(p) = [ret |-> Solved, roots |-> msgs[p]]
    BY <1>2, <1>3, RecoveredHonest DEF IInv
  <1>5. p \notin WrongExp
    BY <1>2, <1>3, <1>4 DEF WrongExp, Differs, RightKey, IInv, Given
  <1>6. p \in WrongXor /\ state \in {"TxInput", "RevealSecret"}
    BY <1>1, <1>5 DEF Verdict
  <1>7. CASE xorVector[p] = <<>>
    <2>1. DOMAIN xorVector[p] = {}
      BY <1>7
    <2> QED
      BY <1>6, <2>1 DEF WrongXor
  <1>8. CASE xorVector[p] # <<>>
    <2>1. wrongKeys = {} /\ (\A q \in Honest : HasFound(q)) /\ IsInjective(AllMsgHash)
      BY <1>2, <1>8 DEF SameSlots
    <2>2. deviant \in Peer
      BY <1>1, HonestMixIs DEF HonestMix, IInv, Given
    <2>3. RootsType /\ GetRoots(DcCombine) = [ret |-> Solved, roots |-> roots]
      BY <1>6, RootsTypeIs DEF IInv, Rounds
    <2>4. \A q \in Peer : RightKey(q)
      BY <1>1, <2>1 DEF IInv, Keys
    <2>5. AllMsgHash = roots
      BY <2>1, <2>2, <2>3, <2>4, AllMsgHashIs DEF IInv
    <2>6. PICK i \in DOMAIN xorVector[p] :
            LET own == Xor(xorVector[p][i], RandomOf(p))
            IN IF i \in DOMAIN AllMsgHash /\ AllMsgHash[i] \in Range(Recovered(p).roots)
                 THEN own # Token(AllMsgHash[i]) ELSE own # {}
      BY <1>6 DEF WrongXor
    <2>7. Right(p)
      BY <1>2, <1>6, <1>8 DEF IInv, Vectors, Coming, Sent
    <2>8. i \in DOMAIN roots /\ HasFound(p) /\ xorVector[p] = HonestXor(p)
      BY <1>2, <2>7 DEF Right
    <2>9. xorVector[p][i] = Xor(Own(p, i), RandomOf(p))
      BY <1>2, <2>3, <2>8, HonestXorIs
    <2>10. \A a, b : Xor(Xor(a, b), b) = a
      BY DEF Xor
    <2>11. Xor(xorVector[p][i], RandomOf(p)) = Own(p, i)
      BY <2>9, <2>10
    <2>12. Slot(roots[i]) = i
      <3>1. roots[i] \in Range(roots)
        BY <2>8 DEF Range
      <3>2. Slot(roots[i]) \in DOMAIN roots /\ roots[Slot(roots[i])] = roots[i]
        BY <2>3, <3>1, SlotIs
      <3> QED
        BY <2>1, <2>5, <2>8, <3>2 DEF IsInjective
    <2> QED
      BY <1>4, <2>5, <2>6, <2>8, <2>11, <2>12 DEF Own
  <1> QED
    BY <1>7, <1>8

-----------------------------------------------------------------------------
(* The solver in a session.                                                *)

LEMMA SolverIsRightIs ==
    ASSUME Sizes, IInv
    PROVE  SolverIsRight
  <1>1. TotalMsg \in Lengths
    <2>1. TotalMsg \in Nat
      BY PeerIs
    <2> QED
      BY <2>1 DEF Sizes, Lengths
  <1>2. DcCombine \in [1 .. TotalMsg -> Field]
    BY DcCombineType DEF IInv, Given
  <1>3. ASSUME roots # <<>> PROVE PowerSums(roots, TotalMsg) = DcCombine
    <2>1. GetRoots(DcCombine) = [ret |-> Solved, roots |-> roots]
      BY <1>3 DEF IInv, Rounds
    <2>2. GetRoots(DcCombine).ret = Solved /\ GetRoots(DcCombine).roots = roots
      BY <2>1
    <2> QED
      BY <1>1, <1>2, <2>2, SolverSound
  <1>4. ASSUME state = "DcExponential", asked, NEW ms \in Ordered(TotalMsg), PowerSums(ms, TotalMsg) = DcCombine
        PROVE  FALSE
    <2>1. GetRoots(DcCombine).ret # Solved
      BY <1>4 DEF IInv, Reasons, FalseAlarm, LostHash, LostScript, Unsolved
    <2>2. GetRoots(DcCombine) = [ret |-> Solved, roots |-> ms]
      BY <1>1, <1>4, SolverComplete
    <2> QED
      BY <2>1, <2>2
  <1> QED
    BY <1>3, <1>4 DEF SolverIsRight

-----------------------------------------------------------------------------
(* Theorems.                                                               *)

LEMMA SpecIInv == ASSUME Sizes PROVE Spec => []IInv
  <1>1. Init => IInv
    BY InitIInv
  <1>2. IInv /\ [Next]_vars => IInv'
    BY NextIInv
  <1> QED
    BY <1>1, <1>2, PTL DEF Spec

\* What the server takes as the messages has the power sums that the peers'
\* vectors add up to, and it asks for the secret keys only if no messages have
\* them (flint.go, GetRoots; joinsession.go, dcExpVectorChan).
THEOREM SolverIsRightHolds == ASSUME Sizes PROVE Spec => []SolverIsRight
  <1>1. IInv => SolverIsRight
    BY SolverIsRightIs
  <1> QED
    BY <1>1, SpecIInv, PTL

\* If nobody deviates, the paddings cancel, the messages of all come out of the
\* sum of the vectors, and each pkscript ends up in the slot of its hash: for any
\* peers, messages and paddings (joinsession.go, dcExpVectorChan, dcXorVectorChan).
THEOREM HonestMixHolds == ASSUME Sizes PROVE Spec => []HonestMix
  <1>1. IInv => HonestMix
    BY HonestMixIs
  <1> QED
    BY <1>1, SpecIInv, PTL

\* A replay that a failed solution or an honest complaint made necessary finds
\* somebody, whichever second vectors were in by then and whatever keys were sent
\* (joinsession.go, msgNotFoundChan, revealSecretChan).
THEOREM SomebodyIsBlamedHolds == ASSUME Sizes PROVE Spec => []SomebodyIsBlamed
  <1>1. IInv => SomebodyIsBlamed
    BY SomebodyIsBlamedIs
  <1> QED
    BY <1>1, SpecIInv, PTL

\* The replay blames nobody but the deviator, even after a complaint without a
\* reason, if no honest second vector is in yet, or else if all keys are right, no
\* honest peer misses its hash and no message occurs twice (joinsession.go,
\* revealSecretChan).
THEOREM HonestAreNotBlamedHolds == ASSUME Sizes PROVE Spec => []HonestAreNotBlamed
  <1>1. IInv => HonestAreNotBlamed
    BY HonestAreNotBlamedIs
  <1> QED
    BY <1>1, SpecIInv, PTL
=============================================================================
