-------------------------- MODULE PolySolverProofs --------------------------
(***************************************************************************)
(* Proofs about PolySolver.  The sums of the model are folds over finite   *)
(* sets; what is shown of them is by induction over these sets.            *)
(*                                                                         *)
(* The coefficients of the solver, and those of the product of the linear  *)
(* factors of some messages, both meet Newton's identities, which below    *)
(* the prime determine coefficients and power sums by each other; and such *)
(* a product determines its factors.                                       *)
(***************************************************************************)
EXTENDS PolySolver, FiniteSetTheorems, TLAPS

-----------------------------------------------------------------------------
(* Induction.                                                              *)

\* A minimal subset outside of G would be in G.
LEMMA SetInduction ==
    ASSUME NEW S, IsFiniteSet(S), NEW G,
           \A T \in SUBSET S : (\A U \in SUBSET T : U # T => U \in G) => T \in G
    PROVE  S \in G
  <1> SUFFICES ASSUME S \notin G PROVE FALSE
    OBVIOUS
  <1> DEFINE B == (SUBSET S) \ G
  <1>1. B \subseteq FiniteSubsetsOf(S) /\ B # {}
    BY FS_FiniteSubsetsOfFinite
  <1>2. PICK T \in B : \A U \in B : <<U, T>> \notin StrictSubsetOrdering(S)
    <2> HIDE DEF B
    <2> QED
      BY <1>1, FS_StrictSubsetOrderingWellFounded, WFMin
  <1>3. \A U \in SUBSET T : U # T => U \in G
    BY <1>2 DEF StrictSubsetOrdering
  <1> QED
    BY <1>2, <1>3

\* Some element of a set, as FoldFunctionOnSet chooses it.
Chosen(s) == CHOOSE x \in s : TRUE
LEMMA ChosenIn == \A s : s # {} => Chosen(s) \in s
  BY DEF Chosen

Accumulates(g, f, S) == g = [s \in SUBSET S |-> IF s = {} THEN 0 ELSE f[Chosen(s)] + g[s \ {Chosen(s)}]]

LEMMA AccumulatesUnique ==
    ASSUME NEW f, NEW A, NEW B, NEW g, NEW h, Accumulates(g, f, A), Accumulates(h, f, B),
           NEW S, IsFiniteSet(S), S \subseteq A, S \subseteq B
    PROVE  g[S] = h[S]
  <1> DEFINE G == {T \in SUBSET S : g[T] = h[T]}
  <1>1. ASSUME NEW T \in SUBSET S, \A U \in SUBSET T : U # T => U \in G
        PROVE  T \in G
    <2>1. /\ g[T] = IF T = {} THEN 0 ELSE f[Chosen(T)] + g[T \ {Chosen(T)}]
          /\ h[T] = IF T = {} THEN 0 ELSE f[Chosen(T)] + h[T \ {Chosen(T)}]
      BY DEF Accumulates
    <2>2. T # {} => T \ {Chosen(T)} \in G
      BY <1>1, ChosenIn
    <2> QED
      BY <2>1, <2>2
  <1>2. S \in G
    <2> HIDE DEF G
    <2> QED
      BY <1>1, SetInduction
  <1> QED
    BY <1>2

Total(f, S) == SumFunctionOnSet(f, S)

LEMMA TotalIs == \A f, S : Total(f, S) = (CHOOSE g : Accumulates(g, f, S))[S]
  BY DEF Total, SumFunctionOnSet, FoldFunctionOnSet, MapThenFoldSet, Accumulates, Chosen

LEMMA AccumulatesExists ==
    ASSUME NEW f, NEW S, IsFiniteSet(S)
    PROVE  \E g : Accumulates(g, f, S)
  <1> DEFINE G == {T \in SUBSET S : \E g : Accumulates(g, f, T)}
             V(T) == (CHOOSE g : Accumulates(g, f, T))[T]
  <1>1. ASSUME NEW T \in SUBSET S, \A U \in SUBSET T : U # T => U \in G
        PROVE  T \in G
    <2> DEFINE g == [s \in SUBSET T |-> IF s # T THEN V(s) ELSE IF T = {} THEN 0
                        ELSE f[Chosen(T)] + V(T \ {Chosen(T)})]
    <2>1. ASSUME NEW U \in SUBSET T, U # T
          PROVE  V(U) = IF U = {} THEN 0 ELSE f[Chosen(U)] + V(U \ {Chosen(U)})
      <3> DEFINE h == CHOOSE l : Accumulates(l, f, U)
                 W == U \ {Chosen(U)}
                 k == CHOOSE l : Accumulates(l, f, W)
      <3>1. Accumulates(h, f, U)
        BY <1>1, <2>1
      <3> HIDE DEF h
      <3>2. h[U] = IF U = {} THEN 0 ELSE f[Chosen(U)] + h[W]
        BY <3>1 DEF Accumulates
      <3>3. W \in SUBSET T /\ (U # {} => W # T) /\ IsFiniteSet(W)
        BY FS_Subset, ChosenIn
      <3>4. U # {} => Accumulates(k, f, W)
        BY <1>1, <3>3
      <3> HIDE DEF k
      <3>5. U # {} => h[W] = k[W]
        <4> HIDE DEF W
        <4>1. W \subseteq U
          BY DEF W
        <4> QED
          BY <3>1, <3>3, <3>4, <4>1, AccumulatesUnique
      <3> QED
        BY <3>2, <3>5 DEF h, k
    <2> HIDE DEF V
    <2>2. \A U \in SUBSET T : g[U] = IF U = {} THEN 0 ELSE f[Chosen(U)] + g[U \ {Chosen(U)}]
      <3> SUFFICES ASSUME NEW U \in SUBSET T
                   PROVE  g[U] = IF U = {} THEN 0 ELSE f[Chosen(U)] + g[U \ {Chosen(U)}]
        OBVIOUS
      <3>1. U # {} => U \ {Chosen(U)} \in SUBSET T /\ U \ {Chosen(U)} # T
        BY ChosenIn
      <3>2. U # {} => g[U \ {Chosen(U)}] = V(U \ {Chosen(U)})
        BY <3>1
      <3>3. CASE U = T
        BY <3>2, <3>3
      <3>4. CASE U # T
        BY <2>1, <3>2, <3>4
      <3> QED
        BY <3>3, <3>4
    <2>3. Accumulates(g, f, T)
      <3>1. g = [s \in SUBSET T |-> g[s]]
        OBVIOUS
      <3> HIDE DEF g
      <3>2. [s \in SUBSET T |-> g[s]] = [s \in SUBSET T |-> IF s = {} THEN 0 ELSE f[Chosen(s)] + g[s \ {Chosen(s)}]]
        BY <2>2
      <3> QED
        BY <3>1, <3>2 DEF Accumulates
    <2> QED
      BY <2>3
  <1>2. S \in G
    <2> HIDE DEF G
    <2> QED
      BY <1>1, SetInduction
  <1> QED
    BY <1>2

LEMMA TotalChosen ==
    ASSUME NEW f, NEW S, IsFiniteSet(S)
    PROVE  Total(f, S) =
             IF S = {} THEN 0 ELSE f[Chosen(S)] + Total(f, S \ {Chosen(S)})
  <1> DEFINE W == S \ {Chosen(S)}
  <1>1. PICK g : Accumulates(g, f, S)
    BY AccumulatesExists
  <1>2. IsFiniteSet(W)
    BY FS_Subset
  <1>3. PICK h : Accumulates(h, f, W)
    BY <1>2, AccumulatesExists
  <1>4. Total(f, S) = g[S]
    BY <1>1, TotalIs, AccumulatesUnique
  <1>5. Total(f, W) = g[W]
    BY <1>1, <1>2, <1>3, TotalIs, AccumulatesUnique
  <1>6. g[S] = IF S = {} THEN 0 ELSE f[Chosen(S)] + g[W]
    BY <1>1 DEF Accumulates
  <1> QED
    BY <1>4, <1>5, <1>6

LEMMA TotalEmpty == \A f : Total(f, {}) = 0
  BY TotalChosen, FS_EmptySet

LEMMA TotalType ==
    ASSUME NEW f, NEW S, IsFiniteSet(S), \A x \in S : f[x] \in Int
    PROVE  Total(f, S) \in Int
  <1> DEFINE G == {T \in SUBSET S : Total(f, T) \in Int}
  <1>1. ASSUME NEW T \in SUBSET S, \A U \in SUBSET T : U # T => U \in G
        PROVE  T \in G
    <2>1. IsFiniteSet(T)
      BY FS_Subset
    <2>2. CASE T = {}
      BY <2>2, TotalEmpty
    <2>3. CASE T # {}
      <3>1. Chosen(T) \in T /\ T \ {Chosen(T)} \in G
        BY <1>1, <2>3, ChosenIn
      <3>2. f[Chosen(T)] \in Int /\ Total(f, T \ {Chosen(T)}) \in Int
        BY <3>1
      <3>3. Total(f, T) = f[Chosen(T)] + Total(f, T \ {Chosen(T)})
        BY <2>1, <2>3, TotalChosen
      <3> QED
        BY <3>2, <3>3
    <2> QED
      BY <2>2, <2>3
  <1>2. S \in G
    <2> HIDE DEF G
    <2> QED
      BY <1>1, SetInduction
  <1> QED
    BY <1>2

\* Any element may be added first.
LEMMA TotalRemove ==
    ASSUME NEW f, NEW S, IsFiniteSet(S), \A x \in S : f[x] \in Int, NEW x \in S
    PROVE  Total(f, S) = f[x] + Total(f, S \ {x})
  <1> DEFINE G == {T \in SUBSET S : \A y \in T :
                      Total(f, T) = f[y] + Total(f, T \ {y})}
  <1>1. ASSUME NEW T \in SUBSET S, \A U \in SUBSET T : U # T => U \in G
        PROVE  T \in G
    <2> SUFFICES ASSUME NEW y \in T
                 PROVE  Total(f, T) = f[y] + Total(f, T \ {y})
      OBVIOUS
    <2> DEFINE c == Chosen(T)
               Rest == (T \ {c}) \ {y}
    <2>1. /\ IsFiniteSet(T) /\ IsFiniteSet(T \ {y}) /\ IsFiniteSet(Rest)
          /\ c \in T /\ c \in S /\ y \in S
      BY FS_Subset, ChosenIn
    <2>2. Total(f, T) = f[c] + Total(f, T \ {c})
      BY <2>1, TotalChosen
    <2>3. CASE y = c
      BY <2>2, <2>3
    <2>4. CASE y # c
      <3>1. T \ {c} \in G /\ T \ {y} \in G /\ y \in T \ {c} /\ c \in T \ {y}
        BY <1>1, <2>1, <2>4
      <3>2. (T \ {y}) \ {c} = Rest
        OBVIOUS
      <3>3. Total(f, T \ {c}) = f[y] + Total(f, Rest)
        BY <3>1
      <3>4. Total(f, T \ {y}) = f[c] + Total(f, Rest)
        BY <3>1, <3>2
      <3>5. Total(f, Rest) \in Int /\ f[c] \in Int /\ f[y] \in Int
        BY <2>1, TotalType
      <3> QED
        BY <2>2, <3>3, <3>4, <3>5
    <2> QED
      BY <2>3, <2>4
  <1>2. S \in G
    <2> HIDE DEF G
    <2> QED
      BY <1>1, SetInduction
  <1> QED
    BY <1>2

LEMMA TotalAdd ==
    ASSUME NEW f, NEW S, IsFiniteSet(S), NEW x, x \notin S, \A y \in S \cup {x} : f[y] \in Int
    PROVE  Total(f, S \cup {x}) = f[x] + Total(f, S)
  <1>1. IsFiniteSet(S \cup {x}) /\ (S \cup {x}) \ {x} = S
    BY FS_AddElement
  <1> QED
    BY <1>1, TotalRemove

\* What holds of the empty set, and of a set when it holds of the set without
\* one element, holds of every finite set.
LEMMA FiniteInduction ==
    ASSUME NEW S, IsFiniteSet(S), NEW G, {} \in G,
           \A T \in SUBSET S : \A x \in S \ T : T \in G => T \cup {x} \in G
    PROVE  S \in G
  <1>1. ASSUME NEW T \in SUBSET S, \A U \in SUBSET T : U # T => U \in G
        PROVE  T \in G
    <2>1. CASE T = {}
      BY <2>1
    <2>2. ASSUME NEW x \in T PROVE T \in G
      <3>1. T \ {x} \in SUBSET T /\ T \ {x} # T /\ (T \ {x}) \cup {x} = T /\ x \in S \ (T \ {x})
        BY <2>2
      <3>2. T \ {x} \in G
        BY <1>1, <3>1
      <3>3. T \ {x} \in SUBSET S
        OBVIOUS
      <3> QED
        BY <3>1, <3>2, <3>3
    <2> QED
      BY <2>1, <2>2
  <1> QED
    BY <1>1, SetInduction

LEMMA TotalSame ==
    ASSUME NEW f, NEW g, NEW S, IsFiniteSet(S), \A x \in S : f[x] \in Int /\ g[x] = f[x]
    PROVE  Total(f, S) = Total(g, S)
  <1> DEFINE G == {T \in SUBSET S : Total(f, T) = Total(g, T)}
  <1>1. {} \in G
    BY TotalEmpty
  <1>2. ASSUME NEW T \in SUBSET S, NEW x \in S \ T, T \in G PROVE T \cup {x} \in G
    <2>1. IsFiniteSet(T) /\ \A y \in T \cup {x} : f[y] \in Int /\ g[y] \in Int
      BY FS_Subset
    <2>2. Total(f, T \cup {x}) = f[x] + Total(f, T) /\ Total(g, T \cup {x}) = g[x] + Total(g, T)
      BY <2>1, TotalAdd
    <2> QED
      BY <1>2, <2>2
  <1> HIDE DEF G
  <1>3. S \in G
    BY <1>1, <1>2, FiniteInduction
  <1> QED
    BY <1>3 DEF G

LEMMA TotalPlus ==
    ASSUME NEW f, NEW g, NEW h, NEW S, IsFiniteSet(S),
           \A x \in S : f[x] \in Int /\ g[x] \in Int /\ h[x] = f[x] + g[x]
    PROVE  Total(h, S) = Total(f, S) + Total(g, S)
  <1> DEFINE G == {T \in SUBSET S : Total(h, T) = Total(f, T) + Total(g, T)}
  <1>1. {} \in G
    BY TotalEmpty
  <1>2. ASSUME NEW T \in SUBSET S, NEW x \in S \ T, T \in G PROVE T \cup {x} \in G
    <2>1. IsFiniteSet(T) /\ \A y \in T \cup {x} : f[y] \in Int /\ g[y] \in Int /\ h[y] \in Int
      BY FS_Subset
    <2>2. /\ Total(f, T \cup {x}) = f[x] + Total(f, T) /\ Total(g, T \cup {x}) = g[x] + Total(g, T)
          /\ Total(h, T \cup {x}) = h[x] + Total(h, T)
      BY <2>1, TotalAdd
    <2>3. Total(f, T) \in Int /\ Total(g, T) \in Int
      BY <2>1, TotalType
    <2>4. Total(h, T) = Total(f, T) + Total(g, T) /\ h[x] = f[x] + g[x] /\ f[x] \in Int /\ g[x] \in Int
      BY <1>2
    <2> QED
      BY <2>2, <2>3, <2>4
  <1> HIDE DEF G
  <1>3. S \in G
    BY <1>1, <1>2, FiniteInduction
  <1> QED
    BY <1>3 DEF G

LEMMA TotalTimes ==
    ASSUME NEW f, NEW h, NEW c \in Int, NEW S, IsFiniteSet(S),
           \A x \in S : f[x] \in Int /\ h[x] = c * f[x]
    PROVE  Total(h, S) = c * Total(f, S)
  <1> DEFINE G == {T \in SUBSET S : Total(h, T) = c * Total(f, T)}
  <1>1. {} \in G
    BY TotalEmpty
  <1>2. ASSUME NEW T \in SUBSET S, NEW x \in S \ T, T \in G PROVE T \cup {x} \in G
    <2>1. IsFiniteSet(T) /\ \A y \in T \cup {x} : f[y] \in Int /\ h[y] \in Int
      BY FS_Subset
    <2>2. /\ Total(f, T \cup {x}) = f[x] + Total(f, T)
          /\ Total(h, T \cup {x}) = h[x] + Total(h, T)
      BY <2>1, TotalAdd
    <2>3. Total(f, T) \in Int
      BY <2>1, TotalType
    <2>4. Total(h, T) = c * Total(f, T) /\ h[x] = c * f[x] /\ f[x] \in Int
      BY <1>2
    <2> QED
      BY <2>2, <2>3, <2>4
  <1> HIDE DEF G
  <1>3. S \in G
    BY <1>1, <1>2, FiniteInduction
  <1> QED
    BY <1>3 DEF G

LEMMA TotalUnion ==
    ASSUME NEW f, NEW S, NEW R, IsFiniteSet(S), IsFiniteSet(R), S \cap R = {},
           \A x \in S \cup R : f[x] \in Int
    PROVE  Total(f, S \cup R) = Total(f, S) + Total(f, R)
  <1> DEFINE G == {T \in SUBSET S : Total(f, T \cup R) = Total(f, T) + Total(f, R)}
  <1>0. Total(f, R) \in Int
    BY TotalType
  <1>1. {} \in G
    BY <1>0, TotalEmpty
  <1>2. ASSUME NEW T \in SUBSET S, NEW x \in S \ T, T \in G PROVE T \cup {x} \in G
    <2>1. /\ IsFiniteSet(T) /\ IsFiniteSet(T \cup R) /\ x \notin T \cup R
          /\ (T \cup {x}) \cup R = (T \cup R) \cup {x}
      BY FS_Subset, FS_Union
    <2>2. Total(f, T \cup {x}) = f[x] + Total(f, T)
      BY <2>1, TotalAdd
    <2>3. Total(f, (T \cup R) \cup {x}) = f[x] + Total(f, T \cup R)
      BY <2>1, TotalAdd
    <2>4. Total(f, T) \in Int /\ f[x] \in Int
      BY <2>1, TotalType
    <2>5. Total(f, T \cup R) = Total(f, T) + Total(f, R)
      BY <1>2
    <2>0. Total(f, (T \cup {x}) \cup R) = Total(f, (T \cup R) \cup {x})
      BY <2>1
    <2>6. Total(f, (T \cup {x}) \cup R) = Total(f, T \cup {x}) + Total(f, R)
      BY <1>0, <2>0, <2>2, <2>3, <2>4, <2>5
    <2>7. T \cup {x} \in SUBSET S
      OBVIOUS
    <2> QED
      BY <2>6, <2>7
  <1> HIDE DEF G
  <1>3. S \in G
    BY <1>1, <1>2, FiniteInduction
  <1> QED
    BY <1>3 DEF G

\* The values may be added over another set that a bijection maps to theirs.
LEMMA TotalMapped ==
    ASSUME NEW f, NEW g, NEW S, IsFiniteSet(S), NEW R, NEW b \in Bijection(S, R),
           \A x \in S : f[x] \in Int /\ f[x] = g[b[x]]
    PROVE  Total(f, S) = Total(g, R)
  <1> DEFINE Image(T) == {b[x] : x \in T}
             G == {T \in SUBSET S : IsFiniteSet(Image(T)) /\ Total(f, T) = Total(g, Image(T))}
  <1>1. {} \in G
    <2>1. Image({}) = {}
      OBVIOUS
    <2> QED
      BY <2>1, TotalEmpty, FS_EmptySet
  <1>2. ASSUME NEW T \in SUBSET S, NEW x \in S \ T, T \in G PROVE T \cup {x} \in G
    <2>1. IsFiniteSet(T) /\ \A y \in T \cup {x} : f[y] \in Int
      BY FS_Subset
    <2>2. b[x] \notin Image(T) /\ Image(T \cup {x}) = Image(T) \cup {b[x]}
      BY DEF Bijection, Injection, IsInjective
    <2>3. \A y \in Image(T) \cup {b[x]} : g[y] \in Int
      BY <2>1
    <2>4. IsFiniteSet(Image(T)) /\ Total(f, T) = Total(g, Image(T))
      BY <1>2
    <2> HIDE DEF Image
    <2>5. Total(f, T \cup {x}) = f[x] + Total(f, T)
      BY <2>1, TotalAdd
    <2>6. Total(g, Image(T) \cup {b[x]}) = g[b[x]] + Total(g, Image(T))
      BY <2>2, <2>3, <2>4, TotalAdd
    <2>7. IsFiniteSet(Image(T) \cup {b[x]})
      BY <2>4, FS_AddElement
    <2> QED
      BY <2>2, <2>4, <2>5, <2>6, <2>7
  <1>3. S \in G
    <2> HIDE DEF G
    <2> QED
      BY <1>1, <1>2, FiniteInduction
  <1>4. Image(S) = R
    BY DEF Bijection, Surjection, Injection
  <1> QED
    BY <1>3, <1>4

-----------------------------------------------------------------------------
(* Remainders.                                                             *)

LEMMA PrimeType == Prime \in Nat /\ Prime >= 2
  BY PrimeOK

LEMMA Modulo ==
    ASSUME NEW n \in Nat \ {0}, NEW a \in Int
    PROVE  a % n \in 0 .. n - 1 /\ a \div n \in Int /\ a = n * (a \div n) + (a % n)
  OBVIOUS

LEMMA Remainder ==
    ASSUME NEW n \in Nat \ {0}, NEW r \in 0 .. n - 1, NEW s \in 0 .. n - 1, NEW k \in Int, r = s + n * k
    PROVE  r = s
  OBVIOUS

\* Numbers that differ by a multiple of n have the same remainder.
LEMMA SameRemainder ==
    ASSUME NEW n \in Nat \ {0}, NEW a \in Int, NEW b \in Int
    PROVE  (a % n = b % n) <=> \E k \in Int : a = b + n * k
  <1>1. /\ a % n \in 0 .. n - 1 /\ a \div n \in Int /\ a = n * (a \div n) + (a % n)
        /\ b % n \in 0 .. n - 1 /\ b \div n \in Int /\ b = n * (b \div n) + (b % n)
    BY Modulo
  <1>2. ASSUME a % n = b % n PROVE \E k \in Int : a = b + n * k
    <2> DEFINE k == (a \div n) - (b \div n)
    <2>1. k \in Int /\ a = b + n * k
      BY <1>1, <1>2
    <2> QED
      BY <2>1
  <1>3. ASSUME NEW k \in Int, a = b + n * k PROVE a % n = b % n
    <2> DEFINE j == k + (b \div n) - (a \div n)
    <2>1. j \in Int /\ a % n = (b % n) + n * j
      BY <1>1, <1>3
    <2> HIDE DEF j
    <2> QED
      BY <1>1, <2>1, Remainder
  <1> QED
    BY <1>2, <1>3

LEMMA ModType == \A a \in Int : a % Prime \in Field /\ a % Prime \in Int
  BY PrimeType, Modulo DEF Field

LEMMA ModField == \A a \in Field : a \in Int /\ a % Prime = a
  <1> SUFFICES ASSUME NEW a \in Field PROVE a \in Int /\ a % Prime = a
    OBVIOUS
  <1>1. a \in Int /\ a \in 0 .. Prime - 1 /\ Prime \in Nat \ {0}
    BY PrimeType DEF Field
  <1>2. a % Prime \in 0 .. Prime - 1 /\ a \div Prime \in Int /\ a = (a % Prime) + Prime * (a \div Prime)
    BY <1>1, Modulo
  <1> DEFINE r == a % Prime
             k == a \div Prime
  <1> HIDE DEF r, k
  <1>3. r \in 0 .. Prime - 1 /\ k \in Int /\ a = r + Prime * k
    BY <1>2 DEF r, k
  <1>4. a = r
    BY <1>1, <1>3, Remainder
  <1> QED
    BY <1>1, <1>4 DEF r

LEMMA ModSum ==
    ASSUME NEW a \in Int, NEW b \in Int, NEW c \in Int, NEW d \in Int,
           a % Prime = c % Prime, b % Prime = d % Prime
    PROVE  (a + b) % Prime = (c + d) % Prime
  <1>0. Prime \in Nat \ {0}
    BY PrimeType
  <1>1. PICK k \in Int : a = c + Prime * k
    BY <1>0, SameRemainder
  <1>2. PICK j \in Int : b = d + Prime * j
    BY <1>0, SameRemainder
  <1> DEFINE m == k + j
             x == a + b
             y == c + d
  <1>3. m \in Int /\ x \in Int /\ y \in Int /\ x = y + Prime * m
    BY <1>0, <1>1, <1>2
  <1> HIDE DEF m, x, y
  <1>4. x % Prime = y % Prime
    BY <1>0, <1>3, SameRemainder
  <1> QED
    BY <1>4 DEF x, y

LEMMA ModProduct ==
    ASSUME NEW a \in Int, NEW b \in Int, NEW c \in Int, NEW d \in Int,
           a % Prime = c % Prime, b % Prime = d % Prime
    PROVE  (a * b) % Prime = (c * d) % Prime
  <1>0. Prime \in Nat \ {0}
    BY PrimeType
  <1>1. PICK k \in Int : a = c + Prime * k
    BY <1>0, SameRemainder
  <1>2. PICK j \in Int : b = d + Prime * j
    BY <1>0, SameRemainder
  <1> DEFINE m == k * d + j * c + Prime * k * j
             x == a * b
             y == c * d
  <1>3. m \in Int /\ x = y + Prime * m
    BY <1>0, <1>1, <1>2
  <1>4. x \in Int /\ y \in Int
    OBVIOUS
  <1> HIDE DEF m, x, y
  <1>5. x % Prime = y % Prime
    BY <1>0, <1>3, <1>4, SameRemainder
  <1> QED
    BY <1>5 DEF x, y

LEMMA ModMod == \A a \in Int : (a % Prime) % Prime = a % Prime
  BY ModType, ModField

LEMMA ModMultiple ==
    ASSUME NEW a \in Int, NEW k \in Int
    PROVE  (a + Prime * k) % Prime = a % Prime
  <1>0. Prime \in Nat \ {0} /\ a + Prime * k \in Int
    BY PrimeType
  <1> QED
    BY <1>0, SameRemainder

\* The arithmetic of the field, as remainders.
LEMMA PlusMod ==
    ASSUME NEW a \in Int, NEW b \in Int
    PROVE  Plus(a, b) \in Field /\ Plus(a, b) \in Int /\ Plus(a, b) % Prime = (a + b) % Prime
  BY ModType, ModMod DEF Plus

LEMMA TimesMod ==
    ASSUME NEW a \in Int, NEW b \in Int
    PROVE  Times(a, b) \in Field /\ Times(a, b) \in Int /\ Times(a, b) % Prime = (a * b) % Prime
  <1>1. a * b \in Int
    OBVIOUS
  <1> QED
    BY <1>1, ModType, ModMod DEF Times

LEMMA NegMod ==
    ASSUME NEW a \in Int
    PROVE  Neg(a) \in Field /\ Neg(a) \in Int /\ Neg(a) % Prime = (-a) % Prime
  <1>0. Prime \in Nat \ {0}
    BY PrimeType
  <1>1. a % Prime \in Int /\ a \div Prime \in Int /\ a = Prime * (a \div Prime) + (a % Prime)
    BY <1>0, Modulo
  <1> DEFINE r == a % Prime
             k == a \div Prime
  <1> HIDE DEF r, k
  <1>2. r \in Int /\ k \in Int /\ a = Prime * k + r
    BY <1>1 DEF r, k
  <1>3. Prime - r = (-a) + Prime * (k + 1) /\ -a \in Int /\ k + 1 \in Int /\ Prime - r \in Int
    BY <1>0, <1>2
  <1>4. (Prime - r) % Prime = (-a) % Prime
    BY <1>3, ModMultiple
  <1> QED
    BY <1>3, <1>4, ModType, ModMod DEF Neg, r

LEMMA MinusMod ==
    ASSUME NEW a \in Int, NEW b \in Int
    PROVE  Minus(a, b) \in Field /\ Minus(a, b) \in Int /\ Minus(a, b) % Prime = (a - b) % Prime
  <1>1. Neg(b) \in Int /\ Neg(b) % Prime = (-b) % Prime /\ -b \in Int
    BY NegMod
  <1>2. (a + Neg(b)) % Prime = (a + (-b)) % Prime
    BY <1>1, ModSum
  <1>3. a + (-b) = a - b
    OBVIOUS
  <1> QED
    BY <1>1, <1>2, <1>3, PlusMod DEF Minus

-----------------------------------------------------------------------------
(* Numbers.                                                                *)

LEMMA Greatest ==
    ASSUME NEW S, IsFiniteSet(S), S # {}, NEW f, \A x \in S : f[x] \in Int
    PROVE  \E x \in S : \A y \in S : f[y] <= f[x]
  <1> DEFINE G == {T \in SUBSET S : T # {} => \E x \in T : \A y \in T : f[y] <= f[x]}
  <1>1. {} \in G
    OBVIOUS
  <1>2. ASSUME NEW T \in SUBSET S, NEW x \in S \ T, T \in G PROVE T \cup {x} \in G
    <2>1. CASE T = {}
      <3>1. \A y \in T \cup {x} : f[y] <= f[x]
        BY <2>1
      <3> QED
        BY <3>1
    <2>2. CASE T # {}
      <3>1. PICK z \in T : \A y \in T : f[y] <= f[z]
        BY <1>2, <2>2
      <3>2. f[x] \in Int /\ f[z] \in Int /\ \A y \in T : f[y] \in Int
        OBVIOUS
      <3>3. CASE f[x] <= f[z]
        BY <3>1, <3>3
      <3>4. CASE f[z] < f[x]
        <4>1. \A y \in T \cup {x} : f[y] <= f[x]
          BY <3>1, <3>2, <3>4
        <4> QED
          BY <4>1
      <3> QED
        BY <3>2, <3>3, <3>4
    <2> QED
      BY <2>1, <2>2
  <1>3. S \in G
    <2> HIDE DEF G
    <2> QED
      BY <1>1, <1>2, FiniteInduction
  <1> QED
    BY <1>3

LEMMA Counting ==
    ASSUME NEW n \in Nat, NEW G, 0 \in G, \A i \in 0 .. n - 1 : i \in G => i + 1 \in G
    PROVE  n \in G
  <1> SUFFICES ASSUME n \notin G PROVE FALSE
    OBVIOUS
  <1> DEFINE C == {i \in 0 .. n : i \notin G}
             f == [i \in C |-> -i]
  <1>1. IsFiniteSet(C) /\ C # {}
    <2>1. IsFiniteSet(0 .. n) /\ C \in SUBSET (0 .. n) /\ n \in C
      BY FS_Interval
    <2> QED
      BY <2>1, FS_Subset
  <1>2. \A x \in C : f[x] \in Int
    OBVIOUS
  <1>3. PICK i \in C : \A j \in C : f[j] <= f[i]
    <2> HIDE DEF C, f
    <2> QED
      BY <1>1, <1>2, Greatest
  <1>4. i # 0 /\ i \in 1 .. n
    OBVIOUS
  <1>5. i - 1 \in C
    BY <1>4
  <1>6. f[i - 1] <= f[i]
    BY <1>3, <1>5
  <1> QED
    BY <1>4, <1>5, <1>6

LEMMA TotalMod ==
    ASSUME NEW f, NEW g, NEW S, IsFiniteSet(S),
           \A x \in S : f[x] \in Int /\ g[x] \in Int /\ f[x] % Prime = g[x] % Prime
    PROVE  Total(f, S) % Prime = Total(g, S) % Prime
  <1> DEFINE G == {T \in SUBSET S : Total(f, T) % Prime = Total(g, T) % Prime}
  <1>1. {} \in G
    BY TotalEmpty
  <1>2. ASSUME NEW T \in SUBSET S, NEW x \in S \ T, T \in G PROVE T \cup {x} \in G
    <2>1. IsFiniteSet(T) /\ \A y \in T \cup {x} : f[y] \in Int /\ g[y] \in Int
      BY FS_Subset
    <2>2. Total(f, T \cup {x}) = f[x] + Total(f, T) /\ Total(g, T \cup {x}) = g[x] + Total(g, T)
      BY <2>1, TotalAdd
    <2>3. Total(f, T) \in Int /\ Total(g, T) \in Int /\ f[x] \in Int /\ g[x] \in Int
      BY <2>1, TotalType
    <2>4. Total(f, T) % Prime = Total(g, T) % Prime /\ f[x] % Prime = g[x] % Prime
      BY <1>2
    <2>5. (f[x] + Total(f, T)) % Prime = (g[x] + Total(g, T)) % Prime
      <3> DEFINE a == f[x]
                 b == g[x]
                 c == Total(f, T)
                 d == Total(g, T)
      <3>1. a \in Int /\ b \in Int /\ c \in Int /\ d \in Int /\ a % Prime = b % Prime /\ c % Prime = d % Prime
        BY <2>3, <2>4
      <3> HIDE DEF a, b, c, d, G
      <3>2. (a + c) % Prime = (b + d) % Prime
        BY <3>1, ModSum
      <3> QED
        BY <3>2 DEF a, b, c, d
    <2>6. T \cup {x} \in SUBSET S
      OBVIOUS
    <2> QED
      BY <2>2, <2>5, <2>6
  <1> HIDE DEF G
  <1>3. S \in G
    BY <1>1, <1>2, FiniteInduction
  <1> QED
    BY <1>3 DEF G

LEMMA SumIs == \A f : Sum(f) = Total(f, DOMAIN f) % Prime
  BY DEF Sum, SumFunction, Total

\* The number of elements, added up.
LEMMA TotalOnes ==
    ASSUME NEW f, NEW S, IsFiniteSet(S), \A x \in S : f[x] = 1
    PROVE  Total(f, S) = Cardinality(S)
  <1> DEFINE G == {T \in SUBSET S : Total(f, T) = Cardinality(T)}
  <1>1. {} \in G
    BY TotalEmpty, FS_EmptySet
  <1>2. ASSUME NEW T \in SUBSET S, NEW x \in S \ T, T \in G PROVE T \cup {x} \in G
    <2>1. IsFiniteSet(T) /\ \A y \in T \cup {x} : f[y] \in Int
      BY FS_Subset
    <2>2. Total(f, T \cup {x}) = f[x] + Total(f, T)
      BY <2>1, TotalAdd
    <2>3. Cardinality(T \cup {x}) = Cardinality(T) + 1 /\ Cardinality(T) \in Nat
      BY <2>1, FS_AddElement, FS_CardinalityType
    <2> QED
      BY <1>2, <2>2, <2>3
  <1> HIDE DEF G
  <1>3. S \in G
    BY <1>1, <1>2, FiniteInduction
  <1> QED
    BY <1>3 DEF G

-----------------------------------------------------------------------------
(* Powers.                                                                 *)

IsPower(g, a, n) == g = [i \in 0 .. n |-> IF i = 0 THEN 1 ELSE Times(a, g[i - 1])]

LEMMA PowerExists ==
    ASSUME NEW a, NEW n \in Nat
    PROVE  \E g : IsPower(g, a, n)
  <1> DEFINE G == {k \in 0 .. n : \E g : IsPower(g, a, k)}
  <1>1. 0 \in G
    <2> DEFINE g == [i \in 0 .. 0 |-> 1]
    <2>1. g = [i \in 0 .. 0 |-> IF i = 0 THEN 1 ELSE Times(a, g[i - 1])]
      OBVIOUS
    <2> HIDE DEF g
    <2>2. \E h : IsPower(h, a, 0)
      BY <2>1 DEF IsPower
    <2> QED
      BY <2>2
  <1>2. ASSUME NEW k \in 0 .. n - 1, k \in G PROVE k + 1 \in G
    <2>1. PICK g : IsPower(g, a, k)
      BY <1>2
    <2> DEFINE h == [i \in 0 .. k + 1 |-> IF i = k + 1 THEN Times(a, g[k]) ELSE g[i]]
    <2>2. \A i \in 0 .. k + 1 : h[i] = IF i = 0 THEN 1 ELSE Times(a, h[i - 1])
      <3> SUFFICES ASSUME NEW i \in 0 .. k + 1 PROVE h[i] = IF i = 0 THEN 1 ELSE Times(a, h[i - 1])
        OBVIOUS
      <3>1. CASE i = k + 1
        BY <3>1
      <3>2. CASE i # k + 1
        <4>1. g[i] = IF i = 0 THEN 1 ELSE Times(a, g[i - 1])
          BY <2>1, <3>2 DEF IsPower
        <4>2. h[i] = g[i] /\ (i # 0 => h[i - 1] = g[i - 1])
          BY <3>2
        <4> QED
          BY <4>1, <4>2
      <3> QED
        BY <3>1, <3>2
    <2>3. h = [i \in 0 .. k + 1 |-> h[i]]
      OBVIOUS
    <2> HIDE DEF h
    <2>4. [i \in 0 .. k + 1 |-> h[i]] = [i \in 0 .. k + 1 |-> IF i = 0 THEN 1 ELSE Times(a, h[i - 1])]
      BY <2>2
    <2>5. IsPower(h, a, k + 1)
      BY <2>3, <2>4 DEF IsPower
    <2> QED
      BY <2>5
  <1>3. n \in G
    <2> HIDE DEF G
    <2> QED
      BY <1>1, <1>2, Counting
  <1> QED
    BY <1>3

LEMMA ExpIs ==
    ASSUME NEW a, NEW n \in Nat
    PROVE  \E g : IsPower(g, a, n) /\ Exp(a, n) = g[n]
  <1> DEFINE g == CHOOSE h : IsPower(h, a, n)
  <1>1. IsPower(g, a, n)
    BY PowerExists
  <1>2. Exp(a, n) = g[n]
    BY DEF Exp, IsPower
  <1> QED
    BY <1>1, <1>2

LEMMA PowerUnique ==
    ASSUME NEW a, NEW n \in Nat, NEW m \in Nat, NEW g, NEW h, IsPower(g, a, n), IsPower(h, a, m),
           NEW k \in Nat, k <= n, k <= m
    PROVE  g[k] = h[k]
  <1> DEFINE G == {i \in 0 .. k : g[i] = h[i]}
  <1>1. 0 \in G
    BY DEF IsPower
  <1>2. ASSUME NEW i \in 0 .. k - 1, i \in G PROVE i + 1 \in G
    <2>1. g[i + 1] = Times(a, g[(i + 1) - 1]) /\ h[i + 1] = Times(a, h[(i + 1) - 1])
      BY DEF IsPower
    <2>2. (i + 1) - 1 = i /\ i + 1 \in 0 .. k
      OBVIOUS
    <2> QED
      BY <1>2, <2>1, <2>2
  <1>3. k \in G
    <2> HIDE DEF G
    <2> QED
      BY <1>1, <1>2, Counting
  <1> QED
    BY <1>3

LEMMA ExpZero == \A a : Exp(a, 0) = 1
  <1> SUFFICES ASSUME NEW a PROVE Exp(a, 0) = 1
    OBVIOUS
  <1>1. PICK g : IsPower(g, a, 0) /\ Exp(a, 0) = g[0]
    BY ExpIs
  <1> QED
    BY <1>1 DEF IsPower

LEMMA ExpNext ==
    ASSUME NEW a, NEW n \in Nat
    PROVE  Exp(a, n + 1) = Times(a, Exp(a, n))
  <1>1. PICK g : IsPower(g, a, n) /\ Exp(a, n) = g[n]
    BY ExpIs
  <1>2. PICK h : IsPower(h, a, n + 1) /\ Exp(a, n + 1) = h[n + 1]
    BY ExpIs
  <1>3. h[n] = g[n]
    BY <1>1, <1>2, PowerUnique
  <1>4. h[n + 1] = Times(a, h[(n + 1) - 1])
    BY <1>2 DEF IsPower
  <1> QED
    BY <1>1, <1>2, <1>3, <1>4

LEMMA ExpType ==
    ASSUME NEW a \in Int, NEW n \in Nat
    PROVE  Exp(a, n) \in Field /\ Exp(a, n) \in Int
  <1> DEFINE G == {k \in 0 .. n : Exp(a, k) \in Field}
  <1>1. 0 \in G
    BY ExpZero, PrimeType DEF Field
  <1>2. ASSUME NEW k \in 0 .. n - 1, k \in G PROVE k + 1 \in G
    <2>1. Exp(a, k + 1) = Times(a, Exp(a, k))
      BY ExpNext
    <2>2. Exp(a, k) \in Int
      BY <1>2, ModField
    <2> QED
      BY <2>1, <2>2, TimesMod
  <1>3. n \in G
    <2> HIDE DEF G
    <2> QED
      BY <1>1, <1>2, Counting
  <1> QED
    BY <1>3, ModField

LEMMA ExpOne == \A a \in Field : Exp(a, 1) = a
  <1> SUFFICES ASSUME NEW a \in Field PROVE Exp(a, 1) = a
    OBVIOUS
  <1>1. Exp(a, 0 + 1) = Times(a, 1)
    BY ExpNext, ExpZero
  <1>2. a * 1 = a
    BY ModField
  <1> QED
    BY <1>1, <1>2, ModField DEF Times

LEMMA TotalNat ==
    ASSUME NEW f, NEW S, IsFiniteSet(S), \A x \in S : f[x] \in Nat
    PROVE  Total(f, S) \in Nat
  <1> DEFINE G == {T \in SUBSET S : Total(f, T) \in Nat}
  <1>1. {} \in G
    BY TotalEmpty
  <1>2. ASSUME NEW T \in SUBSET S, NEW x \in S \ T, T \in G PROVE T \cup {x} \in G
    <2>1. IsFiniteSet(T) /\ \A y \in T \cup {x} : f[y] \in Int
      BY FS_Subset
    <2>2. Total(f, T \cup {x}) = f[x] + Total(f, T) /\ Total(f, T) \in Nat /\ f[x] \in Nat
      BY <1>2, <2>1, TotalAdd
    <2>3. T \cup {x} \in SUBSET S /\ f[x] + Total(f, T) \in Nat
      BY <2>2
    <2> QED
      BY <2>2, <2>3
  <1>3. S \in G
    <2> HIDE DEF G
    <2> QED
      BY <1>1, <1>2, FiniteInduction
  <1> QED
    BY <1>3

LEMMA PowerSumIs ==
    ASSUME NEW ms, NEW k
    PROVE  PowerSum(ms, k) = Total([i \in DOMAIN ms |-> Exp(ms[i], k)], DOMAIN ms) % Prime
  <1>1. DOMAIN [i \in DOMAIN ms |-> Exp(ms[i], k)] = DOMAIN ms
    OBVIOUS
  <1> QED
    BY <1>1, SumIs DEF PowerSum

LEMMA PowerSumType ==
    ASSUME NEW ms, IsFiniteSet(DOMAIN ms), \A i \in DOMAIN ms : ms[i] \in Int, NEW k \in Nat
    PROVE  PowerSum(ms, k) \in Field
  <1> DEFINE f == [i \in DOMAIN ms |-> Exp(ms[i], k)]
  <1>1. \A i \in DOMAIN ms : f[i] \in Int
    BY ExpType
  <1> HIDE DEF f
  <1>2. Total(f, DOMAIN ms) \in Int
    BY <1>1, TotalType
  <1> QED
    BY <1>2, PowerSumIs, ModType DEF f

LEMMA PowerSumsType ==
    ASSUME NEW k \in Nat, NEW n \in Nat, NEW ms \in [1 .. k -> Field]
    PROVE  PowerSums(ms, n) \in [1 .. n -> Field]
  <1>1. IsFiniteSet(DOMAIN ms) /\ \A i \in DOMAIN ms : ms[i] \in Int
    BY FS_Interval, ModField
  <1>2. \A i \in 1 .. n : PowerSum(ms, i) \in Field
    BY <1>1, PowerSumType
  <1> QED
    BY <1>2 DEF PowerSums

LEMMA TotalZero ==
    ASSUME NEW f, NEW S, IsFiniteSet(S), \A x \in S : f[x] = 0
    PROVE  Total(f, S) = 0
  <1> DEFINE G == {T \in SUBSET S : Total(f, T) = 0}
  <1>1. {} \in G
    BY TotalEmpty
  <1>2. ASSUME NEW T \in SUBSET S, NEW x \in S \ T, T \in G PROVE T \cup {x} \in G
    <2>1. IsFiniteSet(T) /\ \A y \in T \cup {x} : f[y] \in Int
      BY FS_Subset
    <2>2. Total(f, T \cup {x}) = f[x] + Total(f, T)
      BY <2>1, TotalAdd
    <2> QED
      BY <1>2, <2>2
  <1> HIDE DEF G
  <1>3. S \in G
    BY <1>1, <1>2, FiniteInduction
  <1> QED
    BY <1>3 DEF G

Antisymmetric(a, S) == \A p, q \in S : a[p][q] \in Int /\ a[p][q] + a[q][p] = 0

\* What each of any two elements gives the other takes: nothing remains.
LEMMA TotalAntisymmetric ==
    ASSUME NEW S, IsFiniteSet(S), NEW a, Antisymmetric(a, S)
    PROVE  Total([p \in S |-> Total(a[p], S)], S) = 0
  <1> DEFINE row(T) == [p \in S |-> Total(a[p], T)]
             G == {T \in SUBSET S : Total(row(T), T) = 0}
  <1>1. {} \in G
    BY TotalEmpty
  <1>2. ASSUME NEW T \in SUBSET S, NEW x \in S \ T, T \in G PROVE T \cup {x} \in G
    <2> DEFINE U == T \cup {x}
               column == [p \in S |-> a[p][x]]
    <2>1. IsFiniteSet(T) /\ U \in SUBSET S /\ IsFiniteSet(U)
      BY FS_Subset
    <2>2. \A p \in S : Total(a[p], T) \in Int /\ Total(a[p], U) = a[p][x] + Total(a[p], T)
      <3> SUFFICES ASSUME NEW p \in S
                   PROVE  Total(a[p], T) \in Int /\ Total(a[p], U) = a[p][x] + Total(a[p], T)
        OBVIOUS
      <3>1. \A q \in T \cup {x} : a[p][q] \in Int
        BY DEF Antisymmetric
      <3> QED
        BY <2>1, <3>1, TotalType, TotalAdd
    <2>3. Total(row(U), U) = Total(row(U), T) + Total(a[x], T)
      <3>1. \A p \in U : row(U)[p] \in Int
        <4> SUFFICES ASSUME NEW p \in U PROVE row(U)[p] \in Int
          OBVIOUS
        <4>1. row(U)[p] = Total(a[p], U) /\ a[p][x] \in Int
          BY <2>1 DEF Antisymmetric
        <4>2. p \in S
          BY <2>1
        <4>3. Total(a[p], T) \in Int /\ Total(a[p], U) = a[p][x] + Total(a[p], T)
          BY <2>2, <4>2
        <4> HIDE DEF U, row
        <4> QED
          BY <4>1, <4>3
      <3>2. row(U)[x] = Total(a[x], T)
        <4>1. a[x][x] \in Int /\ a[x][x] + a[x][x] = 0
          BY DEF Antisymmetric
        <4>2. a[x][x] = 0
          BY <4>1
        <4>3. row(U)[x] = Total(a[x], U)
          OBVIOUS
        <4> QED
          BY <2>2, <4>2, <4>3
      <3>3. Total(row(U), T) \in Int
        BY <2>1, <3>1, TotalType
      <3>4. Total(row(U), T \cup {x}) = row(U)[x] + Total(row(U), T)
        <4> HIDE DEF row
        <4> QED
          BY <2>1, <3>1, TotalAdd
      <3>5. Total(a[x], T) \in Int
        BY <2>2
      <3> QED
        BY <3>2, <3>3, <3>4, <3>5
    <2>4. Total(row(U), T) = Total(column, T) + Total(row(T), T)
      <3>1. \A p \in T : column[p] \in Int /\ row(T)[p] \in Int /\ row(U)[p] = column[p] + row(T)[p]
        <4> SUFFICES ASSUME NEW p \in T
                     PROVE  column[p] \in Int /\ row(T)[p] \in Int /\ row(U)[p] = column[p] + row(T)[p]
          OBVIOUS
        <4>1. column[p] = a[p][x] /\ row(T)[p] = Total(a[p], T) /\ row(U)[p] = Total(a[p], U) /\ a[p][x] \in Int
          BY DEF Antisymmetric
        <4>2. Total(a[p], T) \in Int /\ Total(a[p], U) = a[p][x] + Total(a[p], T)
          BY <2>2
        <4> HIDE DEF U, row, column
        <4> QED
          BY <4>1, <4>2
      <3> DEFINE u == row(U)
                 v == row(T)
      <3>2. \A p \in T : column[p] \in Int /\ v[p] \in Int /\ u[p] = column[p] + v[p]
        BY <3>1
      <3> HIDE DEF u, v, column
      <3>3. Total(u, T) = Total(column, T) + Total(v, T)
        BY <2>1, <3>2, TotalPlus
      <3> QED
        BY <3>3 DEF u, v
    <2>5. Total(a[x], T) + Total(column, T) = 0
      <3> DEFINE v == a[x]
                 z == [p \in T |-> 0]
      <3>1. \A p \in T : v[p] \in Int /\ column[p] \in Int /\ z[p] = v[p] + column[p]
        BY DEF Antisymmetric
      <3>2. \A p \in T : z[p] = 0
        OBVIOUS
      <3> HIDE DEF column, v, z
      <3>3. Total(z, T) = Total(v, T) + Total(column, T)
        BY <2>1, <3>1, TotalPlus
      <3>4. Total(z, T) = 0
        BY <2>1, <3>2, TotalZero
      <3> QED
        BY <3>3, <3>4 DEF v
    <2>6. Total(a[x], T) \in Int /\ Total(row(T), T) = 0 /\ Total(column, T) \in Int
      <3>1. \A p \in T : column[p] \in Int
        BY DEF Antisymmetric
      <3>2. Total(column, T) \in Int
        BY <2>1, <3>1, TotalType
      <3> QED
        BY <1>2, <2>2, <3>2
    <2>7. Total(row(U), U) = 0
      <3> HIDE DEF row, column, U
      <3> QED
        BY <2>3, <2>4, <2>5, <2>6
    <2> QED
      BY <2>1, <2>7
  <1>3. S \in G
    <2> HIDE DEF G
    <2> QED
      BY <1>1, <1>2, FiniteInduction
  <1> QED
    BY <1>3

LEMMA ModDifference ==
    ASSUME NEW a \in Int, NEW b \in Int, NEW c \in Int, NEW d \in Int,
           a % Prime = c % Prime, b % Prime = d % Prime
    PROVE  (a - b) % Prime = (c - d) % Prime
  <1>1. Neg(b) % Prime = (-b) % Prime /\ Neg(d) % Prime = (-d) % Prime /\ Neg(b) = Neg(d)
    BY NegMod DEF Neg
  <1>2. (-b) % Prime = (-d) % Prime /\ -b \in Int /\ -d \in Int
    BY <1>1
  <1>3. (a + (-b)) % Prime = (c + (-d)) % Prime
    BY <1>2, ModSum
  <1>4. a + (-b) = a - b /\ c + (-d) = c - d
    OBVIOUS
  <1> QED
    BY <1>3, <1>4

LEMMA MinusPlus ==
    ASSUME NEW a \in Field, NEW b \in Int
    PROVE  Minus(Plus(a, b), b) = a /\ Plus(Minus(a, b), b) = a
  <1>0. a \in Int /\ a % Prime = a
    BY ModField
  <1> DEFINE s == Plus(a, b)
             d == Minus(a, b)
  <1>1. s \in Int /\ s % Prime = (a + b) % Prime /\ d \in Int /\ d % Prime = (a - b) % Prime
    BY <1>0, PlusMod, MinusMod
  <1>2. a + b \in Int /\ a - b \in Int /\ (a + b) - b = a /\ (a - b) + b = a
    BY <1>0
  <1>3. Minus(s, b) \in Field /\ Minus(s, b) % Prime = (s - b) % Prime
    BY <1>1, MinusMod
  <1>4. Plus(d, b) \in Field /\ Plus(d, b) % Prime = (d + b) % Prime
    BY <1>1, PlusMod
  <1> HIDE DEF s, d
  <1>5. (s - b) % Prime = ((a + b) - b) % Prime
    BY <1>1, <1>2, ModDifference
  <1>6. (d + b) % Prime = ((a - b) + b) % Prime
    BY <1>1, <1>2, ModSum
  <1>7. Minus(s, b) % Prime = a % Prime /\ Plus(d, b) % Prime = a % Prime
    BY <1>2, <1>3, <1>4, <1>5, <1>6
  <1> QED
    BY <1>0, <1>3, <1>4, <1>7, ModField DEF s, d

-----------------------------------------------------------------------------
(* Inverses.                                                               *)

\* The least number other than 0 among the multiples divides the prime.
LEMMA ModScale ==
    ASSUME NEW a \in Int, NEW b \in Int, NEW c \in Int, b % Prime = c % Prime
    PROVE  (a * b) % Prime = (a * c) % Prime
  <1>1. a % Prime = a % Prime
    OBVIOUS
  <1> QED
    BY <1>1, ModProduct

LEMMA Invertible ==
    ASSUME NEW a \in 1 .. Prime - 1
    PROVE  \E b \in Field : Times(a, b) = 1
  <1> DEFINE C == {d \in 1 .. Prime - 1 : \E u \in Int : (a * u) % Prime = d}
             f == [d \in C |-> -d]
  <1>0. Prime \in Nat \ {0} /\ Prime >= 2 /\ a \in Int /\ a \in Field
    BY PrimeType DEF Field
  <1>1. a \in C
    <2>1. a * 1 = a /\ a % Prime = a
      BY <1>0, ModField
    <2> QED
      BY <2>1
  <1>2. IsFiniteSet(C) /\ \A d \in C : f[d] \in Int
    <2>1. IsFiniteSet(1 .. Prime - 1)
      BY <1>0, FS_Interval
    <2>2. C \in SUBSET (1 .. Prime - 1)
      OBVIOUS
    <2> QED
      BY <1>0, <2>1, <2>2, FS_Subset
  <1>3. PICK d \in C : \A e \in C : f[e] <= f[d]
    <2> HIDE DEF C, f
    <2> QED
      BY <1>1, <1>2, Greatest
  <1>4. ASSUME NEW e \in C PROVE d <= e
    <2>1. f[d] = -d /\ f[e] = -e /\ f[e] <= f[d]
      BY <1>3
    <2>2. d \in Int /\ e \in Int
      BY <1>0
    <2> HIDE DEF C, f
    <2> QED
      BY <2>1, <2>2
  <1>5. PICK u \in Int : (a * u) % Prime = d
    OBVIOUS
  <1>6. d \in Nat \ {0} /\ d <= Prime - 1
    BY <1>0
  <1> DEFINE q == Prime \div d
             r == Prime % d
  <1>7. r \in 0 .. d - 1 /\ q \in Int /\ Prime = d * q + r
    BY <1>0, <1>6, Modulo
  <1> HIDE DEF q, r
  <1>8. r = 0
    <2> SUFFICES ASSUME r # 0 PROVE FALSE
      OBVIOUS
    <2> DEFINE m == a * u
               v == -(u * q)
               w == a * v
    <2>1. m \in Int /\ v \in Int /\ w \in Int
      BY <1>0, <1>7
    <2>2. m % Prime = d % Prime
      <3>1. d \in Field
        BY <1>0, <1>6 DEF Field
      <3> QED
        BY <1>5, <3>1, ModField
    <2>3. w = (-q) * m
      BY <1>0, <1>7
    <2> HIDE DEF m, v, w
    <2>4. ((-q) * m) % Prime = ((-q) * d) % Prime
      <3>1. -q \in Int
        BY <1>7
      <3> QED
        BY <1>6, <2>1, <2>2, <3>1, ModProduct
    <2>5. ((-q) * d) % Prime = r % Prime
      <3>1. r = ((-q) * d) + Prime * 1 /\ (-q) * d \in Int
        BY <1>0, <1>6, <1>7
      <3> QED
        BY <3>1, ModMultiple
    <2>6. r \in Field /\ r \in 1 .. Prime - 1
      BY <1>0, <1>6, <1>7 DEF Field
    <2>7. (a * v) % Prime = r
      BY <2>3, <2>4, <2>5, <2>6, ModField DEF w
    <2>8. r \in C
      BY <2>1, <2>6, <2>7
    <2>9. d <= r
      BY <1>4, <2>8
    <2> QED
      BY <1>6, <1>7, <2>9
  <1>9. d = 1
    <2> SUFFICES ASSUME d # 1 PROVE FALSE
      OBVIOUS
    <2>1. Prime = d * q /\ d \in 2 .. Prime - 1 /\ q \in Int
      BY <1>0, <1>6, <1>7, <1>8
    <2>2. q \in 2 .. Prime - 1
      <3>1. q > 0
        BY <1>0, <2>1
      <3>2. q # 1
        BY <1>0, <2>1
      <3>3. q < Prime
        BY <1>0, <2>1, <3>1
      <3> QED
        BY <2>1, <3>1, <3>2, <3>3
    <2> QED
      BY <2>1, <2>2, PrimeOK
  <1> DEFINE b == u % Prime
  <1>10. b \in Field /\ b \in Int /\ b % Prime = u % Prime
    BY ModType, ModMod
  <1>11. (a * b) % Prime = (a * u) % Prime
    <2> HIDE DEF b
    <2>1. a \in Int /\ u \in Int /\ b \in Int
      BY <1>0, <1>5, <1>10
    <2> QED
      BY <1>10, <2>1, ModScale
  <1> QED
    BY <1>5, <1>9, <1>10, <1>11 DEF Times

LEMMA InvModIs ==
    ASSUME NEW a \in Int, a % Prime # 0
    PROVE  InvMod(a) \in Field /\ InvMod(a) \in Int /\ (a * InvMod(a)) % Prime = 1
  <1> DEFINE r == a % Prime
             b == InvMod(a)
  <1>1. r \in Field /\ r \in Int /\ r % Prime = a % Prime /\ r # 0
    BY ModType, ModMod
  <1>2. r \in 1 .. Prime - 1
    BY <1>1, PrimeType DEF Field
  <1>3. b \in Field /\ Times(r, b) = 1
    <2>1. \E c \in Field : Times(r, c) = 1
      <3> HIDE DEF r
      <3> QED
        BY <1>2, Invertible
    <2> QED
      BY <2>1 DEF InvMod
  <1>4. b \in Int /\ b % Prime = b % Prime
    BY <1>3, ModField
  <1> HIDE DEF r, b
  <1>5. (a * b) % Prime = (r * b) % Prime
    BY <1>1, <1>4, ModProduct
  <1> QED
    BY <1>3, <1>4, <1>5 DEF Times, b

\* A factor other than 0 cancels.
LEMMA ModCancel ==
    ASSUME NEW a \in Int, NEW b \in Int, NEW c \in Int, a % Prime # 0, (a * b) % Prime = (a * c) % Prime
    PROVE  b % Prime = c % Prime
  <1> DEFINE i == InvMod(a)
             u == a * b
             v == a * c
             m == a * i
  <1>1. i \in Int /\ u \in Int /\ v \in Int /\ m \in Int /\ m % Prime = 1 /\ u % Prime = v % Prime
    BY InvModIs
  <1>2. 1 % Prime = 1
    BY ModField, PrimeType DEF Field
  <1>3. i * u = m * b /\ i * v = m * c
    <2> HIDE DEF i
    <2> QED
      BY <1>1
  <1> HIDE DEF i, u, v, m
  <1>4. (i * u) % Prime = (i * v) % Prime
    BY <1>1, ModScale
  <1> DEFINE one == 1
  <1>one. one \in Int /\ m \in Int /\ m % Prime = one % Prime
    BY <1>1, <1>2
  <1> HIDE DEF one
  <1>5. (b * m) % Prime = (b * one) % Prime
    BY <1>one, ModScale
  <1>6. (c * m) % Prime = (c * one) % Prime
    BY <1>one, ModScale
  <1>7. b * one = b /\ c * one = c /\ b * m = m * b /\ c * m = m * c
    BY <1>1 DEF one
  <1> QED
    BY <1>3, <1>4, <1>5, <1>6, <1>7

LEMMA ModZero == 0 % Prime = 0 /\ 0 \in Field /\ 1 % Prime = 1 /\ 1 \in Field
  BY ModField, PrimeType DEF Field

LEMMA NoZeroProduct ==
    ASSUME NEW a \in Int, NEW b \in Int, (a * b) % Prime = 0, a % Prime # 0
    PROVE  b % Prime = 0
  <1>1. a * 0 = 0
    OBVIOUS
  <1>2. (a * b) % Prime = (a * 0) % Prime
    BY <1>1, ModZero
  <1> QED
    BY <1>2, ModCancel, ModZero

-----------------------------------------------------------------------------
(***************************************************************************)
(* Polynomials over the integers.  The coefficients are a function on Nat, *)
(* the first that of the highest power: Value(q, x, i) is the value at x   *)
(* of the polynomial with the first i coefficients of q (Horner's rule).   *)
(***************************************************************************)
Poly == [Nat -> Int]

IsHorner(e, q, x, n) == e = [i \in 0 .. n |-> IF i = 0 THEN 0 ELSE x * e[i - 1] + q[i - 1]]
Value(q, x, n) == (CHOOSE g : IsHorner(g, q, x, n))[n]

LEMMA HornerExists ==
    ASSUME NEW q, NEW x, NEW n \in Nat
    PROVE  \E e : IsHorner(e, q, x, n)
  <1> DEFINE G == {k \in 0 .. n : \E e : IsHorner(e, q, x, k)}
  <1>1. 0 \in G
    <2> DEFINE e == [i \in 0 .. 0 |-> 0]
    <2>1. e = [i \in 0 .. 0 |-> IF i = 0 THEN 0 ELSE x * e[i - 1] + q[i - 1]]
      OBVIOUS
    <2> HIDE DEF e
    <2> QED
      BY <2>1 DEF IsHorner
  <1>2. ASSUME NEW k \in 0 .. n - 1, k \in G PROVE k + 1 \in G
    <2>1. PICK e : IsHorner(e, q, x, k)
      BY <1>2
    <2> DEFINE h == [i \in 0 .. k + 1 |-> IF i = k + 1 THEN x * e[k] + q[k] ELSE e[i]]
    <2>2. ASSUME NEW i \in 0 .. k + 1
          PROVE  h[i] = IF i = 0 THEN 0 ELSE x * h[i - 1] + q[i - 1]
      <3>1. CASE i = k + 1
        BY <3>1
      <3>2. CASE i # k + 1
        <4>1. i \in 0 .. k /\ h[i] = e[i] /\ (i # 0 => h[i - 1] = e[i - 1])
          BY <3>2
        <4>2. e[i] = IF i = 0 THEN 0 ELSE x * e[i - 1] + q[i - 1]
          BY <2>1, <4>1 DEF IsHorner
        <4> QED
          BY <4>1, <4>2
      <3> QED
        BY <3>1, <3>2
    <2>3. IsHorner(h, q, x, k + 1)
      <3>1. h = [i \in 0 .. k + 1 |-> h[i]]
        OBVIOUS
      <3> HIDE DEF h
      <3>2. [i \in 0 .. k + 1 |-> h[i]] =
            [i \in 0 .. k + 1 |-> IF i = 0 THEN 0 ELSE x * h[i - 1] + q[i - 1]]
        BY <2>2
      <3> QED
        BY <3>1, <3>2 DEF IsHorner
    <2>4. k + 1 \in 0 .. n
      OBVIOUS
    <2> QED
      BY <2>3, <2>4
  <1>3. n \in G
    <2> HIDE DEF G
    <2> QED
      BY <1>1, <1>2, Counting
  <1> QED
    BY <1>3

LEMMA HornerUnique ==
    ASSUME NEW q, NEW x, NEW n \in Nat, NEW m \in Nat, NEW e, NEW h,
           IsHorner(e, q, x, n), IsHorner(h, q, x, m), n <= m
    PROVE  e[n] = h[n]
  <1> DEFINE G == {i \in 0 .. n : e[i] = h[i]}
  <1>1. 0 \in G
    BY DEF IsHorner
  <1>2. ASSUME NEW i \in 0 .. n - 1, i \in G PROVE i + 1 \in G
    <2>1. i + 1 \in 0 .. n /\ i + 1 \in 0 .. m /\ (i + 1) - 1 = i /\ i + 1 # 0
      OBVIOUS
    <2>2. e[i + 1] = x * e[i] + q[i] /\ h[i + 1] = x * h[i] + q[i]
      BY <2>1 DEF IsHorner
    <2> QED
      BY <1>2, <2>1, <2>2
  <1>3. n \in G
    <2> HIDE DEF G
    <2> QED
      BY <1>1, <1>2, Counting
  <1> QED
    BY <1>3

LEMMA ValueZero == \A q, x : Value(q, x, 0) = 0
  <1> SUFFICES ASSUME NEW q, NEW x PROVE Value(q, x, 0) = 0
    OBVIOUS
  <1> DEFINE e == CHOOSE g : IsHorner(g, q, x, 0)
  <1>1. IsHorner(e, q, x, 0)
    BY HornerExists
  <1>2. e[0] = 0
    <2> HIDE DEF e
    <2> QED
      BY <1>1 DEF IsHorner
  <1> QED
    BY <1>2 DEF Value

LEMMA ValueNext ==
    ASSUME NEW q, NEW x, NEW n \in Nat
    PROVE  Value(q, x, n + 1) = x * Value(q, x, n) + q[n]
  <1> DEFINE e == CHOOSE g : IsHorner(g, q, x, n)
             h == CHOOSE g : IsHorner(g, q, x, n + 1)
  <1>1. IsHorner(e, q, x, n) /\ IsHorner(h, q, x, n + 1)
    <2>1. n + 1 \in Nat
      OBVIOUS
    <2> QED
      BY <2>1, HornerExists
  <1>2. h[n + 1] = x * e[n] + q[n]
    <2> HIDE DEF e, h
    <2>1. n + 1 \in 0 .. n + 1 /\ (n + 1) - 1 = n /\ n + 1 # 0 /\ n + 1 \in Nat /\ n <= n + 1
      OBVIOUS
    <2>2. h[n + 1] = x * h[n] + q[n]
      BY <1>1, <2>1 DEF IsHorner
    <2>3. e[n] = h[n]
      BY <1>1, <2>1, HornerUnique
    <2> QED
      BY <2>2, <2>3
  <1> QED
    BY <1>2 DEF Value

LEMMA ValueType ==
    ASSUME NEW q \in Poly, NEW x \in Int, NEW n \in Nat
    PROVE  Value(q, x, n) \in Int
  <1> DEFINE G == {i \in 0 .. n : Value(q, x, i) \in Int}
  <1>1. 0 \in G
    BY ValueZero
  <1>2. ASSUME NEW i \in 0 .. n - 1, i \in G PROVE i + 1 \in G
    <2>1. Value(q, x, i + 1) = x * Value(q, x, i) + q[i] /\ q[i] \in Int /\ Value(q, x, i) \in Int
      BY <1>2, ValueNext DEF Poly
    <2> DEFINE v == Value(q, x, i)
    <2>2. x * v + q[i] \in Int
      BY <2>1
    <2> QED
      BY <2>1, <2>2
  <1>3. n \in G
    <2> HIDE DEF G
    <2> QED
      BY <1>1, <1>2, Counting
  <1> QED
    BY <1>3

\* The product with x - a.
ByFactor(q, a) == [k \in Nat |-> IF k = 0 THEN q[0] ELSE q[k] - a * q[k - 1]]

LEMMA ByFactorType ==
    ASSUME NEW q \in Poly, NEW a \in Int
    PROVE  /\ ByFactor(q, a) \in Poly /\ ByFactor(q, a)[0] = q[0]
           /\ \A k \in Nat : ByFactor(q, a)[k + 1] = q[k + 1] - a * q[k]
  <1>1. ASSUME NEW k \in Nat, k # 0 PROVE q[k] - a * q[k - 1] \in Int
    <2>1. q[k] \in Int /\ q[k - 1] \in Int
      BY <1>1 DEF Poly
    <2> QED
      BY <2>1
  <1>2. ByFactor(q, a) \in Poly
    BY <1>1 DEF ByFactor, Poly
  <1>3. ASSUME NEW k \in Nat PROVE ByFactor(q, a)[k + 1] = q[k + 1] - a * q[k]
    <2>1. k + 1 \in Nat /\ k + 1 # 0 /\ (k + 1) - 1 = k
      OBVIOUS
    <2> QED
      BY <2>1 DEF ByFactor
  <1> QED
    BY <1>2, <1>3 DEF ByFactor

LEMMA ValueByFactor ==
    ASSUME NEW q \in Poly, NEW a \in Int, NEW x \in Int, NEW n \in Nat
    PROVE  Value(ByFactor(q, a), x, n + 1) = Value(q, x, n + 1) - a * Value(q, x, n)
  <1> DEFINE p == ByFactor(q, a)
             G == {i \in 0 .. n : Value(p, x, i + 1) = Value(q, x, i + 1) - a * Value(q, x, i)}
  <1>0. p \in Poly /\ p[0] = q[0] /\ \A k \in Nat : p[k + 1] = q[k + 1] - a * q[k]
    BY ByFactorType
  <1> HIDE DEF p
  <1>1. 0 \in G
    <2>1. Value(p, x, 0) = 0 /\ Value(q, x, 0) = 0 /\ q[0] \in Int
      BY ValueZero DEF Poly
    <2>2. Value(p, x, 0 + 1) = x * 0 + p[0] /\ Value(q, x, 0 + 1) = x * 0 + q[0]
      BY <2>1, ValueNext
    <2>3. 0 \in 0 .. n /\ Value(p, x, 0 + 1) = Value(q, x, 0 + 1) - a * 0
      BY <1>0, <2>1, <2>2
    <2> QED
      BY <2>1, <2>3
  <1>2. ASSUME NEW i \in 0 .. n - 1, i \in G PROVE i + 1 \in G
    <2> DEFINE u == Value(q, x, i)
               v == Value(q, x, i + 1)
               w == Value(p, x, i + 1)
    <2>1. u \in Int /\ v \in Int /\ q[i] \in Int /\ q[i + 1] \in Int /\ i + 1 \in Nat
      BY ValueType DEF Poly
    <2>2. v = x * u + q[i] /\ w = v - a * u
      BY <1>2, ValueNext
    <2>3. Value(p, x, (i + 1) + 1) = x * w + (q[i + 1] - a * q[i])
      BY <1>0, <2>1, ValueNext
    <2>4. Value(q, x, (i + 1) + 1) = x * v + q[i + 1]
      BY <2>1, ValueNext
    <2>5. x * w + (q[i + 1] - a * q[i]) = (x * v + q[i + 1]) - a * v
      <3> HIDE DEF u, v, w
      <3>1. x * w = x * v - x * (a * u)
        BY <2>1, <2>2
      <3>2. a * v = a * (x * u) + a * q[i]
        BY <2>1, <2>2
      <3>3. x * (a * u) = a * (x * u)
        BY <2>1
      <3>4. x * w \in Int /\ x * v \in Int /\ a * v \in Int /\ a * q[i] \in Int /\ a * (x * u) \in Int
        BY <2>1, <2>2
      <3> QED
        BY <2>1, <3>1, <3>2, <3>3, <3>4
    <2> QED
      BY <2>3, <2>4, <2>5
  <1>3. n \in G
    <2> HIDE DEF G
    <2> QED
      BY <1>1, <1>2, Counting
  <1> QED
    BY <1>3 DEF p

\* The quotient by x - r, whose coefficients are the values at r.
Quotient(q, r) == [k \in Nat |-> Value(q, r, k + 1)]

LEMMA QuotientType == ASSUME NEW q \in Poly, NEW r \in Int PROVE Quotient(q, r) \in Poly
  BY ValueType DEF Quotient, Poly

LEMMA Division ==
    ASSUME NEW q \in Poly, NEW r \in Int, NEW x \in Int, NEW n \in Nat
    PROVE  Value(q, x, n + 1) - Value(q, r, n + 1) = (x - r) * Value(Quotient(q, r), x, n)
  <1> DEFINE p == Quotient(q, r)
             G == {i \in 0 .. n : Value(q, x, i + 1) - Value(q, r, i + 1) = (x - r) * Value(p, x, i)}
  <1>0. p \in Poly /\ \A k \in Nat : p[k] = Value(q, r, k + 1)
    BY QuotientType DEF Quotient
  <1> HIDE DEF p
  <1>1. 0 \in G
    <2>1. Value(p, x, 0) = 0 /\ Value(q, x, 0) = 0 /\ Value(q, r, 0) = 0 /\ q[0] \in Int
      BY ValueZero DEF Poly
    <2>2. Value(q, x, 0 + 1) = x * 0 + q[0] /\ Value(q, r, 0 + 1) = r * 0 + q[0]
      BY <2>1, ValueNext
    <2>3. 0 \in 0 .. n /\ Value(q, x, 0 + 1) - Value(q, r, 0 + 1) = (x - r) * 0
      BY <2>1, <2>2
    <2> QED
      BY <2>1, <2>3
  <1>2. ASSUME NEW i \in 0 .. n - 1, i \in G PROVE i + 1 \in G
    <2> DEFINE u == Value(q, x, i + 1)
               v == Value(q, r, i + 1)
               w == Value(p, x, i)
               c == q[i + 1]
    <2>1. u \in Int /\ v \in Int /\ w \in Int /\ c \in Int /\ i + 1 \in Nat /\ i \in Nat
      BY <1>0, ValueType DEF Poly
    <2>2. u - v = (x - r) * w
      BY <1>2
    <2>3. Value(q, x, (i + 1) + 1) = x * u + c /\ Value(q, r, (i + 1) + 1) = r * v + c
      BY <2>1, ValueNext
    <2>4. Value(p, x, i + 1) = x * w + v
      BY <1>0, <2>1, ValueNext
    <2>5. (x * u + c) - (r * v + c) = (x - r) * (x * w + v)
      <3> HIDE DEF u, v, w, c
      <3> DEFINE d == x - r
      <3>1. d \in Int /\ x = r + d /\ u = v + d * w
        BY <2>1, <2>2
      <3> HIDE DEF d
      <3>2. x * u = x * v + x * (d * w) /\ x * v = r * v + d * v
        BY <2>1, <3>1
      <3>3. d * (x * w + v) = x * (d * w) + d * v
        BY <2>1, <3>1
      <3>4. x * u \in Int /\ x * v \in Int /\ r * v \in Int /\ d * v \in Int /\ x * (d * w) \in Int
        BY <2>1, <3>1
      <3>5. (x * u + c) - (r * v + c) = d * (x * w + v)
        BY <2>1, <3>2, <3>3, <3>4
      <3> QED
        BY <3>5 DEF d
    <2> QED
      BY <2>3, <2>4, <2>5
  <1>3. n \in G
    <2> HIDE DEF G
    <2> QED
      BY <1>1, <1>2, Counting
  <1> QED
    BY <1>3 DEF p

LEMMA ValueDifference ==
    ASSUME NEW q \in Poly, NEW p \in Poly, NEW d \in Poly, NEW x \in Int, NEW n \in Nat,
           \A k \in Nat : d[k] = q[k] - p[k]
    PROVE  Value(d, x, n) = Value(q, x, n) - Value(p, x, n)
  <1> DEFINE G == {i \in 0 .. n : Value(d, x, i) = Value(q, x, i) - Value(p, x, i)}
  <1>1. 0 \in G
    BY ValueZero
  <1>2. ASSUME NEW i \in 0 .. n - 1, i \in G PROVE i + 1 \in G
    <2> DEFINE u == Value(q, x, i)
               v == Value(p, x, i)
    <2>1. u \in Int /\ v \in Int /\ i \in Nat /\ q[i] \in Int /\ p[i] \in Int
      BY ValueType DEF Poly
    <2>2. Value(q, x, i + 1) = x * u + q[i] /\ Value(p, x, i + 1) = x * v + p[i]
      BY <2>1, ValueNext
    <2>3. Value(d, x, i + 1) = x * (u - v) + (q[i] - p[i])
      BY <1>2, <2>1, ValueNext
    <2>4. x * (u - v) + (q[i] - p[i]) = (x * u + q[i]) - (x * v + p[i])
      <3> HIDE DEF u, v
      <3>1. x * (u - v) = x * u - x * v /\ x * u \in Int /\ x * v \in Int
        BY <2>1
      <3> QED
        BY <2>1, <3>1
    <2> QED
      BY <2>2, <2>3, <2>4
  <1>3. n \in G
    <2> HIDE DEF G
    <2> QED
      BY <1>1, <1>2, Counting
  <1> QED
    BY <1>3

\* Congruent coefficients, congruent values.
LEMMA ValueMod ==
    ASSUME NEW q \in Poly, NEW p \in Poly, NEW x \in Int, NEW n \in Nat,
           \A k \in 0 .. n - 1 : q[k] % Prime = p[k] % Prime
    PROVE  Value(q, x, n) % Prime = Value(p, x, n) % Prime
  <1> DEFINE G == {i \in 0 .. n : Value(q, x, i) % Prime = Value(p, x, i) % Prime}
  <1>1. 0 \in G
    BY ValueZero
  <1>2. ASSUME NEW i \in 0 .. n - 1, i \in G PROVE i + 1 \in G
    <2> DEFINE u == Value(q, x, i)
               v == Value(p, x, i)
               a == x * u
               b == x * v
               c == q[i]
               d == p[i]
    <2>1. u \in Int /\ v \in Int /\ i \in Nat /\ c \in Int /\ d \in Int /\ u % Prime = v % Prime
          /\ c % Prime = d % Prime
      BY <1>2, ValueType DEF Poly
    <2>2. Value(q, x, i + 1) = a + c /\ Value(p, x, i + 1) = b + d
      BY <2>1, ValueNext
    <2>3. a \in Int /\ b \in Int /\ a % Prime = b % Prime
      <3> HIDE DEF u, v
      <3>1. (x * u) % Prime = (x * v) % Prime
        BY <2>1, ModScale
      <3> QED
        BY <2>1, <3>1
    <2>4. (a + c) % Prime = (b + d) % Prime
      <3> HIDE DEF a, b, c, d
      <3> QED
        BY <2>1, <2>3, ModSum
    <2> QED
      BY <2>2, <2>4
  <1>3. n \in G
    <2> HIDE DEF G
    <2> QED
      BY <1>1, <1>2, Counting
  <1> QED
    BY <1>3

\* With as many zeros as coefficients, a polynomial is zero.
LEMMA Zeros ==
    ASSUME NEW n \in Nat, NEW q \in Poly, NEW S \in SUBSET Field, n <= Cardinality(S),
           \A x \in S : Value(q, x, n) % Prime = 0
    PROVE  \A k \in 0 .. n - 1 : q[k] % Prime = 0
  <1> DEFINE Vanishes(p, T, m) == \A x \in T : Value(p, x, m) % Prime = 0
             IsZero(p, m) == \A k \in 0 .. m - 1 : p[k] % Prime = 0
             G == {m \in 0 .. n : \A p \in Poly, T \in SUBSET Field :
                      m <= Cardinality(T) /\ Vanishes(p, T, m) => IsZero(p, m)}
  <1>1. 0 \in G
    OBVIOUS
  <1>2. ASSUME NEW m \in 0 .. n - 1, m \in G PROVE m + 1 \in G
    <2> SUFFICES ASSUME NEW p \in Poly, NEW T \in SUBSET Field, m + 1 <= Cardinality(T),
                        Vanishes(p, T, m + 1)
                 PROVE  IsZero(p, m + 1)
      OBVIOUS
    <2>0. IsFiniteSet(T) /\ Cardinality(T) \in Nat
      <3>1. IsFiniteSet(Field)
        BY PrimeType, FS_Interval DEF Field
      <3> QED
        BY <3>1, FS_Subset, FS_CardinalityType
    <2>1. PICK r \in T : TRUE
      <3>1. T # {}
        BY <2>0, FS_EmptySet
      <3> QED
        BY <3>1
    <2> DEFINE w == Quotient(p, r)
               R == T \ {r}
    <2>2. r \in Int /\ w \in Poly /\ R \in SUBSET Field /\ m <= Cardinality(R)
      <3>1. Cardinality(R) = Cardinality(T) - 1
        BY <2>0, <2>1, FS_RemoveElement
      <3> QED
        BY <2>0, <2>1, <3>1, ModField, QuotientType
    <2>3. ASSUME NEW x \in R PROVE Value(w, x, m) % Prime = 0
      <3> DEFINE a == Value(p, x, m + 1)
                 b == Value(p, r, m + 1)
                 c == x - r
                 v == Value(w, x, m)
      <3>1. x \in Field /\ x \in Int /\ r \in Field /\ x # r /\ m \in Nat /\ m + 1 \in Nat
        BY <2>1, ModField
      <3>2. a \in Int /\ b \in Int /\ c \in Int /\ v \in Int
        BY <2>2, <3>1, ValueType
      <3>3. a % Prime = 0 /\ b % Prime = 0
        BY <2>1
      <3>4. c * v = a - b
        BY <2>2, <3>1, Division
      <3>5. c % Prime # 0
        <4> SUFFICES ASSUME c % Prime = 0 PROVE FALSE
          OBVIOUS
        <4>1. (c + r) % Prime = (0 + r) % Prime
          <5> DEFINE z == 0
          <5>1. z \in Int /\ c % Prime = z % Prime /\ r % Prime = r % Prime
            BY ModZero
          <5> HIDE DEF z, c
          <5>2. (c + r) % Prime = (z + r) % Prime
            BY <2>2, <3>2, <5>1, ModSum
          <5> QED
            BY <5>2 DEF z
        <4>2. c + r = x /\ 0 + r = r
          BY <2>2, <3>1
        <4> QED
          BY <3>1, <4>1, <4>2, ModField
      <3>6. (a - b) % Prime = 0
        <4> DEFINE z == 0
        <4>1. z \in Int /\ a % Prime = z % Prime /\ b % Prime = z % Prime /\ z - z = 0
          BY <3>3, ModZero
        <4> HIDE DEF z, a, b
        <4>2. (a - b) % Prime = (z - z) % Prime
          BY <3>2, <4>1, ModDifference
        <4> QED
          BY <4>1, <4>2, ModZero
      <3> HIDE DEF a, b, c, v
      <3>7. v % Prime = 0
        BY <3>2, <3>4, <3>5, <3>6, NoZeroProduct
      <3> QED
        BY <3>7 DEF v
    <2>4. \A k \in 0 .. m - 1 : w[k] % Prime = 0
      <3> HIDE DEF w, R
      <3> QED
        BY <1>2, <2>2, <2>3
    <2>5. ASSUME NEW k \in 0 .. m + 1 PROVE Value(p, r, k) % Prime = 0
      <3>1. CASE k = 0
        BY <3>1, ValueZero, ModZero
      <3>2. CASE k = m + 1
        BY <2>1, <3>2
      <3>3. CASE k # 0 /\ k # m + 1
        <4>1. k - 1 \in 0 .. m - 1 /\ k - 1 \in Nat /\ (k - 1) + 1 = k
          BY <3>3
        <4>2. w[k - 1] = Value(p, r, (k - 1) + 1)
          BY <4>1 DEF Quotient
        <4> QED
          BY <2>4, <4>1, <4>2
      <3> QED
        BY <3>1, <3>2, <3>3
    <2>6. ASSUME NEW k \in 0 .. m PROVE p[k] % Prime = 0
      <3> DEFINE a == Value(p, r, k)
                 b == Value(p, r, k + 1)
                 c == p[k]
                 d == r * a
      <3>1. a \in Int /\ b \in Int /\ c \in Int /\ d \in Int /\ a % Prime = 0 /\ b % Prime = 0
        <4>1. k \in Nat /\ k + 1 \in Nat /\ k \in 0 .. m + 1 /\ k + 1 \in 0 .. m + 1
          OBVIOUS
        <4>2. a \in Int /\ b \in Int /\ c \in Int
          BY <2>2, <4>1, ValueType DEF Poly
        <4>3. d \in Int
          <5> HIDE DEF a
          <5> QED
            BY <2>2, <4>2
        <4> QED
          BY <2>5, <4>1, <4>2, <4>3
      <3>2. b = d + c
        BY ValueNext
      <3>3. d % Prime = 0
        <4> DEFINE z == 0
        <4>1. z \in Int /\ a % Prime = z % Prime /\ r * z = z /\ z % Prime = 0
          BY <2>2, <3>1, ModZero
        <4> HIDE DEF z, a
        <4>2. (r * a) % Prime = (r * z) % Prime
          BY <2>2, <3>1, <4>1, ModScale
        <4> QED
          BY <4>1, <4>2
      <3> HIDE DEF a, b, c, d
      <3>4. c = b - d
        BY <3>1, <3>2
      <3>5. (b - d) % Prime = (0 - 0) % Prime
        <4> DEFINE z == 0
        <4>1. z \in Int /\ z % Prime = 0
          BY ModZero
        <4> HIDE DEF z
        <4>2. (b - d) % Prime = (z - z) % Prime
          BY <3>1, <3>3, <4>1, ModDifference
        <4> QED
          BY <4>2 DEF z
      <3> QED
        BY <3>4, <3>5, ModZero DEF c
    <2> QED
      BY <2>6
  <1>3. n \in G
    <2> HIDE DEF G
    <2> QED
      BY <1>1, <1>2, Counting
  <1> QED
    BY <1>3

\* Polynomials that agree in as many points as they have coefficients are equal.
LEMMA Agree ==
    ASSUME NEW n \in Nat, NEW q \in Poly, NEW p \in Poly, NEW S \in SUBSET Field,
           n <= Cardinality(S), \A x \in S : Value(q, x, n) % Prime = Value(p, x, n) % Prime
    PROVE  \A k \in 0 .. n - 1 : q[k] % Prime = p[k] % Prime
  <1> DEFINE d == [k \in Nat |-> q[k] - p[k]]
  <1>1. d \in Poly /\ \A k \in Nat : d[k] = q[k] - p[k]
    BY DEF Poly
  <1> HIDE DEF d
  <1>2. ASSUME NEW x \in S PROVE Value(d, x, n) % Prime = 0
    <2> DEFINE a == Value(q, x, n)
               b == Value(p, x, n)
    <2>1. x \in Int /\ a \in Int /\ b \in Int /\ a % Prime = b % Prime /\ b % Prime = b % Prime
      BY ModField, ValueType
    <2>2. Value(d, x, n) = a - b
      BY <1>1, <2>1, ValueDifference
    <2> HIDE DEF a, b
    <2>3. (a - b) % Prime = (b - b) % Prime /\ b - b = 0
      BY <2>1, ModDifference
    <2> QED
      BY <2>2, <2>3, ModZero
  <1>3. \A k \in 0 .. n - 1 : d[k] % Prime = 0
    BY <1>1, <1>2, Zeros
  <1>4. ASSUME NEW k \in 0 .. n - 1 PROVE q[k] % Prime = p[k] % Prime
    <2> DEFINE a == q[k]
               b == p[k]
               z == 0
               e == d[k]
    <2>1. a \in Int /\ b \in Int /\ e \in Int /\ e = a - b /\ e % Prime = z % Prime /\ z \in Int
          /\ b % Prime = b % Prime
      BY <1>1, <1>3, ModZero DEF Poly
    <2>2. e + b = a /\ z + b = b
      BY <2>1
    <2>mod. e \in Int /\ b \in Int /\ z \in Int /\ e % Prime = z % Prime /\ b % Prime = b % Prime
      BY <2>1
    <2> HIDE DEF a, b, z, e
    <2>3. (e + b) % Prime = (z + b) % Prime
      BY <2>mod, ModSum
    <2>4. a % Prime = b % Prime
      BY <2>2, <2>3
    <2> QED
      BY <2>4 DEF a, b
  <1> QED
    BY <1>4

-----------------------------------------------------------------------------
(* Powers.                                                                 *)

One == [k \in Nat |-> IF k = 0 THEN 1 ELSE 0]
\* Powers as integers, and their sums.
Pow(x, k) == Value(One, x, k + 1)

LEMMA OneType == One \in Poly /\ One[0] = 1 /\ \A k \in Nat \ {0} : One[k] = 0
  BY DEF One, Poly

LEMMA PowType == ASSUME NEW x \in Int, NEW k \in Nat PROVE Pow(x, k) \in Int
  <1>1. k + 1 \in Nat
    OBVIOUS
  <1> QED
    BY <1>1, OneType, ValueType DEF Pow

LEMMA PowZero == \A x \in Int : Pow(x, 0) = 1
  <1> SUFFICES ASSUME NEW x \in Int PROVE Pow(x, 0) = 1
    OBVIOUS
  <1>1. Value(One, x, 0 + 1) = x * 0 + 1
    BY ValueNext, ValueZero, OneType
  <1> QED
    BY <1>1 DEF Pow

LEMMA PowNext ==
    ASSUME NEW x \in Int, NEW k \in Nat
    PROVE  Pow(x, k + 1) = x * Pow(x, k)
  <1>1. k + 1 \in Nat \ {0}
    OBVIOUS
  <1>2. Value(One, x, (k + 1) + 1) = x * Value(One, x, k + 1) + 0
    BY <1>1, ValueNext, OneType
  <1>3. Pow(x, k) \in Int
    BY PowType
  <1> DEFINE p == Pow(x, k)
  <1>4. x * p + 0 = x * p
    BY <1>3
  <1> QED
    BY <1>2, <1>4 DEF Pow

LEMMA ExpPow ==
    ASSUME NEW x \in Int, NEW n \in Nat
    PROVE  Exp(x, n) = Pow(x, n) % Prime
  <1> DEFINE G == {k \in 0 .. n : Exp(x, k) = Pow(x, k) % Prime}
  <1>1. 0 \in G
    BY ExpZero, PowZero, ModZero
  <1>2. ASSUME NEW k \in 0 .. n - 1, k \in G PROVE k + 1 \in G
    <2> DEFINE e == Exp(x, k)
               p == Pow(x, k)
    <2>1. e \in Int /\ p \in Int /\ k \in Nat /\ e = p % Prime /\ e % Prime = p % Prime
      BY <1>2, ExpType, PowType, ModMod
    <2>2. Exp(x, k + 1) = (x * e) % Prime /\ Pow(x, k + 1) = x * p
      BY <2>1, ExpNext, PowNext DEF Times
    <2>3. (x * e) % Prime = (x * p) % Prime
      <3> HIDE DEF e, p
      <3> QED
        BY <2>1, ModScale
    <2> QED
      BY <2>2, <2>3
  <1>3. n \in G
    <2> HIDE DEF G
    <2> QED
      BY <1>1, <1>2, Counting
  <1> QED
    BY <1>3

\* The power sums of numbers, not reduced.
Powers(r, n, k) == Total([i \in 1 .. n |-> Pow(r[i], k)], 1 .. n)

LEMMA PowersType ==
    ASSUME NEW n \in Nat, NEW r \in [1 .. n -> Int], NEW k \in Nat
    PROVE  Powers(r, n, k) \in Int
  <1>1. IsFiniteSet(1 .. n)
    BY FS_Interval
  <1> DEFINE f == [i \in 1 .. n |-> Pow(r[i], k)]
  <1>2. \A i \in 1 .. n : f[i] \in Int
    BY PowType
  <1> HIDE DEF f
  <1>3. Total(f, 1 .. n) \in Int
    BY <1>1, <1>2, TotalType
  <1> QED
    BY <1>3 DEF Powers, f

LEMMA PowerSumPowers ==
    ASSUME NEW n \in Nat, NEW r \in [1 .. n -> Field], NEW k \in Nat
    PROVE  PowerSum(r, k) = Powers(r, n, k) % Prime
  <1> DEFINE f == [i \in 1 .. n |-> Exp(r[i], k)]
             g == [i \in 1 .. n |-> Pow(r[i], k)]
  <1>1. ASSUME NEW i \in 1 .. n PROVE f[i] \in Int /\ g[i] \in Int /\ f[i] % Prime = g[i] % Prime
    <2>1. r[i] \in Int
      BY ModField
    <2>2. Exp(r[i], k) \in Int /\ Pow(r[i], k) \in Int /\ Exp(r[i], k) = Pow(r[i], k) % Prime
      BY <2>1, ExpType, PowType, ExpPow
    <2> QED
      BY <2>2, ModMod
  <1>2. IsFiniteSet(1 .. n) /\ DOMAIN r = 1 .. n
    BY FS_Interval
  <1>3. PowerSum(r, k) = Total(f, 1 .. n) % Prime
    BY <1>2, PowerSumIs
  <1> HIDE DEF f, g
  <1>4. Total(f, 1 .. n) % Prime = Total(g, 1 .. n) % Prime
    BY <1>1, <1>2, TotalMod
  <1> QED
    BY <1>3, <1>4 DEF Powers, g

\* What Newton's identities are made of, and the same added up by roots.
Convolution(q, s, j) == Total([k \in 0 .. j - 1 |-> q[k] * s[j - k]], 0 .. j - 1)

\* One more element in a sum that counts from 0.
LEMMA TotalNext ==
    ASSUME NEW n \in Nat, NEW f, NEW g, \A k \in 0 .. n : f[k] \in Int, \A k \in 0 .. n - 1 : g[k] = f[k]
    PROVE  Total(f, 0 .. n) = f[n] + Total(g, 0 .. n - 1)
  <1>1. IsFiniteSet(0 .. n - 1) /\ 0 .. n = (0 .. n - 1) \cup {n} /\ n \notin 0 .. n - 1
    <2>1. n - 1 \in Int
      OBVIOUS
    <2>2. IsFiniteSet(0 .. n - 1)
      BY <2>1, FS_Interval
    <2>3. 0 .. n = (0 .. n - 1) \cup {n} /\ n \notin 0 .. n - 1
      OBVIOUS
    <2> QED
      BY <2>2, <2>3
  <1>2. Total(f, (0 .. n - 1) \cup {n}) = f[n] + Total(f, 0 .. n - 1)
    BY <1>1, TotalAdd
  <1>3. Total(f, 0 .. n - 1) = Total(g, 0 .. n - 1)
    <2>1. \A k \in 0 .. n - 1 : f[k] \in Int /\ g[k] = f[k]
      BY <1>1
    <2> QED
      BY <1>1, <2>1, TotalSame
  <1> QED
    BY <1>1, <1>2, <1>3

\* The first element of such a sum.
LEMMA TotalShift ==
    ASSUME NEW n \in Nat, NEW f, NEW g, \A k \in 0 .. n : f[k] \in Int,
           \A k \in 0 .. n - 1 : g[k] = f[k + 1]
    PROVE  Total(f, 0 .. n) = f[0] + Total(g, 0 .. n - 1)
  <1> DEFINE G == {m \in 0 .. n : Total(f, 0 .. m) = f[0] + Total(g, 0 .. m - 1)}
  <1>1. 0 \in G
    <2>1. 0 .. 0 - 1 = {} /\ 0 \in 0 .. n
      OBVIOUS
    <2>2. Total(f, 0 .. 0) = f[0] + Total(f, 0 .. 0 - 1)
      <3> DEFINE z == 0
      <3>1. z \in Nat /\ (\A k \in 0 .. z : f[k] \in Int) /\ \A k \in 0 .. z - 1 : f[k] = f[k]
        BY <2>1
      <3> HIDE DEF z
      <3>2. Total(f, 0 .. z) = f[z] + Total(f, 0 .. z - 1)
        BY <3>1, TotalNext
      <3> QED
        BY <3>2 DEF z
    <2> QED
      BY <2>1, <2>2, TotalEmpty
  <1>2. ASSUME NEW m \in 0 .. n - 1, m \in G PROVE m + 1 \in G
    <2>1. Total(f, 0 .. m + 1) = f[m + 1] + Total(f, 0 .. m)
      <3>1. m + 1 \in Nat /\ (m + 1) - 1 = m /\ \A k \in 0 .. m + 1 : f[k] \in Int
        OBVIOUS
      <3>2. \A k \in 0 .. (m + 1) - 1 : f[k] = f[k]
        OBVIOUS
      <3>3. Total(f, 0 .. m + 1) = f[m + 1] + Total(f, 0 .. (m + 1) - 1)
        BY <3>1, <3>2, TotalNext
      <3> QED
        BY <3>1, <3>3
    <2>2. Total(g, 0 .. m) = g[m] + Total(g, 0 .. m - 1)
      <3>1. m \in Nat /\ \A k \in 0 .. m : g[k] \in Int
        OBVIOUS
      <3>2. \A k \in 0 .. m - 1 : g[k] = g[k]
        OBVIOUS
      <3> QED
        BY <3>1, <3>2, TotalNext
    <2>3. g[m] = f[m + 1] /\ f[0] \in Int /\ f[m + 1] \in Int /\ m + 1 \in 0 .. n /\ (m + 1) - 1 = m
      OBVIOUS
    <2>4. Total(g, 0 .. m - 1) \in Int
      <3>1. IsFiniteSet(0 .. m - 1)
        BY FS_Interval
      <3>2. \A k \in 0 .. m - 1 : g[k] \in Int
        OBVIOUS
      <3> QED
        BY <3>1, <3>2, TotalType
    <2> QED
      BY <1>2, <2>1, <2>2, <2>3, <2>4
  <1>3. n \in G
    <2> HIDE DEF G
    <2> QED
      BY <1>1, <1>2, Counting
  <1> QED
    BY <1>3

ByRoots(q, r, n, j, l) == Total([i \in 1 .. n |-> Pow(r[i], l) * Value(q, r[i], j)], 1 .. n)
ByPowers(q, r, n, j, l) ==
    Total([k \in 0 .. j - 1 |-> q[k] * Powers(r, n, (j - 1 - k) + l)], 0 .. j - 1)

LEMMA Exchange ==
    ASSUME NEW n \in Nat, NEW r \in [1 .. n -> Int], NEW q \in Poly, NEW j \in Nat, NEW l \in Nat
    PROVE  ByRoots(q, r, n, j, l) = ByPowers(q, r, n, j, l)
  <1> DEFINE Left(m, e) == [i \in 1 .. n |-> Pow(r[i], e) * Value(q, r[i], m)]
             Right(m, e) == [k \in 0 .. m - 1 |-> q[k] * Powers(r, n, (m - 1 - k) + e)]
             G == {m \in 0 .. j : \A e \in Nat :
                      Total(Left(m, e), 1 .. n) = Total(Right(m, e), 0 .. m - 1)}
  <1>0. IsFiniteSet(1 .. n)
    BY FS_Interval
  <1>1. 0 \in G
    <2> SUFFICES ASSUME NEW e \in Nat
                 PROVE  Total(Left(0, e), 1 .. n) = Total(Right(0, e), 0 .. 0 - 1)
      OBVIOUS
    <2>1. ASSUME NEW i \in 1 .. n PROVE Left(0, e)[i] = 0
      <3>1. Pow(r[i], e) \in Int /\ Value(q, r[i], 0) = 0
        BY PowType, ValueZero
      <3> QED
        BY <3>1
    <2> DEFINE f == Left(0, e)
    <2>2. Total(f, 1 .. n) = 0
      <3>1. \A i \in 1 .. n : f[i] = 0
        BY <2>1
      <3> HIDE DEF f
      <3> QED
        BY <1>0, <3>1, TotalZero
    <2>3. 0 .. 0 - 1 = {}
      OBVIOUS
    <2> QED
      BY <2>2, <2>3, TotalEmpty
  <1>2. ASSUME NEW m \in 0 .. j - 1, m \in G PROVE m + 1 \in G
    <2> SUFFICES ASSUME NEW e \in Nat
                 PROVE  Total(Left(m + 1, e), 1 .. n) = Total(Right(m + 1, e), 0 .. (m + 1) - 1)
      <3>1. m + 1 \in 0 .. j
        OBVIOUS
      <3> HIDE DEF Left, Right
      <3> QED
        BY <3>1
    <2>0. m \in Nat /\ e + 1 \in Nat /\ q[m] \in Int /\ (m + 1) - 1 = m /\ m + 1 \in Nat
      BY DEF Poly
    <2> DEFINE f == Left(m + 1, e)
               g == Left(m, e + 1)
               p == [i \in 1 .. n |-> Pow(r[i], e)]
               h == [i \in 1 .. n |-> q[m] * p[i]]
               c == q[m]
    <2>1. ASSUME NEW i \in 1 .. n
          PROVE  g[i] \in Int /\ p[i] \in Int /\ h[i] \in Int /\ h[i] = c * p[i] /\ f[i] = g[i] + h[i]
      <3> DEFINE x == r[i]
                 u == Pow(x, e)
                 v == Value(q, x, m)
      <3>1. x \in Int /\ u \in Int /\ v \in Int /\ c \in Int
        BY <2>0, PowType, ValueType
      <3>2. Pow(x, e + 1) = x * u /\ Value(q, x, m + 1) = x * v + c
        BY <2>0, <3>1, PowNext, ValueNext
      <3>3. f[i] = u * (x * v + c) /\ g[i] = (x * u) * v /\ p[i] = u /\ h[i] = c * u
        BY <3>2
      <3>4. u * (x * v + c) = (x * u) * v + c * u /\ (x * u) * v \in Int /\ c * u \in Int
        <4> HIDE DEF x, u, v, c
        <4>1. x * v \in Int /\ (x * u) \in Int
          BY <3>1
        <4>2. u * (x * v + c) = u * (x * v) + u * c
          BY <3>1, <4>1
        <4>3. u * (x * v) = (x * u) * v
          BY <3>1
        <4>4. (x * u) * v \in Int /\ c * u \in Int /\ u * c = c * u
          BY <3>1, <4>1
        <4> QED
          BY <4>2, <4>3, <4>4
      <3> HIDE DEF f, g, p, h
      <3> QED
        BY <3>1, <3>3, <3>4
    <2>2. Total(f, 1 .. n) = Total(g, 1 .. n) + c * Total(p, 1 .. n)
      <3> HIDE DEF f, g, p, h, c
      <3>1. Total(f, 1 .. n) = Total(g, 1 .. n) + Total(h, 1 .. n)
        BY <1>0, <2>1, TotalPlus
      <3>2. Total(h, 1 .. n) = c * Total(p, 1 .. n)
        <4>1. c \in Int
          BY <2>0 DEF c
        <4>2. \A i \in 1 .. n : p[i] \in Int /\ h[i] = c * p[i]
          BY <2>1
        <4> QED
          BY <1>0, <4>1, <4>2, TotalTimes
      <3> QED
        BY <3>1, <3>2
    <2> DEFINE a == Right(m + 1, e)
               b == Right(m, e + 1)
    <2>3. ASSUME NEW k \in 0 .. m PROVE a[k] \in Int /\ a[k] = q[k] * Powers(r, n, (m - k) + e)
      <3>1. (m + 1) - 1 - k = m - k /\ (m - k) + e \in Nat /\ k \in Nat /\ k \in 0 .. (m + 1) - 1
        BY <2>0
      <3>2. Powers(r, n, (m - k) + e) \in Int /\ q[k] \in Int
        BY <3>1, PowersType DEF Poly
      <3>3. a[k] = q[k] * Powers(r, n, (m - k) + e)
        BY <3>1
      <3> DEFINE y == Powers(r, n, (m - k) + e)
      <3>4. q[k] * y \in Int
        <4> HIDE DEF y
        <4>1. y \in Int
          BY <3>2 DEF y
        <4> QED
          BY <3>2, <4>1
      <3> QED
        BY <3>3, <3>4
    <2>4. \A k \in 0 .. m - 1 : b[k] = a[k]
      <3> SUFFICES ASSUME NEW k \in 0 .. m - 1 PROVE b[k] = a[k]
        OBVIOUS
      <3>1. (m - 1 - k) + (e + 1) = (m - k) + e /\ k \in 0 .. m
        BY <2>0
      <3>2. b[k] = q[k] * Powers(r, n, (m - 1 - k) + (e + 1))
        OBVIOUS
      <3> QED
        BY <2>3, <3>1, <3>2
    <2>5. a[m] = c * Powers(r, n, e)
      <3>1. m \in 0 .. m /\ (m - m) + e = e
        BY <2>0
      <3> QED
        BY <2>3, <3>1
    <2>6. Total(a, 0 .. m) = a[m] + Total(b, 0 .. m - 1)
      <3> HIDE DEF a, b
      <3> QED
        BY <2>0, <2>3, <2>4, TotalNext
    <2>7. Total(g, 1 .. n) = Total(b, 0 .. m - 1)
      BY <1>2, <2>0
    <2>8. Total(p, 1 .. n) = Powers(r, n, e)
      BY DEF Powers
    <2>9. Total(b, 0 .. m - 1) \in Int /\ c * Powers(r, n, e) \in Int
      <3>1. Total(g, 1 .. n) \in Int
        <4> HIDE DEF g
        <4> QED
          BY <1>0, <2>1, TotalType
      <3>2. a[m] \in Int
        <4>1. m \in 0 .. m
          BY <2>0
        <4> QED
          BY <2>3, <4>1
      <3> QED
        BY <2>5, <2>7, <3>1, <3>2
    <2>10. Total(f, 1 .. n) = Total(a, 0 .. m)
      <3> HIDE DEF f, g, p, a, b, c
      <3> DEFINE y == Powers(r, n, e)
                 z == Total(b, 0 .. m - 1)
      <3>1. Total(f, 1 .. n) = z + c * y /\ Total(a, 0 .. m) = c * y + z
        BY <2>2, <2>5, <2>6, <2>7, <2>8
      <3>2. z \in Int /\ c * y \in Int
        BY <2>9
      <3> HIDE DEF y, z
      <3> QED
        BY <3>1, <3>2
    <2> QED
      BY <2>0, <2>10
  <1>3. j \in G
    <2> HIDE DEF G
    <2> QED
      BY <1>1, <1>2, Counting
  <1>4. Total(Left(j, l), 1 .. n) = Total(Right(j, l), 0 .. j - 1)
    BY <1>3
  <1> QED
    BY <1>4 DEF ByRoots, ByPowers

-----------------------------------------------------------------------------
(* Products of linear factors.                                             *)

IsProduct(g, rs, x, n) == g = [i \in 0 .. n |-> IF i = 0 THEN 1 ELSE Times(g[i - 1], Minus(x, rs[i]))]

LEMMA ProductExists ==
    ASSUME NEW rs, NEW x, NEW n \in Nat
    PROVE  \E g : IsProduct(g, rs, x, n)
  <1> DEFINE G == {k \in 0 .. n : \E g : IsProduct(g, rs, x, k)}
  <1>1. 0 \in G
    <2> DEFINE g == [i \in 0 .. 0 |-> 1]
    <2>1. g = [i \in 0 .. 0 |-> IF i = 0 THEN 1 ELSE Times(g[i - 1], Minus(x, rs[i]))]
      OBVIOUS
    <2> HIDE DEF g
    <2> QED
      BY <2>1 DEF IsProduct
  <1>2. ASSUME NEW k \in 0 .. n - 1, k \in G PROVE k + 1 \in G
    <2>1. PICK g : IsProduct(g, rs, x, k)
      BY <1>2
    <2> DEFINE h == [i \in 0 .. k + 1 |-> IF i = k + 1 THEN Times(g[k], Minus(x, rs[i])) ELSE g[i]]
    <2>2. ASSUME NEW i \in 0 .. k + 1
          PROVE  h[i] = IF i = 0 THEN 1 ELSE Times(h[i - 1], Minus(x, rs[i]))
      <3>1. CASE i = k + 1
        <4>1. i # 0 /\ i - 1 = k /\ k # k + 1 /\ k \in 0 .. k + 1
          BY <3>1
        <4>2. h[i] = Times(g[k], Minus(x, rs[i])) /\ h[k] = g[k]
          BY <3>1, <4>1
        <4> QED
          BY <4>1, <4>2
      <3>2. CASE i # k + 1
        <4>1. i \in 0 .. k /\ h[i] = g[i] /\ (i # 0 => h[i - 1] = g[i - 1])
          BY <3>2
        <4>2. g[i] = IF i = 0 THEN 1 ELSE Times(g[i - 1], Minus(x, rs[i]))
          BY <2>1, <4>1 DEF IsProduct
        <4> QED
          BY <4>1, <4>2
      <3> QED
        BY <3>1, <3>2
    <2>3. IsProduct(h, rs, x, k + 1)
      <3>1. h = [i \in 0 .. k + 1 |-> h[i]]
        OBVIOUS
      <3> HIDE DEF h
      <3>2. [i \in 0 .. k + 1 |-> h[i]] =
            [i \in 0 .. k + 1 |-> IF i = 0 THEN 1 ELSE Times(h[i - 1], Minus(x, rs[i]))]
        BY <2>2
      <3> QED
        BY <3>1, <3>2 DEF IsProduct
    <2>4. k + 1 \in 0 .. n
      OBVIOUS
    <2> QED
      BY <2>3, <2>4
  <1>3. n \in G
    <2> HIDE DEF G
    <2> QED
      BY <1>1, <1>2, Counting
  <1> QED
    BY <1>3

LEMMA ProductIs ==
    ASSUME NEW n \in Nat, NEW rs \in [1 .. n -> Field], NEW x
    PROVE  \E g : IsProduct(g, rs, x, n) /\ ProductAt(rs, x) = g[n]
  <1> DEFINE g == CHOOSE h : IsProduct(h, rs, x, n)
  <1>1. IsProduct(g, rs, x, n)
    BY ProductExists
  <1>2. Len(rs) = n
    <2>1. rs \in Seq(Field) /\ DOMAIN rs = 1 .. n
      OBVIOUS
    <2> QED
      BY <2>1
  <1>3. ProductAt(rs, x) = g[n]
    BY <1>2 DEF ProductAt, IsProduct
  <1> QED
    BY <1>1, <1>3

LEMMA ProductUnique ==
    ASSUME NEW n \in Nat, NEW m \in Nat, NEW us, NEW rs, NEW x, NEW g, NEW h,
           \A i \in 1 .. n : us[i] = rs[i], n <= m,
           IsProduct(g, us, x, n), IsProduct(h, rs, x, m)
    PROVE  g[n] = h[n]
  <1> DEFINE G == {i \in 0 .. n : g[i] = h[i]}
  <1>1. 0 \in G
    BY DEF IsProduct
  <1>2. ASSUME NEW i \in 0 .. n - 1, i \in G PROVE i + 1 \in G
    <2>1. i + 1 \in 0 .. n /\ i + 1 \in 0 .. m /\ (i + 1) - 1 = i /\ i + 1 # 0 /\ i + 1 \in 1 .. n
      OBVIOUS
    <2>2. g[i + 1] = Times(g[i], Minus(x, us[i + 1])) /\ h[i + 1] = Times(h[i], Minus(x, rs[i + 1]))
      BY <2>1 DEF IsProduct
    <2> QED
      BY <1>2, <2>1, <2>2
  <1>3. n \in G
    <2> HIDE DEF G
    <2> QED
      BY <1>1, <1>2, Counting
  <1> QED
    BY <1>3

LEMMA ProductZero == \A rs \in [1 .. 0 -> Field] : \A x : ProductAt(rs, x) = 1
  <1> SUFFICES ASSUME NEW rs \in [1 .. 0 -> Field], NEW x PROVE ProductAt(rs, x) = 1
    OBVIOUS
  <1>1. PICK g : IsProduct(g, rs, x, 0) /\ ProductAt(rs, x) = g[0]
    BY ProductIs
  <1> QED
    BY <1>1 DEF IsProduct

\* All but the last.
Front(rs, n) == [i \in 1 .. n |-> rs[i]]

LEMMA ProductNext ==
    ASSUME NEW n \in Nat, NEW rs \in [1 .. n + 1 -> Field], NEW x
    PROVE  /\ Front(rs, n) \in [1 .. n -> Field]
           /\ ProductAt(rs, x) = Times(ProductAt(Front(rs, n), x), Minus(x, rs[n + 1]))
  <1> DEFINE us == Front(rs, n)
  <1>0. n + 1 \in Nat /\ n <= n + 1 /\ us \in [1 .. n -> Field] /\ (n + 1) - 1 = n /\ n + 1 # 0
        /\ n + 1 \in 0 .. n + 1
    BY DEF Front
  <1>1. \A i \in 1 .. n : us[i] = rs[i]
    BY DEF Front
  <1> HIDE DEF us
  <1>2. PICK g : IsProduct(g, rs, x, n + 1) /\ ProductAt(rs, x) = g[n + 1]
    BY <1>0, ProductIs
  <1>3. PICK h : IsProduct(h, us, x, n) /\ ProductAt(us, x) = h[n]
    BY <1>0, ProductIs
  <1>4. h[n] = g[n]
    BY <1>0, <1>1, <1>2, <1>3, ProductUnique
  <1>5. g[n + 1] = Times(g[n], Minus(x, rs[n + 1]))
    BY <1>0, <1>2 DEF IsProduct
  <1> QED
    BY <1>0, <1>2, <1>3, <1>4, <1>5 DEF us

LEMMA ProductType ==
    ASSUME NEW n \in Nat, NEW rs \in [1 .. n -> Field], NEW x \in Field
    PROVE  ProductAt(rs, x) \in Field
  <1>1. CASE n = 0
    BY <1>1, ProductZero, ModZero
  <1>2. CASE n # 0
    <2>1. PICK g : IsProduct(g, rs, x, n) /\ ProductAt(rs, x) = g[n]
      BY ProductIs
    <2> DEFINE G == {k \in 0 .. n : g[k] \in Field}
    <2>2. 0 \in G
      BY <2>1, ModZero DEF IsProduct
    <2>3. ASSUME NEW k \in 0 .. n - 1, k \in G PROVE k + 1 \in G
      <3>1. k + 1 \in 0 .. n /\ (k + 1) - 1 = k /\ k + 1 # 0 /\ k + 1 \in 1 .. n
        OBVIOUS
      <3>2. g[k + 1] = Times(g[k], Minus(x, rs[k + 1]))
        BY <2>1, <3>1 DEF IsProduct
      <3>3. g[k] \in Int /\ Minus(x, rs[k + 1]) \in Int
        BY <2>3, <3>1, ModField, MinusMod
      <3>4. g[k + 1] \in Field
        BY <3>2, <3>3, TimesMod
      <3> QED
        BY <3>1, <3>4
    <2>4. n \in G
      <3> HIDE DEF G
      <3> QED
        BY <2>2, <2>3, Counting
    <2> QED
      BY <2>1, <2>4
  <1> QED
    BY <1>1, <1>2

-----------------------------------------------------------------------------
(***************************************************************************)
(* The coefficients q of the product of x - r[i], with what they have to   *)
(* do with the r[i] one by one: the values of the beginnings of q at all   *)
(* r[i] add up to a multiple of the next coefficient.                      *)
(***************************************************************************)
BeginningsAt(q, r, n, j) == Total([i \in 1 .. n |-> Value(q, r[i], j)], 1 .. n)

Beginnings(q, r, n) == \A j \in Nat : BeginningsAt(q, r, n, j + 1) = (n - j) * q[j]

Expands(q, r, n) ==
    /\ q \in Poly /\ q[0] = 1
    /\ \A k \in Nat : k > n => q[k] = 0
    /\ Beginnings(q, r, n)
    /\ \A x \in Field : ProductAt(r, x) = Value(q, x, n + 1) % Prime

LEMMA IntTimes == \A a, b \in Int : a * b \in Int
  OBVIOUS

LEMMA TotalLast ==
    ASSUME NEW n \in Nat, NEW f, \A i \in 1 .. n + 1 : f[i] \in Int
    PROVE  Total(f, 1 .. n + 1) = f[n + 1] + Total(f, 1 .. n)
  <1>1. IsFiniteSet(1 .. n)
    BY FS_Interval
  <1>2. 1 .. n + 1 = (1 .. n) \cup {n + 1} /\ n + 1 \notin 1 .. n
    OBVIOUS
  <1>3. Total(f, (1 .. n) \cup {n + 1}) = f[n + 1] + Total(f, 1 .. n)
    BY <1>1, <1>2, TotalAdd
  <1> QED
    BY <1>2, <1>3

LEMMA BeginningsNext ==
    ASSUME NEW n \in Nat, NEW r \in [1 .. n + 1 -> Int], NEW us \in [1 .. n -> Int],
           \A i \in 1 .. n : us[i] = r[i], NEW q \in Poly, NEW j \in Nat, Beginnings(q, us, n)
    PROVE  BeginningsAt(ByFactor(q, r[n + 1]), r, n + 1, j + 1) =
           ((n + 1) - j) * ByFactor(q, r[n + 1])[j]
  <1> DEFINE a == r[n + 1]
             p == ByFactor(q, a)
             b == IF j = 0 THEN 0 ELSE q[j - 1]
             c == q[j]
             f == [i \in 1 .. n + 1 |-> Value(p, r[i], j + 1)]
             g == [i \in 1 .. n |-> Value(q, us[i], j + 1)]
             h == [i \in 1 .. n |-> Value(q, us[i], j)]
             e == [i \in 1 .. n |-> a * h[i]]
  <1>0. IsFiniteSet(1 .. n) /\ a \in Int /\ c \in Int /\ b \in Int
    <2>1. n + 1 \in 1 .. n + 1
      OBVIOUS
    <2>2. j # 0 => j - 1 \in Nat
      OBVIOUS
    <2>3. \A i \in Nat : q[i] \in Int
      BY DEF Poly
    <2>4. b \in Int /\ c \in Int
      BY <2>2, <2>3
    <2>5. a \in Int
      BY <2>1
    <2> HIDE DEF a, b, c
    <2> QED
      BY <2>4, <2>5, FS_Interval
  <1>1. p \in Poly /\ p[j] = c - a * b
    <2>1. p \in Poly
      BY <1>0, ByFactorType
    <2>2. CASE j = 0
      <3>1. p[j] = c /\ b = 0
        BY <2>2 DEF ByFactor
      <3> HIDE DEF a, b, c, p
      <3>2. c - a * 0 = c
        BY <1>0
      <3> QED
        BY <2>1, <3>1, <3>2
    <2>3. CASE j # 0
      BY <2>1, <2>3 DEF ByFactor
    <2> QED
      BY <2>2, <2>3
  <1>2. ASSUME NEW i \in 1 .. n PROVE f[i] \in Int /\ g[i] \in Int /\ h[i] \in Int /\ e[i] = a * h[i]
                                      /\ f[i] = g[i] - e[i]
    <2> DEFINE x == r[i]
    <2>1. x \in Int /\ us[i] = x /\ j + 1 \in Nat /\ i \in 1 .. n + 1
      <3>1. i \in 1 .. n + 1
        OBVIOUS
      <3> QED
        BY <3>1
    <2>3. f[i] = Value(p, x, j + 1) /\ g[i] = Value(q, x, j + 1) /\ h[i] = Value(q, x, j)
      BY <2>1
    <2>4. Value(p, x, j + 1) = Value(q, x, j + 1) - a * Value(q, x, j)
      <3> HIDE DEF x, a
      <3> QED
        BY <1>0, <2>1, ValueByFactor
    <2> HIDE DEF x, p, a
    <2>2. /\ Value(p, x, j + 1) \in Int /\ Value(q, x, j + 1) \in Int /\ Value(q, x, j) \in Int
          /\ Value(p, x, j + 1) = Value(q, x, j + 1) - a * Value(q, x, j)
      BY <1>1, <2>1, <2>4, ValueType
    <2> HIDE DEF f, g, h
    <2> QED
      BY <2>2, <2>3
  <1>3. f[n + 1] = c
    <2>1. a \in Int /\ j \in Nat /\ Value(q, a, j) \in Int /\ n + 1 \in 1 .. n + 1
      BY <1>0, ValueType
    <2>2. Value(p, a, j + 1) = Value(q, a, j + 1) - a * Value(q, a, j)
      BY <2>1, ValueByFactor
    <2>3. Value(q, a, j + 1) = a * Value(q, a, j) + c
      BY ValueNext
    <2> DEFINE y == a * Value(q, a, j)
    <2>4. y \in Int
      <3> DEFINE v == Value(q, a, j)
      <3>1. v \in Int
        BY <2>1
      <3> HIDE DEF v
      <3>2. a * v \in Int
        BY <2>1, <3>1
      <3> QED
        BY <3>2 DEF v
    <2>5. f[n + 1] = Value(p, a, j + 1)
      BY <2>1
    <2> HIDE DEF y, f, p, a, c
    <2>6. f[n + 1] = (y + c) - y
      BY <2>2, <2>3, <2>5 DEF y
    <2> QED
      BY <1>0, <2>4, <2>6
  <1>4. Total(g, 1 .. n) = (n - j) * c
    BY DEF BeginningsAt, Beginnings
  <1>5. Total(h, 1 .. n) = ((n + 1) - j) * b
    <2>1. CASE j = 0
      <3>1. \A i \in 1 .. n : h[i] = 0
        BY <2>1, ValueZero
      <3> HIDE DEF h
      <3>2. Total(h, 1 .. n) = 0
        BY <1>0, <3>1, TotalZero
      <3>3. b = 0 /\ ((n + 1) - j) * 0 = 0
        BY <2>1
      <3> QED
        BY <3>2, <3>3
    <2>2. CASE j # 0
      <3>1. j - 1 \in Nat /\ (j - 1) + 1 = j /\ n - (j - 1) = (n + 1) - j
        BY <2>2
      <3>2. BeginningsAt(q, us, n, (j - 1) + 1) = (n - (j - 1)) * q[j - 1]
        BY <3>1 DEF Beginnings
      <3> QED
        BY <2>2, <3>1, <3>2 DEF BeginningsAt
    <2> QED
      BY <2>1, <2>2
  <1>6. Total(f, 1 .. n + 1) = c + Total(f, 1 .. n)
    <2>1. \A i \in 1 .. n + 1 : f[i] \in Int
      <3> SUFFICES ASSUME NEW i \in 1 .. n + 1 PROVE f[i] \in Int
        OBVIOUS
      <3>1. i \in 1 .. n \/ i = n + 1
        OBVIOUS
      <3> HIDE DEF f, c
      <3> QED
        BY <1>0, <1>2, <1>3, <3>1
    <2> HIDE DEF f, c
    <2> QED
      BY <1>3, <2>1, TotalLast
  <1>7. Total(g, 1 .. n) = Total(f, 1 .. n) + Total(e, 1 .. n)
    <2>1. ASSUME NEW i \in 1 .. n PROVE f[i] \in Int /\ e[i] \in Int /\ g[i] = f[i] + e[i]
      <3>1. f[i] \in Int /\ g[i] \in Int /\ h[i] \in Int /\ e[i] = a * h[i] /\ f[i] = g[i] - e[i]
        BY <1>2
      <3> HIDE DEF f, g, h, e, a
      <3>2. e[i] \in Int
        BY <1>0, <3>1, IntTimes
      <3> QED
        BY <3>1, <3>2
    <2> HIDE DEF f, g, e
    <2> QED
      BY <1>0, <2>1, TotalPlus
  <1>8. Total(e, 1 .. n) = a * Total(h, 1 .. n)
    <2>1. \A i \in 1 .. n : h[i] \in Int /\ e[i] = a * h[i]
      BY <1>2
    <2> HIDE DEF e, h, a
    <2> QED
      BY <1>0, <2>1, TotalTimes
  <1>9. Total(f, 1 .. n) \in Int
    <2>1. \A i \in 1 .. n : f[i] \in Int
      BY <1>2
    <2> HIDE DEF f
    <2> QED
      BY <1>0, <2>1, TotalType
  <1>10. Total(f, 1 .. n + 1) = ((n + 1) - j) * p[j]
    <2> HIDE DEF f, g, h, e, a, b, c, p
    <2> DEFINE t == Total(f, 1 .. n)
               d == n - j
    <2>1. t \in Int /\ d \in Int /\ (n + 1) - j = d + 1
      BY <1>9
    <2>2. d * c = t + a * ((d + 1) * b)
      BY <1>4, <1>5, <1>7, <1>8, <2>1
    <2>3. Total(f, 1 .. n + 1) = c + t
      BY <1>6
    <2> HIDE DEF t, d
    <2>4. (d + 1) * (c - a * b) = (d + 1) * c - (d + 1) * (a * b)
      <3>1. a * b \in Int
        BY <1>0
      <3> QED
        BY <1>0, <2>1, <3>1
    <2>5. (d + 1) * (a * b) = a * ((d + 1) * b) /\ (d + 1) * c = d * c + c
      BY <1>0, <2>1
    <2>6. a * ((d + 1) * b) \in Int /\ d * c \in Int
      BY <1>0, <2>1
    <2>7. c + t = (d + 1) * (c - a * b)
      BY <1>0, <2>1, <2>2, <2>4, <2>5, <2>6
    <2> QED
      BY <1>1, <2>1, <2>3, <2>7
  <1> QED
    BY <1>10 DEF BeginningsAt

LEMMA ProductValue ==
    ASSUME NEW n \in Nat, NEW r \in [1 .. n + 1 -> Field], NEW q \in Poly, q[n + 1] = 0, NEW x \in Field,
           ProductAt(Front(r, n), x) = Value(q, x, n + 1) % Prime
    PROVE  ProductAt(r, x) = Value(ByFactor(q, r[n + 1]), x, (n + 1) + 1) % Prime
  <1> DEFINE a == r[n + 1]
             v == Value(q, x, n + 1)
             w == Value(q, x, (n + 1) + 1)
             y == ProductAt(Front(r, n), x)
             m == Minus(x, a)
  <1>1. a \in Int /\ x \in Int /\ n + 1 \in Nat /\ v \in Int
    <2>1. n + 1 \in 1 .. n + 1 /\ n + 1 \in Nat
      OBVIOUS
    <2>2. a \in Int /\ x \in Int
      BY <2>1, ModField
    <2> QED
      BY <2>1, <2>2, ValueType
  <1>2. ProductAt(r, x) = (y * m) % Prime
    BY ProductNext DEF Times
  <1>3. Value(ByFactor(q, a), x, (n + 1) + 1) = w - a * v
    BY <1>1, ValueByFactor
  <1>4. w = x * v + 0
    BY <1>1, ValueNext
  <1>5. y \in Int /\ m \in Int /\ y % Prime = v % Prime /\ m % Prime = (x - a) % Prime /\ x - a \in Int
    <2>1. y = v % Prime
      OBVIOUS
    <2>2. y \in Int /\ y % Prime = v % Prime
      <3> HIDE DEF y, v
      <3> QED
        BY <1>1, <2>1, ModType, ModMod
    <2>3. m \in Int /\ m % Prime = (x - a) % Prime
      BY <1>1, MinusMod
    <2> HIDE DEF y, v, m, a
    <2> QED
      BY <1>1, <2>2, <2>3
  <1>6. (y * m) % Prime = (v * (x - a)) % Prime
    <2> DEFINE d == x - a
    <2>1. d \in Int /\ m % Prime = d % Prime
      BY <1>5
    <2> HIDE DEF y, v, m, d
    <2>2. (y * m) % Prime = (v * d) % Prime
      BY <1>1, <1>5, <2>1, ModProduct
    <2> QED
      BY <2>2 DEF d
  <1>7. v * (x - a) = w - a * v
    <2> HIDE DEF v, w, a
    <2>1. v * (x - a) = v * x - v * a /\ v * x = x * v /\ v * a = a * v /\ x * v \in Int
      BY <1>1
    <2> QED
      BY <1>4, <2>1
  <1> QED
    BY <1>2, <1>3, <1>6, <1>7

LEMMA ExpandsAll ==
    ASSUME NEW n \in Nat, NEW r \in [1 .. n -> Field]
    PROVE  \E q : Expands(q, r, n)
  <1> DEFINE G == {m \in 0 .. n : \A rs \in [1 .. m -> Field] : \E q : Expands(q, rs, m)}
  <1>1. 0 \in G
    <2> SUFFICES ASSUME NEW rs \in [1 .. 0 -> Field] PROVE \E q : Expands(q, rs, 0)
      OBVIOUS
    <2>1. ASSUME NEW j \in Nat PROVE BeginningsAt(One, rs, 0, j + 1) = (0 - j) * One[j]
      <3>1. 1 .. 0 = {}
        OBVIOUS
      <3>2. BeginningsAt(One, rs, 0, j + 1) = 0
        BY <3>1, TotalEmpty DEF BeginningsAt
      <3>3. CASE j = 0
        <4>1. (0 - 0) * One[0] = 0
          BY OneType
        <4> QED
          BY <3>2, <3>3, <4>1
      <3>4. CASE j # 0
        <4>1. One[j] = 0 /\ (0 - j) * 0 = 0
          BY <3>4, OneType
        <4> QED
          BY <3>2, <4>1
      <3> QED
        BY <3>3, <3>4
    <2>2. ASSUME NEW x \in Field PROVE ProductAt(rs, x) = Value(One, x, 0 + 1) % Prime
      <3>1. Pow(x, 0) = 1
        BY PowZero, ModField
      <3> QED
        BY <3>1, ProductZero, ModZero DEF Pow
    <2>3. \A k \in Nat : k > 0 => One[k] = 0
      BY OneType
    <2>4. Beginnings(One, rs, 0)
      BY <2>1 DEF Beginnings
    <2> QED
      BY <2>2, <2>3, <2>4, OneType DEF Expands
  <1>2. ASSUME NEW m \in 0 .. n - 1, m \in G PROVE m + 1 \in G
    <2> SUFFICES ASSUME NEW rs \in [1 .. m + 1 -> Field] PROVE \E q : Expands(q, rs, m + 1)
      OBVIOUS
    <2> DEFINE us == Front(rs, m)
               a == rs[m + 1]
    <2>0. m \in Nat /\ m + 1 \in Nat
      OBVIOUS
    <2>1. us \in [1 .. m -> Field] /\ us \in [1 .. m -> Int] /\ rs \in [1 .. m + 1 -> Int]
          /\ \A i \in 1 .. m : us[i] = rs[i]
      <3>1. us \in [1 .. m -> Field] /\ \A i \in 1 .. m : us[i] = rs[i]
        BY DEF Front
      <3> HIDE DEF us
      <3> QED
        BY <3>1, ModField
    <2> HIDE DEF us
    <2>2. PICK q : Expands(q, us, m)
      BY <1>2, <2>1
    <2> DEFINE p == ByFactor(q, a)
    <2>3. q \in Poly /\ a \in Int /\ Beginnings(q, us, m)
      <3>1. m + 1 \in 1 .. m + 1
        OBVIOUS
      <3> QED
        BY <2>1, <2>2, <3>1 DEF Expands
    <2>4. p \in Poly /\ p[0] = 1
      BY <2>2, <2>3, ByFactorType DEF Expands
    <2>5. ASSUME NEW k \in Nat, k > m + 1 PROVE p[k] = 0
      <3>1. k # 0 /\ k - 1 \in Nat /\ k - 1 > m /\ k > m
        BY <2>5, <2>0
      <3>2. q[k] = 0 /\ q[k - 1] = 0
        BY <2>2, <3>1 DEF Expands
      <3>3. p[k] = q[k] - a * q[k - 1]
        BY <3>1 DEF ByFactor
      <3>4. 0 - a * 0 = 0
        BY <2>3
      <3> QED
        BY <3>2, <3>3, <3>4
    <2>6. Beginnings(p, rs, m + 1)
      BY <2>0, <2>1, <2>3, BeginningsNext DEF Beginnings
    <2>7. ASSUME NEW x \in Field PROVE ProductAt(rs, x) = Value(p, x, (m + 1) + 1) % Prime
      <3>1. q[m + 1] = 0 /\ ProductAt(us, x) = Value(q, x, m + 1) % Prime
        BY <2>0, <2>2 DEF Expands
      <3> QED
        BY <2>0, <2>3, <3>1, ProductValue DEF us
    <2>8. Expands(p, rs, m + 1)
      <3> HIDE DEF p
      <3> QED
        BY <2>4, <2>5, <2>6, <2>7 DEF Expands
    <2> QED
      BY <2>8
  <1>3. n \in G
    <2> HIDE DEF G
    <2> QED
      BY <1>1, <1>2, Counting
  <1> QED
    BY <1>3

\* Newton's identities.
LEMMA NewtonExact ==
    ASSUME NEW n \in Nat, NEW r \in [1 .. n -> Int], NEW q \in Poly, Beginnings(q, r, n), NEW j \in Nat
    PROVE  j * q[j] + Convolution(q, [k \in Nat |-> Powers(r, n, k)], j) = 0
  <1> DEFINE s == [k \in Nat |-> Powers(r, n, k)]
             c == q[j]
             f == [i \in 1 .. n |-> Pow(r[i], 1) * Value(q, r[i], j)]
             g == [i \in 1 .. n |-> c]
             h == [i \in 1 .. n |-> Value(q, r[i], j + 1)]
  <1>0. IsFiniteSet(1 .. n) /\ c \in Int
    BY FS_Interval DEF Poly
  <1>1. Total(f, 1 .. n) = Convolution(q, s, j)
    <2> DEFINE a == [k \in 0 .. j - 1 |-> q[k] * Powers(r, n, (j - 1 - k) + 1)]
               b == [k \in 0 .. j - 1 |-> q[k] * s[j - k]]
    <2>1. Total(f, 1 .. n) = Total(a, 0 .. j - 1)
      <3>1. ByRoots(q, r, n, j, 1) = ByPowers(q, r, n, j, 1)
        BY Exchange
      <3> QED
        BY <3>1 DEF ByRoots, ByPowers
    <2>2. a = b
      <3>1. ASSUME NEW k \in 0 .. j - 1 PROVE a[k] = b[k]
        <4>1. (j - 1 - k) + 1 = j - k /\ j - k \in Nat
          OBVIOUS
        <4> QED
          BY <4>1
      <3> QED
        BY <3>1
    <2> QED
      BY <2>1, <2>2 DEF Convolution
  <1>2. Total(h, 1 .. n) = (n - j) * c
    BY DEF Beginnings, BeginningsAt
  <1>3. ASSUME NEW i \in 1 .. n PROVE f[i] \in Int /\ g[i] \in Int /\ g[i] = c * 1 /\ h[i] = f[i] + g[i]
    <2> DEFINE x == r[i]
               v == Value(q, x, j)
    <2>1. x \in Int /\ v \in Int
      BY ValueType
    <2>2. Pow(x, 1) = x
      <3>1. Pow(x, 0 + 1) = x * 1
        BY <2>1, PowNext, PowZero
      <3> QED
        BY <2>1, <3>1
    <2>3. f[i] = x * v /\ g[i] = c
      BY <2>2
    <2>4. h[i] = x * v + c
      BY <2>1, ValueNext
    <2> HIDE DEF f, g, h, x, v, c
    <2>5. x * v \in Int
      BY <2>1
    <2> QED
      BY <1>0, <2>3, <2>4, <2>5
  <1>4. Total(h, 1 .. n) = Total(f, 1 .. n) + Total(g, 1 .. n)
    <2> HIDE DEF f, g, h, c
    <2> QED
      BY <1>0, <1>3, TotalPlus
  <1>5. Total(g, 1 .. n) = c * n
    <2> DEFINE ones == [i \in 1 .. n |-> 1]
    <2>1. \A i \in 1 .. n : ones[i] = 1 /\ ones[i] \in Int /\ g[i] = c * ones[i]
      BY <1>3
    <2> HIDE DEF ones, g, c
    <2>2. Total(g, 1 .. n) = c * Total(ones, 1 .. n)
      BY <1>0, <2>1, TotalTimes
    <2>3. Total(ones, 1 .. n) = Cardinality(1 .. n)
      BY <1>0, <2>1, TotalOnes
    <2>4. Cardinality(1 .. n) = n
      BY FS_Interval
    <2> QED
      BY <2>2, <2>3, <2>4
  <1>6. Total(f, 1 .. n) \in Int
    <2> HIDE DEF f
    <2> QED
      BY <1>0, <1>3, TotalType
  <1>7. j * c + Total(f, 1 .. n) = 0
    <2> HIDE DEF f, g, h, c
    <2> DEFINE t == Total(f, 1 .. n)
    <2>1. (n - j) * c = t + c * n /\ t \in Int
      BY <1>2, <1>4, <1>5, <1>6
    <2> HIDE DEF t
    <2>2. (n - j) * c = c * n - j * c /\ c * n \in Int /\ j * c \in Int
      BY <1>0
    <2>3. j * c + t = 0
      BY <2>1, <2>2
    <2> QED
      BY <2>3 DEF t
  <1> QED
    BY <1>1, <1>7

-----------------------------------------------------------------------------
(* Newton's identities modulo Prime: coefficients and power sums determine *)
(* each other.                                                             *)

\* Newton's identities between coefficients q and power sums s.
Newton(q, s, n) == \A j \in 1 .. n : (j * q[j] + Convolution(q, s, j)) % Prime = 0

\* The same numbers modulo Prime, from an index to another.
Same(q, p, i, n) == \A k \in i .. n : q[k] % Prime = p[k] % Prime

Products(q, s, i, j, n) == Total([k \in 0 .. n |-> q[k + i] * s[j - k]], 0 .. n)

LEMMA SumOfProducts ==
    ASSUME NEW n \in Int, NEW q \in Poly, NEW s \in Poly, NEW p \in Poly, NEW t \in Poly,
           NEW i \in Nat, NEW j \in Int, j > n,
           Same(q, p, i, i + n), Same(s, t, j - n, j)
    PROVE  /\ Products(q, s, i, j, n) \in Int /\ Products(p, t, i, j, n) \in Int
           /\ Products(q, s, i, j, n) % Prime = Products(p, t, i, j, n) % Prime
  <1> DEFINE f == [k \in 0 .. n |-> q[k + i] * s[j - k]]
             g == [k \in 0 .. n |-> p[k + i] * t[j - k]]
  <1>1. IsFiniteSet(0 .. n)
    BY FS_Interval
  <1>2. ASSUME NEW k \in 0 .. n
        PROVE  f[k] \in Int /\ g[k] \in Int /\ f[k] % Prime = g[k] % Prime
    <2> DEFINE a == q[k + i]
               b == s[j - k]
               c == p[k + i]
               d == t[j - k]
    <2>1. k + i \in Nat /\ j - k \in Nat /\ k + i \in i .. i + n /\ j - k \in j - n .. j
      OBVIOUS
    <2>2. a \in Int /\ b \in Int /\ c \in Int /\ d \in Int
      BY <2>1 DEF Poly
    <2>3. a % Prime = c % Prime /\ b % Prime = d % Prime
      BY <2>1 DEF Same
    <2>4. f[k] = a * b /\ g[k] = c * d
      OBVIOUS
    <2> HIDE DEF a, b, c, d, f, g
    <2>5. (a * b) % Prime = (c * d) % Prime
      BY <2>2, <2>3, ModProduct
    <2> QED
      BY <2>2, <2>4, <2>5, IntTimes
  <1> HIDE DEF f, g
  <1>3. Total(f, 0 .. n) \in Int /\ Total(g, 0 .. n) \in Int
    BY <1>1, <1>2, TotalType
  <1>4. Total(f, 0 .. n) % Prime = Total(g, 0 .. n) % Prime
    BY <1>1, <1>2, TotalMod
  <1> QED
    BY <1>3, <1>4 DEF f, g, Products

LEMMA ConvolutionMod ==
    ASSUME NEW q \in Poly, NEW s \in Poly, NEW p \in Poly, NEW t \in Poly, NEW j \in Nat,
           Same(q, p, 0, j - 1), Same(s, t, 1, j)
    PROVE  /\ Convolution(q, s, j) \in Int /\ Convolution(p, t, j) \in Int
           /\ Convolution(q, s, j) % Prime = Convolution(p, t, j) % Prime
  <1> DEFINE f == [k \in 0 .. j - 1 |-> q[k + 0] * s[j - k]]
             g == [k \in 0 .. j - 1 |-> p[k + 0] * t[j - k]]
             n == j - 1
             z == 0
  <1>1. Convolution(q, s, j) = Total(f, 0 .. j - 1) /\ Convolution(p, t, j) = Total(g, 0 .. j - 1)
    <2>1. \A k \in 0 .. j - 1 : k + 0 = k
      OBVIOUS
    <2>2. f = [k \in 0 .. j - 1 |-> q[k] * s[j - k]] /\ g = [k \in 0 .. j - 1 |-> p[k] * t[j - k]]
      BY <2>1
    <2> HIDE DEF f, g
    <2> QED
      BY <2>2 DEF Convolution
  <1>2. n \in Int /\ z \in Nat /\ j \in Int /\ j > n /\ j - n = 1 /\ z + n = j - 1 /\ z = 0
    OBVIOUS
  <1>3. Same(q, p, z, z + n) /\ Same(s, t, j - n, j)
    BY <1>2
  <1>4. /\ Total(f, 0 .. n) \in Int /\ Total(g, 0 .. n) \in Int
        /\ Total(f, 0 .. n) % Prime = Total(g, 0 .. n) % Prime
    <2> HIDE DEF n, z
    <2>1. /\ Products(q, s, z, j, n) \in Int /\ Products(p, t, z, j, n) \in Int
          /\ Products(q, s, z, j, n) % Prime = Products(p, t, z, j, n) % Prime
      BY <1>2, <1>3, SumOfProducts
    <2> QED
      BY <2>1 DEF n, z, Products
  <1> QED
    BY <1>1, <1>4

\* The convolution but for its first product.
LaterTerms(q, s, j) == Total([k \in 0 .. j - 2 |-> q[k + 1] * s[(j - 1) - k]], 0 .. j - 2)

LEMMA TailMod ==
    ASSUME NEW q \in Poly, NEW s \in Poly, NEW p \in Poly, NEW t \in Poly, NEW j \in Nat \ {0},
           Same(q, p, 1, j - 1), Same(s, t, 1, j - 1)
    PROVE  /\ LaterTerms(q, s, j) \in Int /\ LaterTerms(p, t, j) \in Int
           /\ LaterTerms(q, s, j) % Prime = LaterTerms(p, t, j) % Prime
  <1> DEFINE n == j - 2
             m == j - 1
             i == 1
  <1>1. n \in Int /\ i \in Nat /\ m \in Int /\ m > n /\ m - n = 1 /\ i + n = m /\ i = 1
    OBVIOUS
  <1>2. Same(q, p, i, i + n) /\ Same(s, t, m - n, m)
    BY <1>1
  <1> HIDE DEF n, m, i
  <1>3. /\ Products(q, s, i, m, n) \in Int /\ Products(p, t, i, m, n) \in Int
        /\ Products(q, s, i, m, n) % Prime = Products(p, t, i, m, n) % Prime
    BY <1>1, <1>2, SumOfProducts
  <1> QED
    BY <1>3 DEF n, m, i, LaterTerms, Products

LEMMA ConvolutionTail ==
    ASSUME NEW q \in Poly, NEW s \in Poly, NEW j \in Nat \ {0}, q[0] = 1
    PROVE  Convolution(q, s, j) = s[j] + LaterTerms(q, s, j)
  <1> DEFINE n == j - 1
             f == [k \in 0 .. n |-> q[k] * s[j - k]]
             g == [k \in 0 .. j - 2 |-> q[k + 1] * s[(j - 1) - k]]
  <1>0. n \in Nat /\ n - 1 = j - 2 /\ n + 1 = j
    OBVIOUS
  <1>1. ASSUME NEW k \in 0 .. n PROVE f[k] \in Int
    <2>1. k \in Nat /\ j - k \in Nat
      BY <1>0
    <2>2. q[k] \in Int /\ s[j - k] \in Int
      BY <2>1 DEF Poly
    <2> QED
      BY <2>2, IntTimes
  <1>2. ASSUME NEW k \in 0 .. n - 1 PROVE g[k] = f[k + 1]
    <2>1. k + 1 \in 0 .. n /\ j - (k + 1) = (j - 1) - k /\ k \in 0 .. j - 2
      BY <1>0
    <2> QED
      BY <2>1
  <1>3. f[0] = s[j]
    <2>1. s[j] \in Int /\ j - 0 = j /\ 0 \in 0 .. n
      BY <1>0 DEF Poly
    <2>2. f[0] = 1 * s[j]
      BY <2>1
    <2> QED
      BY <2>1, <2>2
  <1>4. Total(f, 0 .. n) = f[0] + Total(g, 0 .. n - 1)
    <2> HIDE DEF f, g, n
    <2> QED
      BY <1>0, <1>1, <1>2, TotalShift
  <1> QED
    BY <1>0, <1>3, <1>4 DEF Convolution, LaterTerms

\* With the same power sums, the same coefficients.
LEMMA SameCoefficients ==
    ASSUME NEW n \in Nat, n < Prime, NEW q \in Poly, NEW p \in Poly, NEW s \in Poly, NEW t \in Poly,
           q[0] = 1, p[0] = 1, Newton(q, s, n), Newton(p, t, n), Same(s, t, 1, n)
    PROVE  Same(q, p, 0, n)
  <1> DEFINE G == {m \in 0 .. n : Same(q, p, 0, m)}
  <1>1. 0 \in G
    BY DEF Same
  <1>2. ASSUME NEW m \in 0 .. n - 1, m \in G PROVE m + 1 \in G
    <2> DEFINE j == m + 1
               a == q[j]
               b == p[j]
               c == Convolution(q, s, j)
               d == Convolution(p, t, j)
    <2>0. j \in Nat /\ j \in 1 .. n /\ j - 1 = m /\ j \in 0 .. n
      OBVIOUS
    <2>1. Same(q, p, 0, j - 1) /\ Same(s, t, 1, j)
      BY <1>2, <2>0 DEF Same
    <2>2. c \in Int /\ d \in Int /\ c % Prime = d % Prime /\ a \in Int /\ b \in Int
      <3>1. a \in Int /\ b \in Int
        BY <2>0 DEF Poly
      <3> HIDE DEF j
      <3>2. j \in Nat
        BY <2>0
      <3>3. /\ Convolution(q, s, j) \in Int /\ Convolution(p, t, j) \in Int
            /\ Convolution(q, s, j) % Prime = Convolution(p, t, j) % Prime
        BY <2>1, <3>2, ConvolutionMod
      <3> QED
        BY <3>1, <3>3
    <2>3. (j * a + c) % Prime = 0 /\ (j * b + d) % Prime = 0
      BY <2>0 DEF Newton
    <2> HIDE DEF a, b, c, d, j
    <2>4. (j * a) % Prime = (j * b) % Prime
      <3> DEFINE x == j * a
                 y == j * b
                 v == x + c
                 w == y + d
      <3>1. x \in Int /\ y \in Int /\ v \in Int /\ w \in Int /\ x = v - c /\ y = w - d
            /\ v % Prime = w % Prime
        <4>1. x \in Int /\ y \in Int
          BY <2>0, <2>2
        <4>2. v % Prime = 0 /\ w % Prime = 0
          BY <2>3
        <4> HIDE DEF x, y
        <4> QED
          BY <2>2, <4>1, <4>2
      <3> HIDE DEF x, y, v, w
      <3>2. (v - c) % Prime = (w - d) % Prime
        BY <2>2, <3>1, ModDifference
      <3>3. x % Prime = y % Prime
        BY <3>1, <3>2
      <3> QED
        BY <3>3 DEF x, y
    <2>5. j % Prime # 0 /\ j \in Int
      <3>1. j \in Field /\ j # 0
        BY <2>0, PrimeType DEF Field
      <3> QED
        BY <3>1, ModField
    <2>6. a % Prime = b % Prime
      BY <2>2, <2>4, <2>5, ModCancel
    <2>7. \A k \in 0 .. j : k \in 0 .. m \/ k = j
      BY <2>0
    <2>8. Same(q, p, 0, j)
      BY <1>2, <2>6, <2>7 DEF Same, a, b
    <2> QED
      BY <2>0, <2>8 DEF j
  <1>3. n \in G
    <2> HIDE DEF G
    <2> QED
      BY <1>1, <1>2, Counting
  <1> QED
    BY <1>3

\* With the same coefficients, the same power sums.
LEMMA SamePowers ==
    ASSUME NEW n \in Nat, NEW q \in Poly, NEW p \in Poly, NEW s \in Poly, NEW t \in Poly,
           q[0] = 1, p[0] = 1, Newton(q, s, n), Newton(p, t, n), Same(q, p, 0, n)
    PROVE  Same(s, t, 1, n)
  <1> DEFINE G == {m \in 0 .. n : Same(s, t, 1, m)}
  <1>1. 0 \in G
    BY DEF Same
  <1>2. ASSUME NEW m \in 0 .. n - 1, m \in G PROVE m + 1 \in G
    <2> DEFINE j == m + 1
               a == q[j]
               b == p[j]
               c == LaterTerms(q, s, j)
               d == LaterTerms(p, t, j)
               e == s[j]
               f == t[j]
    <2>0. j \in Nat /\ j \in 1 .. n /\ j - 1 = m /\ j \in 0 .. n /\ j \in Nat \ {0}
      OBVIOUS
    <2>1. Same(q, p, 1, j - 1) /\ Same(s, t, 1, j - 1)
      BY <1>2, <2>0 DEF Same
    <2>2. /\ c \in Int /\ d \in Int /\ c % Prime = d % Prime /\ a \in Int /\ b \in Int
          /\ e \in Int /\ f \in Int /\ a % Prime = b % Prime
      <3>1. a \in Int /\ b \in Int /\ e \in Int /\ f \in Int
        BY <2>0 DEF Poly
      <3>2. a % Prime = b % Prime
        BY <2>0 DEF Same
      <3> HIDE DEF j
      <3>3. c \in Int /\ d \in Int /\ c % Prime = d % Prime
        BY <2>0, <2>1, TailMod
      <3> QED
        BY <3>1, <3>2, <3>3
    <2>3. (j * a + (e + c)) % Prime = 0 /\ (j * b + (f + d)) % Prime = 0
      <3>1. Convolution(q, s, j) = e + c /\ Convolution(p, t, j) = f + d
        <4> HIDE DEF j
        <4> QED
          BY <2>0, ConvolutionTail
      <3> QED
        BY <2>0, <3>1 DEF Newton
    <2> HIDE DEF a, b, c, d, e, f, j
    <2>4. e % Prime = f % Prime
      <3> DEFINE x == j * a
                 y == j * b
                 u == x + c
                 z == y + d
                 v == x + (e + c)
                 w == y + (f + d)
      <3>1. x \in Int /\ y \in Int
        BY <2>0, <2>2, IntTimes
      <3>2. x % Prime = y % Prime
        <4>1. j \in Int
          BY <2>0
        <4> QED
          BY <2>2, <4>1, ModScale
      <3>3. v % Prime = w % Prime
        BY <2>3
      <3> HIDE DEF x, y
      <3>4. u % Prime = z % Prime
        BY <2>2, <3>1, <3>2, ModSum
      <3>5. u \in Int /\ z \in Int /\ v \in Int /\ w \in Int /\ e = v - u /\ f = w - z
        BY <2>2, <3>1
      <3> HIDE DEF u, v, w, z
      <3>6. (v - u) % Prime = (w - z) % Prime
        BY <3>3, <3>4, <3>5, ModDifference
      <3> QED
        BY <3>5, <3>6
    <2>5. \A k \in 1 .. j : k \in 1 .. m \/ k = j
      BY <2>0
    <2>6. Same(s, t, 1, j)
      BY <1>2, <2>4, <2>5 DEF Same, e, f
    <2> QED
      BY <2>0, <2>6 DEF j
  <1>3. n \in G
    <2> HIDE DEF G
    <2> QED
      BY <1>1, <1>2, Counting
  <1> QED
    BY <1>3

-----------------------------------------------------------------------------
(* The coefficients that solve_poly computes obey Newton's identities.     *)

NextCoefficient(c, sums, i) ==
    Times(NegInverse(i),
          Plus(sums[i + 1], Sum([k \in 0 .. i - 1 |-> Times(c[k], sums[Partner(i, k) + 1])])))
AreCoefficients(c, sums, n) == c = [i \in 0 .. n - 1 |-> NextCoefficient(c, sums, i)]

LEMMA NextCoefficientSame ==
    ASSUME NEW c, NEW d, NEW sums, NEW i \in Nat, \A k \in 0 .. i - 1 : c[k] = d[k]
    PROVE  NextCoefficient(c, sums, i) = NextCoefficient(d, sums, i)
  <1>1. [k \in 0 .. i - 1 |-> Times(c[k], sums[Partner(i, k) + 1])] =
        [k \in 0 .. i - 1 |-> Times(d[k], sums[Partner(i, k) + 1])]
    OBVIOUS
  <1> QED
    BY <1>1 DEF NextCoefficient

LEMMA CoefficientsExist ==
    ASSUME NEW n \in Nat, NEW sums
    PROVE  \E c : AreCoefficients(c, sums, n)
  <1> DEFINE G == {m \in 0 .. n : \E c : AreCoefficients(c, sums, m)}
  <1>1. 0 \in G
    <2> DEFINE c == [i \in 0 .. 0 - 1 |-> 0]
    <2>1. c = [i \in 0 .. 0 - 1 |-> NextCoefficient(c, sums, i)]
      <3>1. 0 .. 0 - 1 = {}
        OBVIOUS
      <3> QED
        BY <3>1
    <2> HIDE DEF c
    <2>2. AreCoefficients(c, sums, 0)
      BY <2>1 DEF AreCoefficients
    <2> QED
      BY <2>2
  <1>2. ASSUME NEW m \in 0 .. n - 1, m \in G PROVE m + 1 \in G
    <2>1. PICK c : AreCoefficients(c, sums, m)
      BY <1>2
    <2> DEFINE d == [i \in 0 .. m |-> IF i = m THEN NextCoefficient(c, sums, m) ELSE c[i]]
    <2>2. ASSUME NEW i \in 0 .. m PROVE d[i] = NextCoefficient(d, sums, i)
      <3>1. \A k \in 0 .. i - 1 : c[k] = d[k]
        OBVIOUS
      <3>2. i \in Nat
        OBVIOUS
      <3>3. NextCoefficient(c, sums, i) = NextCoefficient(d, sums, i)
        <4> HIDE DEF d
        <4> QED
          BY <3>1, <3>2, NextCoefficientSame
      <3>4. CASE i = m
        BY <3>3, <3>4
      <3>5. CASE i # m
        <4>1. i \in 0 .. m - 1 /\ d[i] = c[i]
          BY <3>5
        <4>2. c[i] = NextCoefficient(c, sums, i)
          BY <2>1, <4>1 DEF AreCoefficients
        <4> QED
          BY <3>3, <4>1, <4>2
      <3> QED
        BY <3>4, <3>5
    <2>3. AreCoefficients(d, sums, m + 1)
      <3>1. d = [i \in 0 .. m |-> d[i]] /\ (m + 1) - 1 = m
        OBVIOUS
      <3> HIDE DEF d
      <3>2. [i \in 0 .. m |-> d[i]] = [i \in 0 .. m |-> NextCoefficient(d, sums, i)]
        BY <2>2
      <3> QED
        BY <3>1, <3>2 DEF AreCoefficients
    <2>4. m + 1 \in 0 .. n
      OBVIOUS
    <2> QED
      BY <2>3, <2>4
  <1>3. n \in G
    <2> HIDE DEF G
    <2> QED
      BY <1>1, <1>2, Counting
  <1> QED
    BY <1>3

\* For the identities, sums and coefficients are extended to all numbers.
Extended(sums, n) == [k \in Nat |-> IF k \in 1 .. n THEN sums[k] ELSE 0]
Monic(c, n) == [k \in Nat |-> IF k = 0 THEN 1 ELSE IF k \in 1 .. n THEN c[k - 1] ELSE 0]

LEMMA CoefficientsAre ==
    ASSUME NEW n \in Nat, NEW sums \in [1 .. n -> Field]
    PROVE  AreCoefficients(Coefficients(sums), sums, n)
  <1> DEFINE c == CHOOSE d : AreCoefficients(d, sums, n)
  <1>1. AreCoefficients(c, sums, n)
    BY CoefficientsExist
  <1>2. Len(sums) = n
    <2>1. sums \in Seq(Field) /\ DOMAIN sums = 1 .. n
      OBVIOUS
    <2> QED
      BY <2>1
  <1>3. Coefficients(sums) = c
    BY <1>2 DEF Coefficients, AreCoefficients, NextCoefficient
  <1> QED
    BY <1>1, <1>3

LEMMA ExtendedType ==
    ASSUME NEW n \in Nat, NEW sums \in [1 .. n -> Field]
    PROVE  /\ Extended(sums, n) \in Poly
           /\ \A k \in 1 .. n : Extended(sums, n)[k] = sums[k]
  <1>1. \A k \in 1 .. n : sums[k] \in Int /\ k \in Nat
    BY ModField
  <1> QED
    BY <1>1 DEF Extended, Poly

LEMMA CoefficientType ==
    ASSUME NEW n \in Nat, n < Prime, NEW sums \in [1 .. n -> Field], NEW c,
           AreCoefficients(c, sums, n), NEW i \in 0 .. n - 1
    PROVE  c[i] \in Field /\ c[i] \in Int
  <1> DEFINE G == {m \in 0 .. i : \A k \in 0 .. m : c[k] \in Field}
             Inner(m) == [k \in 0 .. m - 1 |-> Times(c[k], sums[Partner(m, k) + 1])]
  <1>1. ASSUME NEW m \in 0 .. i, \A k \in 0 .. m - 1 : c[k] \in Field PROVE c[m] \in Field
    <2>1. c[m] = NextCoefficient(c, sums, m)
      BY DEF AreCoefficients
    <2>2. m + 1 \in 1 .. n /\ m + 1 \in Int /\ m \in Nat /\ m + 1 \in Field /\ m + 1 # 0
      BY PrimeType DEF Field
    <2>3. ASSUME NEW k \in 0 .. m - 1 PROVE Inner(m)[k] \in Int
      <3>1. Partner(m, k) + 1 \in 1 .. n
        BY DEF Partner
      <3>2. c[k] \in Int /\ sums[Partner(m, k) + 1] \in Int
        BY <1>1, <3>1, ModField
      <3> QED
        BY <3>2, TimesMod
    <2>4. Sum(Inner(m)) \in Int
      <3>1. IsFiniteSet(0 .. m - 1)
        <4>1. m - 1 \in Int
          BY <2>2
        <4> QED
          BY <4>1, FS_Interval
      <3>2. DOMAIN Inner(m) = 0 .. m - 1
        OBVIOUS
      <3> DEFINE f == Inner(m)
      <3>3. \A k \in 0 .. m - 1 : f[k] \in Int
        BY <2>3
      <3> HIDE DEF f
      <3>4. Total(f, 0 .. m - 1) \in Int
        BY <3>1, <3>3, TotalType
      <3>5. Sum(f) = Total(f, 0 .. m - 1) % Prime
        BY <3>2, SumIs DEF f
      <3>6. Sum(f) \in Int
        BY <3>4, <3>5, ModType
      <3> QED
        BY <3>6 DEF f
    <2>5. Plus(sums[m + 1], Sum(Inner(m))) \in Int
      <3>1. sums[m + 1] \in Int
        BY <2>2, ModField
      <3> QED
        BY <2>4, <3>1, PlusMod
    <2>6. NegInverse(m) \in Int
      <3>1. Neg(m + 1) \in Int /\ Neg(m + 1) % Prime # 0
        <4>1. Neg(m + 1) \in Field /\ Neg(m + 1) \in Int /\ Neg(m + 1) % Prime = (-(m + 1)) % Prime
          BY <2>2, NegMod
        <4>2. (-(m + 1)) % Prime # 0
          <5> DEFINE a == m + 1
                     b == -a
          <5>1. a \in Int /\ b \in Int /\ a + b = 0 /\ a % Prime = a /\ a # 0
            BY <2>2, ModField
          <5> SUFFICES ASSUME b % Prime = 0 PROVE FALSE
            OBVIOUS
          <5> DEFINE z == 0
          <5>2. z \in Int /\ b % Prime = z % Prime /\ a % Prime = a % Prime
            BY ModZero
          <5> HIDE DEF a, b, z
          <5>3. (a + b) % Prime = (a + z) % Prime
            BY <5>1, <5>2, ModSum
          <5>4. a + z = a
            BY <5>1 DEF z
          <5> QED
            BY <5>1, <5>3, <5>4, ModZero
        <4> QED
          BY <4>1, <4>2
      <3> QED
        BY <3>1, InvModIs DEF NegInverse
    <2> QED
      BY <2>1, <2>5, <2>6, TimesMod DEF NextCoefficient
  <1>2. 0 \in G
    <2>1. 0 \in 0 .. i /\ \A k \in 0 .. 0 - 1 : c[k] \in Field
      OBVIOUS
    <2>2. c[0] \in Field
      BY <1>1, <2>1
    <2> QED
      BY <2>1, <2>2
  <1>3. ASSUME NEW m \in 0 .. i - 1, m \in G PROVE m + 1 \in G
    <2>1. m + 1 \in 0 .. i /\ \A k \in 0 .. (m + 1) - 1 : c[k] \in Field
      BY <1>3
    <2>2. c[m + 1] \in Field
      BY <1>1, <2>1
    <2>3. \A k \in 0 .. m + 1 : k = m + 1 \/ k \in 0 .. (m + 1) - 1
      OBVIOUS
    <2> QED
      BY <2>1, <2>2, <2>3
  <1>4. i \in G
    <2> HIDE DEF G
    <2> QED
      BY <1>2, <1>3, Counting
  <1> QED
    BY <1>4, ModField

LEMMA NegSum == \A a \in Int : Neg(a) \in Int /\ (a + Neg(a)) % Prime = 0
  <1> SUFFICES ASSUME NEW a \in Int PROVE Neg(a) \in Int /\ (a + Neg(a)) % Prime = 0
    OBVIOUS
  <1> DEFINE u == Neg(a)
             b == -a
  <1>1. u \in Int /\ b \in Int /\ u % Prime = b % Prime /\ a % Prime = a % Prime /\ a + b = 0
    BY NegMod
  <1> HIDE DEF u, b
  <1>2. (a + u) % Prime = (a + b) % Prime
    BY <1>1, ModSum
  <1>3. (a + u) % Prime = 0
    BY <1>1, <1>2, ModZero
  <1> QED
    BY <1>1, <1>3 DEF u

IsSolution(j, c, d) == (j * c + d) % Prime = 0
Solves(j, u, v, y, c, d) ==
    /\ (u * v) % Prime = 1 /\ (j + u) % Prime = 0
    /\ c % Prime = (v * y) % Prime /\ d % Prime = y % Prime

LEMMA Solution ==
    ASSUME NEW j \in Int, NEW u \in Int, NEW v \in Int, NEW y \in Int, NEW c \in Int, NEW d \in Int,
           Solves(j, u, v, y, c, d)
    PROVE  IsSolution(j, c, d)
  <1> DEFINE w == v * y
             x == j * c
             z == j * w
             o == u * v
             e == o * y
             t == j + u
             zero == 0
             one == 1
  <1>1. w \in Int /\ x \in Int /\ z \in Int /\ o \in Int /\ e \in Int /\ t \in Int /\ zero \in Int
        /\ one \in Int
    BY IntTimes
  <1>2. x % Prime = z % Prime
    <2>1. c % Prime = w % Prime
      BY DEF Solves
    <2> HIDE DEF w
    <2> QED
      BY <1>1, <2>1, ModScale
  <1>3. e % Prime = y % Prime
    <2>0. o % Prime = one % Prime
      BY ModZero DEF Solves
    <2>1. y * one = y /\ y * o = o * y
      <3> HIDE DEF o
      <3> QED
        BY <1>1
    <2> HIDE DEF o, one
    <2>2. (y * o) % Prime = (y * one) % Prime
      BY <1>1, <2>0, ModScale
    <2> QED
      BY <2>1, <2>2
  <1>4. (x + d) % Prime = (z + e) % Prime
    <2>1. d % Prime = e % Prime
      BY <1>3 DEF Solves
    <2> HIDE DEF x, z, e
    <2> QED
      BY <1>1, <1>2, <2>1, ModSum
  <1>5. z + e = w * t
    <2>1. e = u * w
      BY IntTimes
    <2> HIDE DEF w, e
    <2>2. w * (j + u) = w * j + w * u /\ w * j = j * w /\ w * u = u * w
      BY <1>1
    <2> QED
      BY <1>1, <2>1, <2>2
  <1>6. (w * t) % Prime = 0
    <2>1. t % Prime = zero % Prime /\ w * zero = 0
      <3>1. t % Prime = zero % Prime
        BY ModZero DEF Solves
      <3> HIDE DEF w, t
      <3> QED
        BY <1>1, <3>1
    <2> HIDE DEF w, t, zero
    <2>2. (w * t) % Prime = (w * zero) % Prime
      BY <1>1, <2>1, ModScale
    <2> QED
      BY <2>1, <2>2, ModZero
  <1> QED
    BY <1>4, <1>5, <1>6 DEF IsSolution

LEMMA NegInverseIs ==
    ASSUME NEW i \in Nat, i + 1 < Prime
    PROVE  NegInverse(i) \in Int /\ (Neg(i + 1) * NegInverse(i)) % Prime = 1
  <1> DEFINE j == i + 1
             u == Neg(j)
             z == 0
  <1>1. j \in Field /\ j # 0 /\ j \in Int /\ j % Prime = j /\ u \in Int /\ (j + u) % Prime = 0
    <2>1. j \in Field /\ j # 0 /\ j \in Int
      BY PrimeType DEF Field
    <2> HIDE DEF j
    <2> QED
      BY <2>1, ModField, NegSum
  <1>2. u % Prime # 0
    <2> SUFFICES ASSUME u % Prime = 0 PROVE FALSE
      OBVIOUS
    <2>1. z \in Int /\ u % Prime = z % Prime /\ j % Prime = j % Prime
      BY ModZero
    <2> HIDE DEF j, u, z
    <2>2. (j + u) % Prime = (j + z) % Prime
      BY <1>1, <2>1, ModSum
    <2>3. j + z = j
      BY <1>1 DEF z
    <2> QED
      BY <1>1, <2>2, <2>3
  <1>3. InvMod(u) \in Int /\ (u * InvMod(u)) % Prime = 1
    <2> HIDE DEF u
    <2> QED
      BY <1>1, <1>2, InvModIs
  <1> QED
    BY <1>3 DEF NegInverse

LEMMA MonicType ==
    ASSUME NEW n \in Nat, NEW c, \A k \in 0 .. n - 1 : c[k] \in Int
    PROVE  /\ Monic(c, n) \in Poly /\ Monic(c, n)[0] = 1
           /\ \A k \in 0 .. n - 1 : Monic(c, n)[k + 1] = c[k]
  <1>1. ASSUME NEW k \in 1 .. n PROVE c[k - 1] \in Int
    <2>1. k - 1 \in 0 .. n - 1
      OBVIOUS
    <2> QED
      BY <2>1
  <1>2. ASSUME NEW k \in 0 .. n - 1 PROVE Monic(c, n)[k + 1] = c[k]
    <2>1. k + 1 \in 1 .. n /\ (k + 1) - 1 = k /\ k + 1 # 0 /\ k + 1 \in Nat
      OBVIOUS
    <2> QED
      BY <2>1 DEF Monic
  <1> QED
    BY <1>1, <1>2 DEF Monic, Poly

LEMMA CoefficientsNewton ==
    ASSUME NEW n \in Nat, n < Prime, NEW sums \in [1 .. n -> Field], NEW c, AreCoefficients(c, sums, n)
    PROVE  Newton(Monic(c, n), Extended(sums, n), n)
  <1> DEFINE q == Monic(c, n)
             s == Extended(sums, n)
  <1>1. q \in Poly /\ s \in Poly /\ q[0] = 1 /\ \A k \in 1 .. n : s[k] = sums[k]
    BY CoefficientType, MonicType, ExtendedType
  <1>2. \A k \in 0 .. n - 1 : q[k + 1] = c[k] /\ c[k] \in Int /\ c[k] \in Field
    BY CoefficientType, MonicType
  <1> HIDE DEF q, s
  <1>3. ASSUME NEW j \in 1 .. n PROVE (j * q[j] + Convolution(q, s, j)) % Prime = 0
    <2> DEFINE i == j - 1
               f == [k \in 0 .. j - 2 |-> q[k + 1] * s[(j - 1) - k]]
               g == [k \in 0 .. i - 1 |-> Times(c[k], sums[Partner(i, k) + 1])]
               y == Plus(sums[i + 1], Sum(g))
               v == NegInverse(i)
               u == Neg(j)
               d == s[j] + LaterTerms(q, s, j)
    <2>0. i \in Nat /\ i \in 0 .. n - 1 /\ i + 1 = j /\ i - 1 = j - 2 /\ j \in Int /\ i + 1 < Prime
          /\ j \in Nat \ {0}
      BY PrimeType
    <2>1. Convolution(q, s, j) = d
      BY <1>1, <2>0, ConvolutionTail
    <2>2. ASSUME NEW k \in 0 .. j - 2
          PROVE  f[k] \in Int /\ g[k] \in Int /\ f[k] % Prime = g[k] % Prime
      <3> DEFINE a == c[k]
                 b == sums[j - 1 - k]
      <3>1. Partner(i, k) + 1 = j - 1 - k /\ j - 1 - k \in 1 .. n /\ k \in 0 .. n - 1 /\ k \in 0 .. i - 1
        BY <2>0 DEF Partner
      <3>2. a \in Int /\ b \in Int /\ q[k + 1] = a /\ s[(j - 1) - k] = b
        BY <1>1, <1>2, <3>1, ModField
      <3>3. f[k] = a * b /\ g[k] = Times(a, b)
        BY <3>1, <3>2
      <3> HIDE DEF a, b, f, g
      <3>4. a * b \in Int
        BY <3>2, IntTimes
      <3>5. Times(a, b) \in Int /\ Times(a, b) % Prime = (a * b) % Prime
        BY <3>2, TimesMod
      <3> QED
        BY <3>3, <3>4, <3>5
    <2>3. IsFiniteSet(0 .. j - 2)
      <3>1. j - 2 \in Int
        OBVIOUS
      <3> QED
        BY <3>1, FS_Interval
    <2>4. /\ LaterTerms(q, s, j) \in Int /\ Sum(g) \in Int
          /\ LaterTerms(q, s, j) % Prime = Sum(g) % Prime
      <3>1. DOMAIN g = 0 .. j - 2
        BY <2>0
      <3>2. LaterTerms(q, s, j) = Total(f, 0 .. j - 2)
        BY DEF LaterTerms
      <3> HIDE DEF f, g
      <3>3. Total(f, 0 .. j - 2) \in Int /\ Total(g, 0 .. j - 2) \in Int
        BY <2>2, <2>3, TotalType
      <3>4. Total(f, 0 .. j - 2) % Prime = Total(g, 0 .. j - 2) % Prime
        BY <2>2, <2>3, TotalMod
      <3>5. Sum(g) = Total(g, 0 .. j - 2) % Prime
        BY <3>1, SumIs
      <3> QED
        BY <3>2, <3>3, <3>4, <3>5, ModType, ModMod
    <2>5. s[j] = sums[i + 1] /\ s[j] \in Int
      BY <1>1, <2>0 DEF Poly
    <2>6. y \in Int /\ d \in Int /\ d % Prime = y % Prime
      <3> DEFINE a == LaterTerms(q, s, j)
                 b == Sum(g)
                 e == s[j]
      <3>1. a \in Int /\ b \in Int /\ e \in Int /\ a % Prime = b % Prime /\ e % Prime = e % Prime
        BY <2>4, <2>5
      <3>2. y = Plus(e, b) /\ d = e + a
        BY <2>5
      <3> HIDE DEF a, b, e, y, d
      <3>3. (e + a) % Prime = (e + b) % Prime
        BY <3>1, ModSum
      <3> QED
        BY <3>1, <3>2, <3>3, PlusMod
    <2>7. c[i] = NextCoefficient(c, sums, i)
      BY <2>0 DEF AreCoefficients
    <2>8. v \in Int /\ u \in Int /\ (u * v) % Prime = 1 /\ (j + u) % Prime = 0
      <3>1. v \in Int /\ (Neg(i + 1) * v) % Prime = 1
        BY <2>0, NegInverseIs
      <3> QED
        BY <2>0, <3>1, NegSum
    <2>9. q[j] \in Int /\ q[j] % Prime = (v * y) % Prime
      <3>1. q[j] = c[i] /\ c[i] = Times(v, y)
        BY <1>2, <2>0, <2>7 DEF NextCoefficient
      <3> HIDE DEF v, y
      <3> QED
        BY <2>6, <2>8, <3>1, TimesMod
    <2> DEFINE b == q[j]
    <2> HIDE DEF v, y, u, d, b
    <2>10. (j * b + d) % Prime = 0
      <3>1. b \in Int /\ b % Prime = (v * y) % Prime
        BY <2>9 DEF b
      <3>2. Solves(j, u, v, y, b, d)
        BY <2>6, <2>8, <3>1 DEF Solves
      <3>3. j \in Int /\ u \in Int /\ v \in Int /\ y \in Int /\ b \in Int /\ d \in Int
        BY <2>0, <2>6, <2>8, <3>1
      <3>4. IsSolution(j, b, d)
        BY <3>2, <3>3, Solution
      <3> QED
        BY <3>4 DEF IsSolution
    <2> QED
      BY <2>1, <2>10 DEF b
  <1> QED
    BY <1>3 DEF Newton, q, s

-----------------------------------------------------------------------------
(* What the library is asked to factor is the polynomial of these          *)
(* coefficients.                                                           *)

Lower(c, x, m) == Total([i \in 0 .. m - 1 |-> c[i] * Pow(x, (m - 1) - i)], 0 .. m - 1)

LEMMA LowerNext ==
    ASSUME NEW m \in Nat, NEW c, \A i \in 0 .. m : c[i] \in Int, NEW x \in Int
    PROVE  Lower(c, x, m) \in Int /\ Lower(c, x, m + 1) = x * Lower(c, x, m) + c[m]
  <1> DEFINE f == [i \in 0 .. m |-> c[i] * Pow(x, m - i)]
             g == [i \in 0 .. m - 1 |-> c[i] * Pow(x, m - i)]
             h == [i \in 0 .. m - 1 |-> c[i] * Pow(x, (m - 1) - i)]
  <1>0. IsFiniteSet(0 .. m - 1)
    <2>1. m - 1 \in Int
      OBVIOUS
    <2> QED
      BY <2>1, FS_Interval
  <1>1. ASSUME NEW i \in 0 .. m PROVE f[i] \in Int
    <2>1. m - i \in Nat /\ c[i] \in Int
      OBVIOUS
    <2>2. Pow(x, m - i) \in Int
      BY <2>1, PowType
    <2> QED
      BY <2>1, <2>2, IntTimes
  <1>2. ASSUME NEW i \in 0 .. m - 1 PROVE h[i] \in Int /\ g[i] = x * h[i] /\ g[i] = f[i]
    <2> DEFINE k == (m - 1) - i
               p == Pow(x, k)
               a == c[i]
    <2>1. k \in Nat /\ k + 1 = m - i /\ i \in 0 .. m
      OBVIOUS
    <2>2. p \in Int /\ Pow(x, k + 1) = x * p /\ a \in Int
      BY <2>1, PowType, PowNext
    <2>3. h[i] = a * p /\ g[i] = a * (x * p) /\ g[i] = f[i]
      BY <2>1, <2>2
    <2> HIDE DEF k, p, a, f, g, h
    <2>4. a * (x * p) = x * (a * p) /\ a * p \in Int
      BY <2>2
    <2> QED
      BY <2>3, <2>4
  <1>3. f[m] = c[m]
    <2>1. m \in 0 .. m /\ m - m = 0 /\ c[m] * 1 = c[m]
      OBVIOUS
    <2> QED
      BY <2>1, PowZero
  <1>4. Total(f, 0 .. m) = f[m] + Total(g, 0 .. m - 1)
    <2> HIDE DEF f, g, h
    <2> QED
      BY <1>1, <1>2, TotalNext
  <1>5. Total(g, 0 .. m - 1) = x * Total(h, 0 .. m - 1) /\ Total(h, 0 .. m - 1) \in Int
    <2> HIDE DEF f, g, h
    <2>1. Total(h, 0 .. m - 1) \in Int
      BY <1>0, <1>2, TotalType
    <2>2. Total(g, 0 .. m - 1) = x * Total(h, 0 .. m - 1)
      BY <1>0, <1>2, TotalTimes
    <2> QED
      BY <2>1, <2>2
  <1>6. Lower(c, x, m) = Total(h, 0 .. m - 1)
    BY DEF Lower
  <1>7. Lower(c, x, m + 1) = Total(f, 0 .. m)
    <2>1. (m + 1) - 1 = m
      OBVIOUS
    <2> QED
      BY <2>1 DEF Lower
  <1>8. c[m] \in Int /\ x * Lower(c, x, m) \in Int
    BY <1>5, <1>6, IntTimes
  <1> HIDE DEF f, g, h
  <1> QED
    BY <1>3, <1>4, <1>5, <1>6, <1>7, <1>8

LEMMA MonicValue ==
    ASSUME NEW n \in Nat, NEW c, \A i \in 0 .. n - 1 : c[i] \in Int, NEW x \in Int
    PROVE  Lower(c, x, n) \in Int /\ Value(Monic(c, n), x, n + 1) = Pow(x, n) + Lower(c, x, n)
  <1> DEFINE q == Monic(c, n)
             G == {m \in 0 .. n : Lower(c, x, m) \in Int
                                  /\ Value(q, x, m + 1) = Pow(x, m) + Lower(c, x, m)}
  <1>0. q \in Poly /\ q[0] = 1 /\ \A k \in 0 .. n - 1 : q[k + 1] = c[k]
    BY MonicType
  <1> HIDE DEF q
  <1>1. 0 \in G
    <2>1. 0 .. 0 - 1 = {}
      OBVIOUS
    <2>2. Lower(c, x, 0) = 0
      BY <2>1, TotalEmpty DEF Lower
    <2>3. Value(q, x, 0 + 1) = x * 0 + 1
      BY <1>0, ValueNext, ValueZero
    <2> QED
      BY <2>2, <2>3, PowZero
  <1>2. ASSUME NEW m \in 0 .. n - 1, m \in G PROVE m + 1 \in G
    <2> DEFINE v == Value(q, x, m + 1)
               p == Pow(x, m)
               l == Lower(c, x, m)
    <2>1. m \in Nat /\ m + 1 \in Nat /\ m + 1 \in 0 .. n /\ \A i \in 0 .. m : c[i] \in Int
      OBVIOUS
    <2>2. l \in Int /\ Lower(c, x, m + 1) = x * l + c[m]
      BY <2>1, LowerNext
    <2>3. Value(q, x, (m + 1) + 1) = x * v + c[m]
      BY <1>0, <2>1, ValueNext
    <2>4. v = p + l /\ p \in Int /\ Pow(x, m + 1) = x * p /\ c[m] \in Int
      BY <1>2, <2>1, PowType, PowNext
    <2> DEFINE a == c[m]
    <2>5. x * v + a = x * p + (x * l + a) /\ x * l + a \in Int
      <3> HIDE DEF v, p, l, a
      <3>1. a \in Int
        BY <2>4 DEF a
      <3>2. x * (p + l) = x * p + x * l /\ x * p \in Int /\ x * l \in Int
        BY <2>2, <2>4
      <3> QED
        BY <2>4, <3>1, <3>2
    <2>6. Value(q, x, (m + 1) + 1) = Pow(x, m + 1) + Lower(c, x, m + 1) /\ Lower(c, x, m + 1) \in Int
      BY <2>2, <2>3, <2>4, <2>5
    <2> QED
      BY <2>1, <2>6
  <1>3. n \in G
    <2> HIDE DEF G
    <2> QED
      BY <1>1, <1>2, Counting
  <1> QED
    BY <1>3 DEF q

LEMMA ValueAtIs ==
    ASSUME NEW n \in Nat, NEW sums \in [1 .. n -> Field], NEW c, \A i \in 0 .. n - 1 : c[i] \in Int,
           NEW x \in Field
    PROVE  ValueAt(sums, c, x) = Value(Monic(c, n), x, n + 1) % Prime
  <1> DEFINE f == [i \in 0 .. n - 1 |-> Times(c[i], Exp(x, n - i - 1))]
             g == [i \in 0 .. n - 1 |-> c[i] * Pow(x, (n - 1) - i)]
             e == Exp(x, n)
             p == Pow(x, n)
             l == Lower(c, x, n)
  <1>0. x \in Int /\ IsFiniteSet(0 .. n - 1)
    <2>1. n - 1 \in Int
      OBVIOUS
    <2> QED
      BY <2>1, ModField, FS_Interval
  <1>1. Len(sums) = n
    <2>1. sums \in Seq(Field) /\ DOMAIN sums = 1 .. n
      OBVIOUS
    <2> QED
      BY <2>1
  <1>2. ValueAt(sums, c, x) = Plus(e, Sum(f))
    BY <1>1 DEF ValueAt
  <1>3. ASSUME NEW i \in 0 .. n - 1
        PROVE  f[i] \in Int /\ g[i] \in Int /\ f[i] % Prime = g[i] % Prime
    <2> DEFINE k == (n - 1) - i
               a == c[i]
               b == Exp(x, k)
               y == Pow(x, k)
    <2>1. k \in Nat /\ n - i - 1 = k
      OBVIOUS
    <2>2. a \in Int /\ b \in Int /\ y \in Int /\ b = y % Prime /\ b % Prime = y % Prime
      <3>1. a \in Int
        OBVIOUS
      <3> HIDE DEF k, a
      <3> QED
        BY <1>0, <2>1, <3>1, ExpType, PowType, ExpPow, ModMod
    <2>3. f[i] = Times(a, b) /\ g[i] = a * y
      BY <2>1
    <2> HIDE DEF k, a, b, y, f, g
    <2>4. (a * b) % Prime = (a * y) % Prime
      BY <2>2, ModScale
    <2>5. Times(a, b) \in Int /\ Times(a, b) % Prime = (a * b) % Prime
      BY <2>2, TimesMod
    <2>6. a * y \in Int
      BY <2>2, IntTimes
    <2> QED
      BY <2>3, <2>4, <2>5, <2>6
  <1>4. Sum(f) \in Int /\ Sum(f) % Prime = l % Prime
    <2>1. DOMAIN f = 0 .. n - 1 /\ l = Total(g, 0 .. n - 1)
      BY DEF Lower
    <2> HIDE DEF f, g, l
    <2>2. Total(f, 0 .. n - 1) \in Int /\ Total(f, 0 .. n - 1) % Prime = Total(g, 0 .. n - 1) % Prime
      BY <1>0, <1>3, TotalType, TotalMod
    <2>3. Sum(f) = Total(f, 0 .. n - 1) % Prime
      BY <2>1, SumIs
    <2> QED
      BY <2>1, <2>2, <2>3, ModType, ModMod
  <1>5. e \in Int /\ p \in Int /\ e % Prime = p % Prime
    BY <1>0, ExpType, PowType, ExpPow, ModMod
  <1>6. l \in Int /\ Value(Monic(c, n), x, n + 1) = p + l
    BY <1>0, MonicValue
  <1> DEFINE s == Sum(f)
  <1> HIDE DEF e, p, l, s, f
  <1>7. s \in Int /\ s % Prime = l % Prime
    BY <1>4 DEF s
  <1>8. (e + s) % Prime = (p + l) % Prime
    BY <1>5, <1>6, <1>7, ModSum
  <1> QED
    BY <1>2, <1>6, <1>8 DEF s, Plus

-----------------------------------------------------------------------------
(* A product of linear factors determines its roots.                       *)

LEMMA MinusZero ==
    ASSUME NEW x \in Field, NEW a \in Field
    PROVE  Minus(x, a) \in Int /\ (Minus(x, a) % Prime = 0 <=> x = a)
  <1>0. x \in Int /\ a \in Int /\ x % Prime = x /\ a % Prime = a
    BY ModField
  <1> DEFINE m == Minus(x, a)
             d == x - a
             z == 0
  <1>1. d \in Int /\ d + a = x /\ z + a = a /\ z \in Int /\ (x = a => d = z)
    BY <1>0
  <1>2. m \in Int /\ m % Prime = d % Prime
    <2> HIDE DEF d
    <2> QED
      BY <1>0, MinusMod DEF d
  <1>3. z % Prime = 0
    BY ModZero
  <1> HIDE DEF m, d, z
  <1>4. ASSUME m % Prime = 0 PROVE x = a
    <2>1. d % Prime = z % Prime
      BY <1>2, <1>3, <1>4
    <2>2. (d + a) % Prime = (z + a) % Prime
      BY <1>0, <1>1, <2>1, ModSum
    <2> QED
      BY <1>0, <1>1, <2>2
  <1>5. ASSUME x = a PROVE m % Prime = 0
    BY <1>1, <1>2, <1>3, <1>5
  <1> QED
    BY <1>2, <1>4, <1>5 DEF m

LEMMA TimesZero ==
    ASSUME NEW y \in Int, NEW m \in Int
    PROVE  Times(y, m) = 0 <=> (y % Prime = 0 \/ m % Prime = 0)
  <1>1. ASSUME y % Prime = 0 PROVE (y * m) % Prime = 0
    <2> DEFINE z == 0
    <2>1. z \in Int /\ y % Prime = z % Prime /\ m * z = 0 /\ m * y = y * m
      BY <1>1, ModZero
    <2> HIDE DEF z
    <2>2. (m * y) % Prime = (m * z) % Prime
      BY <2>1, ModScale
    <2> QED
      BY <2>1, <2>2, ModZero
  <1>2. ASSUME m % Prime = 0 PROVE (y * m) % Prime = 0
    <2> DEFINE z == 0
    <2>1. z \in Int /\ m % Prime = z % Prime /\ y * z = 0
      BY <1>2, ModZero
    <2> HIDE DEF z
    <2>2. (y * m) % Prime = (y * z) % Prime
      BY <2>1, ModScale
    <2> QED
      BY <2>1, <2>2, ModZero
  <1>3. ASSUME (y * m) % Prime = 0, y % Prime # 0 PROVE m % Prime = 0
    BY <1>3, NoZeroProduct
  <1> QED
    BY <1>1, <1>2, <1>3 DEF Times

LEMMA Roots ==
    ASSUME NEW n \in Nat, NEW r \in [1 .. n -> Field], NEW x \in Field
    PROVE  ProductAt(r, x) = 0 <=> \E i \in 1 .. n : r[i] = x
  <1> DEFINE G == {m \in 0 .. n : \A rs \in [1 .. m -> Field] :
                      ProductAt(rs, x) = 0 <=> \E i \in 1 .. m : rs[i] = x}
  <1>1. 0 \in G
    <2>1. \A rs \in [1 .. 0 -> Field] : ProductAt(rs, x) = 1
      BY ProductZero
    <2>2. 1 .. 0 = {} /\ 0 \in 0 .. n
      OBVIOUS
    <2> QED
      BY <2>1, <2>2
  <1>2. ASSUME NEW m \in 0 .. n - 1, m \in G PROVE m + 1 \in G
    <2> SUFFICES ASSUME NEW rs \in [1 .. m + 1 -> Field]
                 PROVE  ProductAt(rs, x) = 0 <=> \E i \in 1 .. m + 1 : rs[i] = x
      <3>1. m + 1 \in 0 .. n
        OBVIOUS
      <3> QED
        BY <3>1
    <2> DEFINE us == Front(rs, m)
               a == rs[m + 1]
               y == ProductAt(us, x)
               d == Minus(x, a)
    <2>0. m \in Nat /\ a \in Field
      OBVIOUS
    <2>1. us \in [1 .. m -> Field] /\ ProductAt(rs, x) = Times(y, d)
      BY <2>0, ProductNext
    <2>2. y \in Field /\ y \in Int /\ y % Prime = y
      <3>1. y \in Field
        BY <2>0, <2>1, ProductType
      <3> QED
        BY <3>1, ModField
    <2>3. d \in Int /\ (d % Prime = 0 <=> x = a)
      BY <2>0, MinusZero
    <2>4. ProductAt(rs, x) = 0 <=> y = 0 \/ x = a
      <3> HIDE DEF y, d, a
      <3> QED
        BY <2>1, <2>2, <2>3, TimesZero
    <2>5. y = 0 <=> \E i \in 1 .. m : rs[i] = x
      <3>1. \A i \in 1 .. m : us[i] = rs[i]
        BY DEF Front
      <3>2. y = 0 <=> \E i \in 1 .. m : us[i] = x
        <4> HIDE DEF us
        <4> QED
          BY <1>2, <2>1
      <3> HIDE DEF us, y
      <3> QED
        BY <3>1, <3>2
    <2>6. \A i : i \in 1 .. m + 1 <=> i \in 1 .. m \/ i = m + 1
      OBVIOUS
    <2> HIDE DEF y
    <2> QED
      BY <2>4, <2>5, <2>6
  <1>3. n \in G
    <2> HIDE DEF G
    <2> QED
      BY <1>1, <1>2, Counting
  <1> QED
    BY <1>3

LEMMA OrderedLast ==
    ASSUME NEW n \in Nat, NEW rs \in Ordered(n + 1)
    PROVE  \A i \in 1 .. n + 1 : rs[i] <= rs[n + 1]
  <1>1. rs \in [1 .. n + 1 -> Field] /\ \A i \in 2 .. n + 1 : rs[i - 1] <= rs[i]
    BY DEF Ordered
  <1>2. \A i \in 1 .. n + 1 : rs[i] \in Int
    BY <1>1, ModField
  <1> DEFINE G == {m \in 0 .. n : \A i \in 1 .. m + 1 : rs[i] <= rs[m + 1]}
  <1>3. 0 \in G
    BY <1>2
  <1>4. ASSUME NEW m \in 0 .. n - 1, m \in G PROVE m + 1 \in G
    <2>1. rs[m + 1] <= rs[m + 2] /\ rs[m + 1] \in Int /\ rs[m + 2] \in Int
      <3>1. m + 2 \in 2 .. n + 1 /\ (m + 2) - 1 = m + 1 /\ m + 1 \in 1 .. n + 1 /\ m + 2 \in 1 .. n + 1
        OBVIOUS
      <3> QED
        BY <1>1, <1>2, <3>1
    <2>2. ASSUME NEW i \in 1 .. (m + 1) + 1 PROVE rs[i] <= rs[(m + 1) + 1]
      <3>0. (m + 1) + 1 = m + 2
        OBVIOUS
      <3>1. CASE i = m + 2
        BY <2>1, <3>0, <3>1
      <3>2. CASE i # m + 2
        <4>1. i \in 1 .. m + 1 /\ i \in 1 .. n + 1
          BY <3>2
        <4>2. rs[i] <= rs[m + 1] /\ rs[i] \in Int
          BY <1>2, <1>4, <4>1
        <4> QED
          BY <2>1, <3>0, <4>2
      <3> QED
        BY <3>1, <3>2
    <2>3. m + 1 \in 0 .. n
      OBVIOUS
    <2> QED
      BY <2>2, <2>3
  <1>5. n \in G
    <2> HIDE DEF G
    <2> QED
      BY <1>3, <1>4, Counting
  <1> QED
    BY <1>5

\* Products of fewer than Prime factors that agree but in one point agree there.
LEMMA AgreeEverywhere ==
    ASSUME NEW n \in Nat, n + 1 < Prime, NEW us \in [1 .. n -> Field], NEW vs \in [1 .. n -> Field],
           NEW t \in Field, \A x \in Field \ {t} : ProductAt(us, x) = ProductAt(vs, x)
    PROVE  \A x \in Field : ProductAt(us, x) = ProductAt(vs, x)
  <1>1. PICK q : Expands(q, us, n)
    BY ExpandsAll
  <1>2. PICK p : Expands(p, vs, n)
    BY ExpandsAll
  <1> DEFINE S == Field \ {t}
  <1>3. n + 1 \in Nat /\ n + 1 <= Cardinality(S) /\ S \in SUBSET Field
    <2>1. IsFiniteSet(Field) /\ Cardinality(Field) = Prime
      <3>1. 0 \in Int /\ Prime - 1 \in Int /\ 0 <= Prime - 1 /\ (Prime - 1) - 0 + 1 = Prime
        BY PrimeType
      <3> QED
        BY <3>1, FS_Interval DEF Field
    <2>2. Cardinality(S) = Prime - 1
      BY <2>1, FS_RemoveElement
    <2> QED
      BY <2>2, PrimeType
  <1>4. q \in Poly /\ p \in Poly
    BY <1>1, <1>2 DEF Expands
  <1>5. \A x \in Field : /\ ProductAt(us, x) = Value(q, x, n + 1) % Prime
                         /\ ProductAt(vs, x) = Value(p, x, n + 1) % Prime
    BY <1>1, <1>2 DEF Expands
  <1>6. \A x \in S : Value(q, x, n + 1) % Prime = Value(p, x, n + 1) % Prime
    BY <1>5
  <1>7. \A k \in 0 .. (n + 1) - 1 : q[k] % Prime = p[k] % Prime
    <2> HIDE DEF S
    <2> QED
      BY <1>3, <1>4, <1>6, Agree
  <1>8. ASSUME NEW x \in Field PROVE Value(q, x, n + 1) % Prime = Value(p, x, n + 1) % Prime
    BY <1>3, <1>4, <1>7, ValueMod, ModField
  <1> QED
    BY <1>5, <1>8

LEMMA OrderedFront ==
    ASSUME NEW n \in Nat, NEW rs \in Ordered(n + 1)
    PROVE  rs \in [1 .. n + 1 -> Field] /\ Front(rs, n) \in Ordered(n) /\ Front(rs, n) \in [1 .. n -> Field]
  <1>1. rs \in [1 .. n + 1 -> Field] /\ \A i \in 2 .. n + 1 : rs[i - 1] <= rs[i]
    BY DEF Ordered
  <1>2. ASSUME NEW i \in 2 .. n PROVE Front(rs, n)[i - 1] <= Front(rs, n)[i]
    <2>1. i \in 2 .. n + 1 /\ i \in 1 .. n /\ i - 1 \in 1 .. n
      OBVIOUS
    <2> QED
      BY <1>1, <2>1 DEF Front
  <1>3. Front(rs, n) \in [1 .. n -> Field]
    BY <1>1 DEF Front
  <1> QED
    BY <1>1, <1>2, <1>3 DEF Ordered

\* The products of the linear factors of rs and of ms.
SameProducts(rs, ms) == \A x \in Field : ProductAt(rs, x) = ProductAt(ms, x)

LEMMA LargestRoot ==
    ASSUME NEW n \in Nat, NEW rs \in Ordered(n + 1), NEW ms \in Ordered(n + 1), SameProducts(rs, ms)
    PROVE  rs[n + 1] <= ms[n + 1]
  <1>1. rs \in [1 .. n + 1 -> Field] /\ ms \in [1 .. n + 1 -> Field]
    BY OrderedFront
  <1> DEFINE t == rs[n + 1]
  <1>2. t \in Field /\ n + 1 \in 1 .. n + 1 /\ n + 1 \in Nat
    BY <1>1
  <1>3. \E i \in 1 .. n + 1 : rs[i] = t
    BY <1>2
  <1>4. ProductAt(rs, t) = 0
    <2> HIDE DEF t
    <2> QED
      BY <1>1, <1>2, <1>3, Roots
  <1>5. ProductAt(ms, t) = 0
    BY <1>2, <1>4 DEF SameProducts
  <1>6. PICK i \in 1 .. n + 1 : ms[i] = t
    <2> HIDE DEF t
    <2> QED
      BY <1>1, <1>2, <1>5, Roots
  <1>7. ms[i] <= ms[n + 1]
    BY OrderedLast
  <1> QED
    BY <1>6, <1>7

LEMMA FrontsAgree ==
    ASSUME NEW n \in Nat, n + 1 < Prime, NEW rs \in [1 .. n + 1 -> Field], NEW ms \in [1 .. n + 1 -> Field],
           SameProducts(rs, ms), rs[n + 1] = ms[n + 1]
    PROVE  SameProducts(Front(rs, n), Front(ms, n))
  <1> DEFINE us == Front(rs, n)
             vs == Front(ms, n)
             t == rs[n + 1]
  <1>1. us \in [1 .. n -> Field] /\ vs \in [1 .. n -> Field]
    BY ProductNext
  <1>2. t \in Field
    OBVIOUS
  <1>3. ASSUME NEW x \in Field \ {t} PROVE ProductAt(us, x) = ProductAt(vs, x)
    <2> DEFINE y == ProductAt(us, x)
               z == ProductAt(vs, x)
               m == Minus(x, t)
    <2>1. ProductAt(rs, x) = Times(y, m) /\ ProductAt(ms, x) = Times(z, m)
      BY ProductNext
    <2>2. Times(y, m) = Times(z, m)
      BY <2>1 DEF SameProducts
    <2>3. y \in Field /\ z \in Field
      BY <1>1, ProductType
    <2>4. m \in Int /\ m % Prime # 0
      BY <1>2, MinusZero
    <2> HIDE DEF y, z, m
    <2>5. y \in Int /\ z \in Int /\ y % Prime = y /\ z % Prime = z
      BY <2>3, ModField
    <2>6. (m * y) % Prime = (m * z) % Prime
      <3>1. y * m = m * y /\ z * m = m * z
        BY <2>4, <2>5
      <3> QED
        BY <2>2, <3>1 DEF Times
    <2>7. y % Prime = z % Prime
      BY <2>4, <2>5, <2>6, ModCancel
    <2> QED
      BY <2>5, <2>7 DEF y, z
  <1> HIDE DEF us, vs, t
  <1>4. \A x \in Field : ProductAt(us, x) = ProductAt(vs, x)
    BY <1>1, <1>2, <1>3, AgreeEverywhere
  <1> QED
    BY <1>4 DEF SameProducts, us, vs

LEMMA SameRoots ==
    ASSUME NEW n \in Nat, n < Prime, NEW rs \in Ordered(n), NEW ms \in Ordered(n), SameProducts(rs, ms)
    PROVE  rs = ms
  <1> DEFINE G == {m \in 0 .. n : \A us \in Ordered(m), vs \in Ordered(m) : SameProducts(us, vs) => us = vs}
  <1>1. 0 \in G
    <2>1. \A us \in Ordered(0), vs \in Ordered(0) : us = vs
      BY DEF Ordered
    <2> QED
      BY <2>1
  <1>2. ASSUME NEW m \in 0 .. n - 1, m \in G PROVE m + 1 \in G
    <2> SUFFICES ASSUME NEW us \in Ordered(m + 1), NEW vs \in Ordered(m + 1), SameProducts(us, vs)
                 PROVE  us = vs
      <3>1. m + 1 \in 0 .. n
        OBVIOUS
      <3> QED
        BY <3>1
    <2>0. m \in Nat /\ m + 1 < Prime /\ m + 1 \in Nat
      BY PrimeType
    <2>1. us \in [1 .. m + 1 -> Field] /\ vs \in [1 .. m + 1 -> Field]
          /\ Front(us, m) \in Ordered(m) /\ Front(vs, m) \in Ordered(m)
      BY <2>0, OrderedFront
    <2>2. us[m + 1] = vs[m + 1]
      <3>1. SameProducts(vs, us)
        BY DEF SameProducts
      <3>2. us[m + 1] <= vs[m + 1] /\ vs[m + 1] <= us[m + 1]
        BY <2>0, <3>1, LargestRoot
      <3>3. us[m + 1] \in Int /\ vs[m + 1] \in Int
        BY <2>0, <2>1, ModField
      <3> QED
        BY <3>2, <3>3
    <2>3. SameProducts(Front(us, m), Front(vs, m))
      BY <2>0, <2>1, <2>2, FrontsAgree
    <2>4. Front(us, m) = Front(vs, m)
      BY <1>2, <2>1, <2>3
    <2>5. ASSUME NEW i \in 1 .. m + 1 PROVE us[i] = vs[i]
      <3>1. CASE i = m + 1
        BY <2>2, <3>1
      <3>2. CASE i # m + 1
        <4>1. i \in 1 .. m
          BY <3>2
        <4>2. Front(us, m)[i] = us[i] /\ Front(vs, m)[i] = vs[i]
          BY <4>1 DEF Front
        <4> QED
          BY <2>4, <4>2
      <3> QED
        BY <3>1, <3>2
    <2> QED
      BY <2>1, <2>5
  <1>3. n \in G
    <2> HIDE DEF G
    <2> QED
      BY <1>1, <1>2, Counting
  <1> QED
    BY <1>3

-----------------------------------------------------------------------------
(* The solver is complete and sound.                                       *)

PowersOf(r, n) == [k \in Nat |-> Powers(r, n, k)]

LEMMA PowersAre ==
    ASSUME NEW n \in Nat, NEW r \in [1 .. n -> Field]
    PROVE  /\ PowersOf(r, n) \in Poly
           /\ \A k \in Nat : PowerSum(r, k) = PowersOf(r, n)[k] % Prime
  <1>1. r \in [1 .. n -> Int]
    BY ModField
  <1>2. \A k \in Nat : Powers(r, n, k) \in Int
    BY <1>1, PowersType
  <1>3. \A k \in Nat : PowerSum(r, k) = Powers(r, n, k) % Prime
    BY PowerSumPowers
  <1> QED
    BY <1>2, <1>3 DEF PowersOf, Poly

LEMMA NewtonOfRoots ==
    ASSUME NEW n \in Nat, NEW r \in [1 .. n -> Field], NEW q, Expands(q, r, n)
    PROVE  Newton(q, PowersOf(r, n), n)
  <1>1. r \in [1 .. n -> Int] /\ q \in Poly /\ Beginnings(q, r, n)
    BY ModField DEF Expands
  <1>2. ASSUME NEW j \in 1 .. n PROVE (j * q[j] + Convolution(q, PowersOf(r, n), j)) % Prime = 0
    <2>1. j * q[j] + Convolution(q, PowersOf(r, n), j) = 0
      BY <1>1, NewtonExact DEF PowersOf
    <2> QED
      BY <2>1, ModZero
  <1> QED
    BY <1>2 DEF Newton

\* The sums are the power sums of r, modulo Prime.
LEMMA SumsOfRoots ==
    ASSUME NEW n \in Nat, NEW r \in [1 .. n -> Field], NEW sums \in [1 .. n -> Field]
    PROVE  PowerSums(r, n) = sums <=> Same(Extended(sums, n), PowersOf(r, n), 1, n)
  <1>1. \A k \in 1 .. n : k \in Nat
    OBVIOUS
  <1>2. \A k \in 1 .. n : Extended(sums, n)[k] % Prime = sums[k]
    <2>1. \A k \in 1 .. n : Extended(sums, n)[k] = sums[k]
      BY ExtendedType
    <2> QED
      BY <2>1, ModField
  <1>3. \A k \in 1 .. n : PowerSums(r, n)[k] = PowersOf(r, n)[k] % Prime
    BY <1>1, PowersAre DEF PowerSums
  <1>4. PowerSums(r, n) = [k \in 1 .. n |-> PowerSums(r, n)[k]]
    BY DEF PowerSums
  <1>5. PowerSums(r, n) = sums <=> \A k \in 1 .. n : PowerSums(r, n)[k] = sums[k]
    BY <1>4
  <1> QED
    BY <1>2, <1>3, <1>5 DEF Same

\* The polynomial of the solver is the product of the linear factors of r.
Factors(sums, r) == \A x \in Field : ValueAt(sums, Coefficients(sums), x) = ProductAt(r, x)

LEMMA FactorsOfSums ==
    ASSUME NEW n \in Nat, n < Prime, NEW r \in [1 .. n -> Field], NEW sums \in [1 .. n -> Field]
    PROVE  PowerSums(r, n) = sums <=> Factors(sums, r)
  <1> DEFINE c == Coefficients(sums)
             p == Monic(c, n)
             s == Extended(sums, n)
             t == PowersOf(r, n)
  <1>1. AreCoefficients(c, sums, n)
    BY CoefficientsAre
  <1>2. \A i \in 0 .. n - 1 : c[i] \in Int
    <2> HIDE DEF c
    <2> QED
      BY <1>1, CoefficientType
  <1>3. p \in Poly /\ p[0] = 1 /\ s \in Poly /\ t \in Poly
    <2> HIDE DEF c
    <2> QED
      BY <1>2, MonicType, ExtendedType, PowersAre
  <1>4. Newton(p, s, n)
    <2> HIDE DEF c
    <2> QED
      BY <1>1, CoefficientsNewton
  <1>5. PICK q : Expands(q, r, n)
    BY ExpandsAll
  <1>6. q \in Poly /\ q[0] = 1 /\ Newton(q, t, n)
    BY <1>5, NewtonOfRoots DEF Expands
  <1>7. \A x \in Field : ProductAt(r, x) = Value(q, x, n + 1) % Prime
    BY <1>5 DEF Expands
  <1>8. \A x \in Field : ValueAt(sums, c, x) = Value(p, x, n + 1) % Prime
    <2> HIDE DEF c
    <2> QED
      BY <1>2, ValueAtIs
  <1>9. PowerSums(r, n) = sums <=> Same(s, t, 1, n)
    BY SumsOfRoots
  <1>10. Factors(sums, r) <=> \A x \in Field : Value(p, x, n + 1) % Prime = Value(q, x, n + 1) % Prime
    BY <1>7, <1>8 DEF Factors
  <1> HIDE DEF c, p, s, t
  <1>11. ASSUME Same(s, t, 1, n) PROVE Same(p, q, 0, n)
    BY <1>3, <1>4, <1>6, <1>11, SameCoefficients
  <1>12. ASSUME Same(p, q, 0, n) PROVE Same(s, t, 1, n)
    BY <1>3, <1>4, <1>6, <1>12, SamePowers
  <1>13. n + 1 \in Nat /\ (n + 1) - 1 = n
    OBVIOUS
  <1>14. ASSUME Same(p, q, 0, n), NEW x \in Field
         PROVE  Value(p, x, n + 1) % Prime = Value(q, x, n + 1) % Prime
    <2>1. \A k \in 0 .. (n + 1) - 1 : p[k] % Prime = q[k] % Prime
      BY <1>13, <1>14 DEF Same
    <2>2. x \in Int
      BY ModField
    <2> QED
      BY <1>3, <1>6, <1>13, <2>1, <2>2, ValueMod
  <1>15. ASSUME \A x \in Field : Value(p, x, n + 1) % Prime = Value(q, x, n + 1) % Prime
         PROVE  Same(p, q, 0, n)
    <2>1. n + 1 <= Cardinality(Field) /\ Field \in SUBSET Field
      <3>1. 0 \in Int /\ Prime - 1 \in Int /\ 0 <= Prime - 1 /\ (Prime - 1) - 0 + 1 = Prime
        BY PrimeType
      <3>2. Cardinality(Field) = Prime
        BY <3>1, FS_Interval DEF Field
      <3> QED
        BY <3>2, PrimeType
    <2>2. \A k \in 0 .. (n + 1) - 1 : p[k] % Prime = q[k] % Prime
      BY <1>3, <1>6, <1>13, <1>15, <2>1, Agree
    <2> QED
      BY <1>13, <2>2 DEF Same
  <1> QED
    BY <1>9, <1>10, <1>11, <1>12, <1>14, <1>15

LEMMA FactorizationsAre ==
    ASSUME NEW n \in Nat, NEW sums \in [1 .. n -> Field], NEW r
    PROVE  r \in Factorizations(sums) <=> r \in Ordered(n) /\ Factors(sums, r)
  <1> DEFINE c == Coefficients(sums)
             zeros == {x \in Field : ValueAt(sums, c, x) = 0}
             InOrder == \A i \in 1 .. n - 1 : r[i] <= r[i + 1]
  <1>1. Len(sums) = n
    OBVIOUS
  <1>2. r \in Factorizations(sums) <=> r \in [1 .. n -> zeros] /\ InOrder /\ Factors(sums, r)
    BY <1>1 DEF Factorizations, Factors
  <1>3. ASSUME r \in [1 .. n -> Field], Factors(sums, r) PROVE r \in [1 .. n -> zeros]
    <2>1. ASSUME NEW i \in 1 .. n PROVE r[i] \in zeros
      <3>1. r[i] \in Field
        BY <1>3
      <3>2. ProductAt(r, r[i]) = 0
        <4> DEFINE x == r[i]
        <4>1. x \in Field /\ \E k \in 1 .. n : r[k] = x
          BY <3>1
        <4> HIDE DEF x
        <4>2. ProductAt(r, x) = 0
          BY <1>3, <4>1, Roots
        <4> QED
          BY <4>2 DEF x
      <3> QED
        BY <1>3, <3>1, <3>2 DEF Factors
    <2> QED
      BY <1>3, <2>1
  <1>4. ASSUME r \in [1 .. n -> zeros] PROVE r \in [1 .. n -> Field]
    BY <1>4
  <1>5. InOrder <=> \A i \in 2 .. n : r[i - 1] <= r[i]
    <2>1. ASSUME InOrder, NEW i \in 2 .. n PROVE r[i - 1] <= r[i]
      <3>1. i - 1 \in 1 .. n - 1 /\ (i - 1) + 1 = i
        OBVIOUS
      <3> QED
        BY <2>1, <3>1
    <2>2. ASSUME \A i \in 2 .. n : r[i - 1] <= r[i], NEW i \in 1 .. n - 1 PROVE r[i] <= r[i + 1]
      <3>1. i + 1 \in 2 .. n /\ (i + 1) - 1 = i
        OBVIOUS
      <3> QED
        BY <2>2, <3>1
    <2> QED
      BY <2>1, <2>2
  <1> HIDE DEF zeros, InOrder
  <1> QED
    BY <1>2, <1>3, <1>4, <1>5 DEF Ordered

LEMMA LengthIs ==
    ASSUME NEW n \in Lengths, NEW sums \in [1 .. n -> Field]
    PROVE  /\ n \in Nat /\ n < Prime
           /\ GetRoots(sums) = IF Factorizations(sums) = {} THEN [ret |-> RET_INVALID, roots |-> <<>>]
                               ELSE [ret |-> Solved, roots |-> CHOOSE rs \in Factorizations(sums) : TRUE]
  <1>1. n \in Nat /\ n >= 2 /\ n <= 1000 /\ n < Prime
    BY DEF Lengths
  <1>2. Len(sums) = n
    BY <1>1
  <1>3. ~(Len(sums) < 2 \/ Len(sums) > 1000 \/ Prime <= Len(sums))
    BY <1>1, <1>2, PrimeType
  <1> QED
    BY <1>1, <1>3 DEF GetRoots

\* The solver finds any messages whose power sums it is given (solve_poly).
THEOREM SolverComplete ==
    \A n \in Lengths : \A ms \in Ordered(n) :
        GetRoots(PowerSums(ms, n)) = [ret |-> Solved, roots |-> ms]
  <1> SUFFICES ASSUME NEW n \in Lengths, NEW ms \in Ordered(n)
               PROVE  GetRoots(PowerSums(ms, n)) = [ret |-> Solved, roots |-> ms]
    OBVIOUS
  <1> DEFINE sums == PowerSums(ms, n)
  <1>1. n \in Nat /\ n < Prime /\ ms \in [1 .. n -> Field]
    BY DEF Lengths, Ordered
  <1>2. sums \in [1 .. n -> Field] /\ Factors(sums, ms)
    BY <1>1, PowerSumsType, FactorsOfSums
  <1> HIDE DEF sums
  <1>3. ms \in Factorizations(sums)
    BY <1>1, <1>2, FactorizationsAre
  <1>4. ASSUME NEW rs \in Factorizations(sums) PROVE rs = ms
    <2>1. rs \in Ordered(n) /\ Factors(sums, rs)
      BY <1>1, <1>2, FactorizationsAre
    <2>2. SameProducts(rs, ms)
      BY <1>2, <2>1 DEF SameProducts, Factors
    <2> QED
      BY <1>1, <2>1, <2>2, SameRoots
  <1>5. (CHOOSE rs \in Factorizations(sums) : TRUE) = ms
    BY <1>3, <1>4
  <1>6. GetRoots(sums) = [ret |-> Solved, roots |-> ms]
    BY <1>2, <1>3, <1>5, LengthIs
  <1> QED
    BY <1>6 DEF sums

\* What it returns as roots has the power sums it was given (solve_poly).
THEOREM SolverSound ==
    \A n \in Lengths : \A sums \in [1 .. n -> Field] :
        GetRoots(sums).ret = Solved => PowerSums(GetRoots(sums).roots, n) = sums
  <1> SUFFICES ASSUME NEW n \in Lengths, NEW sums \in [1 .. n -> Field], GetRoots(sums).ret = Solved
               PROVE  PowerSums(GetRoots(sums).roots, n) = sums
    OBVIOUS
  <1>1. n \in Nat /\ n < Prime
    BY LengthIs
  <1>2. Factorizations(sums) # {}
    BY LengthIs DEF Solved, RET_INVALID
  <1> DEFINE rs == CHOOSE r \in Factorizations(sums) : TRUE
  <1>3. GetRoots(sums).roots = rs /\ rs \in Factorizations(sums)
    BY <1>2, LengthIs
  <1> HIDE DEF rs
  <1>4. rs \in Ordered(n) /\ Factors(sums, rs)
    BY <1>1, <1>3, FactorizationsAre
  <1>5. PowerSums(rs, n) = sums
    BY <1>1, <1>4, FactorsOfSums DEF Ordered
  <1> QED
    BY <1>3, <1>5
=============================================================================
