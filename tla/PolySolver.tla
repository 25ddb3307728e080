----------------------------- MODULE PolySolver ----------------------------
(***************************************************************************)
(* From power sums to messages (flint/solverflint.cpp, flint/flint.go).    *)
(*                                                                         *)
(* Newton's identities turn the power sums of n unknown messages into the  *)
(* coefficients of the monic polynomial that has them as its roots, modulo *)
(* a prime; the polynomial is factored, and the messages are read off the  *)
(* factors if all of these are linear.  The arithmetic and the             *)
(* factorization are the library's; what is used of the second is that it  *)
(* finds the linear factors with their multiplicities.  Strings, bases and *)
(* buffers are left out.                                                   *)
(***************************************************************************)
EXTENDS Integers, Sequences, FiniteSets, Functions

CONSTANT Prime

ASSUME PrimeOK == Prime \in Nat \ {0, 1} /\ \A a, b \in 2 .. Prime - 1 : a * b # Prime

Field == 0 .. Prime - 1

Neg(a) == (Prime - (a % Prime)) % Prime
Plus(a, b) == (a + b) % Prime
Minus(a, b) == Plus(a, Neg(b))
Times(a, b) == (a * b) % Prime

\* fmpzxx::invmod
InvMod(a) == CHOOSE b \in Field : Times(a % Prime, b) = 1

Exp(a, n) == LET power[i \in 0 .. n] == IF i = 0 THEN 1 ELSE Times(a, power[i - 1]) IN power[n]

Sum(f) == SumFunction(f) % Prime

\* What power sums are: the k-th of the sequence ms.
PowerSum(ms, k) == Sum([i \in DOMAIN ms |-> Exp(ms[i], k)])
PowerSums(ms, n) == [k \in 1 .. n |-> PowerSum(ms, k)]

\* Return codes of solve_poly.
Solved == 0
RET_INVALID == 1
RET_INPUT_ERROR == 101

\* Mutant: the coefficients meet the sums of the same index.
SameIndex(i, k) == k

\* j, which runs down from i - 1 while k runs up from 0.
Partner(i, k) == i - 1 - k

\* Mutant: the inverse of i, not i + 1.
InverseOfIndex(i) == InvMod(Neg(IF i = 0 THEN 1 ELSE i))

NegInverse(i) == InvMod(Neg(i + 1))

\* coeff[i], of x^(n-i-1).
Coefficients(sums) ==
    LET coeff[i \in 0 .. Len(sums) - 1] ==
            Times(NegInverse(i),
                  Plus(sums[i + 1],
                       Sum([k \in 0 .. i - 1 |-> Times(coeff[k], sums[Partner(i, k) + 1])])))
    IN coeff

\* The value at x of the polynomial with these coefficients and lead 1.
ValueAt(sums, coeff, x) ==
    LET n == Len(sums)
    IN Plus(Exp(x, n), Sum([i \in 0 .. n - 1 |-> Times(coeff[i], Exp(x, n - i - 1))]))

\* The value at x of the product of the linear factors with these roots.
ProductAt(rs, x) ==
    LET product[i \in 0 .. Len(rs)] == IF i = 0 THEN 1 ELSE Times(product[i - 1], Minus(x, rs[i]))
    IN product[Len(rs)]

\* set_factor_kaltofen_shoup, read off: the ways, at most one, to write the
\* polynomial as a product of linear factors, by their roots in order.
Factorizations(sums) ==
    LET n == Len(sums)
        coeff == Coefficients(sums)
        zeros == {x \in Field : ValueAt(sums, coeff, x) = 0}
    IN {rs \in [1 .. n -> zeros] :
          /\ \A i \in 1 .. n - 1 : rs[i] <= rs[i + 1]
          /\ \A x \in Field : ValueAt(sums, coeff, x) = ProductAt(rs, x)}

\* solve_poly, solve, GetRoots.
GetRoots(sums) ==
    IF Len(sums) < 2 \/ Len(sums) > 1000 \/ Prime <= Len(sums)
      THEN [ret |-> RET_INPUT_ERROR, roots |-> <<>>]
    ELSE IF Factorizations(sums) = {} THEN [ret |-> RET_INVALID, roots |-> <<>>]
    ELSE [ret |-> Solved, roots |-> CHOOSE rs \in Factorizations(sums) : TRUE]

-----------------------------------------------------------------------------
(* What the solver's theorems are about.                                    *)

\* The numbers of messages that are accepted, and messages in order.
Lengths == {n \in 2 .. 1000 : n < Prime}
Ordered(n) == {ms \in [1 .. n -> Field] : \A i \in 2 .. n : ms[i - 1] <= ms[i]}
=============================================================================
