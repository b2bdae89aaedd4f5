------------------------------- MODULE Sieve -------------------------------
(***************************************************************************)
(* answer/c-to-cxx/cmp.cxx: get_primes<N>(), the sieve of Eratosthenes,    *)
(* which the compiler runs.                                                *)
(***************************************************************************)
EXTENDS Integers

CONSTANT N

SieveAssumption == N \in Nat \ {0}

VARIABLES is_primes, i, j,
          pc \* in the "outer" or in the "inner" loop, or "done"

vars == <<is_primes, i, j, pc>>

\* Lines 8-10.
Init ==
  /\ is_primes = [k \in 0..N |-> k # 1]
  /\ i = 2 /\ j = 0 /\ pc = "outer"

\* Mutant: the multiples begin with the number itself.
Outer_Itself ==
  /\ pc = "outer" /\ i <= N
  /\ IF is_primes[i]
     THEN pc' = "inner" /\ j' = i /\ UNCHANGED i
     ELSE i' = i + 1 /\ UNCHANGED <<j, pc>>
  /\ UNCHANGED is_primes

\* Lines 11-13: a number that is crossed out is passed over.
Outer ==
  /\ pc = "outer" /\ i <= N
  /\ IF is_primes[i]
     THEN pc' = "inner" /\ j' = i + i /\ UNCHANGED i
     ELSE i' = i + 1 /\ UNCHANGED <<j, pc>>
  /\ UNCHANGED is_primes

\* Lines 13-14, and back to line 11.
Inner ==
  /\ pc = "inner"
  /\ IF j <= N
     THEN is_primes' = [is_primes EXCEPT ![j] = FALSE] /\ j' = j + i /\ UNCHANGED <<i, pc>>
     ELSE i' = i + 1 /\ pc' = "outer" /\ UNCHANGED <<is_primes, j>>

\* Line 16.
Return == pc = "outer" /\ i > N /\ pc' = "done" /\ UNCHANGED <<is_primes, i, j>>

Next == Outer \/ Inner \/ Return

Spec == Init /\ [][Next]_vars

-----------------------------------------------------------------------------
Prime(k) == k > 1 /\ \A d, m \in 2..k : d * m # k

\* No prime is ever crossed out, and in the end what is left is prime.  (Nothing
\* is said of 0, which line 9 marks as a prime and no line takes back.)
PrimesFound ==
  \A k \in 1..N : (Prime(k) => is_primes[k]) /\ (pc = "done" /\ is_primes[k] => Prime(k))
=============================================================================
