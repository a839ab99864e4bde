---------------------------- MODULE MCReEncryption ----------------------------
(***************************************************************************)
(* Instances of ReEncryption for TLC: the exponents are the integers modulo*)
(* 5, in which 0 has the inverse 0, as in PBC's mpz_invert.                *)
(***************************************************************************)
EXTENDS ReEncryption, TLC

CONSTANTS alice, bob, carol, context, other

Order == 5

Z5          == 0 .. Order - 1
Plus(a, b)  == (a + b) % Order
Minus(a)    == (Order - a) % Order
Times(a, b) == (a * b) % Order
Inverse(a)  == IF a = 0 THEN 0 ELSE CHOOSE b \in Z5 : Times(a, b) = 1

Symmetry == Permutations(People)

=============================================================================
