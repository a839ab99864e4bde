------------------------------ MODULE Conversions ------------------------------
(***************************************************************************)
(* How numbers and elements become text, and text becomes numbers and      *)
(* elements again: conversions.cpp, and the parts of Element.cpp that put  *)
(* an element into a description and take it out again.                    *)
(*                                                                         *)
(* A text is the sequence of its character codes.  An operator that can    *)
(* throw, or that reads past the end of a table, yields the set of its     *)
(* results: none when it throws, any character after the end of a table.   *)
(* Numbers are not negative: orders, coordinates and residues.             *)
(***************************************************************************)
EXTENDS Integers, Sequences

CONVERSION_BASE == 62

Char    == -128 .. 127
LetterO == 79

(* FORWARD_CONVERSION_MAP: 0-9, A-Z, a-z.  GMP writes base 62 alike.       *)
Forward == [d \in 0 .. 61 |->
              IF d < 10 THEN 48 + d ELSE IF d < 36 THEN 55 + d ELSE 61 + d]

(* REVERSE_CONVERSION_MAP: 99 stands for what is not a digit.              *)
Reverse == [c \in 0 .. 122 |-> CASE c \in 48 .. 57  -> c - 48
                                 [] c \in 65 .. 90  -> c - 55
                                 [] c \in 97 .. 122 -> c - 61
                                 [] OTHER           -> 99]

(* A char is compared with an unsigned size: negative ones are large.      *)
(* Both checks let the index one past the last entry through.              *)
Lookup(table, last, c) ==
  CASE c \in DOMAIN table -> {table[c]}
    [] c = last + 1       -> Char
    [] OTHER              -> {}

convert_reverseMutant(c) ==   \* as if letters counted alike in both cases
  {IF c \in 97 .. 122 THEN c - 87 ELSE Reverse[c]}

convert_forward(c) == Lookup(Forward, 61, c)
convert_reverse(c) == Lookup(Reverse, 122, c)

(* std::transform: the texts it can make, given the set of characters that *)
(* each character can become.                                              *)
Transform(choices) ==
  LET T[k \in 0 .. Len(choices)] ==
        IF k = 0 THEN {<<>>}
        ELSE {Append(t, c) : t \in T[k - 1], c \in choices[k]}
  IN T[Len(choices)]

(* The digits of n, and the number that digits denote (GMP).               *)
Digits(n, base) ==
  LET D[k \in 0 .. n] ==
        IF k < base THEN <<k>> ELSE Append(D[k \div base], k % base)
  IN D[n]

Number(digits, base) ==
  LET V[k \in 0 .. Len(digits)] ==
        IF k = 0 THEN 0 ELSE V[k - 1] * base + digits[k]
  IN V[Len(digits)]

Written(n, base) == LET d == Digits(n, base) IN [k \in DOMAIN d |-> Forward[d[k]]]

-----------------------------------------------------------------------------
(* Limbs: the words of a positive number, the only ones montfp has.        *)

limbs_to_str(n) ==
  LET d == Digits(n, CONVERSION_BASE)
  IN Transform([k \in DOMAIN d |-> convert_forward(d[k])])

str_to_limbs(text) ==
  LET made == Transform([k \in DOMAIN text |-> convert_reverse(text[k])])
  IN {Number(t, CONVERSION_BASE) : t \in made}

-----------------------------------------------------------------------------
(* mpz_t.  mpz_set_str refuses what is not a digit of its base.            *)

mpz_set_str(text, base) ==
  IF \A k \in DOMAIN text : text[k] \in DOMAIN Reverse /\ Reverse[text[k]] < base
  THEN {Number([k \in DOMAIN text |-> Reverse[text[k]]], base)}
  ELSE {}

(* The letter O alone is how PBC prints the point at infinity; it is also  *)
(* the digit 24 of base 62.                                                *)
str_to_mpz(text, base) ==
  CASE text = <<>>        -> {}
    [] text = <<LetterO>> -> {0}
    [] OTHER              -> mpz_set_str(text, base)

mpz_to_str(n) == Written(n, CONVERSION_BASE)

-----------------------------------------------------------------------------
(* Elements.  A value is <<n>> in a prime field, <<x, y>> on a curve or in *)
(* a quadratic extension, and Infinity on a curve.  Printing lists the     *)
(* decimal components; brackets and blanks are left out: Element.cpp:154   *)
(* drops them, and Element.cpp:307 puts them back.                         *)

Infinity == <<>>

Printed(value) ==
  IF value = Infinity THEN << <<LetterO>> >>
  ELSE [k \in DOMAIN value |-> Written(value[k], 10)]

numberToJson(component) ==
  LET n == CHOOSE n \in str_to_mpz(component, 10) : TRUE IN mpz_to_str(n)

(* The members x and y of the description, as far as there are any; more   *)
(* components, which no class of the library has, would become a0, a1, ... *)
DescribedMutant(value) ==     \* as if the components were swapped
  LET p == Printed(value)
  IN IF Len(p) = 2 THEN [y |-> numberToJson(p[1]), x |-> numberToJson(p[2])]
     ELSE [x |-> numberToJson(p[1])]

Described(value) ==
  LET p == Printed(value)
  IN IF Len(p) = 2 THEN [y |-> numberToJson(p[2]), x |-> numberToJson(p[1])]
     ELSE [x |-> numberToJson(p[1])]

(* What the constructor reads.  A member that is not a number ends the     *)
(* list of components silently (catch).                                    *)
Components(d) ==
  LET x == str_to_mpz(d.x, CONVERSION_BASE)
      y == IF "y" \in DOMAIN d THEN str_to_mpz(d.y, CONVERSION_BASE) ELSE {}
  IN CASE x = {} -> <<>>
       [] x # {} /\ y = {} -> <<CHOOSE n \in x : TRUE>>
       [] OTHER -> <<CHOOSE n \in x : TRUE, CHOOSE n \in y : TRUE>>

formatElementComponents(v) == [k \in DOMAIN v |-> Written(v[k], 10)]

(* The modulus of a prime field, and of the field under a curve.           *)
IsPrime(n) == n \in Nat /\ n > 1 /\ \A d \in 2 .. n - 1 : n % d # 0

(* The curve of a type A pairing over the prime field p.                   *)
OnCurve(point, p) ==
  (point[2] * point[2]) % p = (point[1] * point[1] * point[1] + point[1]) % p

(* element_set_str, on the curve over p, or elsewhere if p is 0.  A single *)
(* number is no point: it leaves the point at infinity, or the origin.     *)
element_set_str(p, text) ==
  LET v == [k \in DOMAIN text |-> CHOOSE n \in mpz_set_str(text[k], 10) : TRUE]
  IN CASE p = 0                 -> {v}
       [] p # 0 /\ Len(v) # 2   -> {Infinity, <<0, 0>>}
       [] OTHER                 -> {IF OnCurve(v, p) THEN v ELSE Infinity}

(* The element that comes out of a description.                            *)
Imported(p, d) == element_set_str(p, formatElementComponents(Components(d)))

(* assert(value == buf) at the end of Element::finalize.                   *)
PrintsAsRead(p, d) ==
  \A e \in Imported(p, d) : Printed(e) = formatElementComponents(Components(d))

-----------------------------------------------------------------------------
(* Bytes.  The compressed form of a point is its x and the sign of its y.  *)
(* It is read back by x alone, so that either point may come out, which is *)
(* negated when its bytes are not the ones given.                          *)

toBytes(point, p) == <<point[1], 2 * point[2] > p>>

Neg(point, p) == <<point[1], (p - point[2]) % p>>

PointsAt(x, p) == {<<x, y>> : y \in {y \in 0 .. p - 1 : OnCurve(<<x, y>>, p)}}

elementFromBytesMutant(bytes, p) ==  \* as if the sign were not compared
  PointsAt(bytes[1], p)

elementFromBytes(bytes, p) ==
  {IF toBytes(e, p) = bytes THEN e ELSE Neg(e, p) : e \in PointsAt(bytes[1], p)}

=============================================================================
