-------------------------- MODULE ConversionsProofs --------------------------
(***************************************************************************)
(* What TLAPS proves about Conversions, for every number and every point.  *)
(*                                                                         *)
(* The conversions are recursive, and the induction theorems of the        *)
(* library take the property as an operator.  A property is a set here:    *)
(* Induct says that a set of naturals that has n whenever it has all       *)
(* numbers below n has them all.  It follows from the theorem that the     *)
(* finite subsets of a set are well founded.                               *)
(***************************************************************************)
EXTENDS Conversions, SequenceTheorems, FiniteSetTheorems, WellFoundedInduction,
        TLAPS

(* Every set of naturals that is not empty has a least element: the        *)
(* intervals below its elements are finite sets, and the smallest of them  *)
(* ends there.                                                             *)
LEMMA Least ==
  ASSUME NEW T \in SUBSET Nat, T # {}
  PROVE  \E m \in T : \A x \in T : m <= x
<1>1. PICK n \in T : TRUE OBVIOUS
<1> DEFINE S == 0 .. n
           F == {0 .. x : x \in T \cap S}
           R == StrictSubsetOrdering(S)
<1>2. IsFiniteSet(S) BY FS_Interval
<1>3. IsWellFoundedOn(R, FiniteSubsetsOf(S))
  BY FS_StrictSubsetOrderingWellFounded
<1>4. F \subseteq FiniteSubsetsOf(S)
  BY <1>2, FS_Subset DEF FiniteSubsetsOf
<1>5. F # {} BY <1>1
<1>6. PICK A \in F : \A B \in F : ~(<<B, A>> \in R)
  BY <1>3, <1>4, <1>5, WFMin
<1>7. PICK m \in T \cap S : A = 0 .. m OBVIOUS
<1>8. ASSUME NEW x \in T, x < m PROVE FALSE
  <2>1. 0 .. x \in F BY <1>7, <1>8
  <2>2. 0 .. x \subseteq 0 .. m /\ m \in 0 .. m /\ m \notin 0 .. x BY <1>7, <1>8
  <2>3. <<0 .. x, 0 .. m>> \in R
    BY <1>7, <1>8, <2>2 DEF StrictSubsetOrdering
  <2> QED BY <1>6, <1>7, <2>1, <2>3
<1> QED BY <1>7, <1>8

LEMMA Induct ==
  ASSUME NEW P, \A n \in Nat : (\A m \in Nat : m < n => m \in P) => n \in P
  PROVE  Nat \subseteq P
<1> DEFINE T == Nat \ P
<1> SUFFICES ASSUME T # {} PROVE FALSE
  OBVIOUS
<1>1. PICK m \in T : \A x \in T : m <= x BY Least
<1>2. \A k \in Nat : k < m => k \in P BY <1>1
<1> QED BY <1>1, <1>2

-----------------------------------------------------------------------------
(* Division.                                                               *)

LEMMA DivMod ==
  ASSUME NEW a \in Int, NEW b \in Nat, b > 0
  PROVE  /\ a = b * (a \div b) + (a % b)
         /\ a % b \in 0 .. b - 1 /\ a \div b \in Int
OBVIOUS

LEMMA DivLess ==
  ASSUME NEW a \in Nat, NEW b \in Nat, b > 1, a >= b
  PROVE  a \div b \in 0 .. a - 1
<1> DEFINE q == a \div b
<1>1. a = b * q + (a % b) /\ a % b \in 0 .. b - 1 /\ q \in Int BY DivMod
<1> HIDE DEF q
<1>2. q >= 0
  <2> SUFFICES ASSUME q <= -1 PROVE FALSE
    BY <1>1
  <2>1. b * q <= b * (-1) BY <1>1
  <2> QED BY <1>1, <2>1
<1>3. q < a
  <2> SUFFICES ASSUME q >= a PROVE FALSE
    BY <1>1
  <2>1. b * q >= 2 * q BY <1>1, <1>2
  <2> QED BY <1>1, <2>1
<1> QED BY <1>1, <1>2, <1>3 DEF q

-----------------------------------------------------------------------------
(* The digits of a number.  Digits computes those of all numbers up to n;  *)
(* two such tables agree where they both have an entry.                    *)

Entry(D, base, k) ==
  IF k < base THEN <<k>> ELSE Append(D[k \div base], k % base)

Table(D, base, n) == D = [k \in 0 .. n |-> Entry(D, base, k)]

LEMMA TableEntry ==
  ASSUME NEW base, NEW n, NEW D, Table(D, base, n), NEW k \in 0 .. n
  PROVE  D[k] = Entry(D, base, k)
<1>1. D = [j \in 0 .. n |-> Entry(D, base, j)] BY DEF Table
<1>2. [j \in 0 .. n |-> Entry(D, base, j)][k] = Entry(D, base, k) OBVIOUS
<1> QED BY <1>1, <1>2

LEMMA TableExists ==
  ASSUME NEW base \in Nat, base > 1, NEW n \in Nat
  PROVE  \E D : Table(D, base, n)
<1> DEFINE P == {m \in Nat : \E D : Table(D, base, m)}
<1>1. ASSUME NEW m \in Nat, \A k \in Nat : k < m => k \in P
      PROVE  m \in P
  <2>1. PICK C : m # 0 => Table(C, base, m - 1)
    <3>1. CASE m = 0 BY <3>1
    <3>2. CASE m # 0
      <4>1. m - 1 \in P BY <1>1, <3>2
      <4> QED BY <4>1
    <3> QED BY <3>1, <3>2
  <2>2. PICK D : D = [k \in 0 .. m |-> IF k < m THEN C[k] ELSE Entry(C, base, m)]
    OBVIOUS
  <2>3. ASSUME NEW k \in 0 .. m PROVE D[k] = Entry(D, base, k)
    <3> k \in Nat OBVIOUS
    <3>3. D[k] = IF k < m THEN C[k] ELSE Entry(C, base, m) BY <2>2
    <3>4. k < m => m # 0 /\ k \in 0 .. m - 1 OBVIOUS
    <3>5. D[k] = Entry(C, base, k)
      <4>1. k < m => C[k] = Entry(C, base, k) BY <2>1, <3>4, TableEntry
      <4>2. ~(k < m) => k = m OBVIOUS
      <4> QED BY <3>3, <4>1, <4>2
    <3>1. CASE k < base BY <3>1, <3>5 DEF Entry
    <3>2. CASE k >= base
      <4>1. k \div base \in 0 .. k - 1 BY <3>2, DivLess
      <4>2. D[k \div base] = C[k \div base] BY <2>2, <4>1
      <4> QED BY <3>2, <3>5, <4>2 DEF Entry
    <3> QED BY <3>1, <3>2
  <2>4. [k \in 0 .. m |-> D[k]] = [k \in 0 .. m |-> Entry(D, base, k)]
    BY <2>3
  <2>5. D = [k \in 0 .. m |-> D[k]] BY <2>2
  <2>6. Table(D, base, m) BY <2>4, <2>5 DEF Table
  <2> QED BY <2>6
<1>2. Nat \subseteq P
  <2> HIDE DEF P
  <2> QED BY <1>1, Induct
<1> QED BY <1>2

LEMMA TablesAgree ==
  ASSUME NEW base \in Nat, base > 1, NEW m \in Nat, NEW n \in Nat,
         NEW C, Table(C, base, m), NEW D, Table(D, base, n),
         NEW k \in Nat, k <= m, k <= n
  PROVE  C[k] = D[k]
<1> DEFINE P == {j \in Nat : j <= m /\ j <= n => C[j] = D[j]}
<1>1. ASSUME NEW j \in Nat, \A i \in Nat : i < j => i \in P
      PROVE  j \in P
  <2> SUFFICES ASSUME j <= m, j <= n PROVE C[j] = D[j]
    OBVIOUS
  <2>1. C[j] = Entry(C, base, j) /\ D[j] = Entry(D, base, j) BY TableEntry
  <2>2. CASE j < base BY <2>1, <2>2 DEF Entry
  <2>3. CASE j >= base
    <3>1. j \div base \in 0 .. j - 1 BY <2>3, DivLess
    <3>2. j \div base \in P BY <1>1, <3>1
    <3>3. C[j \div base] = D[j \div base] BY <3>1, <3>2
    <3> QED BY <2>1, <3>3 DEF Entry
  <2> QED BY <2>2, <2>3
<1>2. Nat \subseteq P
  <2> HIDE DEF P
  <2> QED BY <1>1, Induct
<1> QED BY <1>2

LEMMA DigitsTable ==
  ASSUME NEW base \in Nat, base > 1, NEW n \in Nat
  PROVE  \E D : Table(D, base, n) /\ Digits(n, base) = D[n]
<1> DEFINE D == CHOOSE D : Table(D, base, n)
<1>1. Table(D, base, n) BY TableExists
<1>2. Digits(n, base) = D[n] BY DEF Digits, Table, Entry
<1> QED BY <1>1, <1>2

LEMMA DigitsOf ==
  ASSUME NEW base \in Nat, base > 1, NEW n \in Nat
  PROVE  /\ n < base => Digits(n, base) = <<n>>
         /\ n >= base =>
              Digits(n, base) = Append(Digits(n \div base, base), n % base)
<1>1. PICK D : Table(D, base, n) /\ Digits(n, base) = D[n] BY DigitsTable
<1>2. D[n] = Entry(D, base, n) BY <1>1 DEF Table
<1>3. ASSUME n >= base
      PROVE  D[n \div base] = Digits(n \div base, base)
  <2>1. n \div base \in 0 .. n - 1 BY <1>3, DivLess
  <2>2. PICK C : /\ Table(C, base, n \div base)
                 /\ Digits(n \div base, base) = C[n \div base]
    BY <2>1, DigitsTable
  <2> QED BY <1>1, <2>1, <2>2, TablesAgree
<1> QED BY <1>1, <1>2, <1>3 DEF Entry

(* Every number has digits, and they are digits.                           *)
LEMMA DigitsType ==
  ASSUME NEW base \in Nat, base > 1, NEW n \in Nat
  PROVE  Digits(n, base) \in Seq(0 .. base - 1) \ {<<>>}
<1> DEFINE P == {m \in Nat : Digits(m, base) \in Seq(0 .. base - 1) \ {<<>>}}
<1>1. ASSUME NEW m \in Nat, \A k \in Nat : k < m => k \in P
      PROVE  m \in P
  <2>1. CASE m < base
    <3>1. Digits(m, base) = <<m>> BY <2>1, DigitsOf
    <3>2. m \in 0 .. base - 1 BY <2>1
    <3>3. <<m>> \in Seq(0 .. base - 1) /\ <<m>> # <<>> BY <3>2
    <3> QED BY <3>1, <3>3
  <2>2. CASE m >= base
    <3>1. m \div base \in 0 .. m - 1 BY <2>2, DivLess
    <3>2. Digits(m \div base, base) \in Seq(0 .. base - 1)
      BY <1>1, <3>1
    <3>3. m % base \in 0 .. base - 1 BY DivMod
    <3>4. Digits(m, base) = Append(Digits(m \div base, base), m % base)
      BY <2>2, DigitsOf
    <3> HIDE DEF P
    <3>5. /\ Append(Digits(m \div base, base), m % base) \in Seq(0 .. base - 1)
          /\ Append(Digits(m \div base, base), m % base) # <<>>
      BY <3>2, <3>3, AppendProperties
    <3> QED BY <3>4, <3>5 DEF P
  <2> QED BY <2>1, <2>2
<1>2. Nat \subseteq P
  <2> HIDE DEF P
  <2> QED BY <1>1, Induct
<1> QED BY <1>2

-----------------------------------------------------------------------------
(* The number that digits denote: Number adds up the digits from the       *)
(* front, in a table of the values of all the prefixes.                    *)

Sum(V, s, base, k) == IF k = 0 THEN 0 ELSE V[k - 1] * base + s[k]

Prefixes(V, s, base) == V = [k \in 0 .. Len(s) |-> Sum(V, s, base, k)]

LEMMA PrefixEntry ==
  ASSUME NEW s, NEW base, NEW V, Prefixes(V, s, base), NEW k \in 0 .. Len(s)
  PROVE  V[k] = Sum(V, s, base, k)
<1>1. V = [j \in 0 .. Len(s) |-> Sum(V, s, base, j)] BY DEF Prefixes
<1>2. [j \in 0 .. Len(s) |-> Sum(V, s, base, j)][k] = Sum(V, s, base, k) OBVIOUS
<1> QED BY <1>1, <1>2

LEMMA PrefixStep ==
  ASSUME NEW s \in Seq(Nat), NEW x \in Nat, NEW base \in Nat,
         NEW V, Prefixes(V, s, base)
  PROVE  \E W : /\ Prefixes(W, Append(s, x), base)
                /\ W[Len(s) + 1] = V[Len(s)] * base + x
<1> DEFINE t == Append(s, x)
<1>1. /\ Len(t) = Len(s) + 1 /\ Len(s) \in Nat /\ t[Len(s) + 1] = x
      /\ \A k \in 1 .. Len(s) : t[k] = s[k]
  BY AppendProperties
<1> HIDE DEF t
<1>2. PICK W : W = [k \in 0 .. Len(t) |->
                      IF k \in 0 .. Len(s) THEN V[k] ELSE V[Len(s)] * base + x]
  OBVIOUS
<1>3. W[Len(s) + 1] = V[Len(s)] * base + x BY <1>1, <1>2
<1>4. \A k \in 0 .. Len(s) : W[k] = V[k] BY <1>1, <1>2
<1>5. ASSUME NEW k \in 0 .. Len(t) PROVE W[k] = Sum(W, t, base, k)
  <2>1. CASE k = 0
    <3>1. V[0] = Sum(V, s, base, 0) BY <1>1, PrefixEntry
    <3> QED BY <1>1, <1>4, <2>1, <3>1 DEF Sum
  <2>2. CASE k \in 1 .. Len(s)
    <3>1. V[k] = Sum(V, s, base, k) BY <1>1, <2>2, PrefixEntry
    <3>2. W[k] = V[k] /\ W[k - 1] = V[k - 1] /\ t[k] = s[k] BY <1>1, <1>4, <2>2
    <3> QED BY <2>2, <3>1, <3>2 DEF Sum
  <2>3. CASE k = Len(s) + 1
    <3>1. W[k - 1] = V[Len(s)] /\ t[k] = x BY <1>1, <1>4, <2>3
    <3> QED BY <1>1, <1>3, <2>3, <3>1 DEF Sum
  <2> QED BY <1>1, <2>1, <2>2, <2>3
<1>6. [k \in 0 .. Len(t) |-> W[k]] = [k \in 0 .. Len(t) |-> Sum(W, t, base, k)]
  BY <1>5
<1>7. W = [k \in 0 .. Len(t) |-> W[k]] BY <1>2
<1> QED BY <1>3, <1>6, <1>7 DEF Prefixes, t

LEMMA PrefixesAgree ==
  ASSUME NEW s, Len(s) \in Nat, NEW base,
         NEW V, Prefixes(V, s, base), NEW W, Prefixes(W, s, base),
         NEW k \in 0 .. Len(s)
  PROVE  V[k] = W[k]
<1> DEFINE P == {j \in Nat : j <= Len(s) => V[j] = W[j]}
<1>1. ASSUME NEW j \in Nat, \A i \in Nat : i < j => i \in P
      PROVE  j \in P
  <2> SUFFICES ASSUME j <= Len(s) PROVE V[j] = W[j]
    OBVIOUS
  <2>1. V[j] = Sum(V, s, base, j) /\ W[j] = Sum(W, s, base, j)
    BY PrefixEntry
  <2>2. j # 0 => j - 1 \in P BY <1>1
  <2>3. j # 0 => V[j - 1] = W[j - 1] BY <2>2
  <2> QED BY <2>1, <2>3 DEF Sum
<1>2. Nat \subseteq P
  <2> HIDE DEF P
  <2> QED BY <1>1, Induct
<1> QED BY <1>2

LEMMA NumberTable ==
  ASSUME NEW s \in Seq(Nat), NEW base \in Nat
  PROVE  \E V : Prefixes(V, s, base)
<1> DEFINE P == {n \in Nat : \A t \in Seq(Nat) :
                                Len(t) = n => \E V : Prefixes(V, t, base)}
<1>1. ASSUME NEW n \in Nat, \A m \in Nat : m < n => m \in P
      PROVE  n \in P
  <2> SUFFICES ASSUME NEW t \in Seq(Nat), Len(t) = n
               PROVE  \E V : Prefixes(V, t, base)
    OBVIOUS
  <2>1. CASE t = <<>>
    <3>1. PICK V : V = [k \in 0 .. 0 |-> 0] OBVIOUS
    <3>2. V = [k \in 0 .. Len(t) |-> Sum(V, t, base, k)]
      <4>1. Len(t) = 0 BY <2>1
      <4>2. \A k \in 0 .. 0 : Sum(V, t, base, k) = 0 BY DEF Sum
      <4> QED BY <3>1, <4>1, <4>2
    <3> QED BY <3>2 DEF Prefixes
  <2>2. CASE t # <<>>
    <3>1. PICK u \in Seq(Nat), x \in Nat : t = Append(u, x)
      <4> DEFINE u == [k \in 1 .. Len(t) - 1 |-> t[k]]
      <4>1. Len(t) \in Nat /\ Len(t) > 0 BY <2>2
      <4>2. u \in Seq(Nat) /\ t[Len(t)] \in Nat BY <4>1
      <4>3. t = Append(u, t[Len(t)]) BY <4>1, <4>2
      <4> QED BY <4>2, <4>3
    <3>2. Len(u) < n /\ Len(u) \in Nat BY <3>1
    <3>3. Len(u) \in P BY <1>1, <3>2
    <3>4. PICK V : Prefixes(V, u, base) BY <3>3
    <3> HIDE DEF P
    <3> QED BY <3>1, <3>4, PrefixStep
  <2> QED BY <2>1, <2>2
<1>2. Nat \subseteq P
  <2> HIDE DEF P
  <2> QED BY <1>1, Induct
<1>3. Len(s) \in P BY <1>2
<1> QED BY <1>3

LEMMA NumberValue ==
  ASSUME NEW s \in Seq(Nat), NEW base \in Nat, NEW V, Prefixes(V, s, base)
  PROVE  Number(s, base) = V[Len(s)]
<1> DEFINE W == CHOOSE W : Prefixes(W, s, base)
<1>1. Prefixes(W, s, base) OBVIOUS
<1>2. Number(s, base) = W[Len(s)] BY DEF Number, Prefixes, Sum
<1> HIDE DEF W
<1>3. Len(s) \in 0 .. Len(s) /\ Len(s) \in Nat OBVIOUS
<1> QED BY <1>1, <1>2, <1>3, PrefixesAgree

LEMMA NumberOf ==
  ASSUME NEW base \in Nat
  PROVE  /\ \A x \in Nat : Number(<<x>>, base) = x
         /\ \A s \in Seq(Nat), x \in Nat :
              Number(Append(s, x), base) = Number(s, base) * base + x
<1>1. ASSUME NEW s \in Seq(Nat), NEW x \in Nat
      PROVE  Number(Append(s, x), base) = Number(s, base) * base + x
  <2>1. PICK V : Prefixes(V, s, base) BY NumberTable
  <2>2. PICK W : /\ Prefixes(W, Append(s, x), base)
                 /\ W[Len(s) + 1] = V[Len(s)] * base + x
    BY <2>1, PrefixStep
  <2>3. /\ Append(s, x) \in Seq(Nat) /\ Len(Append(s, x)) = Len(s) + 1
    BY AppendProperties
  <2> QED BY <2>1, <2>2, <2>3, NumberValue
<1>2. Number(<<>>, base) = 0
  <2>1. <<>> \in Seq(Nat) /\ Len(<<>>) = 0 OBVIOUS
  <2>2. PICK V : Prefixes(V, <<>>, base) BY <2>1, NumberTable
  <2>3. V[0] = Sum(V, <<>>, base, 0) BY <2>1, <2>2, PrefixEntry
  <2>4. Number(<<>>, base) = V[Len(<<>>)] BY <2>1, <2>2, NumberValue
  <2>5. V[0] = 0 BY <2>3 DEF Sum
  <2> QED BY <2>1, <2>4, <2>5
<1>3. ASSUME NEW x \in Nat PROVE Number(<<x>>, base) = x
  <2>1. <<x>> = Append(<<>>, x) /\ <<>> \in Seq(Nat) OBVIOUS
  <2>2. Number(<<x>>, base) = 0 * base + x BY <1>1, <1>2, <2>1
  <2> QED BY <2>2
<1> QED BY <1>1, <1>3

(* Writing a number in digits and reading the digits gives the number.     *)
THEOREM DigitsComeBack ==
  ASSUME NEW base \in Nat, base > 1, NEW n \in Nat
  PROVE  Number(Digits(n, base), base) = n
<1> DEFINE P == {m \in Nat : Number(Digits(m, base), base) = m}
<1>1. ASSUME NEW m \in Nat, \A k \in Nat : k < m => k \in P
      PROVE  m \in P
  <2>1. CASE m < base
    <3>1. Digits(m, base) = <<m>> BY <2>1, DigitsOf
    <3> QED BY <3>1, NumberOf
  <2>2. CASE m >= base
    <3> DEFINE q == m \div base
               r == m % base
    <3>1. q \in 0 .. m - 1 BY <2>2, DivLess
    <3>2. Number(Digits(q, base), base) = q BY <1>1, <3>1
    <3>3. m = base * q + r /\ r \in 0 .. base - 1 BY DivMod
    <3>4. Digits(m, base) = Append(Digits(q, base), r)
      BY <2>2, DigitsOf
    <3>5. Digits(q, base) \in Seq(Nat)
      <4>1. Digits(q, base) \in Seq(0 .. base - 1) BY <3>1, DigitsType
      <4> QED BY <4>1
    <3> HIDE DEF q, r, P
    <3> r \in Nat BY <3>3
    <3>6. Number(Append(Digits(q, base), r), base) =
            Number(Digits(q, base), base) * base + r
      BY <3>5, NumberOf
    <3>7. q * base = base * q BY <3>1
    <3>8. Number(Digits(m, base), base) = q * base + r
      BY <3>2, <3>4, <3>6
    <3>9. Number(Digits(m, base), base) = m BY <3>3, <3>7, <3>8
    <3> QED BY <3>9 DEF P
  <2> QED BY <2>1, <2>2
<1>2. Nat \subseteq P
  <2> HIDE DEF P
  <2> QED BY <1>1, Induct
<1> QED BY <1>2

-----------------------------------------------------------------------------
(* The maps of characters: each is the other's inverse on the digits, and  *)
(* a digit is never looked up past the end of either.                      *)

LEMMA ForwardReverse ==
  ASSUME NEW d \in 0 .. 61
  PROVE  /\ Forward[d] \in DOMAIN Reverse /\ Reverse[Forward[d]] = d
         /\ Forward[d] = LetterO <=> d = 24
         /\ d < 10 => Forward[d] \in 48 .. 57
         /\ convert_forward(d) = {Forward[d]}
         /\ convert_reverse(Forward[d]) = {d}
<1>1. Forward[d] = IF d < 10 THEN 48 + d ELSE IF d < 36 THEN 55 + d ELSE 61 + d
  BY DEF Forward
<1>2. DOMAIN Reverse = 0 .. 122 /\ DOMAIN Forward = 0 .. 61
  BY DEF Reverse, Forward
<1>3. Forward[d] \in 0 .. 122 BY <1>1
<1>4. \A c \in 0 .. 122 :
        Reverse[c] = CASE c \in 48 .. 57  -> c - 48
                       [] c \in 65 .. 90  -> c - 55
                       [] c \in 97 .. 122 -> c - 61
                       [] OTHER           -> 99
  BY DEF Reverse
<1>5. Reverse[Forward[d]] = d
  <2>1. CASE d < 10 BY <1>1, <1>4, <2>1
  <2>2. CASE d >= 10 /\ d < 36 BY <1>1, <1>4, <2>2
  <2>3. CASE d >= 36 BY <1>1, <1>4, <2>3
  <2> QED BY <2>1, <2>2, <2>3
<1>6. convert_forward(d) = {Forward[d]}
  BY <1>2 DEF convert_forward, Lookup
<1>7. convert_reverse(Forward[d]) = {Reverse[Forward[d]]}
  BY <1>2, <1>3 DEF convert_reverse, Lookup
<1> QED BY <1>1, <1>2, <1>3, <1>5, <1>6, <1>7 DEF LetterO

(* Where every character can become one character only, there is one text. *)
Made(T, choices, k) ==
  IF k = 0 THEN {<<>>} ELSE {Append(t, c) : t \in T[k - 1], c \in choices[k]}

Texts(T, choices) == T = [k \in 0 .. Len(choices) |-> Made(T, choices, k)]

LEMMA TextsEntry ==
  ASSUME NEW choices, NEW T, Texts(T, choices), NEW k \in 0 .. Len(choices)
  PROVE  T[k] = Made(T, choices, k)
<1>1. T = [j \in 0 .. Len(choices) |-> Made(T, choices, j)] BY DEF Texts
<1>2. [j \in 0 .. Len(choices) |-> Made(T, choices, j)][k] = Made(T, choices, k)
  OBVIOUS
<1> QED BY <1>1, <1>2

LEMMA MadeOne ==
  ASSUME NEW choices, NEW T, NEW k \in Nat \ {0}, NEW F, NEW s,
         T[k - 1] = {F[k - 1]}, choices[k] = {s[k]}
  PROVE  Made(T, choices, k) = {Append(F[k - 1], s[k])}
<1>1. Made(T, choices, k) = {Append(u, d) : u \in T[k - 1], d \in choices[k]}
  BY DEF Made
<1>2. ASSUME NEW x \in Made(T, choices, k) PROVE x = Append(F[k - 1], s[k])
  <2>1. PICK u \in T[k - 1], d \in choices[k] : x = Append(u, d) BY <1>1
  <2>2. u = F[k - 1] /\ d = s[k] BY <2>1
  <2> QED BY <2>1, <2>2
<1>3. Append(F[k - 1], s[k]) \in Made(T, choices, k)
  <2>1. F[k - 1] \in T[k - 1] /\ s[k] \in choices[k] OBVIOUS
  <2> QED BY <1>1, <2>1
<1> QED BY <1>2, <1>3

LEMMA TransformOne ==
  ASSUME NEW S, NEW s \in Seq(S),
         NEW choices, choices = [k \in DOMAIN s |-> {s[k]}]
  PROVE  Transform(choices) = {s}
<1> DEFINE T == CHOOSE T : Texts(T, choices)
           Front == [k \in 0 .. Len(s) |-> [j \in 1 .. k |-> s[j]]]
<1>1. DOMAIN s = 1 .. Len(s) /\ Len(s) \in Nat /\ \A j \in 1 .. Len(s) : s[j] \in S
  OBVIOUS
<1>2. Len(choices) = Len(s)
  <2>1. choices \in Seq({{x} : x \in S}) BY <1>1
  <2>2. DOMAIN choices = 1 .. Len(s) BY <1>1
  <2> QED BY <1>1, <2>1, <2>2
<1>3. Transform(choices) = T[Len(choices)] BY DEF Transform, Texts, Made
<1>4. ASSUME NEW k \in 1 .. Len(s)
      PROVE  /\ Front[k] = Append(Front[k - 1], s[k])
             /\ choices[k] = {s[k]}
  <2>1. Front[k - 1] \in Seq(S) /\ Len(Front[k - 1]) = k - 1 BY <1>1
  <2>2. Front[k] \in Seq(S) /\ Len(Front[k]) = k BY <1>1
  <2>3. Front[k] = Append(Front[k - 1], s[k]) BY <1>1, <2>1, <2>2
  <2> QED BY <1>1, <2>3
<1>5. Front[0] = <<>> OBVIOUS
<1>6. Front[Len(s)] = s BY <1>1
<1> HIDE DEF Front
<1>7. \E U : Texts(U, choices)
  <2>1. PICK U : U = [k \in 0 .. Len(s) |-> {Front[k]}] OBVIOUS
  <2>2. ASSUME NEW k \in 0 .. Len(s) PROVE U[k] = Made(U, choices, k)
    <3>1. CASE k = 0 BY <1>1, <1>5, <2>1, <3>1 DEF Made
    <3>2. CASE k # 0
      <4>1. k \in 1 .. Len(s) /\ k - 1 \in 0 .. Len(s) BY <1>1, <3>2
      <4>2. U[k - 1] = {Front[k - 1]} /\ U[k] = {Front[k]} BY <2>1, <4>1
      <4>3. choices[k] = {s[k]} /\ k \in Nat \ {0} BY <1>1, <1>4, <4>1
      <4>4. Made(U, choices, k) = {Append(Front[k - 1], s[k])}
        BY <4>2, <4>3, MadeOne
      <4> QED BY <1>4, <4>1, <4>2, <4>4
    <3> QED BY <3>1, <3>2
  <2>3. [k \in 0 .. Len(s) |-> U[k]] = [k \in 0 .. Len(s) |-> Made(U, choices, k)]
    BY <2>2
  <2>4. U = [k \in 0 .. Len(s) |-> U[k]] BY <2>1
  <2> QED BY <1>2, <2>3, <2>4 DEF Texts
<1>8. Texts(T, choices)
  BY <1>7
<1> HIDE DEF T
<1> DEFINE P == {n \in Nat : n <= Len(s) => T[n] = {Front[n]}}
<1>9. ASSUME NEW n \in Nat, \A m \in Nat : m < n => m \in P
      PROVE  n \in P
  <2> SUFFICES ASSUME n <= Len(s) PROVE T[n] = {Front[n]}
    OBVIOUS
  <2>1. T[n] = Made(T, choices, n) BY <1>1, <1>2, <1>8, TextsEntry
  <2>2. CASE n = 0 BY <1>5, <2>1, <2>2 DEF Made
  <2>3. CASE n # 0
    <3>1. n \in 1 .. Len(s) /\ n - 1 \in Nat /\ n - 1 < n BY <1>1, <2>3
    <3>2. n - 1 \in P BY <1>9, <3>1
    <3>3. T[n - 1] = {Front[n - 1]} BY <1>1, <3>1, <3>2
    <3>4. choices[n] = {s[n]} /\ n \in Nat \ {0} BY <1>4, <3>1
    <3>5. Made(T, choices, n) = {Append(Front[n - 1], s[n])}
      BY <3>3, <3>4, MadeOne
    <3> QED BY <1>4, <2>1, <3>1, <3>5
  <2> QED BY <2>2, <2>3
<1>10. Nat \subseteq P
  <2> HIDE DEF P
  <2> QED BY <1>9, Induct
<1>11. T[Len(s)] = {Front[Len(s)]} BY <1>1, <1>10
<1> QED BY <1>2, <1>3, <1>6, <1>11

-----------------------------------------------------------------------------
(* Texts of numbers.                                                       *)

LEMMA SeqForm ==
  ASSUME NEW S, NEW s \in Seq(S)
  PROVE  /\ DOMAIN s = 1 .. Len(s) /\ Len(s) \in Nat
         /\ \A k \in DOMAIN s : s[k] \in S
         /\ s = [k \in DOMAIN s |-> s[k]]
<1>1. s \in [1 .. Len(s) -> S] /\ Len(s) \in Nat OBVIOUS
<1> QED BY <1>1

LEMMA FormSeq ==
  ASSUME NEW S, NEW n \in Nat, NEW f, f = [k \in 1 .. n |-> f[k]],
         \A k \in 1 .. n : f[k] \in S
  PROVE  f \in Seq(S) /\ Len(f) = n
<1>1. f \in [1 .. n -> S] OBVIOUS
<1> QED BY <1>1

LEMMA WrittenText ==
  ASSUME NEW base \in 2 .. 62, NEW n \in Nat
  PROVE  LET d == Digits(n, base)
             t == Written(n, base)
         IN /\ d \in Seq(0 .. base - 1) /\ d \in Seq(0 .. 61) /\ d \in Seq(Nat)
            /\ t \in Seq(Nat) /\ t # <<>> /\ DOMAIN t = DOMAIN d
            /\ \A k \in DOMAIN d : /\ d[k] \in 0 .. base - 1 /\ d[k] \in 0 .. 61
                                   /\ t[k] = Forward[d[k]]
            /\ [k \in DOMAIN d |-> d[k]] = d
            /\ Len(t) = Len(d) /\ DOMAIN d = 1 .. Len(d)
<1> DEFINE d == Digits(n, base)
           t == Written(n, base)
<1>1. d \in Seq(0 .. base - 1) /\ d # <<>> BY DigitsType
<1>2. t = [k \in DOMAIN d |-> Forward[d[k]]] BY DEF Written
<1> HIDE DEF d, t
<1>3. /\ DOMAIN d = 1 .. Len(d) /\ Len(d) \in Nat
      /\ \A k \in DOMAIN d : d[k] \in 0 .. base - 1
      /\ d = [k \in DOMAIN d |-> d[k]]
  BY <1>1, SeqForm
<1>4. ASSUME NEW k \in DOMAIN d
      PROVE  d[k] \in 0 .. 61 /\ d[k] \in Nat /\ t[k] = Forward[d[k]] /\ t[k] \in Nat
  <2>1. d[k] \in 0 .. base - 1 BY <1>3
  <2>2. d[k] \in 0 .. 61 BY <2>1
  <2>3. \A e \in 0 .. 61 : Forward[e] \in Nat BY DEF Forward
  <2> QED BY <1>2, <2>2, <2>3
<1>5. t = [k \in 1 .. Len(d) |-> t[k]] BY <1>2, <1>3
<1>6. d \in Seq(0 .. 61) /\ d \in Seq(Nat) BY <1>3, <1>4, FormSeq
<1>7. t \in Seq(Nat) /\ Len(t) = Len(d) BY <1>3, <1>4, <1>5, FormSeq
<1>8. t # <<>>
  <2>1. Len(d) # 0 BY <1>1
  <2> QED BY <1>7, <2>1
<1>9. DOMAIN t = DOMAIN d BY <1>2
<1> QED BY <1>1, <1>2, <1>3, <1>4, <1>6, <1>7, <1>8, <1>9 DEF d, t

(* GMP reads back the number it has written, in any base up to 62.         *)
LEMMA SetStr ==
  ASSUME NEW base \in 2 .. 62, NEW n \in Nat
  PROVE  mpz_set_str(Written(n, base), base) = {n}
<1> DEFINE d == Digits(n, base)
           t == Written(n, base)
<1>1. /\ d \in Seq(Nat) /\ DOMAIN t = DOMAIN d /\ [k \in DOMAIN d |-> d[k]] = d
      /\ \A k \in DOMAIN d : /\ d[k] \in 0 .. base - 1 /\ d[k] \in 0 .. 61
                             /\ t[k] = Forward[d[k]]
  BY WrittenText
<1>2. Number(d, base) = n BY DigitsComeBack
<1> HIDE DEF d, t
<1>3. \A k \in DOMAIN t : t[k] \in DOMAIN Reverse /\ Reverse[t[k]] = d[k]
  BY <1>1, ForwardReverse
<1>4. [k \in DOMAIN t |-> Reverse[t[k]]] = d
  <2>1. [k \in DOMAIN t |-> Reverse[t[k]]] = [k \in DOMAIN d |-> d[k]]
    BY <1>1, <1>3
  <2> QED BY <1>1, <2>1
<1>5. \A k \in DOMAIN t : t[k] \in DOMAIN Reverse /\ Reverse[t[k]] < base
  <2> TAKE k \in DOMAIN t
  <2>1. d[k] \in 0 .. base - 1 BY <1>1
  <2>2. d[k] < base BY <2>1
  <2> QED BY <1>3, <2>2
<1>6. mpz_set_str(t, base) = {Number([k \in DOMAIN t |-> Reverse[t[k]]], base)}
  BY <1>5 DEF mpz_set_str
<1> QED BY <1>2, <1>4, <1>6 DEF t

(* Only 24 is written as the letter O, and only in base 62.                *)
LEMMA OnlyO ==
  ASSUME NEW base \in 2 .. 62, NEW n \in Nat, Written(n, base) = <<LetterO>>
  PROVE  n = 24 /\ base > 24
<1> DEFINE d == Digits(n, base)
<1>1. /\ d \in Seq(Nat) /\ Len(d) = 1 /\ DOMAIN d = 1 .. Len(d)
      /\ d[1] \in 0 .. base - 1 /\ d[1] \in 0 .. 61 /\ Forward[d[1]] = LetterO
  <2>1. Len(<<LetterO>>) = 1 /\ <<LetterO>>[1] = LetterO OBVIOUS
  <2>2. Len(d) = 1 BY <2>1, WrittenText
  <2>3. 1 \in DOMAIN d /\ Written(n, base)[1] = LetterO
    BY <2>1, <2>2, WrittenText
  <2> QED BY <2>2, <2>3, WrittenText
<1>2. Number(d, base) = n BY DigitsComeBack
<1> HIDE DEF d
<1>3. d = <<d[1]>> BY <1>1
<1>4. d[1] = 24 BY <1>1, ForwardReverse
<1>5. Number(<<24>>, base) = 24 BY NumberOf
<1>6. n = 24 BY <1>2, <1>3, <1>4, <1>5
<1> QED BY <1>1, <1>4, <1>6

(* str_to_mpz undoes mpz_to_str but for 24, which it takes for the point   *)
(* at infinity.                                                            *)
THEOREM MpzComesBack ==
  ASSUME NEW n \in Nat
  PROVE  /\ n # 24 => str_to_mpz(mpz_to_str(n), CONVERSION_BASE) = {n}
         /\ str_to_mpz(Written(n, 10), 10) = {n}
<1>1. ASSUME NEW base \in 2 .. 62, Written(n, base) # <<LetterO>>
      PROVE  str_to_mpz(Written(n, base), base) = {n}
  <2>1. Written(n, base) # <<>> BY WrittenText
  <2>2. mpz_set_str(Written(n, base), base) = {n} BY SetStr
  <2> QED BY <1>1, <2>1, <2>2 DEF str_to_mpz
<1>2. Written(n, 10) # <<LetterO>> BY OnlyO
<1>3. n # 24 => Written(n, 62) # <<LetterO>> BY OnlyO
<1> QED BY <1>1, <1>2, <1>3 DEF mpz_to_str, CONVERSION_BASE

(* The words of a montfp number are written as GMP would write it, and     *)
(* come back through the reverse map; neither map is read past its end.    *)
THEOREM LimbsComeBack ==
  ASSUME NEW n \in Nat
  PROVE  /\ limbs_to_str(n) = {mpz_to_str(n)}
         /\ str_to_limbs(mpz_to_str(n)) = {n}
<1> DEFINE d == Digits(n, 62)
           t == Written(n, 62)
<1>1. /\ d \in Seq(Nat) /\ t \in Seq(Nat) /\ DOMAIN t = DOMAIN d
      /\ \A k \in DOMAIN d : d[k] \in 0 .. 61 /\ t[k] = Forward[d[k]]
  BY WrittenText
<1>2. Number(d, 62) = n BY DigitsComeBack
<1>3. limbs_to_str(n) = Transform([k \in DOMAIN d |-> convert_forward(d[k])])
  BY DEF limbs_to_str, CONVERSION_BASE
<1>4. mpz_to_str(n) = t BY DEF mpz_to_str, CONVERSION_BASE
<1> HIDE DEF d, t
<1>5. [k \in DOMAIN d |-> convert_forward(d[k])] = [k \in DOMAIN t |-> {t[k]}]
  BY <1>1, ForwardReverse
<1>6. limbs_to_str(n) = {t} BY <1>1, <1>3, <1>5, TransformOne
<1>7. [k \in DOMAIN t |-> convert_reverse(t[k])] = [k \in DOMAIN d |-> {d[k]}]
  BY <1>1, ForwardReverse
<1>8. Transform([k \in DOMAIN t |-> convert_reverse(t[k])]) = {d}
  BY <1>1, <1>7, TransformOne
<1>9. str_to_limbs(t) = {Number(d, 62)}
  BY <1>8 DEF str_to_limbs, CONVERSION_BASE
<1> QED BY <1>2, <1>4, <1>6, <1>9

-----------------------------------------------------------------------------
(* Descriptions of elements.                                               *)

LEMMA ChooseOne ==
  ASSUME NEW x PROVE (CHOOSE n \in {x} : TRUE) = x
<1>1. \E n \in {x} : TRUE OBVIOUS
<1>2. (CHOOSE n \in {x} : TRUE) \in {x} BY <1>1
<1> QED BY <1>2

LEMMA NumberToJson ==
  ASSUME NEW n \in Nat
  PROVE  numberToJson(Written(n, 10)) = mpz_to_str(n)
<1>1. str_to_mpz(Written(n, 10), 10) = {n} BY MpzComesBack
<1> QED BY <1>1, ChooseOne DEF numberToJson

(* A value that no component of it is lost is read as it was written.      *)
Kept(v) == /\ \/ \E x \in Nat : v = <<x>>
              \/ \E x \in Nat, y \in Nat : v = <<x, y>>
           /\ \A k \in DOMAIN v : v[k] # 24

LEMMA DescribedKept ==
  ASSUME NEW v, Kept(v)
  PROVE  /\ Components(Described(v)) = v
         /\ v # Infinity
         /\ \A k \in DOMAIN v : v[k] \in Nat
         /\ v = [k \in DOMAIN v |-> v[k]]
         /\ Printed(v) = formatElementComponents(v)
<1>1. ASSUME NEW x \in Nat, v = <<x>>
      PROVE  Components(Described(v)) = v
  <2>1. Printed(v) = <<Written(x, 10)>>
    BY <1>1 DEF Printed, Infinity
  <2>2. Described(v) = [x |-> mpz_to_str(x)]
    BY <2>1, NumberToJson DEF Described
  <2>3. str_to_mpz(mpz_to_str(x), CONVERSION_BASE) = {x}
    BY <1>1, MpzComesBack DEF Kept
  <2> DEFINE d == Described(v)
  <2>4. d.x = mpz_to_str(x) /\ "y" \notin DOMAIN d BY <2>2
  <2> HIDE DEF d
  <2>5. Components(d) = <<CHOOSE n \in {x} : TRUE>>
    BY <2>3, <2>4 DEF Components
  <2> QED BY <1>1, <2>5, ChooseOne DEF d
<1>2. ASSUME NEW x \in Nat, NEW y \in Nat, v = <<x, y>>
      PROVE  Components(Described(v)) = v
  <2>1. Printed(v) = <<Written(x, 10), Written(y, 10)>>
    BY <1>2 DEF Printed, Infinity
  <2>2. Described(v) = [y |-> mpz_to_str(y), x |-> mpz_to_str(x)]
    BY <2>1, NumberToJson DEF Described
  <2>3. /\ str_to_mpz(mpz_to_str(x), CONVERSION_BASE) = {x}
        /\ str_to_mpz(mpz_to_str(y), CONVERSION_BASE) = {y}
    BY <1>2, MpzComesBack DEF Kept
  <2> DEFINE d == Described(v)
  <2>4. d.x = mpz_to_str(x) /\ d.y = mpz_to_str(y) /\ "y" \in DOMAIN d BY <2>2
  <2> HIDE DEF d
  <2>5. Components(d) = <<CHOOSE n \in {x} : TRUE, CHOOSE n \in {y} : TRUE>>
    BY <2>3, <2>4 DEF Components
  <2> QED BY <1>2, <2>5, ChooseOne DEF d
<1>3. /\ v # Infinity
      /\ \A k \in DOMAIN v : v[k] \in Nat
      /\ v = [k \in DOMAIN v |-> v[k]]
  BY DEF Kept, Infinity
<1>4. Printed(v) = formatElementComponents(v)
  BY <1>3 DEF Printed, formatElementComponents
<1> QED BY <1>1, <1>2, <1>3, <1>4 DEF Kept

(* An element comes back from its description as it was, and passes the    *)
(* assertion of Element::finalize, if none of its components is 24, and it *)
(* is a point of the curve if it is on one.                                *)
THEOREM ElementComesBack ==
  ASSUME NEW v, Kept(v), NEW p,
         p # 0 => Len(v) = 2 /\ OnCurve(v, p)
  PROVE  Imported(p, Described(v)) = {v} /\ PrintsAsRead(p, Described(v))
<1> DEFINE text == formatElementComponents(v)
           w == [k \in DOMAIN text |-> CHOOSE n \in mpz_set_str(text[k], 10) : TRUE]
<1>1. /\ Components(Described(v)) = v
      /\ \A k \in DOMAIN v : v[k] \in Nat
      /\ v = [k \in DOMAIN v |-> v[k]]
      /\ Printed(v) = text
  BY DescribedKept
<1>2. \A k \in DOMAIN v : mpz_set_str(Written(v[k], 10), 10) = {v[k]}
  BY <1>1, SetStr
<1>3. DOMAIN text = DOMAIN v /\ \A k \in DOMAIN v : text[k] = Written(v[k], 10)
  BY DEF formatElementComponents
<1>4. w = v
  <2>1. w = [k \in DOMAIN v |-> v[k]]
    <3> HIDE DEF text
    <3>1. \A k \in DOMAIN v : (CHOOSE n \in mpz_set_str(text[k], 10) : TRUE) = v[k]
      BY <1>2, <1>3, ChooseOne
    <3> QED BY <1>3, <3>1
  <2> QED BY <1>1, <2>1
<1>5. element_set_str(p, text) = {v}
  <2>1. p = 0 => element_set_str(p, text) = {w} BY DEF element_set_str
  <2>2. p # 0 /\ Len(w) = 2 /\ OnCurve(w, p) => element_set_str(p, text) = {w}
    BY DEF element_set_str
  <2> HIDE DEF text, w
  <2> QED BY <1>4, <2>1, <2>2
<1>6. Imported(p, Described(v)) = {v} BY <1>1, <1>5 DEF Imported
<1>7. PrintsAsRead(p, Described(v)) BY <1>1, <1>6 DEF PrintsAsRead
<1> QED BY <1>6, <1>7

-----------------------------------------------------------------------------
(* Points.  Two numbers below a prime with the same square add up to the   *)
(* prime, or are the same: which needs Euclid's lemma.                     *)

(* Remainders and multiples.                                               *)
LEMMA ModUnique ==
  ASSUME NEW a \in Int, NEW m \in Nat \ {0}, NEW q \in Int, NEW r \in 0 .. m - 1,
         a = m * q + r
  PROVE  a % m = r
<1> DEFINE u == a \div m
           s == a % m
<1>1. a = m * u + s /\ s \in 0 .. m - 1 /\ u \in Int BY DivMod
<1> HIDE DEF u, s
<1>2. u = q
  <2>1. CASE u >= q + 1
    <3>1. m * u >= m * (q + 1) BY <1>1, <2>1
    <3>2. m * (q + 1) = m * q + m OBVIOUS
    <3> QED BY <1>1, <3>1, <3>2
  <2>2. CASE u <= q - 1
    <3>1. m * u <= m * (q - 1) BY <1>1, <2>2
    <3>2. m * (q - 1) = m * q - m OBVIOUS
    <3> QED BY <1>1, <3>1, <3>2
  <2> QED BY <1>1, <2>1, <2>2
<1> QED BY <1>1, <1>2 DEF s

(* A prime that divides a product divides a factor: the least number whose *)
(* product with b is a multiple of the prime divides all such numbers.     *)
LEMMA Euclid ==
  ASSUME NEW p, IsPrime(p), NEW a \in 1 .. p - 1, NEW b \in Nat,
         NEW c \in Int, a * b = p * c
  PROVE  \E q \in Int : b = p * q
<1> p \in Nat /\ p > 1 BY DEF IsPrime
<1> DEFINE T == {k \in Nat \ {0} : \E q \in Int : k * b = p * q}
<1>1. a \in T /\ p \in T
  <2>1. p * b = p * b /\ b \in Int OBVIOUS
  <2> QED BY <2>1
<1>2. PICK m \in T : \A x \in T : m <= x
  <2>1. T \subseteq Nat /\ T # {} BY <1>1
  <2> HIDE DEF T
  <2> QED BY <2>1, Least
<1>3. m \in Nat \ {0} /\ m < p BY <1>1, <1>2
<1>4. ASSUME NEW k \in T PROVE k % m = 0
  <2> DEFINE u == k \div m
             r == k % m
  <2>1. k = m * u + r /\ r \in 0 .. m - 1 /\ u \in Int BY <1>3, DivMod
  <2>2. PICK q \in Int : k * b = p * q OBVIOUS
  <2>3. PICK w \in Int : m * b = p * w BY <1>2
  <2> HIDE DEF u, r
  <2>4. r * b = p * (q - w * u)
    <3>1. r = k - m * u BY <1>3, <2>1
    <3>2. r * b = k * b - (m * u) * b BY <1>3, <2>1, <3>1
    <3>3. (m * u) * b = (m * b) * u BY <1>3, <2>1
    <3>4. (m * b) * u = (p * w) * u BY <2>3
    <3>5. (p * w) * u = p * (w * u) BY <2>1, <2>3
    <3>6. p * q - p * (w * u) = p * (q - w * u) BY <2>1, <2>2, <2>3
    <3> HIDE DEF T
    <3>7. r * b = p * q - p * (w * u) BY <2>2, <3>2, <3>3, <3>4, <3>5
    <3> QED BY <3>6, <3>7
  <2>5. q - w * u \in Int BY <2>1, <2>2, <2>3
  <2>6. r # 0 => r \in T BY <2>1, <2>4, <2>5
  <2>7. r \in T => m <= r BY <1>2
  <2>8. r = 0 BY <1>3, <2>1, <2>6, <2>7
  <2> QED BY <2>8 DEF r
<1>5. m = 1
  <2> SUFFICES ASSUME m # 1 PROVE FALSE
    OBVIOUS
  <2>1. m \in 2 .. p - 1 BY <1>3
  <2>2. p % m = 0 BY <1>1, <1>4
  <2> QED BY <2>1, <2>2 DEF IsPrime
<1>6. PICK q \in Int : m * b = p * q BY <1>2
<1> QED BY <1>5, <1>6

LEMMA SameSquare ==
  ASSUME NEW p, IsPrime(p), NEW y \in 0 .. p - 1, NEW z \in 0 .. p - 1,
         (y * y) % p = (z * z) % p, y < z
  PROVE  y + z = p
<1> p \in Nat /\ p > 1 BY DEF IsPrime
<1> DEFINE u == (y * y) \div p
           w == (z * z) \div p
           r == (y * y) % p
<1>1. y * y = p * u + r /\ u \in Int /\ r \in Int
  <2>1. y * y \in Int OBVIOUS
  <2> QED BY <2>1, DivMod
<1>2. z * z = p * w + r /\ w \in Int
  <2>1. z * z \in Int OBVIOUS
  <2> QED BY <2>1, DivMod
<1> HIDE DEF u, w, r
<1>3. (z - y) * (z + y) = p * (w - u)
  <2>1. (z - y) * (z + y) = z * z - y * y OBVIOUS
  <2>2. z * z - y * y = p * w - p * u BY <1>1, <1>2
  <2>3. p * w - p * u = p * (w - u) BY <1>1, <1>2
  <2> QED BY <2>1, <2>2, <2>3
<1>4. z - y \in 1 .. p - 1 /\ z + y \in Nat /\ w - u \in Int
  BY <1>1, <1>2
<1>5. PICK q \in Int : z + y = p * q BY <1>3, <1>4, Euclid
<1>6. z + y > 0 /\ z + y < p + p OBVIOUS
<1>7. q = 1
  <2>1. CASE q <= 0
    <3>1. p * q <= p * 0 BY <2>1
    <3> QED BY <1>5, <1>6, <3>1
  <2>2. CASE q >= 2
    <3>1. p * q >= p * 2 BY <2>2
    <3> QED BY <1>5, <1>6, <3>1
  <2> QED BY <2>1, <2>2
<1> QED BY <1>5, <1>7

(* The compressed bytes of a point of the curve come back as that point,   *)
(* whichever of the two points with its x the library solves for.          *)
THEOREM PointComesBack ==
  ASSUME NEW p, IsPrime(p), NEW x \in 0 .. p - 1, NEW y \in 0 .. p - 1,
         OnCurve(<<x, y>>, p)
  PROVE  elementFromBytes(toBytes(<<x, y>>, p), p) = {<<x, y>>}
<1> p \in Nat /\ p > 1 BY DEF IsPrime
<1> DEFINE bytes == toBytes(<<x, y>>, p)
           Back(e) == IF toBytes(e, p) = bytes THEN e ELSE Neg(e, p)
<1>1. bytes = <<x, 2 * y > p>> /\ bytes[1] = x BY DEF toBytes
<1>2. elementFromBytes(bytes, p) = {Back(e) : e \in PointsAt(x, p)}
  BY <1>1 DEF elementFromBytes
<1>3. <<x, y>> \in PointsAt(x, p) BY DEF PointsAt
<1>4. Back(<<x, y>>) = <<x, y>> OBVIOUS
<1>5. ASSUME NEW e \in PointsAt(x, p) PROVE Back(e) = <<x, y>>
  <2>1. PICK z \in 0 .. p - 1 : e = <<x, z>> /\ OnCurve(<<x, z>>, p)
    BY DEF PointsAt
  <2>2. (y * y) % p = (z * z) % p BY <2>1 DEF OnCurve
  <2>3. CASE z = y BY <2>1, <2>3, <1>4
  <2>4. CASE z # y
    <3>1. y + z = p
      <4>1. CASE y < z BY <2>2, <4>1, SameSquare
      <4>2. CASE z < y
        <5>1. z + y = p BY <2>2, <4>2, SameSquare
        <5> QED BY <5>1
      <4> QED BY <2>4, <4>1, <4>2
    <3>2. toBytes(e, p) = <<x, 2 * z > p>> BY <2>1 DEF toBytes
    <3>3. (2 * z > p) # (2 * y > p) BY <2>4, <3>1
    <3>4. toBytes(e, p) # bytes
      <4>1. toBytes(e, p)[2] = (2 * z > p) /\ bytes[2] = (2 * y > p)
        BY <1>1, <3>2
      <4> QED BY <3>3, <4>1
    <3>5. Neg(e, p) = <<x, y % p>>
      <4>1. p - z = y BY <3>1
      <4> QED BY <2>1, <4>1 DEF Neg
    <3>6. y % p = y
      <4>1. y = p * 0 + y OBVIOUS
      <4> QED BY <4>1, ModUnique
    <3> QED BY <3>4, <3>5, <3>6
  <2> QED BY <2>3, <2>4
<1> HIDE DEF Back
<1> QED BY <1>2, <1>3, <1>4, <1>5

=============================================================================
