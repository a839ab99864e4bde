-------------------------- MODULE ReEncryptionProofs --------------------------
(***************************************************************************)
(* Proofs about ReEncryption, for every field, and any number of people,   *)
(* parameters, keys and ciphertexts.  What decryption computes is worked   *)
(* out in lemmas about the field; the inductive invariant says how every   *)
(* re-encryption key and ciphertext was made, whose elements fit together. *)
(***************************************************************************)
EXTENDS ReEncryption, SequenceTheorems, TLAPS

-----------------------------------------------------------------------------
(* The field.                                                              *)
LEMMA Closed ==
  ASSUME NEW a \in Exp, NEW b \in Exp
  PROVE  Add(a, b) \in Exp /\ Mult(a, b) \in Exp /\ Neg(a) \in Exp /\ Inv(a) \in Exp
<1> QED BY FieldAssumption

LEMMA MultCancel ==
  ASSUME NEW a \in Exp, NEW b \in Exp, NEW c \in Exp, c # Zero,
         Mult(a, c) = Mult(b, c)
  PROVE  a = b
<1>1. Inv(c) \in Exp /\ Mult(c, Inv(c)) = One BY FieldAssumption
<1>2. Mult(Mult(a, c), Inv(c)) = Mult(a, Mult(c, Inv(c)))
  BY <1>1, FieldAssumption
<1>3. Mult(Mult(b, c), Inv(c)) = Mult(b, Mult(c, Inv(c)))
  BY <1>1, FieldAssumption
<1>4. Mult(a, One) = a /\ Mult(b, One) = b BY FieldAssumption
<1> QED BY <1>1, <1>2, <1>3, <1>4

LEMMA AddCancel ==
  ASSUME NEW a \in Exp, NEW b \in Exp, NEW c \in Exp, Add(a, c) = Add(b, c)
  PROVE  a = b
<1>1. Neg(c) \in Exp /\ Add(c, Neg(c)) = Zero BY FieldAssumption
<1>2. Add(Add(a, c), Neg(c)) = Add(a, Add(c, Neg(c))) BY <1>1, FieldAssumption
<1>3. Add(Add(b, c), Neg(c)) = Add(b, Add(c, Neg(c))) BY <1>1, FieldAssumption
<1>4. Add(a, Zero) = a /\ Add(b, Zero) = b BY FieldAssumption
<1> QED BY <1>1, <1>2, <1>3, <1>4

(* A mask comes off exactly when the same mask is taken away.              *)
LEMMA Unmask ==
  ASSUME NEW m \in Exp, NEW k \in Exp, NEW y \in Exp
  PROVE  Quotient(Product(m, k), y) = m <=> y = k
<1>1. Neg(y) \in Exp /\ Add(y, Neg(y)) = Zero /\ Add(m, k) \in Exp
      /\ Zero \in Exp
  BY FieldAssumption
<1>2. CASE y = k
  <2>1. Add(Add(m, k), Neg(k)) = Add(m, Add(k, Neg(k))) BY <1>1, <1>2, FieldAssumption
  <2>2. Add(m, Zero) = m BY FieldAssumption
  <2> QED BY <1>1, <1>2, <2>1, <2>2 DEF Quotient, Product
<1>3. ASSUME Add(Add(m, k), Neg(y)) = m PROVE y = k
  <2>1. Add(m, k) = Add(m, y)
    <3>1. Add(Add(Add(m, k), Neg(y)), y) = Add(Add(m, k), Add(Neg(y), y))
      BY <1>1, FieldAssumption
    <3>2. Add(Neg(y), y) = Zero BY <1>1, FieldAssumption
    <3>3. Add(Add(m, k), Zero) = Add(m, k) BY <1>1, FieldAssumption
    <3> QED BY <1>3, <3>1, <3>2, <3>3
  <2>2. Add(k, m) = Add(m, k) /\ Add(y, m) = Add(m, y) BY FieldAssumption
  <2> QED BY <2>1, <2>2, AddCancel
<1> QED BY <1>2, <1>3 DEF Quotient, Product

(* Z^(a k) to the power 1/x is Z^k exactly when x is a, unless k is 0.     *)
LEMMA Unlock ==
  ASSUME NEW a \in Exp, NEW k \in Exp, NEW x \in Exp, x # Zero
  PROVE  /\ a = x => Mult(Mult(a, k), Inv(x)) = k
         /\ k # Zero /\ Mult(Mult(a, k), Inv(x)) = k => a = x
<1>1. Inv(x) \in Exp /\ Mult(x, Inv(x)) = One /\ One \in Exp BY FieldAssumption
<1>2. Mult(a, Inv(x)) \in Exp BY <1>1, FieldAssumption
<1>3. Mult(Mult(a, k), Inv(x)) = Mult(Mult(a, Inv(x)), k)
  <2>1. Mult(a, k) = Mult(k, a) BY FieldAssumption
  <2>2. Mult(Mult(k, a), Inv(x)) = Mult(k, Mult(a, Inv(x)))
    BY <1>1, FieldAssumption
  <2>3. Mult(k, Mult(a, Inv(x))) = Mult(Mult(a, Inv(x)), k)
    BY <1>2, FieldAssumption
  <2> QED BY <2>1, <2>2, <2>3
<1>4. Mult(One, k) = k /\ Mult(One, x) = x BY <1>1, FieldAssumption
<1>5. CASE a = x BY <1>1, <1>3, <1>4, <1>5
<1>6. ASSUME k # Zero, Mult(Mult(a, k), Inv(x)) = k PROVE a = x
  <2>1. Mult(a, Inv(x)) = One
    BY <1>1, <1>2, <1>3, <1>4, <1>6, MultCancel
  <2>2. Mult(a, Inv(x)) = Mult(x, Inv(x)) BY <2>1, <1>1
  <2>3. Inv(x) # Zero
    <3>1. SUFFICES ASSUME Inv(x) = Zero PROVE FALSE OBVIOUS
    <3>2. Mult(x, Zero) = One BY <1>1, <3>1
    <3>3. Mult(x, Zero) = Zero
      <4>1. Zero \in Exp /\ Add(Zero, Zero) = Zero BY FieldAssumption
      <4>2. Mult(x, Zero) \in Exp BY <4>1, FieldAssumption
      <4>3. Mult(x, Add(Zero, Zero)) = Add(Mult(x, Zero), Mult(x, Zero))
        BY <4>1, FieldAssumption
      <4>4. Add(Zero, Mult(x, Zero)) = Mult(x, Zero)
        BY <4>1, <4>2, FieldAssumption
      <4> QED BY <4>1, <4>2, <4>3, <4>4, AddCancel
    <3> QED BY <3>2, <3>3, FieldAssumption
  <2> QED BY <1>1, <2>2, <2>3, MultCancel
<1> QED BY <1>5, <1>6

(* (a k)(r / f) to the power 1 / x, where f is a: as if the ciphertext had *)
(* been encrypted for r.                                                   *)
LEMMA Exchange ==
  ASSUME NEW a \in Exp, NEW k \in Exp, NEW r \in Exp, a # Zero
  PROVE  Mult(Mult(a, k), Mult(r, Inv(a))) = Mult(r, k)
<1>1. Inv(a) \in Exp /\ Mult(a, Inv(a)) = One /\ Mult(a, k) \in Exp
      /\ Mult(k, a) \in Exp /\ Mult(k, r) \in Exp
  BY FieldAssumption
<1>2. Mult(Mult(a, k), Mult(r, Inv(a))) = Mult(Mult(k, a), Mult(Inv(a), r))
  BY <1>1, FieldAssumption
<1>3. Mult(Inv(a), r) \in Exp BY <1>1, FieldAssumption
<1>4. Mult(Mult(k, a), Mult(Inv(a), r)) = Mult(k, Mult(a, Mult(Inv(a), r)))
  BY <1>1, <1>3, FieldAssumption
<1>5. Mult(a, Mult(Inv(a), r)) = Mult(Mult(a, Inv(a)), r)
  BY <1>1, FieldAssumption
<1>6. Mult(One, r) = r BY FieldAssumption
<1>7. Mult(k, r) = Mult(r, k) BY FieldAssumption
<1> QED BY <1>1, <1>2, <1>4, <1>5, <1>6, <1>7

(* The same, where x is r: as if r had not taken part.                     *)
LEMMA Detour ==
  ASSUME NEW a \in Exp, NEW k \in Exp, NEW r \in Exp, NEW f \in Exp, r # Zero
  PROVE  Mult(Mult(Mult(a, k), Mult(r, Inv(f))), Inv(r)) = Mult(Mult(a, k), Inv(f))
<1>1. Inv(f) \in Exp /\ Inv(r) \in Exp /\ Mult(a, k) \in Exp
      /\ Mult(r, Inv(r)) = One
  BY FieldAssumption
<1>2. Mult(r, Inv(f)) = Mult(Inv(f), r) /\ Mult(Inv(f), r) \in Exp
  BY <1>1, FieldAssumption
<1>3. Mult(Mult(Mult(a, k), Mult(Inv(f), r)), Inv(r))
        = Mult(Mult(a, k), Mult(Mult(Inv(f), r), Inv(r)))
  BY <1>1, <1>2, FieldAssumption
<1>4. Mult(Mult(Inv(f), r), Inv(r)) = Mult(Inv(f), Mult(r, Inv(r)))
  BY <1>1, FieldAssumption
<1>5. Mult(Inv(f), One) = Inv(f) BY <1>1, FieldAssumption
<1> QED BY <1>1, <1>2, <1>3, <1>4, <1>5

-----------------------------------------------------------------------------
(* How keys and ciphertexts were made.                                     *)
KeysMade ==
  \A key \in keys :
    /\ HasKey(key.from) /\ HasKey(key.to)
    /\ params[key.from] = params[key.to] =>
         key.rk = getReEncryptionKey(key.from, key.to)

Fit(t) == \A n \in DOMAIN t.path : params[t.path[n]] = t.pg

Made(t) ==
  /\ t.c2 = Masked(t.m, t.k)
  /\ t.secondLevel => t.c1 = SecondLevel(t.path[1], t.k)
  /\ ~t.secondLevel /\ Len(t.path) = 1 => t.c1 = FirstLevel(t.path[1], t.k)
  /\ Len(t.path) = 3 =>
       t.c1 = apply(SecondLevel(t.path[1], t.k),
                    getReEncryptionKey(t.path[2], t.path[3]))

TuplesMade ==
  \A t \in tuples :
    /\ \A n \in DOMAIN t.path : HasKey(t.path[n])
    /\ Fit(t) => Made(t)

IInv == TypeOK /\ KeysMade /\ TuplesMade

LEMMA KeyType ==
  ASSUME TypeOK, NEW p \in People, HasKey(p)
  PROVE  secret[p] \in Exp /\ Inv(secret[p]) \in Exp /\ publicKey(p) \in Exp
<1>1. secret[p] \in Exp BY DEF TypeOK, HasKey
<1> QED BY <1>1, FieldAssumption DEF publicKey, Pow, g

LEMMA PathDomain ==
  ASSUME TypeOK, NEW t \in tuples
  PROVE  /\ t.path \in Seq(People) /\ DOMAIN t.path = 1 .. Len(t.path)
         /\ Len(t.path) \in {1, 3} /\ 1 \in DOMAIN t.path
         /\ Len(t.path) \in DOMAIN t.path
         /\ \A n \in DOMAIN t.path : t.path[n] \in People
<1>1. t.path \in Seq(People) BY DEF TypeOK
<1>2. Len(t.path) = 1 \/ Len(t.path) = 3 BY DEF TypeOK
<1> QED BY <1>1, <1>2

LEMMA InitIInv == Init => IInv
<1> QED BY NamesAssumption DEF Init, IInv, TypeOK, KeysMade, TuplesMade

(* A key pair never changes, so that what was made with one stays as it is.*)
LEMMA CreateKeyPairIInv ==
  ASSUME IInv, NEW q \in People, NEW pg \in Params, NEW sk \in Exp,
         CreateKeyPair(q, pg, sk)
  PROVE  IInv'
<1>1. secret' = [secret EXCEPT ![q] = sk] /\ params' = [params EXCEPT ![q] = pg]
      /\ UNCHANGED <<keys, tuples>> /\ ~HasKey(q) /\ TypeOK
  BY DEF CreateKeyPair, IInv
<1>2. \A p \in People : HasKey(p) =>
        HasKey(p)' /\ secret'[p] = secret[p] /\ params'[p] = params[p]
  BY <1>1 DEF HasKey, TypeOK
<1>3. TypeOK' BY <1>1 DEF TypeOK
<1>4. KeysMade'
  <2> SUFFICES ASSUME NEW key \in keys
               PROVE  /\ HasKey(key.from)' /\ HasKey(key.to)'
                      /\ params'[key.from] = params'[key.to] =>
                           key.rk = getReEncryptionKey(key.from, key.to)'
    BY <1>1 DEF KeysMade
  <2>1. key.from \in People /\ key.to \in People BY <1>1 DEF TypeOK
  <2>2. HasKey(key.from) /\ HasKey(key.to) BY DEF IInv, KeysMade
  <2> QED BY <1>2, <2>1, <2>2 DEF IInv, KeysMade, getReEncryptionKey, Invert, publicKey
<1>5. TuplesMade'
  <2> SUFFICES ASSUME NEW t \in tuples
               PROVE  /\ \A n \in DOMAIN t.path : HasKey(t.path[n])'
                      /\ Fit(t)' => Made(t)'
    BY <1>1 DEF TuplesMade
  <2>1. \A n \in DOMAIN t.path : t.path[n] \in People /\ HasKey(t.path[n])
    BY <1>1, PathDomain DEF IInv, TuplesMade
  <2>2. \A n \in DOMAIN t.path :
          /\ HasKey(t.path[n])' /\ secret'[t.path[n]] = secret[t.path[n]]
          /\ params'[t.path[n]] = params[t.path[n]]
    BY <1>2, <2>1
  <2>3. Fit(t)' => Fit(t) BY <2>2 DEF Fit
  <2>4. Fit(t) => Made(t) BY DEF IInv, TuplesMade
  <2>5. 1 \in DOMAIN t.path /\ (Len(t.path) = 3 => 2 \in DOMAIN t.path /\ 3 \in DOMAIN t.path)
    BY <1>1, PathDomain
  <2>6. Made(t) => Made(t)'
    BY <2>2, <2>5 DEF Made, SecondLevel, FirstLevel, getReEncryptionKey, Invert, publicKey
  <2> QED BY <2>2, <2>3, <2>4, <2>6
<1> QED BY <1>3, <1>4, <1>5 DEF IInv

LEMMA CreateReEncryptionKeyIInv ==
  ASSUME IInv, NEW from \in People, NEW to \in People,
         CreateReEncryptionKey(from, to)
  PROVE  IInv'
<1>1. PICK rk \in Result(params[from] = params[to], getReEncryptionKey(from, to)) :
        keys' = keys \cup {[from |-> from, to |-> to, rk |-> rk]}
  BY DEF CreateReEncryptionKey
<1>2. HasKey(from) /\ HasKey(to) /\ UNCHANGED <<secret, params, tuples>> /\ TypeOK
  BY DEF CreateReEncryptionKey, IInv
<1>3. getReEncryptionKey(from, to) \in Exp
  BY <1>2, KeyType, FieldAssumption DEF getReEncryptionKey, Invert, Pow
<1>4. rk \in Exp /\ (params[from] = params[to] => rk = getReEncryptionKey(from, to))
  BY <1>1, <1>3 DEF Result
<1>5. TypeOK' BY <1>1, <1>2, <1>4 DEF TypeOK
<1>6. KeysMade'
  <2> SUFFICES ASSUME NEW key \in keys'
               PROVE  /\ HasKey(key.from)' /\ HasKey(key.to)'
                      /\ params'[key.from] = params'[key.to] =>
                           key.rk = getReEncryptionKey(key.from, key.to)'
    BY DEF KeysMade
  <2>1. CASE key \in keys
    BY <1>2, <2>1 DEF IInv, KeysMade, HasKey, getReEncryptionKey, Invert, publicKey
  <2>2. CASE key = [from |-> from, to |-> to, rk |-> rk]
    BY <1>2, <1>4, <2>2 DEF HasKey, getReEncryptionKey, Invert, publicKey
  <2> QED BY <1>1, <2>1, <2>2
<1>7. TuplesMade'
  BY <1>2 DEF IInv, TuplesMade, HasKey, Fit, Made, SecondLevel, FirstLevel,
              getReEncryptionKey, publicKey
<1> QED BY <1>5, <1>6, <1>7 DEF IInv

(* A new ciphertext is well made if its key pairs are there; those that    *)
(* there were stay.                                                        *)
LEMMA AddTuple ==
  ASSUME IInv, UNCHANGED <<secret, params, keys>>,
         NEW t \in [secondLevel : BOOLEAN, c1 : Exp, c2 : Exp, pg : Params,
                    m : Exp, k : Exp, path : Seq(People)],
         Len(t.path) = 1 \/ (Len(t.path) = 3 /\ ~t.secondLevel),
         \A n \in DOMAIN t.path : HasKey(t.path[n]),
         Fit(t) => Made(t),
         tuples' = tuples \cup {t}
  PROVE  IInv'
<1>1. TypeOK' BY DEF IInv, TypeOK
<1>2. KeysMade' BY DEF IInv, KeysMade, HasKey, getReEncryptionKey, Invert, publicKey
<1>3. TuplesMade'
  BY DEF IInv, TuplesMade, HasKey, Fit, Made, SecondLevel, FirstLevel,
         getReEncryptionKey, publicKey
<1> QED BY <1>1, <1>2, <1>3 DEF IInv

LEMMA EncryptIInv ==
  ASSUME IInv, NEW to \in People, NEW pg \in Params, NEW m \in Messages,
         NEW k \in Exp, NEW secondLevel \in BOOLEAN,
         Encrypt(to, pg, m, k, secondLevel)
  PROVE  IInv'
<1> DEFINE x == IF secondLevel THEN SecondLevel(to, k) ELSE FirstLevel(to, k)
<1>1. PICK c1 \in Result(pg = params[to], x), c2 \in Result(pg = params[to], Masked(m, k)) :
        tuples' = tuples \cup
          {[secondLevel |-> secondLevel, c1 |-> c1, c2 |-> c2, pg |-> pg,
            m |-> m, k |-> k, path |-> <<to>>]}
  BY DEF Encrypt
<1>2. HasKey(to) /\ UNCHANGED <<secret, params, keys>> /\ TypeOK /\ m \in Exp
  BY NamesAssumption DEF Encrypt, IInv
<1>3. publicKey(to) \in Exp /\ One \in Exp BY <1>2, KeyType, FieldAssumption
<1>4. x \in Exp /\ Masked(m, k) \in Exp
  BY <1>2, <1>3, FieldAssumption
     DEF SecondLevel, FirstLevel, Masked, Pow, apply, Product, g, Z
<1>5. c1 \in Exp /\ c2 \in Exp
      /\ (pg = params[to] => c1 = x /\ c2 = Masked(m, k))
  BY <1>1, <1>4 DEF Result
<1> DEFINE t == [secondLevel |-> secondLevel, c1 |-> c1, c2 |-> c2, pg |-> pg,
                 m |-> m, k |-> k, path |-> <<to>>]
<1>6. t.path = <<to>> /\ <<to>> \in Seq(People) /\ Len(<<to>>) = 1
      /\ DOMAIN <<to>> = {1} /\ <<to>>[1] = to
  OBVIOUS
<1>7. Fit(t) => Made(t)
  <2> SUFFICES ASSUME Fit(t) PROVE Made(t)
    OBVIOUS
  <2>1. pg = params[to] BY <1>6 DEF Fit
  <2> QED BY <1>5, <1>6, <2>1 DEF Made
<1>8. t \in [secondLevel : BOOLEAN, c1 : Exp, c2 : Exp, pg : Params,
             m : Exp, k : Exp, path : Seq(People)]
  BY <1>2, <1>5, <1>6
<1>9. \A n \in DOMAIN t.path : HasKey(t.path[n]) BY <1>2, <1>6
<1>10. Len(t.path) = 1 BY <1>6
<1>11. tuples' = tuples \cup {t} BY <1>1
<1> HIDE DEF t
<1> QED BY <1>2, <1>7, <1>8, <1>9, <1>10, <1>11, AddTuple

(* What Tuple::reEncrypt adds to a path, and what it keeps of the tuple.   *)
LEMMA Appended ==
  ASSUME NEW u \in Seq(People), Len(u) = 1, NEW a \in People, NEW b \in People
  PROVE  LET path == u \o <<a, b>>
         IN  /\ path \in Seq(People) /\ Len(path) = 3
             /\ path[1] = u[1] /\ path[2] = a /\ path[3] = b
<1> DEFINE v == <<a, b>>
           path == u \o v
<1>1. v \in Seq(People) /\ Len(v) = 2 /\ v[1] = a /\ v[2] = b OBVIOUS
<1> HIDE DEF v
<1>2. path \in Seq(People) /\ Len(path) = Len(u) + Len(v)
  BY <1>1, ConcatProperties
<1>3. \A i \in 1 .. Len(u) + Len(v) :
        path[i] = IF i <= Len(u) THEN u[i] ELSE v[i - Len(u)]
  BY <1>1, ConcatProperties
<1> HIDE DEF path
<1>4. Len(u) + Len(v) = 3 BY <1>1
<1>5. path[1] = u[1] BY <1>3, <1>4
<1>6. path[2] = v[1] BY <1>3, <1>4
<1>7. path[3] = v[2] BY <1>3, <1>4
<1> QED BY <1>1, <1>2, <1>4, <1>5, <1>6, <1>7 DEF path, v

Tuples == [secondLevel : BOOLEAN, c1 : Exp, c2 : Exp, pg : Params,
           m : Exp, k : Exp, path : Seq(People)]

Moved(t, c, q) == [t EXCEPT !.secondLevel = FALSE, !.c1 = c, !.path = q]

LEMMA ReEncrypted ==
  ASSUME NEW t \in Tuples, NEW c \in Exp, NEW q \in Seq(People)
  PROVE  LET s == Moved(t, c, q)
         IN  /\ s \in Tuples
             /\ s.secondLevel = FALSE /\ s.c1 = c /\ s.c2 = t.c2
             /\ s.pg = t.pg /\ s.m = t.m /\ s.k = t.k /\ s.path = q
BY DEF Tuples, Moved

LEMMA ReEncryptIInv ==
  ASSUME IInv, NEW t \in tuples, NEW key \in keys, ReEncrypt(t, key)
  PROVE  IInv'
<1> DEFINE fit == params[key.from] = params[key.to] /\ params[key.to] = t.pg
           path == t.path \o <<key.from, key.to>>
<1>1. t.secondLevel /\ UNCHANGED <<secret, params, keys>> /\ TypeOK
  BY DEF ReEncrypt, IInv
<1>2. PICK c1 \in Result(fit, apply(t.c1, key.rk)) :
        tuples' = tuples \cup
          {[t EXCEPT !.secondLevel = FALSE, !.c1 = c1, !.path = path]}
  BY DEF ReEncrypt
<1>3. /\ t \in Tuples /\ t.c1 \in Exp /\ t.path \in Seq(People)
      /\ key.from \in People /\ key.to \in People /\ key.rk \in Exp
      /\ Len(t.path) = 1
  BY <1>1 DEF TypeOK, Tuples
<1>4. /\ path \in Seq(People) /\ Len(path) = 3
      /\ path[1] = t.path[1] /\ path[2] = key.from /\ path[3] = key.to
  BY <1>3, Appended
<1> HIDE DEF path
<1>14. DOMAIN path = 1 .. 3 BY <1>4
<1>5. c1 \in Exp /\ (fit => c1 = apply(t.c1, key.rk))
  <2>1. apply(t.c1, key.rk) \in Exp BY <1>3, Closed DEF apply
  <2> HIDE DEF fit
  <2>2. c1 \in (IF fit THEN {apply(t.c1, key.rk)} ELSE Exp) BY <1>2 DEF Result
  <2> QED BY <2>1, <2>2
<1> DEFINE s == Moved(t, c1, path)
<1>7. /\ s \in Tuples
      /\ s.secondLevel = FALSE /\ s.c1 = c1 /\ s.c2 = t.c2
      /\ s.pg = t.pg /\ s.m = t.m /\ s.k = t.k /\ s.path = path
  BY <1>3, <1>4, <1>5, ReEncrypted
<1>13. tuples' = tuples \cup {s} BY <1>2 DEF Moved
<1> HIDE DEF s
<1>9. DOMAIN t.path = {1} BY <1>3
<1>10. HasKey(t.path[1]) /\ HasKey(key.from) /\ HasKey(key.to)
  BY <1>9 DEF IInv, TuplesMade, KeysMade
<1>11. \A n \in DOMAIN s.path : HasKey(s.path[n])
  BY <1>4, <1>14, <1>7, <1>10
<1>12. Fit(s) => Made(s)
  <2> SUFFICES ASSUME Fit(s) PROVE Made(s)
    OBVIOUS
  <2>1. params[t.path[1]] = t.pg /\ params[key.from] = t.pg /\ params[key.to] = t.pg
    BY <1>4, <1>14, <1>7 DEF Fit
  <2>2. Made(t) BY <2>1, <1>9 DEF Fit, IInv, TuplesMade
  <2>3. key.rk = getReEncryptionKey(key.from, key.to)
    BY <2>1 DEF IInv, KeysMade
  <2>4. t.c1 = SecondLevel(t.path[1], t.k) /\ t.c2 = Masked(t.m, t.k)
    BY <1>1, <2>2 DEF Made
  <2>5. fit BY <2>1
  <2>6. c1 = apply(SecondLevel(t.path[1], t.k), getReEncryptionKey(key.from, key.to))
    BY <1>5, <2>3, <2>4, <2>5
  <2> QED BY <1>4, <1>7, <2>4, <2>6 DEF Made
<1> QED BY <1>1, <1>4, <1>7, <1>11, <1>12, <1>13, AddTuple DEF Tuples

LEMMA NextIInv == IInv /\ [Next]_vars => IInv'
<1> SUFFICES ASSUME IInv, [Next]_vars PROVE IInv'
  OBVIOUS
<1>1. ASSUME NEW p \in People, NEW pg \in Params, NEW sk \in Exp,
             CreateKeyPair(p, pg, sk)
      PROVE  IInv'
  BY <1>1, CreateKeyPairIInv
<1>2. ASSUME NEW from \in People, NEW to \in People, CreateReEncryptionKey(from, to)
      PROVE  IInv'
  BY <1>2, CreateReEncryptionKeyIInv
<1>3. ASSUME NEW to \in People, NEW m \in Messages, NEW k \in Exp,
             EncryptFirstLevel(to, m, k)
      PROVE  IInv'
  BY <1>3, EncryptIInv, NamesAssumption DEF EncryptFirstLevel
<1>4. ASSUME NEW to \in People, NEW m \in Messages, NEW k \in Exp,
             NEW secondLevel \in BOOLEAN, Encrypt(to, params[to], m, k, secondLevel)
      PROVE  IInv'
  <2>1. params[to] \in Params BY DEF IInv, TypeOK
  <2> QED BY <1>4, <2>1, EncryptIInv
<1>5. ASSUME NEW t \in tuples, NEW key \in keys, ReEncrypt(t, key) PROVE IInv'
  BY <1>5, ReEncryptIInv
<1>6. CASE UNCHANGED vars
  BY <1>6 DEF vars, IInv, TypeOK, KeysMade, TuplesMade, HasKey, Fit, Made,
              SecondLevel, FirstLevel, getReEncryptionKey, publicKey
<1> QED BY <1>1, <1>2, <1>3, <1>4, <1>5, <1>6 DEF Next

LEMMA Invariance == Spec => []IInv
<1> QED BY InitIInv, NextIInv, PTL DEF Spec

-----------------------------------------------------------------------------
(* What c1 of a ciphertext of the first level is, and with it what the     *)
(* key x makes of it.                                                      *)
LEMMA FirstLevelMask ==
  ASSUME IInv, NEW t \in tuples, ~t.secondLevel, Proper(t),
         NEW x \in Exp, x # Zero
  PROVE  /\ secret[t.path[1]] \in Exp \ {Zero}
         /\ secret[Receiver(t)] \in Exp \ {Zero} /\ t.k \in Exp /\ t.m \in Exp
         /\ t.c1 \in Exp
         /\ decryptFirstLevel(t, x) = t.m <=> Mult(t.c1, Inv(x)) = t.k
         /\ Direct(t) => t.c1 = Mult(secret[Receiver(t)], t.k)
         /\ Len(t.path) = 3 =>
              /\ secret[t.path[2]] \in Exp \ {Zero}
              /\ t.c1 = Mult(Mult(secret[t.path[1]], t.k),
                             Mult(secret[t.path[3]], Inv(secret[t.path[2]])))
<1>1. /\ t.path \in Seq(People) /\ DOMAIN t.path = 1 .. Len(t.path)
      /\ Len(t.path) \in {1, 3} /\ 1 \in DOMAIN t.path
      /\ Len(t.path) \in DOMAIN t.path
      /\ \A n \in DOMAIN t.path : t.path[n] \in People
  BY PathDomain DEF IInv
<1>2. /\ \A n \in DOMAIN t.path : HasKey(t.path[n])
      /\ Made(t)
  BY DEF IInv, TuplesMade, Proper, Fit
<1>3. \A n \in DOMAIN t.path :
        secret[t.path[n]] \in Exp \ {Zero} /\ Inv(secret[t.path[n]]) \in Exp
  BY <1>1, <1>2, KeyType DEF IInv, Proper
<1>4. t.k \in Exp /\ t.m \in Exp /\ t.c1 \in Exp BY DEF IInv, TypeOK
<1>5. \A a \in Exp : Mult(One, a) = a BY FieldAssumption
<1>6. \A n \in DOMAIN t.path : publicKey(t.path[n]) = secret[t.path[n]]
  BY <1>3, <1>5 DEF publicKey, Pow, g
<1>7. decryptFirstLevel(t, x) = t.m <=> Mult(t.c1, Inv(x)) = t.k
  <2>1. t.c2 = Product(t.m, t.k)
    BY <1>2, <1>4, <1>5 DEF Made, Masked, Pow, Z
  <2>2. decryptFirstLevel(t, x) = Quotient(Product(t.m, t.k), Mult(t.c1, Inv(x)))
    BY <2>1 DEF decryptFirstLevel, Invert, Pow
  <2>3. Mult(t.c1, Inv(x)) \in Exp BY <1>4, FieldAssumption
  <2> QED BY <1>4, <2>2, <2>3, Unmask
<1>8. Len(t.path) = 1 => t.c1 = Mult(secret[t.path[1]], t.k)
  BY <1>1, <1>2, <1>4, <1>5, <1>6 DEF Made, FirstLevel, apply, Pow, g
<1>9. Len(t.path) = 3 =>
        t.c1 = Mult(Mult(secret[t.path[1]], t.k),
                    Mult(secret[t.path[3]], Inv(secret[t.path[2]])))
  BY <1>1, <1>2, <1>6 DEF Made, SecondLevel, getReEncryptionKey, Invert, apply, Pow
<1>10. Direct(t) => t.c1 = Mult(secret[Receiver(t)], t.k)
  <2>1. CASE Len(t.path) = 1 BY <1>8, <2>1 DEF Receiver
  <2>2. CASE Len(t.path) = 3 /\ secret[t.path[1]] = secret[t.path[2]]
    <3>1. secret[t.path[1]] \in Exp \ {Zero} /\ secret[t.path[3]] \in Exp
      BY <1>1, <1>3, <2>2
    <3> QED BY <1>4, <1>9, <2>2, <3>1, Exchange DEF Receiver
  <2> QED BY <1>1, <2>1, <2>2 DEF Direct
<1> QED BY <1>1, <1>3, <1>4, <1>7, <1>9, <1>10 DEF Receiver

(* The keys and ciphertexts have their types; there is one re-encryption at*)
(* most on the way of a message.                                           *)
THEOREM TypeCorrect == Spec => []TypeOK
<1>1. IInv => TypeOK BY DEF IInv
<1> QED BY <1>1, Invariance, PTL

(* Over every field: encryption, re-encryption and decryption fit together.*)
THEOREM MessagesAreDelivered == Spec => []Delivered
<1>1. IInv => Delivered
  <2> SUFFICES ASSUME IInv, NEW t \in tuples, ~t.secondLevel, Proper(t), Direct(t)
               PROVE  decryptFirstLevel(t, secret[Receiver(t)]) = t.m
    BY DEF Delivered
  <2>1. PICK r \in Exp : r = secret[Receiver(t)] /\ r # Zero
    <3>1. One \in Exp /\ One # Zero BY FieldAssumption
    <3> QED BY <3>1, FirstLevelMask
  <2>2. t.c1 = Mult(r, t.k) /\ t.k \in Exp BY <2>1, FirstLevelMask
  <2>3. Mult(t.c1, Inv(r)) = t.k BY <2>1, <2>2, Unlock
  <2> QED BY <2>1, <2>3, FirstLevelMask
<1> QED BY <1>1, Invariance, PTL

(* ... and no other key of the same parameters opens what was sealed.      *)
THEOREM NobodyElse == Spec => []OnlyReceiver
<1>1. IInv => OnlyReceiver
  <2> SUFFICES ASSUME IInv, NEW t \in tuples, NEW p \in People, HasKey(p),
                      Proper(t), secret[p] # Zero, t.k # Zero,
                      decryptFirstLevel(t, secret[p]) = t.m
               PROVE  ~t.secondLevel /\ (Direct(t) => secret[p] = secret[Receiver(t)])
    BY DEF OnlyReceiver
  <2>1. ~t.secondLevel
    <3>1. t.m \in Exp BY DEF IInv, TypeOK
    <3> QED BY <3>1, NamesAssumption DEF decryptFirstLevel, Invert
  <2>2. secret[p] \in Exp BY KeyType DEF IInv
  <2>3. /\ Mult(t.c1, Inv(secret[p])) = t.k /\ t.k \in Exp
        /\ secret[Receiver(t)] \in Exp
        /\ Direct(t) => t.c1 = Mult(secret[Receiver(t)], t.k)
    BY <2>1, <2>2, FirstLevelMask
  <2> QED BY <2>1, <2>2, <2>3, Unlock
<1> QED BY <1>1, Invariance, PTL

(* A re-encryption key works for ciphertexts of its own sender alone.      *)
THEOREM NobodyElsesKey == Spec => []NoDetour
<1>1. IInv => NoDetour
  <2> SUFFICES ASSUME IInv, NEW t \in tuples, Proper(t), ~Direct(t), t.k # Zero,
                      decryptFirstLevel(t, secret[Receiver(t)]) = t.m
               PROVE  FALSE
    BY DEF NoDetour
  <2>1. ~t.secondLevel /\ Len(t.path) = 3 /\ secret[t.path[1]] # secret[t.path[2]]
    BY DEF IInv, TypeOK, Direct
  <2>2. One \in Exp /\ One # Zero BY FieldAssumption
  <2>3. /\ secret[t.path[1]] \in Exp /\ secret[t.path[2]] \in Exp \ {Zero}
        /\ secret[t.path[3]] \in Exp \ {Zero} /\ t.k \in Exp
        /\ t.c1 = Mult(Mult(secret[t.path[1]], t.k),
                       Mult(secret[t.path[3]], Inv(secret[t.path[2]])))
    BY <2>1, <2>2, FirstLevelMask DEF Receiver
  <2>4. Mult(t.c1, Inv(secret[t.path[3]])) = t.k
    BY <2>1, <2>3, FirstLevelMask DEF Receiver
  <2>5. Mult(Mult(secret[t.path[1]], t.k), Inv(secret[t.path[2]])) = t.k
    BY <2>3, <2>4, Detour
  <2> QED BY <2>1, <2>3, <2>5, Unlock
<1> QED BY <1>1, Invariance, PTL

=============================================================================
