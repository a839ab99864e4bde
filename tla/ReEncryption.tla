----------------------------- MODULE ReEncryption -----------------------------
(***************************************************************************)
(* KeyPair, Tuple and the facade of e2ee.cpp: proxy re-encryption over the *)
(* operators of Element and the pairing.                                   *)
(*                                                                         *)
(* An element of G1 is modelled by its logarithm to the base g, one of GT  *)
(* by its logarithm to the base Z = e(g, g), one of Zr by itself: all are  *)
(* members of a field Exp, operator^ and the pairing multiply, operator*   *)
(* and operator/ add and subtract.  Every GlobalParameters has a pairing   *)
(* of its own: what PBC computes when the elements of two of them meet is  *)
(* garbage, here any element.                                              *)
(***************************************************************************)
EXTENDS Naturals, Sequences, FiniteSets

CONSTANTS
  Exp, Zero, One, Add(_, _), Neg(_), Mult(_, _), Inv(_),  \* the field
  People,     \* owners of key pairs
  Params,     \* GlobalParameters of one context
  Global,     \* context->global()
  Messages,   \* elements of GT that are encrypted
  MaxTuples,  \* bound: ciphertexts when another one is made
  MaxKeys,    \* bound: re-encryption keys
  None

(* Zr is a field; what element_invert makes of 0 is anything.              *)
ASSUME FieldAssumption ==
  /\ Zero \in Exp /\ One \in Exp /\ Zero # One
  /\ \A a, b \in Exp : /\ Add(a, b) \in Exp /\ Mult(a, b) \in Exp
                       /\ Add(a, b) = Add(b, a) /\ Mult(a, b) = Mult(b, a)
  /\ \A a, b, c \in Exp : /\ Add(Add(a, b), c) = Add(a, Add(b, c))
                          /\ Mult(Mult(a, b), c) = Mult(a, Mult(b, c))
                          /\ Mult(a, Add(b, c)) = Add(Mult(a, b), Mult(a, c))
  /\ \A a \in Exp : /\ Neg(a) \in Exp /\ Add(a, Neg(a)) = Zero
                    /\ Inv(a) \in Exp /\ (a # Zero => Mult(a, Inv(a)) = One)
                    /\ Add(a, Zero) = a /\ Mult(a, One) = a

ASSUME NamesAssumption ==
  /\ Messages \subseteq Exp /\ Global \in Params
  /\ MaxTuples \in Nat /\ MaxKeys \in Nat
  /\ None \notin Exp \cup People

(* The path of a ciphertext: whom it was encrypted for; and, if it was     *)
(* re-encrypted, from whom and to whom the re-encryption key was.          *)
-----------------------------------------------------------------------------
VARIABLES
  secret,  \* per person, the secret key, or None
  params,  \* per person, the GlobalParameters the key pair was made with
  keys,    \* re-encryption keys: from, to, and the element of G1
  tuples   \* ciphertexts, with the message, k and path that went into them

vars == <<secret, params, keys, tuples>>

Pow(x, z)      == Mult(x, z)       \* operator^
Product(x, y)  == Add(x, y)        \* operator*
Quotient(x, y) == Add(x, Neg(y))   \* operator/
Invert(z)      == Inv(z)           \* operator!
apply(x, y)    == Mult(x, y)       \* Pairing::apply

g == One
Z == One

publicKey(p) == Pow(g, secret[p])

(* A result x if the elements it comes from fit together.                  *)
Result(fit, x) == IF fit THEN {x} ELSE Exp

(* KeyPair::getReEncryptionKeyFor                                          *)
getReEncryptionKeyMutant(from, to) ==  \* as if operator! were left out
  Pow(publicKey(to), secret[from])

getReEncryptionKey(from, to) == Pow(publicKey(to), Invert(secret[from]))

(* The constructor of Tuple: c1 and c2, with the random k.                 *)
FirstLevel(to, k)  == apply(publicKey(to), Pow(g, k))
SecondLevel(to, k) == Pow(publicKey(to), k)
Masked(m, k)       == Product(m, Pow(Z, k))

(* Tuple::decryptFirstLevel, where None is nullptr.                        *)
decryptMutant(t, sk) == Quotient(t.c2, Pow(t.c1, Invert(sk)))  \* at any level

decryptFirstLevel(t, sk) ==
  IF t.secondLevel THEN None ELSE Quotient(t.c2, Pow(t.c1, Invert(sk)))

-----------------------------------------------------------------------------
Init ==
  /\ secret = [p \in People |-> None]
  /\ params = [p \in People |-> Global]
  /\ keys = {} /\ tuples = {}

HasKey(p) == secret[p] # None

(* The constructor of KeyPair; the secret key may be any element of Zr.    *)
CreateKeyPair(p, pg, sk) ==
  /\ ~HasKey(p)
  /\ secret' = [secret EXCEPT ![p] = sk]
  /\ params' = [params EXCEPT ![p] = pg]
  /\ UNCHANGED <<keys, tuples>>

CreateReEncryptionKey(from, to) ==
  /\ HasKey(from) /\ HasKey(to) /\ Cardinality(keys) < MaxKeys
  /\ \E rk \in Result(params[from] = params[to], getReEncryptionKey(from, to)) :
       keys' = keys \cup {[from |-> from, to |-> to, rk |-> rk]}
  /\ UNCHANGED <<secret, params, tuples>>

(* The constructor of Tuple with the parameters pg.  The message is an     *)
(* element of the GT of the parameters that the public key was made with.  *)
Encrypt(to, pg, m, k, secondLevel) ==
  /\ HasKey(to) /\ Cardinality(tuples) < MaxTuples
  /\ \E c1 \in Result(pg = params[to], IF secondLevel THEN SecondLevel(to, k)
                                       ELSE FirstLevel(to, k)),
        c2 \in Result(pg = params[to], Masked(m, k)) :
       tuples' = tuples \cup
         {[secondLevel |-> secondLevel, c1 |-> c1, c2 |-> c2, pg |-> pg,
           m |-> m, k |-> k, path |-> <<to>>]}
  /\ UNCHANGED <<secret, params, keys>>

(* The facade encrypts with the parameters of the context, whatever the    *)
(* public key was made with.                                               *)
EncryptFirstLevel(to, m, k) == Encrypt(to, Global, m, k, FALSE)

(* Tuple::reEncrypt: the new ciphertext shares c2.  For a ciphertext of    *)
(* the first level it returns nullptr.                                     *)
ReEncryptMutant(t, key) ==  \* as if the new ciphertext kept its level
  /\ t.secondLevel
  /\ \E c1 \in Result(params[key.from] = params[key.to] /\ params[key.to] = t.pg,
                      apply(t.c1, key.rk)) :
       tuples' = tuples \cup
         {[t EXCEPT !.c1 = c1, !.path = @ \o <<key.from, key.to>>]}
  /\ UNCHANGED <<secret, params, keys>>

ReEncrypt(t, key) ==
  /\ t.secondLevel
  /\ \E c1 \in Result(params[key.from] = params[key.to] /\ params[key.to] = t.pg,
                      apply(t.c1, key.rk)) :
       tuples' = tuples \cup
         {[t EXCEPT !.secondLevel = FALSE, !.c1 = c1,
                    !.path = @ \o <<key.from, key.to>>]}
  /\ UNCHANGED <<secret, params, keys>>

Next ==
  \/ \E p \in People, pg \in Params, sk \in Exp : CreateKeyPair(p, pg, sk)
  \/ \E from, to \in People : CreateReEncryptionKey(from, to)
  \/ \E to \in People, m \in Messages, k \in Exp :
       \/ EncryptFirstLevel(to, m, k)
       \/ \E secondLevel \in BOOLEAN : Encrypt(to, params[to], m, k, secondLevel)
  \/ \E t \in tuples, key \in keys : ReEncrypt(t, key)

Spec == Init /\ [][Next]_vars

-----------------------------------------------------------------------------
TypeOK ==
  /\ secret \in [People -> Exp \cup {None}]
  /\ params \in [People -> Params]
  /\ keys \subseteq [from : People, to : People, rk : Exp]
  /\ tuples \subseteq [secondLevel : BOOLEAN, c1 : Exp, c2 : Exp, pg : Params,
                       m : Exp, k : Exp, path : Seq(People)]
  /\ \A t \in tuples : Len(t.path) = 1 \/ (Len(t.path) = 3 /\ ~t.secondLevel)

(* All keys on the path are of one set of parameters, and none is 0 (which *)
(* randomize does not exclude).                                            *)
Proper(t) ==
  \A n \in DOMAIN t.path :
    params[t.path[n]] = t.pg /\ secret[t.path[n]] # Zero

Receiver(t) == t.path[Len(t.path)]

(* The re-encryption key was made by whom the message was encrypted for.   *)
Direct(t) == Len(t.path) = 3 => secret[t.path[1]] = secret[t.path[2]]

(* Tuple, KeyPair: the receiver decrypts a ciphertext of the first level   *)
(* to the message, whether it was encrypted for the receiver, also by the  *)
(* facade, or re-encrypted with the key of its first addressee.            *)
Delivered ==
  \A t \in tuples :
    ~t.secondLevel /\ Proper(t) /\ Direct(t) =>
      decryptFirstLevel(t, secret[Receiver(t)]) = t.m

(* Another key of the same parameters does not decrypt it, unless k was 0; *)
(* nor does any key decrypt a ciphertext of the second level.              *)
OnlyReceiver ==
  \A t \in tuples, p \in People :
    HasKey(p) /\ Proper(t) /\ secret[p] # Zero /\ t.k # Zero
    /\ decryptFirstLevel(t, secret[p]) = t.m =>
      /\ ~t.secondLevel
      /\ Direct(t) => secret[p] = secret[Receiver(t)]

(* What was re-encrypted with the key of somebody else than its addressee  *)
(* does not reach the receiver of that key.                                *)
NoDetour ==
  \A t \in tuples :
    Proper(t) /\ ~Direct(t) /\ t.k # Zero =>
      decryptFirstLevel(t, secret[Receiver(t)]) # t.m

=============================================================================
