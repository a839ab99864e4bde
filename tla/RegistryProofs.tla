---------------------------- MODULE RegistryProofs ----------------------------
(***************************************************************************)
(* Proofs about Registry, for any number of pairings, blocks, documents,   *)
(* clears and imports.                                                     *)
(***************************************************************************)
EXTENDS Registry, FiniteSetTheorems, TLAPS

-----------------------------------------------------------------------------
(* The native objects of a pairing p with the data block d.                *)
Placed(p, d) == p \in Pairings /\ (d \in Blocks \/ d = p)

Native(f, p, d) ==
  /\ f = <<f[1], f[2]>>
  /\ \/ f[1] \in StructRoles /\ f[2] = p
     \/ f[1] \in BlockRoles /\ f[2] = d
     \/ d = p /\ f[1] \in DocRoles /\ f[2] = p

LEMMA FieldsAre ==
  ASSUME NEW p, NEW d
  PROVE  /\ DOMAIN Fields(p, d) = 1 .. 6
         /\ Fields(p, d)[1] = IF d = p THEN <<"docEq", p>> ELSE <<"Eq", d>>
         /\ Fields(p, d)[2] = <<"GT", p>> /\ Fields(p, d)[3] = <<"Zr", p>>
         /\ Fields(p, d)[4] = <<"Eq", d>> /\ Fields(p, d)[5] = <<"Fq", d>>
         /\ Fields(p, d)[6] = <<"Fq2", d>>
BY DEF Fields

LEMMA NativesAre ==
  ASSUME NEW p, NEW d, Placed(p, d), NEW f
  PROVE  f \in Natives(p, d) <=> Native(f, p, d)
<1> DEFINE F == Fields(p, d)
<1>1. DOMAIN F = 1 .. 6 BY FieldsAre
<1>2. /\ F[1] = IF d = p THEN <<"docEq", p>> ELSE <<"Eq", d>>
      /\ F[2] = <<"GT", p>> /\ F[3] = <<"Zr", p>> /\ F[4] = <<"Eq", d>>
      /\ F[5] = <<"Fq", d>> /\ F[6] = <<"Fq2", d>>
  BY FieldsAre
<1> HIDE DEF F
<1>3. f \in Range(F) <=> \E n \in 1 .. 6 : f = F[n]
  BY <1>1 DEF Range
<1>4. \A n \in 1 .. 6 : n \in {1, 2, 3, 4, 5, 6} OBVIOUS
<1>5. f \in Range(F) <=> f \in {F[1], F[2], F[3], F[4], F[5], F[6]}
  BY <1>3, <1>4
<1>6. f \in Range(Fields(p, d)) <=>
        \/ f = (IF d = p THEN <<"docEq", p>> ELSE <<"Eq", d>>)
        \/ f \in {<<"GT", p>>, <<"Zr", p>>, <<"Eq", d>>, <<"Fq", d>>, <<"Fq2", d>>}
  BY <1>2, <1>5 DEF F
<1>7. f \in Natives(p, d) <=>
        \/ f \in {<<"P", p>>, <<"GT", p>>, <<"Zr", p>>}
        \/ f \in {<<"Eq", d>>, <<"Fq", d>>, <<"Fq2", d>>}
        \/ d = p /\ f \in (DocRoles \ {"P"}) \X {p}
  BY <1>6 DEF Natives, DocRoles
<1>8. f \in {<<"P", p>>, <<"GT", p>>, <<"Zr", p>>} <=>
        f = <<f[1], f[2]>> /\ f[1] \in StructRoles /\ f[2] = p
  BY DEF StructRoles
<1>9. f \in {<<"Eq", d>>, <<"Fq", d>>, <<"Fq2", d>>} <=>
        f = <<f[1], f[2]>> /\ f[1] \in BlockRoles /\ f[2] = d
  BY DEF BlockRoles
<1>10. f \in (DocRoles \ {"P"}) \X {p} <=>
        f = <<f[1], f[2]>> /\ f[1] \in DocRoles \ {"P"} /\ f[2] = p
  OBVIOUS
<1>11. "P" \in StructRoles BY DEF StructRoles
<1> QED BY <1>7, <1>8, <1>9, <1>10, <1>11 DEF Native

(* Chains: they stay among the objects of the pairing, each member is      *)
(* followed by what it refers to, and the last refers to nothing.          *)
Links(f) == f[1] \in {"Eq", "Fq2", "docEq", "docFq2"}
InGT(f)  == f[1] \in {"GT", "docGT"}

LEMMA ChainIs ==
  ASSUME NEW p, NEW d, Placed(p, d), NEW f \in Natives(p, d)
  PROVE  LET c == Chain(f, d)
         IN  /\ Len(c) \in 1 .. 3 /\ DOMAIN c = 1 .. Len(c) /\ c[1] = f
             /\ \A n \in DOMAIN c : c[n] \in Natives(p, d)
             /\ \A n \in DOMAIN c : IF n = Len(c) THEN Len(Chain(c[n], d)) = 1
                                    ELSE Chain(c[n], d)[2] = c[n + 1]
             /\ \A n \in DOMAIN c : n > 1 => ~InGT(c[n])
<1> DEFINE fq  == IF d \in Pairings THEN <<"docFq", d>> ELSE <<"Fq", d>>
           fq2 == IF d \in Pairings THEN <<"docFq2", d>> ELSE <<"Fq2", d>>
<1>1. Native(f, p, d) BY NativesAre
<1>2. fq \in Natives(p, d) /\ fq2 \in Natives(p, d)
  <2>1. Native(fq, p, d) /\ Native(fq2, p, d)
    BY RegistryAssumption DEF Native, Placed, StructRoles, BlockRoles, DocRoles
  <2> QED BY <2>1, NativesAre
<1>3. fq[1] \in {"Fq", "docFq"} /\ fq2[1] \in {"Fq2", "docFq2"} OBVIOUS
<1>4. Chain(fq2, d) = <<fq2, fq>> /\ Chain(fq, d) = <<fq>>
  BY <1>3 DEF Chain
<1>5. CASE InGT(f)
  <2>1. Chain(f, d) = <<f, fq2, fq>> BY <1>5 DEF Chain, InGT
  <2> HIDE DEF fq, fq2
  <2> QED BY <2>1, <1>2, <1>3, <1>4 DEF InGT
<1>6. CASE Links(f)
  <2>1. Chain(f, d) = <<f, fq>> BY <1>6 DEF Chain, Links
  <2> HIDE DEF fq, fq2
  <2> QED BY <2>1, <1>2, <1>3, <1>4, <1>6 DEF InGT, Links
<1>7. CASE ~InGT(f) /\ ~Links(f)
  <2>1. Chain(f, d) = <<f>> BY <1>7 DEF Chain, InGT, Links
  <2> QED BY <2>1, <1>7
<1> QED BY <1>5, <1>6, <1>7

-----------------------------------------------------------------------------
(* What fromNative registers.                                              *)
LEMMA FromNativeGives ==
  ASSUME NEW p, NEW d, Placed(p, d), NEW f \in Natives(p, d)
  PROVE  /\ FromNative(f, d) \subseteq Natives(p, d)
         /\ \A e \in FromNative(f, d) :
              Len(Chain(e, d)) > 1 =>
                Taken(Chain(e, d)[2]) \/ Chain(e, d)[2] \in FromNative(f, d)
         /\ ~BadCast(f, d) => Taken(f) \/ f \in FromNative(f, d)
<1> DEFINE c == Chain(f, d)
<1>1. /\ Len(c) \in 1 .. 3 /\ DOMAIN c = 1 .. Len(c) /\ c[1] = f
      /\ \A n \in DOMAIN c : c[n] \in Natives(p, d)
      /\ \A n \in DOMAIN c : IF n = Len(c) THEN Len(Chain(c[n], d)) = 1
                             ELSE Chain(c[n], d)[2] = c[n + 1]
  BY ChainIs
<1>2. Missing(f, d) = {c[n] : n \in {n \in DOMAIN c : \A m \in 1 .. n : ~Taken(c[m])}}
  BY DEF Missing
<1>3. BadCast(f, d) => \E n \in DOMAIN c : c[n] \in DOMAIN imported
  BY DEF BadCast
<1>4. IsCurve(f) => Len(c) = 2 BY DEF IsCurve, Chain
<1> HIDE DEF c
<1>5. Missing(f, d) \subseteq Natives(p, d) BY <1>1, <1>2
<1>6. FromNative(f, d) \subseteq Missing(f, d) BY DEF FromNative
<1>7. ASSUME ~BadCast(f, d), NEW e \in FromNative(f, d), Len(Chain(e, d)) > 1,
             ~Taken(Chain(e, d)[2])
      PROVE  Chain(e, d)[2] \in FromNative(f, d)
  <2>1. FromNative(f, d) = Missing(f, d) BY <1>7 DEF FromNative
  <2>2. PICK n \in DOMAIN c : e = c[n] /\ \A m \in 1 .. n : ~Taken(c[m])
    BY <1>2, <1>7, <2>1
  <2>3. n # Len(c) /\ Chain(e, d)[2] = c[n + 1] BY <1>1, <1>7, <2>2
  <2>4. n + 1 \in DOMAIN c BY <1>1, <2>2, <2>3
  <2>5. \A m \in 1 .. n + 1 : ~Taken(c[m])
    <3> SUFFICES ASSUME NEW m \in 1 .. n + 1 PROVE ~Taken(c[m])
      OBVIOUS
    <3>1. m \in 1 .. n \/ m = n + 1 BY <1>1, <2>2
    <3> QED BY <3>1, <2>2, <2>3, <1>7
  <2> QED BY <1>2, <2>1, <2>3, <2>4, <2>5
<1>8. ASSUME BadCast(f, d), NEW e \in FromNative(f, d), Len(Chain(e, d)) > 1
      PROVE  Taken(Chain(e, d)[2])
  <2>1. IsCurve(f) /\ e = f /\ f \in Missing(f, d) BY <1>8 DEF FromNative
  <2>2. ~Taken(f)
    <3>1. PICK n \in DOMAIN c : f = c[n] /\ \A m \in 1 .. n : ~Taken(c[m])
      BY <1>2, <2>1
    <3> QED BY <1>1, <3>1
  <2>3. PICK n \in DOMAIN c : c[n] \in DOMAIN imported BY <1>3, <1>8
  <2>4. Taken(c[n]) BY <2>3 DEF Taken
  <2>5. n = 2
    <3>1. n # 1 BY <1>1, <2>2, <2>4
    <3>2. n \in 1 .. 2 BY <1>1, <1>4, <2>1
    <3> QED BY <3>1, <3>2
  <2>6. Chain(e, d)[2] = c[2] BY <2>1 DEF c
  <2> QED BY <2>4, <2>5, <2>6
<1>9. ~BadCast(f, d) => Taken(f) \/ f \in FromNative(f, d)
  <2> SUFFICES ASSUME ~BadCast(f, d), ~Taken(f) PROVE f \in FromNative(f, d)
    OBVIOUS
  <2>1. 1 \in DOMAIN c /\ \A m \in 1 .. 1 : ~Taken(c[m]) BY <1>1
  <2> QED BY <1>1, <1>2, <2>1 DEF FromNative
<1> QED BY <1>5, <1>6, <1>7, <1>8, <1>9

LEMMA InitFieldsGives ==
  ASSUME NEW p, NEW d, Placed(p, d)
  PROVE  /\ InitFields(p, d) \subseteq Natives(p, d)
         /\ \A e \in InitFields(p, d) :
              Len(Chain(e, d)) > 1 =>
                Taken(Chain(e, d)[2]) \/ Chain(e, d)[2] \in InitFields(p, d)
         /\ ~Throws(p, d) => \A f \in Range(Fields(p, d)) :
                               Taken(f) \/ f \in InitFields(p, d)
<1> DEFINE F == Fields(p, d)
           T == {n \in DOMAIN F : \A m \in 1 .. n - 1 : ~BadCast(F[m], d)}
<1>1. DOMAIN F = 1 .. 6 BY FieldsAre
<1>2. \A n \in DOMAIN F : F[n] \in Range(F) /\ F[n] \in Natives(p, d)
  BY DEF Range, Natives
<1>3. InitFields(p, d) = UNION {FromNative(F[n], d) : n \in T}
  BY DEF InitFields
<1>4. Throws(p, d) <=> \E f \in Range(F) : BadCast(f, d) BY DEF Throws
<1>5. \A f \in Range(F) : \E n \in DOMAIN F : f = F[n] BY DEF Range
<1> HIDE DEF F
<1>6. InitFields(p, d) \subseteq Natives(p, d)
  BY <1>2, <1>3, FromNativeGives
<1>7. ASSUME NEW e \in InitFields(p, d), Len(Chain(e, d)) > 1
      PROVE  Taken(Chain(e, d)[2]) \/ Chain(e, d)[2] \in InitFields(p, d)
  <2>1. PICK n \in T : e \in FromNative(F[n], d) BY <1>3
  <2>2. Taken(Chain(e, d)[2]) \/ Chain(e, d)[2] \in FromNative(F[n], d)
    BY <1>2, <1>7, <2>1, FromNativeGives
  <2> QED BY <1>3, <2>2
<1>8. ASSUME ~Throws(p, d), NEW f \in Range(F)
      PROVE  Taken(f) \/ f \in InitFields(p, d)
  <2>1. PICK n \in DOMAIN F : f = F[n] BY <1>5
  <2>2. \A m \in 1 .. n - 1 : m \in DOMAIN F BY <1>1
  <2>3. n \in T BY <1>2, <1>4, <1>8, <2>2
  <2>4. ~BadCast(f, d) BY <1>4, <1>8
  <2>5. Taken(f) \/ f \in FromNative(f, d) BY <1>2, <2>1, <2>4, FromNativeGives
  <2> QED BY <1>3, <2>1, <2>3, <2>5
<1> QED BY <1>6, <1>7, <1>8 DEF F

-----------------------------------------------------------------------------
(* The inductive invariant.  Addresses of pairings are not used again, so  *)
(* that what is registered under them was made while the pairing was in    *)
(* use; those of blocks are, and what is registered under them keeps to    *)
(* the links that any pairing in the block has.  A pairing that is not     *)
(* shared has at most the one wrapper that is registered under its idOf.   *)
InBlock == \A p \in Pairings : block[p] \in Blocks \cup {p, None}

OfUsed(f) ==
  /\ f = <<f[1], f[2]>>
  /\ f[1] \in {"P", "GT", "docGT"} => f[2] \in Pairings /\ ~Unused(f[2])

OwnLinked(f) ==
  /\ Links(f) => Follows(f, f[2])
  /\ InGT(f) /\ block[f[2]] # None => Follows(f, block[f[2]])

Only(w) ==
  w.native \notin shared =>
    /\ w = New(w.native) /\ <<"P", w.native>> \in own
    /\ block[w.native] # None

ClearedAtMostOnce(p) ==
  cleared[p] = 0 \/ (cleared[p] = 1 /\ block[p] = None)

Usable(w) ==
  Registered(w) =>
    /\ w \in wrappers /\ w.native \notin shared /\ block[w.native] \in Blocks
    /\ \A f \in Natives(w.native, block[w.native]) : Taken(f)

IInv ==
  /\ TypeOK
  /\ IsFiniteSet(wrappers)
  /\ InBlock
  /\ \A f \in own : OfUsed(f) /\ OwnLinked(f)
  /\ \A w \in wrappers : ~Unused(w.native) /\ Only(w)
  /\ \A p \in shared : ~Unused(p)
  /\ \A p \in Pairings \ shared : ClearedAtMostOnce(p)
  /\ \A w \in params : Usable(w)

LEMMA InitIInv == Init => IInv
<1> SUFFICES ASSUME Init PROVE IInv
  OBVIOUS
<1>1. Range(imported) = {} BY DEF Init, Range
<1>2. TypeOK BY <1>1, RegistryAssumption DEF Init, TypeOK
<1>3. IsFiniteSet(wrappers) BY FS_EmptySet DEF Init
<1>4. InBlock BY DEF Init, InBlock
<1> QED BY <1>2, <1>3, <1>4 DEF Init, IInv, ClearedAtMostOnce

(* pairing_clear, once for each wrapper of a pairing.                      *)
LEMMA PairingClearDoes ==
  ASSUME TypeOK, NEW ws, IsFiniteSet(ws), PairingClear(ws)
  PROVE  /\ cleared' \in [Pairings -> Nat]
         /\ block' \in [Pairings -> Pairings \cup Blocks \cup {None}]
         /\ \A p \in Pairings :
              IF \E w \in ws : w.native = p
              THEN cleared'[p] > cleared[p] /\ block'[p] = None
              ELSE cleared'[p] = cleared[p] /\ block'[p] = block[p]
         /\ \A p \in Pairings : \A w \in ws :
              w.native = p /\ (\A v \in ws : v.native = p => v = w) =>
                cleared'[p] = cleared[p] + 1
<1> DEFINE of(p) == {w \in ws : w.native = p}
<1>1. \A p \in Pairings : IsFiniteSet(of(p)) /\ Cardinality(of(p)) \in Nat
  BY FS_Subset, FS_CardinalityType
<1>2. \A p \in Pairings : Cardinality(of(p)) = 0 <=> of(p) = {}
  BY <1>1, FS_EmptySet
<1>3. \A w : Cardinality({w}) = 1 BY FS_Singleton
<1>4. /\ cleared' = [p \in Pairings |-> cleared[p] + Cardinality(of(p))]
      /\ block' = [p \in Pairings |->
                    IF \E w \in ws : w.native = p THEN None ELSE block[p]]
      /\ cleared \in [Pairings -> Nat]
      /\ block \in [Pairings -> Pairings \cup Blocks \cup {None}]
  BY DEF PairingClear, TypeOK
<1>5. \A p \in Pairings : (\E w \in ws : w.native = p) <=> of(p) # {}
  OBVIOUS
<1>6. \A p \in Pairings : \A w \in ws :
        w.native = p /\ (\A v \in ws : v.native = p => v = w) => of(p) = {w}
  OBVIOUS
<1> HIDE DEF of
<1>7. \A p \in Pairings : cleared'[p] = cleared[p] + Cardinality(of(p))
  BY <1>4
<1>8. \A p \in Pairings : cleared[p] \in Nat BY <1>4
<1>9. cleared' \in [Pairings -> Nat] BY <1>1, <1>4
<1>10. block' \in [Pairings -> Pairings \cup Blocks \cup {None}] BY <1>4
<1>11. ASSUME NEW p \in Pairings
       PROVE  IF \E w \in ws : w.native = p
              THEN cleared'[p] > cleared[p] /\ block'[p] = None
              ELSE cleared'[p] = cleared[p] /\ block'[p] = block[p]
  <2>1. CASE \E w \in ws : w.native = p
    <3>1. Cardinality(of(p)) > 0 BY <1>1, <1>2, <1>5, <2>1
    <3> QED BY <1>4, <1>7, <1>8, <1>1, <2>1, <3>1
  <2>2. CASE ~\E w \in ws : w.native = p
    <3>1. Cardinality(of(p)) = 0 BY <1>2, <1>5, <2>2
    <3> QED BY <1>4, <1>7, <1>8, <2>2, <3>1
  <2> QED BY <2>1, <2>2
<1>12. \A p \in Pairings : \A w \in ws :
         w.native = p /\ (\A v \in ws : v.native = p => v = w) =>
           cleared'[p] = cleared[p] + 1
  BY <1>3, <1>6, <1>7
<1> QED BY <1>9, <1>10, <1>11, <1>12

(* What is registered when own grows by a set S that fromNative gives.     *)
LEMMA Grows ==
  ASSUME IInv, NEW p, NEW d, Placed(p, d), NEW S, S \subseteq Natives(p, d),
         \A e \in S : Len(Chain(e, d)) > 1 =>
           Taken(Chain(e, d)[2]) \/ Chain(e, d)[2] \in S,
         own' = own \cup S, DOMAIN imported \subseteq DOMAIN imported',
         \A q \in Pairings : ~Unused(q) => ~Unused(q)',
         ~Unused(p)',
         \A q \in Pairings \ {p} : block'[q] \in {block[q], None},
         block'[p] = None \/ (block'[p] = d /\ (block[p] = d \/ Unused(p)))
  PROVE  /\ own' \subseteq Ids
         /\ (\A f \in own : OfUsed(f) /\ OwnLinked(f))'
<1>1. \A id : Taken(id) => Taken(id)' BY DEF Taken
<1>2. \A f, c : Follows(f, c) => Follows(f, c)' BY <1>1 DEF Follows
<1>3. \A e \in S : Follows(e, d)' BY <1>1 DEF Follows, Taken
<1>4. p \in Pairings BY DEF Placed
<1>5. ASSUME NEW f \in own PROVE OfUsed(f)' /\ OwnLinked(f)'
  <2>1. OfUsed(f) /\ OwnLinked(f) BY DEF IInv
  <2>2. OfUsed(f)' BY <2>1 DEF OfUsed
  <2>3. Links(f) => Follows(f, f[2])' BY <2>1, <1>2 DEF OwnLinked
  <2>4. ASSUME InGT(f), block'[f[2]] # None PROVE Follows(f, block[f[2]])'
    <3>1. f[2] \in Pairings /\ ~Unused(f[2]) BY <2>1, <2>4 DEF OfUsed, InGT
    <3>2. block'[f[2]] = block[f[2]] BY <2>4, <3>1
    <3>3. Follows(f, block[f[2]]) BY <2>1, <2>4, <3>2 DEF OwnLinked
    <3> QED BY <3>2, <3>3, <1>1 DEF Follows
  <2> QED BY <2>2, <2>3, <2>4 DEF OwnLinked
<1>6. ASSUME NEW f \in S PROVE f \in Ids /\ OfUsed(f)' /\ OwnLinked(f)'
  <2>1. Native(f, p, d) BY NativesAre
  <2>2. f \in Ids BY <2>1, <1>4 DEF Native, Ids, Placed, StructRoles, BlockRoles, DocRoles
  <2>3. f[1] \in {"P", "GT", "docGT"} => f[2] = p
    BY <2>1 DEF Native, StructRoles, BlockRoles
  <2>4. Links(f) => f[2] = d BY <2>1 DEF Native, Links, StructRoles, BlockRoles
  <2>5. OfUsed(f)' BY <2>1, <2>3, <1>4 DEF OfUsed, Native
  <2>6. InGT(f) => f[2] = p BY <2>3 DEF InGT
  <2>7. InGT(f) /\ block'[f[2]] # None => Follows(f, block[f[2]])'
    <3> SUFFICES ASSUME InGT(f), block'[f[2]] # None PROVE Follows(f, block[f[2]])'
      OBVIOUS
    <3>1. block'[f[2]] = d BY <2>6
    <3> QED BY <3>1, <1>3 DEF Follows
  <2>8. Links(f) => Follows(f, f[2])' BY <2>4, <1>3
  <2> QED BY <2>2, <2>5, <2>7, <2>8 DEF OwnLinked
<1>7. own \subseteq Ids BY DEF IInv, TypeOK
<1> QED BY <1>5, <1>6, <1>7

LEMMA Stays ==
  ASSUME IInv, NEW p \in Pairings, own' = own,
         DOMAIN imported \subseteq DOMAIN imported',
         \A q \in Pairings : ~Unused(q) => ~Unused(q)',
         ~Unused(p)',
         \A q \in Pairings \ {p} : block'[q] = block[q],
         block'[p] = None \/ (block'[p] = p /\ Unused(p))
  PROVE  /\ own' \subseteq Ids
         /\ (\A f \in own : OfUsed(f) /\ OwnLinked(f))'
<1> DEFINE S == {}
<1>1. Placed(p, p) BY DEF Placed
<1>2. own' = own \cup S /\ S \subseteq Natives(p, p) OBVIOUS
<1>3. \A e \in S : Len(Chain(e, p)) > 1 =>
        Taken(Chain(e, p)[2]) \/ Chain(e, p)[2] \in S
  OBVIOUS
<1>4. \A q \in Pairings \ {p} : block'[q] \in {block[q], None} OBVIOUS
<1>5. block'[p] = None \/ (block'[p] = p /\ (block[p] = p \/ Unused(p))) OBVIOUS
<1> HIDE DEF S
<1> QED BY <1>1, <1>2, <1>3, <1>4, <1>5, Grows

(* createPairing, of a new pairing or as fromNative calls it.              *)
LEMMA CreateFacts ==
  ASSUME IInv, NEW p \in Pairings, NEW d, Placed(p, d),
         Unused(p) \/ (block[p] = d /\ ~Taken(<<"P", p>>))
  PROVE  /\ d # None
         /\ \A w \in wrappers : w.native = p => p \in shared
         /\ p \notin shared => cleared[p] = 0
         /\ \A w \in params : Usable(w) /\ Registered(w) => w.native # p
         /\ Unused(p) => p \notin shared /\ <<"P", p>> \notin own
<1>1. d # None BY RegistryAssumption DEF Placed
<1>2. Unused(p) => <<"P", p>> \notin own
  <2>1. <<"P", p>>[1] = "P" /\ <<"P", p>>[2] = p OBVIOUS
  <2> QED BY <2>1 DEF IInv, OfUsed
<1>3. Unused(p) => p \notin shared BY DEF IInv
<1>4. ASSUME NEW w \in wrappers, w.native = p, p \notin shared PROVE FALSE
  <2>1. ~Unused(p) /\ <<"P", p>> \in own BY <1>4 DEF IInv, Only
  <2> QED BY <2>1 DEF Taken
<1>5. p \notin shared => cleared[p] = 0
  BY <1>1 DEF IInv, ClearedAtMostOnce, Unused
<1>6. ASSUME NEW w \in params, Usable(w), Registered(w) PROVE w.native # p
  BY <1>4, <1>6 DEF Usable
<1> QED BY <1>1, <1>2, <1>3, <1>4, <1>5, <1>6

LEMMA CreatePairingOwn ==
  ASSUME IInv, NEW p \in Pairings, NEW d, Placed(p, d),
         Unused(p) \/ (block[p] = d /\ ~Taken(<<"P", p>>)),
         CreatePairing(p, d), UNCHANGED imported
  PROVE  /\ own' \subseteq Ids
         /\ (\A f \in own : OfUsed(f) /\ OwnLinked(f))'
         /\ \A q \in Pairings : ~Unused(q) => ~Unused(q)'
         /\ cleared' \in [Pairings -> Nat]
         /\ block' \in [Pairings -> Pairings \cup Blocks \cup {None}]
         /\ \A q \in Pairings \ {p} : block'[q] = block[q] /\ cleared'[q] = cleared[q]
         /\ ConstructorThrows(p, d) \/ AddObject(p, d) =>
              block'[p] = d /\ cleared'[p] = cleared[p]
         /\ AddObjectThrows(p, d) => block'[p] = None /\ cleared'[p] = cleared[p] + 1
<1> DEFINE F == InitFields(p, d)
           S == IF AddObject(p, d) THEN F \cup {<<"P", p>>} ELSE F
<1>1. d # None BY CreateFacts
<1>2. /\ block \in [Pairings -> Pairings \cup Blocks \cup {None}]
      /\ cleared \in [Pairings -> Nat]
  BY DEF IInv, TypeOK
<1>3. own' = own \cup S
  BY DEF CreatePairing, ConstructorThrows, AddObjectThrows, AddObject
<1>4. <<"P", p>> \in Natives(p, d) BY DEF Natives
<1>5. Len(Chain(<<"P", p>>, d)) = 1 BY DEF Chain
<1>6. S \subseteq Natives(p, d) BY <1>4, InitFieldsGives
<1>7. \A e \in S : Len(Chain(e, d)) > 1 =>
        Taken(Chain(e, d)[2]) \/ Chain(e, d)[2] \in S
  BY <1>5, InitFieldsGives
<1> HIDE DEF S, F
<1>8. CASE ConstructorThrows(p, d) \/ AddObject(p, d)
  <2>1. block' = [block EXCEPT ![p] = d] /\ cleared' = cleared
    BY <1>8 DEF ConstructorThrows, AddObject
  <2>2. block' \in [Pairings -> Pairings \cup Blocks \cup {None}]
    BY <2>1, <1>2 DEF Placed
  <2>3. block'[p] = d /\ \A q \in Pairings \ {p} : block'[q] = block[q]
    BY <2>1, <1>2
  <2>4. ~Unused(p)' BY <2>3, <1>1 DEF Unused
  <2>5. \A q \in Pairings : ~Unused(q) => ~Unused(q)'
    BY <2>1, <2>3, <2>4 DEF Unused
  <2>6. own' \subseteq Ids /\ (\A f \in own : OfUsed(f) /\ OwnLinked(f))'
    BY <1>3, <1>6, <1>7, <2>3, <2>4, <2>5, Grows
  <2>7. ~AddObjectThrows(p, d)
    BY <1>8 DEF AddObjectThrows, ConstructorThrows, AddObject
  <2> QED BY <2>1, <2>2, <2>3, <2>5, <2>6, <2>7, <1>2
<1>9. CASE AddObjectThrows(p, d)
  <2>1. PairingClear({New(p)}) BY <1>9 DEF AddObjectThrows
  <2>2. New(p).native = p BY DEF New, idOf
  <2>3. IsFiniteSet({New(p)}) BY FS_Singleton
  <2>4. TypeOK BY DEF IInv
  <2>5. /\ cleared' \in [Pairings -> Nat]
        /\ block' \in [Pairings -> Pairings \cup Blocks \cup {None}]
        /\ \A q \in Pairings \ {p} : block'[q] = block[q] /\ cleared'[q] = cleared[q]
        /\ block'[p] = None /\ cleared'[p] = cleared[p] + 1
    BY <2>1, <2>2, <2>3, <2>4, PairingClearDoes
  <2>6. ~Unused(p)' BY <2>5, <1>2 DEF Unused
  <2>7. \A q \in Pairings : ~Unused(q) => ~Unused(q)'
    BY <2>5, <2>6 DEF Unused
  <2>8. own' \subseteq Ids /\ (\A f \in own : OfUsed(f) /\ OwnLinked(f))'
    BY <1>3, <1>6, <1>7, <2>5, <2>6, <2>7, Grows
  <2>9. ~ConstructorThrows(p, d) /\ ~AddObject(p, d)
    BY <1>9 DEF AddObjectThrows, ConstructorThrows, AddObject
  <2> QED BY <2>5, <2>7, <2>8, <2>9
<1> QED BY <1>8, <1>9 DEF CreatePairing

LEMMA CreatePairingIInv ==
  ASSUME IInv, NEW p \in Pairings, NEW d, Placed(p, d),
         Unused(p) \/ (block[p] = d /\ ~Taken(<<"P", p>>)),
         CreatePairing(p, d), UNCHANGED <<imported, held, epoch, shared>>,
         \/ params' = params
         \/ Unused(p) /\ d \in Blocks /\ params' = params \cup (wrappers' \ wrappers)
  PROVE  IInv'
<1>1. /\ own' \subseteq Ids
      /\ (\A f \in own : OfUsed(f) /\ OwnLinked(f))'
      /\ \A q \in Pairings : ~Unused(q) => ~Unused(q)'
      /\ cleared' \in [Pairings -> Nat]
      /\ block' \in [Pairings -> Pairings \cup Blocks \cup {None}]
      /\ \A q \in Pairings \ {p} : block'[q] = block[q] /\ cleared'[q] = cleared[q]
      /\ ConstructorThrows(p, d) \/ AddObject(p, d) =>
           block'[p] = d /\ cleared'[p] = cleared[p]
      /\ AddObjectThrows(p, d) => block'[p] = None /\ cleared'[p] = cleared[p] + 1
  BY CreatePairingOwn
<1>2. /\ d # None
      /\ \A w \in wrappers : w.native = p => p \in shared
      /\ p \notin shared => cleared[p] = 0
      /\ \A w \in params : Usable(w) /\ Registered(w) => w.native # p
      /\ Unused(p) => p \notin shared /\ <<"P", p>> \notin own
  BY CreateFacts
<1>3. \/ wrappers' = wrappers /\ ~AddObject(p, d)
      \/ wrappers' = wrappers \cup {New(p)} /\ AddObject(p, d)
  BY DEF CreatePairing, ConstructorThrows, AddObjectThrows, AddObject
<1>4. New(p).native = p /\ New(p).id = <<"P", p>> /\ New(p).epoch = epoch
  BY DEF New, idOf
<1>5. params' \subseteq params \cup (wrappers' \ wrappers) OBVIOUS
<1>6. params' \subseteq params \cup {New(p)} BY <1>3, <1>5
<1>7. \A id : Taken(id) => Taken(id)'
  BY DEF Taken, CreatePairing, ConstructorThrows, AddObjectThrows, AddObject
<1>8. AddObject(p, d) \/ ConstructorThrows(p, d) \/ AddObjectThrows(p, d)
  BY DEF CreatePairing
<1>9. TypeOK /\ IsFiniteSet(wrappers) /\ InBlock BY DEF IInv
<1>10. TypeOK'
  <2>1. held' \subseteq wrappers' BY <1>3, <1>9 DEF TypeOK
  <2>2. \A w \in wrappers' \cup params' : w.native \in Pairings /\ w.epoch \in 0 .. epoch'
    <3>1. \A w \in wrappers \cup params : w.native \in Pairings /\ w.epoch \in 0 .. epoch
      BY <1>9 DEF TypeOK
    <3>2. epoch \in 0 .. epoch BY <1>9, RegistryAssumption DEF TypeOK
    <3>3. wrappers' \cup params' \subseteq wrappers \cup params \cup {New(p)}
      BY <1>3, <1>6
    <3> QED BY <3>1, <3>2, <3>3, <1>4
  <2> QED BY <1>1, <1>9, <2>1, <2>2 DEF TypeOK
<1>11. IsFiniteSet(wrappers)' BY <1>3, <1>9, FS_AddElement
<1>12. InBlock' BY <1>1, <1>8, <1>9 DEF InBlock, Placed
<1>13. ASSUME NEW w \in wrappers' PROVE ~Unused(w.native)' /\ Only(w)'
  <2>1. CASE w \in wrappers
    <3>1. ~Unused(w.native) /\ Only(w) /\ w.native \in Pairings
      BY <2>1, <1>9 DEF IInv, TypeOK
    <3>2. Only(w)'
      <4> SUFFICES ASSUME w.native \notin shared
                   PROVE  /\ w = New(w.native)' /\ <<"P", w.native>> \in own'
                          /\ block'[w.native] # None
        BY DEF Only
      <4>1. /\ w = New(w.native) /\ <<"P", w.native>> \in own
            /\ block[w.native] # None
        BY <3>1 DEF Only
      <4>2. own \subseteq own'
        BY <1>8 DEF ConstructorThrows, AddObjectThrows, AddObject
      <4>3. w.native # p BY <1>2, <2>1
      <4> QED BY <1>1, <3>1, <4>1, <4>2, <4>3 DEF New, idOf
    <3> QED BY <1>1, <3>1, <3>2
  <2>2. CASE w \notin wrappers
    <3>1. w = New(p) /\ AddObject(p, d) BY <1>3, <2>2
    <3>2. block'[p] = d BY <1>1, <3>1
    <3>3. <<"P", p>> \in own' BY <3>1 DEF AddObject
    <3>4. ~Unused(p)' BY <1>2, <3>2 DEF Unused
    <3> QED BY <1>2, <1>4, <3>1, <3>2, <3>3, <3>4 DEF Only, New, idOf
  <2> QED BY <2>1, <2>2
<1>14. (\A q \in shared : ~Unused(q))' BY <1>1, <1>9 DEF IInv, TypeOK
<1>15. (\A q \in Pairings \ shared : ClearedAtMostOnce(q))'
  <2> SUFFICES ASSUME NEW q \in Pairings \ shared PROVE ClearedAtMostOnce(q)'
    OBVIOUS
  <2>1. CASE q = p BY <1>1, <1>2, <1>8, <2>1 DEF ClearedAtMostOnce
  <2>2. CASE q # p BY <1>1, <2>2 DEF IInv, ClearedAtMostOnce
  <2> QED BY <2>1, <2>2
<1>16. ASSUME NEW w \in params' PROVE Usable(w)'
  <2>1. CASE w \in params
    <3>1. Usable(w) BY <2>1 DEF IInv
    <3> SUFFICES ASSUME Registered(w) PROVE Usable(w)'
      BY DEF Usable, Registered
    <3>2. /\ w \in wrappers /\ w.native \notin shared /\ block[w.native] \in Blocks
          /\ \A f \in Natives(w.native, block[w.native]) : Taken(f)
      BY <3>1 DEF Usable
    <3>3. w.native # p BY <1>2, <2>1, <3>1
    <3>4. w.native \in Pairings BY <1>9, <3>2 DEF TypeOK
    <3>5. block'[w.native] = block[w.native] BY <1>1, <3>3, <3>4
    <3>6. w \in wrappers' BY <1>3, <3>2
    <3>7. \A f \in Natives(w.native, block'[w.native]) : Taken(f)'
      BY <1>7, <3>2, <3>5
    <3> QED BY <3>2, <3>5, <3>6, <3>7 DEF Usable
  <2>2. CASE w \notin params
    <3>1. w \in wrappers' \ wrappers BY <1>5, <2>2
    <3>2. w = New(p) /\ AddObject(p, d) BY <1>3, <3>1
    <3>3. Unused(p) /\ d \in Blocks BY <2>2
    <3>4. p \notin shared BY <1>2, <3>3
    <3>5. block'[p] = d BY <1>1, <3>2
    <3>6. d # p BY <3>3, RegistryAssumption
    <3>7. ASSUME NEW f \in Natives(p, d) PROVE Taken(f)'
      <4>1. f = <<"P", p>> \/ f \in Range(Fields(p, d)) BY <3>6 DEF Natives
      <4>2. ~Throws(p, d) /\ own' = own \cup InitFields(p, d) \cup {<<"P", p>>}
        BY <3>2 DEF AddObject
      <4>3. f \in Range(Fields(p, d)) => Taken(f) \/ f \in InitFields(p, d)
        BY <4>2, InitFieldsGives
      <4> QED BY <4>1, <4>2, <4>3, <1>7 DEF Taken
    <3> QED BY <1>4, <3>1, <3>2, <3>3, <3>4, <3>5, <3>7 DEF Usable
  <2> QED BY <2>1, <2>2
<1> QED
  BY <1>1, <1>10, <1>11, <1>12, <1>13, <1>14, <1>15, <1>16 DEF IInv

LEMMA PlacedBlock ==
  ASSUME IInv, NEW p \in Pairings, block[p] # None
  PROVE  Placed(p, block[p])
BY DEF IInv, InBlock, Placed

LEMMA CreateGlobalIInv ==
  ASSUME IInv, NEW p \in Pairings, NEW d \in Blocks, CreateGlobal(p, d)
  PROVE  IInv'
<1>1. Placed(p, d) BY DEF Placed
<1> QED BY <1>1, CreatePairingIInv DEF CreateGlobal

LEMMA DescribeFieldIInv ==
  ASSUME IInv, NEW p \in Pairings, NEW f, DescribeField(p, f)
  PROVE  IInv'
<1>1. Placed(p, block[p]) BY PlacedBlock DEF DescribeField
<1>2. ~Taken(<<"P", p>>) BY DEF DescribeField, Find
<1>3. CreatePairing(p, block[p]) /\ UNCHANGED <<imported, held, params, epoch, shared>>
  BY DEF DescribeField
<1> QED BY <1>1, <1>2, <1>3, CreatePairingIInv

LEMMA InitElementOf ==
  ASSUME IInv, NEW p \in Pairings, NEW f, InitElement(p, f)
  PROVE  Placed(p, block[p]) /\ f \in Natives(p, block[p])
<1>1. Placed(p, block[p]) BY PlacedBlock DEF InitElement
<1>2. CASE \E n \in 1 .. 3 : f = Fields(p, block[p])[n]
  <2>1. DOMAIN Fields(p, block[p]) = 1 .. 6 BY FieldsAre
  <2>2. f \in Range(Fields(p, block[p])) BY <1>2, <2>1 DEF Range
  <2> QED BY <1>1, <2>2 DEF Natives
<1> QED BY <1>1, <1>2 DEF InitElement, EmptyElement, InitOf

LEMMA InitElementIInv ==
  ASSUME IInv, NEW p \in Pairings, NEW f, InitElement(p, f)
  PROVE  IInv'
<1> DEFINE d == block[p]
           S == FromNative(f, d)
<1>1. Placed(p, d) /\ f \in Natives(p, d) BY InitElementOf
<1>2. S \subseteq Natives(p, d)
      /\ \A e \in S : Len(Chain(e, d)) > 1 =>
           Taken(Chain(e, d)[2]) \/ Chain(e, d)[2] \in S
  BY <1>1, FromNativeGives
<1>3. /\ own' = own \cup S /\ block[p] # None
      /\ UNCHANGED <<block, cleared, imported, wrappers, held, params, epoch, shared>>
  BY DEF InitElement, CreateElement
<1> HIDE DEF S
<1>4. own' \subseteq Ids /\ (\A e \in own : OfUsed(e) /\ OwnLinked(e))'
  <2>1. block' = block /\ ~Unused(p)' BY <1>3 DEF Unused
  <2>2. \A q \in Pairings : ~Unused(q) => ~Unused(q)' BY <1>3 DEF Unused
  <2> QED BY <1>1, <1>2, <1>3, <2>1, <2>2, Grows
<1>5. TypeOK' BY <1>3, <1>4 DEF IInv, TypeOK
<1>6. \A id : Taken(id) => Taken(id)' BY <1>3 DEF Taken
<1>7. (\A w \in wrappers : ~Unused(w.native) /\ Only(w))'
  <2>1. \A w \in wrappers : ~Unused(w.native) /\ Only(w) BY DEF IInv
  <2> QED BY <1>3, <2>1 DEF Unused, Only, New, idOf
<1>8. (\A w \in params : Usable(w))'
  <2>1. \A w \in params : Usable(w) BY DEF IInv
  <2> QED BY <1>3, <1>6, <2>1 DEF Usable, Registered
<1>9. IsFiniteSet(wrappers)' /\ InBlock' /\ (\A q \in shared : ~Unused(q))'
      /\ (\A q \in Pairings \ shared : ClearedAtMostOnce(q))'
  BY <1>3 DEF IInv, InBlock, Unused, ClearedAtMostOnce
<1> QED BY <1>4, <1>5, <1>7, <1>8, <1>9 DEF IInv

(* The range of imported after populate().                                 *)
LEMMA PopulateImports ==
  ASSUME NEW q \in Pairings, NEW doc \in Documents, Populate(q, doc)
  PROVE  /\ DOMAIN imported' = DOMAIN imported \cup Range(doc)
         /\ Range(imported') \subseteq Range(imported) \cup (DocRoles \X {q})
<1> DEFINE role(id) == CHOOSE r \in DocRoles : doc[r] = id
           D == DOMAIN imported \cup Range(doc)
<1>1. imported' = [id \in D |-> IF id \in DOMAIN imported THEN imported[id]
                                ELSE <<role(id), q>>]
  BY DEF Populate
<1>2. \A id \in Range(doc) : role(id) \in DocRoles
  <2>1. DOMAIN doc = DocRoles BY RegistryAssumption
  <2> QED BY <2>1 DEF Range
<1> HIDE DEF role
<1>3. ASSUME NEW id \in D
      PROVE  imported'[id] \in Range(imported) \cup (DocRoles \X {q})
  <2>1. CASE id \in DOMAIN imported BY <1>1, <2>1 DEF Range
  <2>2. CASE id \notin DOMAIN imported BY <1>1, <1>2, <2>2
  <2> QED BY <2>1, <2>2
<1>4. DOMAIN imported' = D BY <1>1
<1> HIDE DEF D
<1>5. Range(imported') \subseteq Range(imported) \cup (DocRoles \X {q})
  BY <1>3, <1>4 DEF Range
<1> QED BY <1>4, <1>5 DEF D

LEMMA PopulateIInv ==
  ASSUME IInv, NEW q \in Pairings, NEW doc \in Documents, Populate(q, doc)
  PROVE  IInv'
<1> DEFINE v == [native |-> q, id |-> doc["P"], epoch |-> epoch]
<1>1. /\ Unused(q) /\ block' = [block EXCEPT ![q] = q]
      /\ wrappers' = wrappers \cup {v} /\ shared' = shared \cup {q}
      /\ UNCHANGED <<cleared, own, held, params, epoch>>
  BY DEF Populate
<1>2. v.native = q /\ v.epoch = epoch OBVIOUS
<1> HIDE DEF v
<1>3. DOMAIN imported \subseteq DOMAIN imported'
      /\ Range(imported') \subseteq Range(imported) \cup (DocRoles \X {q})
  BY PopulateImports
<1>4. TypeOK /\ InBlock BY DEF IInv
<1>5. block'[q] = q /\ \A r \in Pairings \ {q} : block'[r] = block[r]
  BY <1>1, <1>4 DEF TypeOK
<1>6. q # None BY RegistryAssumption
<1>7. ~Unused(q)' BY <1>5, <1>6 DEF Unused
<1>8. \A r \in Pairings : ~Unused(r) => ~Unused(r)' BY <1>1, <1>5, <1>7 DEF Unused
<1>9. own' \subseteq Ids /\ (\A e \in own : OfUsed(e) /\ OwnLinked(e))'
  BY <1>1, <1>3, <1>5, <1>7, <1>8, Stays
<1>10. TypeOK'
  <2>1. block' \in [Pairings -> Pairings \cup Blocks \cup {None}]
    BY <1>1, <1>4 DEF TypeOK
  <2>2. Range(imported') \subseteq DocRoles \X Pairings BY <1>3, <1>4 DEF TypeOK
  <2>3. \A w \in wrappers' \cup params' : w.native \in Pairings /\ w.epoch \in 0 .. epoch'
    <3>1. epoch \in 0 .. epoch BY <1>4, RegistryAssumption DEF TypeOK
    <3> QED BY <1>1, <1>2, <1>4, <3>1 DEF TypeOK
  <2> QED BY <1>1, <1>4, <1>9, <2>1, <2>2, <2>3 DEF TypeOK
<1>11. IsFiniteSet(wrappers)' BY <1>1, FS_AddElement DEF IInv
<1>12. InBlock' BY <1>4, <1>5 DEF InBlock
<1>13. ASSUME NEW w \in wrappers' PROVE ~Unused(w.native)' /\ Only(w)'
  <2>1. CASE w = v BY <1>1, <1>2, <1>7, <2>1 DEF Only
  <2>2. CASE w \in wrappers
    <3>1. ~Unused(w.native) /\ Only(w) /\ w.native \in Pairings
      BY <1>4, <2>2 DEF IInv, TypeOK
    <3>2. w.native # q BY <1>1, <3>1
    <3> QED BY <1>1, <1>5, <1>8, <3>1, <3>2 DEF Only, New, idOf
  <2> QED BY <1>1, <2>1, <2>2
<1>14. (\A r \in shared : ~Unused(r))'
  BY <1>1, <1>4, <1>7, <1>8 DEF IInv, TypeOK
<1>15. (\A r \in Pairings \ shared : ClearedAtMostOnce(r))'
  BY <1>1, <1>5 DEF IInv, ClearedAtMostOnce
<1>16. ASSUME NEW w \in params' PROVE Usable(w)'
  <2>1. Usable(w) BY <1>1, <1>16 DEF IInv
  <2> SUFFICES ASSUME Registered(w) PROVE Usable(w)'
    BY <1>1 DEF Usable, Registered
  <2>2. /\ w \in wrappers /\ w.native \notin shared /\ block[w.native] \in Blocks
        /\ \A f \in Natives(w.native, block[w.native]) : Taken(f)
    BY <2>1 DEF Usable
  <2>3. ~Unused(w.native) /\ w.native \in Pairings
    BY <1>4, <2>2 DEF IInv, TypeOK
  <2>4. w.native # q /\ block'[w.native] = block[w.native] BY <1>1, <1>5, <2>3
  <2>5. \A id : Taken(id) => Taken(id)' BY <1>1, <1>3 DEF Taken
  <2> QED BY <1>1, <2>2, <2>4, <2>5 DEF Usable
<1> QED
  BY <1>9, <1>10, <1>11, <1>12, <1>13, <1>14, <1>15, <1>16 DEF IInv

LEMMA HoldIInv ==
  ASSUME IInv, NEW w \in wrappers, Hold(w)
  PROVE  IInv'
<1>1. /\ held' = held \cup {w}
      /\ UNCHANGED <<block, cleared, own, imported, wrappers, params, epoch, shared>>
  BY DEF Hold
<1>2. TypeOK' BY <1>1 DEF IInv, TypeOK
<1>3. \A f : Taken(f)' <=> Taken(f) BY <1>1 DEF Taken
<1>4. \A p : Unused(p)' <=> Unused(p) BY <1>1 DEF Unused
<1>5. (\A f \in own : OfUsed(f) /\ OwnLinked(f))'
  BY <1>1, <1>3, <1>4 DEF IInv, OfUsed, OwnLinked, Follows
<1>6. (\A v \in wrappers : ~Unused(v.native) /\ Only(v))'
  BY <1>1, <1>4 DEF IInv, Only, New, idOf
<1>7. (\A v \in params : Usable(v))'
  BY <1>1, <1>3 DEF IInv, Usable, Registered
<1>8. IsFiniteSet(wrappers)' /\ InBlock' /\ (\A q \in shared : ~Unused(q))'
      /\ (\A q \in Pairings \ shared : ClearedAtMostOnce(q))'
  BY <1>1, <1>4 DEF IInv, InBlock, ClearedAtMostOnce
<1> QED BY <1>2, <1>5, <1>6, <1>7, <1>8 DEF IInv

LEMMA DropIInv ==
  ASSUME IInv, NEW w \in wrappers, Drop(w)
  PROVE  IInv'
<1>1. CASE Registered(w)
  <2>1. /\ held' = held \ {w}
        /\ UNCHANGED <<block, cleared, own, imported, wrappers, params, epoch, shared>>
    BY <1>1 DEF Drop
  <2>2. TypeOK' BY <2>1 DEF IInv, TypeOK
  <2>3. \A f : Taken(f)' <=> Taken(f) BY <2>1 DEF Taken
  <2>4. \A p : Unused(p)' <=> Unused(p) BY <2>1 DEF Unused
  <2>5. (\A f \in own : OfUsed(f) /\ OwnLinked(f))'
    BY <2>1, <2>3, <2>4 DEF IInv, OfUsed, OwnLinked, Follows
  <2>6. (\A v \in wrappers : ~Unused(v.native) /\ Only(v))'
    BY <2>1, <2>4 DEF IInv, Only, New, idOf
  <2>7. (\A v \in params : Usable(v))'
    BY <2>1, <2>3 DEF IInv, Usable, Registered
  <2>8. IsFiniteSet(wrappers)' /\ InBlock' /\ (\A q \in shared : ~Unused(q))'
        /\ (\A q \in Pairings \ shared : ClearedAtMostOnce(q))'
    BY <2>1, <2>4 DEF IInv, InBlock, ClearedAtMostOnce
  <2> QED BY <2>2, <2>5, <2>6, <2>7, <2>8 DEF IInv
<1>2. CASE ~Registered(w)
  <2> DEFINE p == w.native
  <2>1. /\ held' = held \ {w} /\ wrappers' = wrappers \ {w} /\ PairingClear({w})
        /\ UNCHANGED <<own, imported, params, epoch, shared>>
    BY <1>2 DEF Drop
  <2>2. TypeOK /\ IsFiniteSet({w}) /\ p \in Pairings
    BY FS_Singleton DEF IInv, TypeOK
  <2>3. p \in shared
    <3>1. Only(w) BY DEF IInv
    <3>2. New(w.native).epoch = epoch BY DEF New, idOf
    <3> QED BY <1>2, <3>1, <3>2 DEF Only, Registered
  <2>4. /\ cleared' \in [Pairings -> Nat]
        /\ block' \in [Pairings -> Pairings \cup Blocks \cup {None}]
        /\ \A q \in Pairings \ {p} : block'[q] = block[q] /\ cleared'[q] = cleared[q]
        /\ block'[p] = None /\ cleared'[p] > cleared[p] /\ cleared[p] \in Nat
    BY <2>1, <2>2, PairingClearDoes DEF TypeOK
  <2> HIDE DEF p
  <2>5. ~Unused(p)'
    <3>1. cleared'[p] # 0 BY <2>4
    <3> QED BY <3>1 DEF Unused
  <2>6. \A q \in Pairings : ~Unused(q) => ~Unused(q)' BY <2>4, <2>5 DEF Unused
  <2>7. own' \subseteq Ids /\ (\A e \in own : OfUsed(e) /\ OwnLinked(e))'
    BY <2>1, <2>2, <2>4, <2>5, <2>6, Stays
  <2>8. TypeOK' BY <2>1, <2>2, <2>4, <2>7 DEF TypeOK
  <2>9. IsFiniteSet(wrappers)' BY <2>1, FS_Subset DEF IInv
  <2>10. InBlock' BY <2>4 DEF IInv, InBlock
  <2>11. ASSUME NEW v \in wrappers' PROVE ~Unused(v.native)' /\ Only(v)'
    <3>1. ~Unused(v.native) /\ Only(v) /\ v.native \in Pairings
      BY <2>1, <2>2 DEF IInv, TypeOK
    <3>2. v.native \notin shared => v.native # p BY <2>3
    <3> QED BY <2>1, <2>4, <2>6, <3>1, <3>2 DEF Only, New, idOf
  <2>12. (\A q \in shared : ~Unused(q))' BY <2>1, <2>2, <2>6 DEF IInv, TypeOK
  <2>13. (\A q \in Pairings \ shared : ClearedAtMostOnce(q))'
    BY <2>1, <2>3, <2>4 DEF IInv, ClearedAtMostOnce
  <2>14. ASSUME NEW v \in params' PROVE Usable(v)'
    <3>1. Usable(v) BY <2>1, <2>14 DEF IInv
    <3> SUFFICES ASSUME Registered(v) PROVE Usable(v)'
      BY <2>1 DEF Usable, Registered
    <3>2. /\ v \in wrappers /\ v.native \notin shared /\ block[v.native] \in Blocks
          /\ \A f \in Natives(v.native, block[v.native]) : Taken(f)
      BY <3>1 DEF Usable
    <3>3. v.native \in Pairings \ {p} /\ v # w
      BY <1>2, <2>2, <2>3, <3>2 DEF TypeOK
    <3>4. block'[v.native] = block[v.native] BY <2>4, <3>3
    <3>5. \A id : Taken(id) => Taken(id)' BY <2>1 DEF Taken
    <3> QED BY <2>1, <3>2, <3>3, <3>4, <3>5 DEF Usable
  <2> QED
    BY <2>7, <2>8, <2>9, <2>10, <2>11, <2>12, <2>13, <2>14 DEF IInv
<1> QED BY <1>1, <1>2

LEMMA ClearIInv ==
  ASSUME IInv, Clear
  PROVE  IInv'
<1> DEFINE ws == wrappers \ held
<1>1. /\ epoch' = epoch + 1 /\ epoch < MaxEpoch /\ own' = {}
      /\ imported' = [id \in {} |-> None] /\ wrappers' = held /\ PairingClear(ws)
      /\ shared' = shared \cup {w.native : w \in held} /\ UNCHANGED <<held, params>>
  BY DEF Clear
<1>2. TypeOK /\ IsFiniteSet(wrappers) /\ IsFiniteSet(ws) /\ InBlock
  BY FS_Subset DEF IInv
<1>3. /\ cleared' \in [Pairings -> Nat]
      /\ block' \in [Pairings -> Pairings \cup Blocks \cup {None}]
      /\ \A p \in Pairings :
           IF \E w \in ws : w.native = p
           THEN cleared'[p] > cleared[p] /\ block'[p] = None
           ELSE cleared'[p] = cleared[p] /\ block'[p] = block[p]
      /\ \A p \in Pairings : \A w \in ws :
           w.native = p /\ (\A v \in ws : v.native = p => v = w) =>
             cleared'[p] = cleared[p] + 1
  BY <1>1, <1>2, PairingClearDoes
<1>4. \A p \in Pairings : cleared[p] \in Nat BY <1>2 DEF TypeOK
<1>5. held \subseteq wrappers /\ epoch \in Nat /\ epoch \in 0 .. MaxEpoch
      /\ \A w \in wrappers \cup params : w.native \in Pairings /\ w.epoch \in 0 .. epoch
  BY <1>2, RegistryAssumption DEF TypeOK
<1>6. TypeOK'
  <2>1. Range(imported') = {} BY <1>1 DEF Range
  <2>2. epoch' \in 0 .. MaxEpoch BY <1>1, <1>5, RegistryAssumption
  <2>3. \A w \in wrappers' \cup params' : w.native \in Pairings /\ w.epoch \in 0 .. epoch'
    <3>1. 0 .. epoch \subseteq 0 .. epoch' BY <1>1, <1>5
    <3> QED BY <1>1, <1>5, <3>1
  <2>4. shared' \subseteq Pairings BY <1>1, <1>2, <1>5 DEF TypeOK
  <2> QED BY <1>1, <1>3, <1>5, <2>1, <2>2, <2>3, <2>4 DEF TypeOK
<1>7. \A p \in Pairings : ~Unused(p) => ~Unused(p)'
  <2> SUFFICES ASSUME NEW p \in Pairings, ~Unused(p) PROVE ~Unused(p)'
    OBVIOUS
  <2>1. CASE \E w \in ws : w.native = p
    <3>1. cleared'[p] > cleared[p] /\ cleared[p] \in Nat BY <1>3, <1>4, <2>1
    <3>2. cleared'[p] # 0 BY <3>1, <1>3
    <3> QED BY <3>2 DEF Unused
  <2>2. CASE ~\E w \in ws : w.native = p BY <1>3, <2>2 DEF Unused
  <2> QED BY <2>1, <2>2
<1>8. IsFiniteSet(wrappers)' BY <1>1, <1>2, <1>5, FS_Subset
<1>9. InBlock' BY <1>2, <1>3 DEF InBlock
<1>10. ASSUME NEW w \in wrappers' PROVE ~Unused(w.native)' /\ Only(w)'
  <2>1. ~Unused(w.native) /\ w.native \in Pairings BY <1>1, <1>5 DEF IInv
  <2>2. w.native \in shared' BY <1>1
  <2> QED BY <1>7, <2>1, <2>2 DEF Only
<1>11. ASSUME NEW p \in shared' PROVE ~Unused(p)'
  <2>1. CASE p \in shared BY <1>2, <1>7, <2>1 DEF IInv, TypeOK
  <2>2. CASE \E w \in held : p = w.native
    <3>1. p \in Pairings /\ ~Unused(p) BY <1>5, <2>2 DEF IInv
    <3> QED BY <1>7, <3>1
  <2> QED BY <1>1, <2>1, <2>2
<1>12. ASSUME NEW p \in (Pairings \ shared)' PROVE ClearedAtMostOnce(p)'
  <2>1. p \in Pairings \ shared /\ \A w \in held : w.native # p BY <1>1
  <2>2. ClearedAtMostOnce(p) BY <2>1 DEF IInv
  <2>3. CASE \E w \in ws : w.native = p
    <3>1. PICK w \in ws : w.native = p BY <2>3
    <3>2. Only(w) /\ w \in wrappers BY <3>1 DEF IInv
    <3>3. block[p] # None BY <2>1, <3>1, <3>2 DEF Only
    <3>4. \A v \in ws : v.native = p => v = w
      BY <2>1, <3>1, <3>2 DEF IInv, Only
    <3>5. cleared'[p] = cleared[p] + 1 /\ block'[p] = None
      BY <1>3, <2>1, <3>1, <3>4
    <3>6. cleared[p] = 0 BY <2>2, <3>3 DEF ClearedAtMostOnce
    <3> QED BY <3>5, <3>6 DEF ClearedAtMostOnce
  <2>4. CASE ~\E w \in ws : w.native = p
    BY <1>3, <2>1, <2>2, <2>4 DEF ClearedAtMostOnce
  <2> QED BY <2>3, <2>4
<1>13. ASSUME NEW w \in params' PROVE Usable(w)'
  <2>1. w.epoch \in 0 .. epoch BY <1>1, <1>5
  <2>2. w.epoch # epoch' BY <1>1, <1>5, <2>1
  <2> QED BY <2>2 DEF Usable, Registered
<1> QED
  BY <1>1, <1>6, <1>8, <1>9, <1>10, <1>11, <1>12, <1>13 DEF IInv

LEMMA NextIInv == IInv /\ [Next]_vars => IInv'
<1> SUFFICES ASSUME IInv, [Next]_vars PROVE IInv'
  OBVIOUS
<1>1. ASSUME NEW p \in Pairings, NEW d \in Blocks, CreateGlobal(p, d) PROVE IInv'
  BY <1>1, CreateGlobalIInv
<1>2. ASSUME NEW p \in Pairings, NEW f, InitElement(p, f) PROVE IInv'
  BY <1>2, InitElementIInv
<1>3. ASSUME NEW p \in Pairings, NEW f, DescribeField(p, f) PROVE IInv'
  BY <1>3, DescribeFieldIInv
<1>4. ASSUME NEW q \in Pairings, NEW doc \in Documents, Populate(q, doc) PROVE IInv'
  BY <1>4, PopulateIInv
<1>5. ASSUME NEW w \in wrappers, Hold(w) PROVE IInv'
  BY <1>5, HoldIInv
<1>6. ASSUME NEW w \in wrappers, Drop(w) PROVE IInv'
  BY <1>6, DropIInv
<1>7. CASE Clear BY <1>7, ClearIInv
<1>8. CASE UNCHANGED vars
  <2>1. UNCHANGED <<block, cleared, own, imported, wrappers, held, params, epoch, shared>>
    BY <1>8 DEF vars
  <2>2. \A f : Taken(f)' <=> Taken(f) BY <2>1 DEF Taken
  <2>3. \A p : Unused(p)' <=> Unused(p) BY <2>1 DEF Unused
  <2>4. TypeOK' BY <2>1 DEF IInv, TypeOK
  <2>5. (\A f \in own : OfUsed(f) /\ OwnLinked(f))'
    BY <2>1, <2>2, <2>3 DEF IInv, OfUsed, OwnLinked, Follows
  <2>6. (\A w \in wrappers : ~Unused(w.native) /\ Only(w))'
    BY <2>1, <2>3 DEF IInv, Only, New, idOf
  <2>7. (\A w \in params : Usable(w))'
    BY <2>1, <2>2 DEF IInv, Usable, Registered
  <2>8. IsFiniteSet(wrappers)' /\ InBlock' /\ (\A q \in shared : ~Unused(q))'
        /\ (\A q \in Pairings \ shared : ClearedAtMostOnce(q))'
    BY <2>1, <2>3 DEF IInv, InBlock, ClearedAtMostOnce
  <2> QED BY <2>4, <2>5, <2>6, <2>7, <2>8 DEF IInv
<1> QED BY <1>1, <1>2, <1>3, <1>4, <1>5, <1>6, <1>7, <1>8 DEF Next

LEMMA Invariance == Spec => []IInv
BY InitIInv, NextIInv, PTL DEF Spec

-----------------------------------------------------------------------------
(* Registry and native objects are of their types.                         *)
THEOREM TypeCorrect == Spec => []TypeOK
<1>1. IInv => TypeOK BY DEF IInv
<1> QED BY <1>1, Invariance, PTL

(* PbcContext::clear, ~Pairing: a pairing that this process made, and that *)
(* no caller kept over a clear(), is cleared once at most, by its last     *)
(* wrapper.                                                                *)
THEOREM NeverClearedTwice == Spec => []ClearedOnce
<1>1. IInv => ClearedOnce
  <2> SUFFICES ASSUME IInv, NEW p \in Pairings \ shared, cleared[p] > 0
               PROVE  cleared[p] = 1 /\ \A w \in wrappers : w.native # p
    BY DEF ClearedOnce
  <2>1. cleared[p] = 1 /\ block[p] = None
    BY DEF IInv, ClearedAtMostOnce
  <2>2. \A w \in wrappers : w.native = p => block[p] # None BY DEF IInv, Only
  <2> QED BY <2>1, <2>2
<1> QED BY <1>1, Invariance, PTL

(* GlobalParameters: until clear() is called, the pairing is in use, has   *)
(* no other owner, and has a wrapper for each of its fields.               *)
THEOREM ParametersUsable == Spec => []ParamsUsable
<1>1. IInv => ParamsUsable
  <2> SUFFICES ASSUME IInv, NEW w \in params, Registered(w)
               PROVE  /\ w \in wrappers /\ block[w.native] # None
                      /\ \A v \in wrappers : v.native = w.native => v = w
                      /\ \A f \in Natives(w.native, block[w.native]) : Taken(f)
    BY DEF ParamsUsable
  <2>1. /\ w \in wrappers /\ w.native \notin shared /\ block[w.native] \in Blocks
        /\ \A f \in Natives(w.native, block[w.native]) : Taken(f)
    BY DEF IInv, Usable
  <2>2. block[w.native] # None BY <2>1, RegistryAssumption
  <2>3. \A v \in wrappers : v.native = w.native => v = w
    BY <2>1 DEF IInv, Only
  <2> QED BY <2>1, <2>2, <2>3
<1> QED BY <1>1, Invariance, PTL

(* fromNative: no wrapper of a native field that is in use is registered   *)
(* without what it refers to.                                              *)
THEOREM LinksRegistered == Spec => []LinksFollow
<1>1. IInv => LinksFollow
  <2> SUFFICES ASSUME IInv, NEW p \in Pairings, block[p] # None,
                      NEW f \in own \cap Natives(p, block[p])
               PROVE  Follows(f, block[p])
    BY DEF LinksFollow
  <2>1. Placed(p, block[p]) BY PlacedBlock
  <2>2. Native(f, p, block[p]) BY <2>1, NativesAre
  <2>3. OwnLinked(f) BY DEF IInv
  <2>4. CASE Links(f)
    <3>1. f[2] = block[p] BY <2>2, <2>4 DEF Native, Links, StructRoles, BlockRoles
    <3> QED BY <2>3, <2>4, <3>1 DEF OwnLinked
  <2>5. CASE InGT(f)
    <3>1. f[2] = p BY <2>2, <2>5 DEF Native, InGT, StructRoles, BlockRoles
    <3> QED BY <2>3, <2>5, <3>1 DEF OwnLinked
  <2>6. CASE ~Links(f) /\ ~InGT(f)
    <3>1. Len(Chain(f, block[p])) = 1 BY <2>6 DEF Chain, Links, InGT
    <3> QED BY <3>1 DEF Follows
  <2> QED BY <2>4, <2>5, <2>6
<1> QED BY <1>1, Invariance, PTL

(* Where no native object that is in use is released, and what is newly    *)
(* registered is in use, nothing is left dangling.                         *)
LEMMA NothingDangles ==
  ASSUME \A q \in Pairings : block[q] # None => block'[q] = block[q],
         \A a \in own' \cup Range(imported') :
           a \in own \cup Range(imported) \/ Live(a)'
  PROVE  Dangling' \subseteq Dangling
<1> SUFFICES ASSUME NEW a \in own' \cup Range(imported'), ~Live(a)',
                    a \in own \cup Range(imported)
             PROVE  ~Live(a)
  BY DEF Dangling
<1> QED BY DEF Live

Orphaned ==
  \E p \in Pairings :
    /\ Kills(p)
    /\ \/ \E w \in wrappers \ wrappers' : w.native = p /\ ~Registered(w)
       \/ <<"P", p>> \in DOMAIN imported

LEMMA CreatePairingDangles ==
  ASSUME IInv, NEW p \in Pairings, NEW d, Placed(p, d),
         Unused(p) \/ (block[p] = d /\ ~Taken(<<"P", p>>)),
         CreatePairing(p, d), UNCHANGED imported
  PROVE  Dangling' \subseteq Dangling \/ Orphaned
<1>1. d # None /\ (Unused(p) => <<"P", p>> \notin own) BY CreateFacts
<1>2. /\ \A q \in Pairings \ {p} : block'[q] = block[q]
      /\ ConstructorThrows(p, d) \/ AddObject(p, d) => block'[p] = d
      /\ AddObjectThrows(p, d) => cleared'[p] = cleared[p] + 1
  BY CreatePairingOwn
<1>3. CASE ConstructorThrows(p, d) \/ AddObject(p, d)
  <2>1. own' \subseteq own \cup InitFields(p, d) \cup {<<"P", p>>}
    BY <1>3 DEF ConstructorThrows, AddObject
  <2>2. InitFields(p, d) \cup {<<"P", p>>} \subseteq Natives(p, d)
    BY InitFieldsGives DEF Natives
  <2>3. \A a \in Natives(p, d) : Live(a)' BY <1>1, <1>2, <1>3 DEF Live
  <2>4. \A a \in own' \cup Range(imported') : a \in own \cup Range(imported) \/ Live(a)'
    BY <2>1, <2>2, <2>3
  <2>5. \A q \in Pairings : block[q] # None => block'[q] = block[q]
    BY <1>2, <1>3 DEF Unused
  <2> QED BY <2>4, <2>5, NothingDangles
<1>4. CASE AddObjectThrows(p, d)
  <2>1. Taken(<<"P", p>>) BY <1>4 DEF AddObjectThrows
  <2>2. <<"P", p>> \in DOMAIN imported BY <1>1, <2>1 DEF Taken
  <2>3. Kills(p) BY <1>2, <1>4 DEF Kills, IInv, TypeOK
  <2> QED BY <2>2, <2>3 DEF Orphaned
<1> QED BY <1>3, <1>4 DEF CreatePairing

(* ~Pairing: wrappers are left with native objects that are gone only when *)
(* a Pairing dies that is not registered.                                  *)
THEOREM OnlyOrphansDangle == Spec => DanglesByOrphans
<1>1. IInv /\ [Next]_vars => [Dangling' \subseteq Dangling \/ Orphaned]_vars
  <2> SUFFICES ASSUME IInv, Next PROVE Dangling' \subseteq Dangling \/ Orphaned
    OBVIOUS
  <2>1. ASSUME NEW p \in Pairings, NEW d \in Blocks, CreateGlobal(p, d)
        PROVE  Dangling' \subseteq Dangling \/ Orphaned
    <3>1. Placed(p, d) BY DEF Placed
    <3>2. Unused(p) /\ CreatePairing(p, d) /\ UNCHANGED imported
      BY <2>1 DEF CreateGlobal
    <3> QED BY <3>1, <3>2, CreatePairingDangles
  <2>2. ASSUME NEW p \in Pairings, NEW f, InitElement(p, f)
        PROVE  Dangling' \subseteq Dangling
    <3>1. Placed(p, block[p]) /\ f \in Natives(p, block[p])
      BY <2>2, InitElementOf
    <3>2. FromNative(f, block[p]) \subseteq Natives(p, block[p])
      BY <3>1, FromNativeGives
    <3>3. /\ own' = own \cup FromNative(f, block[p]) /\ block[p] # None
          /\ UNCHANGED <<block, imported>>
      BY <2>2 DEF InitElement, CreateElement
    <3>4. \A a \in Natives(p, block[p]) : Live(a)' BY <3>3 DEF Live
    <3>5. \A a \in own' \cup Range(imported') :
            a \in own \cup Range(imported) \/ Live(a)'
      BY <3>2, <3>3, <3>4
    <3> QED BY <3>3, <3>5, NothingDangles
  <2>3. ASSUME NEW p \in Pairings, NEW f, DescribeField(p, f)
        PROVE  Dangling' \subseteq Dangling \/ Orphaned
    <3>1. Placed(p, block[p]) BY <2>3, PlacedBlock DEF DescribeField
    <3>2. ~Taken(<<"P", p>>) /\ CreatePairing(p, block[p]) /\ UNCHANGED imported
      BY <2>3 DEF DescribeField, Find
    <3> QED BY <3>1, <3>2, CreatePairingDangles
  <2>4. ASSUME NEW q \in Pairings, NEW doc \in Documents, Populate(q, doc)
        PROVE  Dangling' \subseteq Dangling
    <3>1. Range(imported') \subseteq Range(imported) \cup (DocRoles \X {q})
      BY <2>4, PopulateImports
    <3>2. Unused(q) /\ block' = [block EXCEPT ![q] = q] /\ own' = own
      BY <2>4 DEF Populate
    <3>3. block'[q] = q /\ \A r \in Pairings : block[r] # None => block'[r] = block[r]
      BY <3>2 DEF IInv, TypeOK, Unused
    <3>4. DocRoles \X {q} \subseteq Natives(q, q) BY DEF Natives
    <3>5. q # None BY RegistryAssumption
    <3>6. \A a \in DocRoles \X {q} : Live(a)' BY <3>3, <3>4, <3>5 DEF Live
    <3>7. \A a \in own' \cup Range(imported') :
            a \in own \cup Range(imported) \/ Live(a)'
      BY <3>1, <3>2, <3>6
    <3> QED BY <3>3, <3>7, NothingDangles
  <2>5. ASSUME NEW w \in wrappers, Hold(w) PROVE Dangling' \subseteq Dangling
    BY <2>5, NothingDangles DEF Hold
  <2>6. ASSUME NEW w \in wrappers, Drop(w)
        PROVE  Dangling' \subseteq Dangling \/ Orphaned
    <3>1. CASE Registered(w) BY <2>6, <3>1, NothingDangles DEF Drop
    <3>2. CASE ~Registered(w)
      <4>1. wrappers' = wrappers \ {w} /\ PairingClear({w})
        BY <2>6, <3>2 DEF Drop
      <4>2. IsFiniteSet({w}) /\ TypeOK /\ w.native \in Pairings
        BY FS_Singleton DEF IInv, TypeOK
      <4>3. Kills(w.native) BY <4>1, <4>2, PairingClearDoes DEF Kills
      <4>4. w \in wrappers \ wrappers' BY <4>1
      <4> QED BY <3>2, <4>2, <4>3, <4>4 DEF Orphaned
    <3> QED BY <3>1, <3>2
  <2>7. ASSUME Clear PROVE Dangling' \subseteq Dangling
    <3>1. own' = {} /\ imported' = [id \in {} |-> None] BY <2>7 DEF Clear
    <3>2. Range(imported') = {} BY <3>1 DEF Range
    <3> QED BY <3>1, <3>2 DEF Dangling
  <2> QED BY <2>1, <2>2, <2>3, <2>4, <2>5, <2>6, <2>7 DEF Next
<1> QED BY <1>1, Invariance, PTL DEF Spec, DanglesByOrphans, Orphaned

=============================================================================
