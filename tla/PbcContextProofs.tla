--------------------------- MODULE PbcContextProofs ---------------------------
(***************************************************************************)
(* Theorems about PbcContext, for every graph of objects, every set of     *)
(* documents, every order of the uuids, with and without assertions.       *)
(*                                                                         *)
(* The inductive invariant IInv adds to the properties what the loops know *)
(* of the registry: descriptions outlive no call, a pass reaches only      *)
(* registered objects, elements are linked to their field from birth, and  *)
(* allFinal speaks for every object a pass has left behind.                *)
(***************************************************************************)
EXTENDS PbcContext, FiniteSetTheorems, TLAPS

ElementsLinked ==
  \A i \in objects : Kind[i] = "element" => "field" \in linked[i]

LoopInv ==
  /\ pc = "idle" => live = {}
  /\ Running => outcome = "none"
  /\ pc = "finalize" => /\ todo \subseteq objects
                        /\ allFinal => \A i \in objects \ todo : IsFinal(i)

IInv ==
  /\ TypeOK
  /\ LoopInv
  /\ NoDanglingLink
  /\ ElementsLinked
  /\ FinalClosed
  /\ OkMeansComplete

-----------------------------------------------------------------------------
(* Facts about the graph.                                                  *)

LEMMA RefType ==
  ASSUME NEW i \in Ids, NEW k \in KeysOf(Kind[i])
  PROVE  Ref[i][k] \in Ids
BY GraphAssumption

LEMMA KeysSubset ==
  ASSUME NEW i \in Ids
  PROVE  KeysOf(Kind[i]) \subseteq Keys
<1>1. Kind[i] \in Kinds BY GraphAssumption
<1> QED BY <1>1 DEF KeysOf, Kinds, Keys, FieldKeys

(* What the six field checks of a pairing contribute is at most six, and   *)
(* six only when all of them are final: 100 percent means exactly that.    *)
LEMMA FieldKeysFinite ==
  IsFiniteSet(FieldKeys) /\ Cardinality(FieldKeys) = 6
<1> DEFINE S1 == {"G1"}
           S2 == S1 \cup {"G2"}
           S3 == S2 \cup {"Zr"}
           S4 == S3 \cup {"Eq"}
           S5 == S4 \cup {"Fq"}
           S6 == S5 \cup {"Fq2"}
<1>1. IsFiniteSet(S1) /\ Cardinality(S1) = 1 BY FS_Singleton
<1>2. IsFiniteSet(S2) /\ Cardinality(S2) = 2 BY <1>1, FS_AddElement
<1>3. IsFiniteSet(S3) /\ Cardinality(S3) = 3 BY <1>2, FS_AddElement
<1>4. IsFiniteSet(S4) /\ Cardinality(S4) = 4 BY <1>3, FS_AddElement
<1>5. IsFiniteSet(S5) /\ Cardinality(S5) = 5 BY <1>4, FS_AddElement
<1>6. IsFiniteSet(S6) /\ Cardinality(S6) = 6 BY <1>5, FS_AddElement
<1>7. FieldKeys = S6 BY DEF FieldKeys
<1> QED BY <1>6, <1>7

LEMMA PairingPercentIs100 ==
  ASSUME NEW i \in Ids, NEW g \in BOOLEAN
  PROVE  /\ PairingPercent(i, g) \in Nat
         /\ PairingPercent(i, g) = 100
              => g /\ \A k \in FieldKeys : IsFinal(Ref[i][k])
<1> DEFINE F == {k \in FieldKeys : IsFinal(Ref[i][k])}
           c == Cardinality(F)
<1>1. IsFiniteSet(F) /\ c \in Nat /\ c <= 6 /\ (c = 6 => F = FieldKeys)
  <2>1. F \subseteq FieldKeys OBVIOUS
  <2> QED BY <2>1, FieldKeysFinite, FS_Subset, FS_CardinalityType
<1>2. PairingPercent(i, g) = ((7 + c + (IF g THEN 1 ELSE 0)) * 100) \div 14
  BY DEF PairingPercent
<1> HIDE DEF c
<1>3. ((7 + c + (IF g THEN 1 ELSE 0)) * 100) \div 14 \in Nat
  BY <1>1
<1>4. ASSUME ((7 + c + (IF g THEN 1 ELSE 0)) * 100) \div 14 = 100
      PROVE  g /\ c = 6
  BY <1>1, <1>4
<1> QED BY <1>1, <1>2, <1>3, <1>4 DEF c

-----------------------------------------------------------------------------
(* Finality only grows.                                                    *)

(* What every finalize call does to the graph, failing or not: x is the    *)
(* only object whose flag it may reset, and x is not final; links are only *)
(* added, and only to registered objects.                                  *)
Growth(x) ==
  /\ x \in Ids /\ ~IsFinal(x)
  /\ objects' = objects
  /\ flagged \ {x} \subseteq flagged' /\ flagged' \subseteq objects
  /\ inited' \subseteq objects
  /\ copied' \in [Ids -> SUBSET DataKeys]
  /\ linked' \in [Ids -> SUBSET Keys]
  /\ \A j \in Ids :
       /\ linked[j] \subseteq linked'[j]
       /\ linked'[j] \subseteq KeysOf(Kind[j])
       /\ \A k \in linked'[j] \ linked[j] : Ref[j][k] \in objects

LEMMA GrowthKeepsFinal ==
  ASSUME NEW x, Growth(x), TypeOK,
         NEW i \in Ids, IsFinal(i)
  PROVE  IsFinal(i)'
<1>1. \A j \in Ids : QuadFinal(j) /\ Kind[j] # "mulg" => QuadFinal(j)'
  <2> SUFFICES ASSUME NEW j \in Ids, QuadFinal(j), Kind[j] # "mulg"
               PROVE  QuadFinal(j)'
    OBVIOUS
  <2>1. j # x BY DEF Growth, IsFinal
  <2>2. j \in flagged' BY <2>1 DEF Growth, QuadFinal
  <2>3. ASSUME Kind[j] = "fi"
        PROVE  "base" \in linked'[j] /\ Ref[j]["base"] \in flagged'
    <3>1. Ref[j]["base"] \in BaseFields BY <2>3, GraphAssumption DEF WellTyped
    <3>2. Ref[j]["base"] \in flagged BY <2>3 DEF QuadFinal
    <3>3. Ref[j]["base"] # x
      BY <3>1, <3>2 DEF Growth, IsFinal, QuadFinal, BaseFields
    <3> QED BY <2>3, <3>2, <3>3 DEF Growth, QuadFinal
  <2> QED BY <2>2, <2>3 DEF QuadFinal
<1>2. CASE Kind[i] # "mulg"
  BY <1>1, <1>2 DEF IsFinal
<1>3. CASE Kind[i] = "mulg"
  <2>1. Ref[i]["base"] \in Ids /\ Kind[Ref[i]["base"]] # "mulg"
    BY <1>3, GraphAssumption DEF WellTyped, Fields
  <2>2. QuadFinal(Ref[i]["base"])'
    BY <1>1, <1>3, <2>1 DEF IsFinal
  <2>3. i # x BY DEF Growth
  <2>4. i \in flagged' BY <2>3 DEF Growth, IsFinal, QuadFinal
  <2>5. "base" \in linked'[i] BY <1>3 DEF Growth, IsFinal
  <2> QED BY <1>3, <2>2, <2>4, <2>5 DEF IsFinal, QuadFinal
<1> QED BY <1>2, <1>3

(* A SubField is final only over a final base, whatever the code does: so  *)
(* FinalClosed has to be shown of elements, curves and pairings only.      *)
SubFieldsClosed ==
  \A i \in objects :
    IsFinal(i) /\ Kind[i] \in {"fi", "mulg", "montfp"} =>
      \A j \in Needs(i) : j \in objects /\ IsFinal(j)

LEMMA TypeOKClosesSubFields == TypeOK => SubFieldsClosed
<1> SUFFICES ASSUME TypeOK, NEW i \in objects, IsFinal(i),
                    Kind[i] \in {"fi", "mulg", "montfp"}, NEW j \in Needs(i)
             PROVE  j \in objects /\ IsFinal(j)
  BY DEF SubFieldsClosed
<1>0. i \in Ids BY DEF TypeOK
<1>1. CASE Kind[i] = "fi"
  <2>1. j = Ref[i]["base"] BY <1>1 DEF Needs, KeysOf
  <2>2. j \in BaseFields BY <1>0, <1>1, <2>1, GraphAssumption DEF WellTyped
  <2>3. j \in flagged BY <1>1, <2>1 DEF IsFinal, QuadFinal
  <2> QED BY <2>2, <2>3 DEF TypeOK, IsFinal, QuadFinal, BaseFields
<1>2. CASE Kind[i] = "mulg"
  <2>1. j = Ref[i]["base"] BY <1>2 DEF Needs, KeysOf
  <2>2. Kind[j] # "mulg" BY <1>0, <1>2, <2>1, GraphAssumption DEF WellTyped
  <2>3. QuadFinal(j) BY <1>2, <2>1 DEF IsFinal
  <2> QED BY <2>2, <2>3 DEF TypeOK, IsFinal, QuadFinal
<1>3. CASE Kind[i] = "montfp"
  BY <1>3 DEF Needs, KeysOf
<1> QED BY <1>1, <1>2, <1>3

LEMMA TypeOKClosesSubFieldsNext == TypeOK' => SubFieldsClosed'
BY TypeOKClosesSubFields, PTL

-----------------------------------------------------------------------------
(* The effect of one finalize call, class by class.                        *)

(* An element, curve or pairing is flagged when what it needs is final.    *)
NewlyFinal ==
  \A j \in flagged' \ flagged :
    Kind[j] \in {"element", "curve", "pairing"} =>
      \A n \in Needs(j) : n \in objects /\ (IsFinal(n) \/ IsFinal(n)')

(* The call ends by reporting a percentage, or with an exception.          *)
Effect(i) ==
  /\ pc = "finalize" /\ i \in todo
  /\ \E x \in Ids : Growth(x)
  /\ NewlyFinal
  /\ (\E p \in Nat : Report(i, p)) \/ Throw

LEMMA ElementEffect ==
  ASSUME IInv, NEW i \in Ids, FinalizeElement(i)
  PROVE  Effect(i)
<1> DEFINE f == Ref[i]["field"]
<1>1. pc = "finalize" /\ i \in todo /\ i \in objects /\ Kind[i] = "element" /\ ~IsFinal(i)
  BY DEF FinalizeElement, Visit, IsNext, IInv, LoopInv
<1>2. i \notin flagged BY <1>1 DEF IsFinal, QuadFinal
<1>3. flagged' = (IF IsFinal(f) THEN flagged \cup {i} ELSE flagged)
  BY <1>2 DEF FinalizeElement, SetFlag
<1>4. objects' = objects /\ linked' = linked /\ inited' = inited
      /\ copied' = copied
  BY DEF FinalizeElement, Report
<1>5. Growth(i) BY <1>1, <1>3, <1>4 DEF Growth, IInv, TypeOK
<1>6. NewlyFinal
  <2>1. Needs(i) = {f} BY <1>1 DEF Needs, KeysOf
  <2>2. f \in objects
    BY <1>1 DEF IInv, ElementsLinked, NoDanglingLink
  <2> QED BY <1>3, <2>1, <2>2 DEF NewlyFinal
<1>7. \E p \in Nat : Report(i, p) BY DEF FinalizeElement
<1> QED BY <1>1, <1>5, <1>6, <1>7 DEF Effect

LEMMA MontFPEffect ==
  ASSUME IInv, NEW i \in Ids, FinalizeMontFP(i)
  PROVE  Effect(i)
<1>1. pc = "finalize" /\ i \in todo /\ i \in objects /\ Kind[i] = "montfp" /\ ~IsFinal(i)
  BY DEF FinalizeMontFP, Visit, IsNext, IInv, LoopInv
<1>2. flagged' = flagged \cup {i} BY DEF FinalizeMontFP, SetFlag
<1>3. objects' = objects /\ linked' = linked /\ inited' = inited
      /\ copied' = copied
  BY DEF FinalizeMontFP, Report
<1>4. Growth(i) BY <1>1, <1>2, <1>3 DEF Growth, IInv, TypeOK
<1>5. NewlyFinal BY <1>1, <1>2 DEF NewlyFinal
<1>6. \E p \in Nat : Report(i, p) BY DEF FinalizeMontFP
<1> QED BY <1>1, <1>4, <1>5, <1>6 DEF Effect

LEMMA CurveFailsEffect ==
  ASSUME IInv, NEW i \in Ids, FinalizeCurveFails(i)
  PROVE  Effect(i)
<1> DEFINE K == {k \in {"a", "b"} : ~Missing(i, k) /\ (k = "b" => ~Missing(i, "a"))}
<1>1. pc = "finalize" /\ i \in todo /\ i \in objects /\ Kind[i] = "curve" /\ ~IsFinal(i)
  BY DEF FinalizeCurveFails, Visit, IsNext, IInv, LoopInv
<1>2. /\ linked' = [linked EXCEPT ![i] = @ \cup K]
      /\ UNCHANGED <<objects, flagged, inited, copied>> /\ Throw
  BY DEF FinalizeCurveFails
<1>3. K \subseteq KeysOf(Kind[i]) /\ KeysOf(Kind[i]) \subseteq Keys
  BY <1>1, KeysSubset DEF KeysOf
<1>4. \A k \in K \ linked[i] : Ref[i][k] \in objects
  BY DEF Missing, Resolvable
<1>5. Growth(i) BY <1>1, <1>2, <1>3, <1>4 DEF Growth, IInv, TypeOK
<1>6. NewlyFinal BY <1>2 DEF NewlyFinal
<1> QED BY <1>1, <1>2, <1>5, <1>6 DEF Effect

LEMMA CurveEffect ==
  ASSUME IInv, NEW i \in Ids, FinalizeCurve(i)
  PROVE  Effect(i)
<1>1. pc = "finalize" /\ i \in todo /\ i \in objects /\ Kind[i] = "curve" /\ ~IsFinal(i)
  BY DEF FinalizeCurve, Visit, IsNext, IInv, LoopInv
<1>2. i \notin flagged BY <1>1 DEF IsFinal, QuadFinal
<1>3. KeysOf(Kind[i]) = {"a", "b"} BY <1>1 DEF KeysOf
<1>4. /\ linked' = [linked EXCEPT ![i] = {"a", "b"}]
      /\ flagged' = IF Ref[i]["a"] \in flagged /\ Ref[i]["b"] \in flagged
                    THEN flagged \cup {i} ELSE flagged
      /\ objects' = objects /\ inited' = inited /\ copied' = copied
  BY <1>2 DEF FinalizeCurve, SetFlag, Report
<1>5. \A k \in {"a", "b"} \ linked[i] : Ref[i][k] \in objects
  BY DEF FinalizeCurve, CurveThrows, Missing, Resolvable
<1>6. Growth(i)
  BY <1>1, <1>3, <1>4, <1>5, KeysSubset DEF Growth, IInv, TypeOK
<1>7. NewlyFinal
  <2>1. Needs(i) = {Ref[i]["a"], Ref[i]["b"]} BY <1>3 DEF Needs
  <2>2. \A n \in Needs(i) : n \in Ids /\ Kind[n] = "element"
    BY <1>1, <2>1, <1>3, RefType, GraphAssumption DEF WellTyped
  <2>3. \A n \in Needs(i) : n \in flagged => n \in objects /\ IsFinal(n)
    BY <2>2 DEF IsFinal, QuadFinal, IInv, TypeOK
  <2> QED BY <1>4, <2>1, <2>3 DEF NewlyFinal
<1>8. \E p \in Nat : Report(i, p) BY DEF FinalizeCurve
<1> QED BY <1>1, <1>6, <1>7, <1>8 DEF Effect

LEMMA FiEffect ==
  ASSUME IInv, NEW i \in Ids, FinalizeFi(i)
  PROVE  Effect(i)
<1>1. pc = "finalize" /\ i \in todo /\ i \in objects /\ Kind[i] = "fi" /\ ~IsFinal(i)
  BY DEF FinalizeFi, Visit, IsNext, IInv, LoopInv
<1>2. KeysOf(Kind[i]) = {"base"} BY <1>1 DEF KeysOf
<1>3. /\ linked' = [linked EXCEPT ![i] = IF Resolvable(i, "base") THEN {"base"} ELSE @]
      /\ flagged' = IF Resolvable(i, "base") THEN flagged \cup {i} ELSE flagged \ {i}
      /\ objects' = objects /\ inited' = inited /\ copied' = copied
  BY DEF FinalizeFi, SetFlag, Report
<1>4. Growth(i)
  BY <1>1, <1>2, <1>3, KeysSubset DEF Growth, IInv, TypeOK, Resolvable
<1>5. NewlyFinal BY <1>1, <1>3 DEF NewlyFinal
<1>6. \E p \in Nat : Report(i, p) BY DEF FinalizeFi
<1> QED BY <1>1, <1>4, <1>5, <1>6 DEF Effect

(* MultiplicativeSubgroup::finalize got past its base only when that is    *)
(* registered, and past its pairing only when that is linked or registered;*)
(* it succeeds only over a final base.                                     *)
MulgReached(m, percent) ==
  /\ percent # 25 => Ref[m]["base"] \in objects
  /\ percent \in {60, 70, 100} => ~Missing(m, "pairing")
  /\ percent = 100 => QuadFinal(Ref[m]["base"])
  /\ percent \in Nat \cup {Thrown}

LEMMA MulgReachedInPass ==
  ASSUME NEW m
  PROVE  MulgReached(m, MulgPercentInPass(m))
BY DEF MulgReached, MulgPercentInPass, MulgPercent, Resolvable, Thrown

LEMMA MulgReachedNested ==
  ASSUME NEW m
  PROVE  MulgReached(m, MulgPercent(m, TRUE, TRUE))
BY DEF MulgReached, MulgPercent, Resolvable, Thrown

LEMMA MulgLinksRegistered ==
  ASSUME IInv, NEW m \in Ids, Kind[m] = "mulg",
         NEW percent, MulgReached(m, percent)
  PROVE  /\ linked[m] \subseteq MulgLinks(m, percent)
         /\ MulgLinks(m, percent) \subseteq {"base", "pairing"}
         /\ \A k \in MulgLinks(m, percent) \ linked[m] : Ref[m][k] \in objects
         /\ percent = 100 => /\ "base" \in MulgLinks(m, percent)
                             /\ QuadFinal(Ref[m]["base"])
<1>1. linked[m] \subseteq {"base", "pairing"}
  BY DEF IInv, TypeOK, KeysOf
<1> QED BY <1>1 DEF MulgLinks, MulgReached, Missing, Resolvable

LEMMA MulgFailsEffect ==
  ASSUME IInv, NEW i \in Ids, FinalizeMulgFails(i)
  PROVE  Effect(i)
<1>1. pc = "finalize" /\ i \in todo /\ i \in objects /\ Kind[i] = "mulg" /\ ~IsFinal(i)
  BY DEF FinalizeMulgFails, Visit, IsNext, IInv, LoopInv
<1>2. KeysOf(Kind[i]) = {"base", "pairing"} BY <1>1 DEF KeysOf
<1>3. /\ linked' = [linked EXCEPT ![i] = MulgLinks(i, Thrown)]
      /\ flagged' = flagged \cup {i}
      /\ objects' = objects /\ inited' = inited /\ copied' = copied /\ Throw
  BY DEF FinalizeMulgFails, SetFlag, MulgFlag
<1>4. /\ linked[i] \subseteq MulgLinks(i, Thrown)
      /\ MulgLinks(i, Thrown) \subseteq {"base", "pairing"}
      /\ \A k \in MulgLinks(i, Thrown) \ linked[i] : Ref[i][k] \in objects
  BY <1>1, MulgReachedInPass, MulgLinksRegistered DEF FinalizeMulgFails
<1>5. Growth(i)
  BY <1>1, <1>2, <1>3, <1>4, KeysSubset DEF Growth, IInv, TypeOK
<1>6. NewlyFinal BY <1>1, <1>3 DEF NewlyFinal
<1> QED BY <1>1, <1>3, <1>5, <1>6 DEF Effect

LEMMA MulgEffect ==
  ASSUME IInv, NEW i \in Ids, FinalizeMulg(i)
  PROVE  Effect(i)
<1> DEFINE percent == MulgPercentInPass(i)
<1>1. pc = "finalize" /\ i \in todo /\ i \in objects /\ Kind[i] = "mulg" /\ ~IsFinal(i)
  BY DEF FinalizeMulg, Visit, IsNext, IInv, LoopInv
<1>2. KeysOf(Kind[i]) = {"base", "pairing"} BY <1>1 DEF KeysOf
<1>3. /\ linked' = [linked EXCEPT ![i] = MulgLinks(i, percent)]
      /\ flagged' = IF MulgFlag(percent) THEN flagged \cup {i} ELSE flagged \ {i}
      /\ objects' = objects /\ inited' = CopyGT(i, percent) /\ copied' = copied
      /\ percent # Thrown /\ Report(i, percent)
  BY DEF FinalizeMulg, SetFlag, Report
<1>4. /\ linked[i] \subseteq MulgLinks(i, percent)
      /\ MulgLinks(i, percent) \subseteq {"base", "pairing"}
      /\ \A k \in MulgLinks(i, percent) \ linked[i] : Ref[i][k] \in objects
      /\ percent \in Nat \cup {Thrown}
  BY <1>1, MulgReachedInPass, MulgLinksRegistered DEF MulgReached
<1>5. Growth(i)
  <2>1. flagged \ {i} \subseteq flagged' /\ flagged' \subseteq objects
    BY <1>1, <1>3 DEF IInv, TypeOK
  <2>2. inited' \subseteq objects
    BY <1>1, <1>3 DEF CopyGT, IInv, TypeOK
  <2> HIDE DEF percent
  <2> QED
    BY <1>1, <1>2, <1>3, <1>4, <2>1, <2>2, KeysSubset DEF Growth, IInv, TypeOK
<1>6. NewlyFinal BY <1>1, <1>3 DEF NewlyFinal
<1>7. \E p \in Nat : Report(i, p) BY <1>3, <1>4
<1> QED BY <1>1, <1>5, <1>6, <1>7 DEF Effect

-----------------------------------------------------------------------------
(* The pairing.                                                            *)

LEMMA PairingType ==
  ASSUME NEW i \in Ids, Kind[i] = "pairing"
  PROVE  /\ KeysOf(Kind[i]) = FieldKeys \cup {"GT"}
         /\ \A k \in FieldKeys \cup {"GT"} : Ref[i][k] \in Ids
         /\ Kind[Ref[i]["GT"]] = "mulg"
         /\ Ref[Ref[i]["GT"]]["pairing"] = i
         /\ Ref[i]["GT"] # i
<1>1. KeysOf(Kind[i]) = FieldKeys \cup {"GT"} BY DEF KeysOf
<1>2. WellTyped(i) BY GraphAssumption
<1> QED BY <1>1, <1>2, RefType DEF WellTyped

LEMMA PairingKeysAre ==
  /\ PairingKeys[1] = "G1" /\ PairingKeys[2] = "G2" /\ PairingKeys[3] = "Zr"
  /\ PairingKeys[4] = "Eq" /\ PairingKeys[5] = "Fq" /\ PairingKeys[6] = "Fq2"
  /\ PairingKeys[7] = "GT"
BY DEF PairingKeys

LEMMA PairingKeysRange ==
  ASSUME NEW n \in 1 .. 7
  PROVE  PairingKeys[n] \in FieldKeys \cup {"GT"}
<1>1. n = 1 \/ n = 2 \/ n = 3 \/ n = 4 \/ n = 5 \/ n = 6 \/ n = 7 OBVIOUS
<1> QED BY <1>1, PairingKeysAre DEF FieldKeys

LEMMA CopiedType ==
  ASSUME TypeOK, NEW i \in Ids, NEW ks, CopyFields(i, ks)
  PROVE  copied' \in [Ids -> SUBSET DataKeys]
BY DEF TypeOK, CopyFields, Copied

LEMMA PairingFailsEffect ==
  ASSUME IInv, NEW i \in Ids, FinalizePairingFails(i)
  PROVE  Effect(i)
<1>1. pc = "finalize" /\ i \in todo /\ i \in objects /\ Kind[i] = "pairing" /\ ~IsFinal(i)
  BY DEF FinalizePairingFails, Visit, IsNext, IInv, LoopInv
<1>2. PICK n \in 1 .. 7 :
        /\ \A m \in 1 .. n - 1 : ~Missing(i, PairingKeys[m])
        /\ linked' = [linked EXCEPT ![i] = @ \cup KeysBefore(n)]
        /\ CopyFields(i, KeysBefore(n))
  BY DEF FinalizePairingFails
<1>3. UNCHANGED <<objects, flagged, inited>> /\ Throw
  BY DEF FinalizePairingFails
<1>4. /\ linked[i] \cup KeysBefore(n) \subseteq KeysOf(Kind[i])
      /\ \A k \in KeysBefore(n) \ linked[i] : Ref[i][k] \in objects
  <2>1. \A m \in 1 .. n - 1 : m \in 1 .. 7 OBVIOUS
  <2>2. \A m \in 1 .. n - 1 : PairingKeys[m] \in KeysOf(Kind[i])
    BY <1>1, <2>1, PairingKeysRange, PairingType
  <2>3. linked[i] \subseteq KeysOf(Kind[i]) BY DEF IInv, TypeOK
  <2> QED BY <1>2, <2>2, <2>3 DEF KeysBefore, Missing, Resolvable
<1>5. Growth(i)
  <2>1. copied' \in [Ids -> SUBSET DataKeys] BY <1>2, CopiedType DEF IInv
  <2> QED
    BY <1>1, <1>2, <1>3, <1>4, <2>1, KeysSubset DEF Growth, IInv, TypeOK
<1>6. NewlyFinal BY <1>3 DEF NewlyFinal
<1> QED BY <1>1, <1>3, <1>5, <1>6 DEF Effect

(* When no link of the pairing is missing, all seven fields are registered.*)
LEMMA AllLinkedRegistered ==
  ASSUME IInv, NEW i \in Ids, Kind[i] = "pairing", AllLinked(i)
  PROVE  \A k \in FieldKeys \cup {"GT"} : Ref[i][k] \in objects
BY PairingType DEF AllLinked, Missing, Resolvable, IInv, NoDanglingLink, KeysOf

LEMMA PairingGTFinalEffect ==
  ASSUME IInv, NEW i \in Ids, FinalizePairingGTFinal(i)
  PROVE  Effect(i)
<1> DEFINE percent == PairingPercent(i, TRUE)
<1>1. pc = "finalize" /\ i \in todo /\ i \in objects /\ Kind[i] = "pairing" /\ ~IsFinal(i)
  BY DEF FinalizePairingGTFinal, Visit, IsNext, IInv, LoopInv
<1>2. i \notin flagged BY <1>1 DEF IsFinal, QuadFinal
<1>3. /\ linked' = [linked EXCEPT ![i] = KeysOf("pairing")]
      /\ flagged' = IF percent = 100 THEN flagged \cup {i} ELSE flagged
      /\ objects' = objects /\ inited' = InitedByLink(i)
      /\ CopyFields(i, FieldKeys)
      /\ Report(i, percent) /\ AllLinked(i) /\ IsFinal(Ref[i]["GT"])
  BY <1>2 DEF FinalizePairingGTFinal, SetFlag, Report
<1>4. \A k \in FieldKeys \cup {"GT"} : Ref[i][k] \in objects
  BY <1>1, <1>3, AllLinkedRegistered
<1>5. percent \in Nat /\ (percent = 100 => \A k \in FieldKeys : IsFinal(Ref[i][k]))
  BY PairingPercentIs100
<1> HIDE DEF percent
<1>6. Growth(i)
  <2>1. inited' \subseteq objects BY <1>3 DEF InitedByLink, IInv, TypeOK
  <2>2. KeysOf("pairing") = KeysOf(Kind[i]) /\ KeysOf(Kind[i]) = FieldKeys \cup {"GT"}
    BY <1>1, PairingType
  <2>3. flagged \ {i} \subseteq flagged' /\ flagged' \subseteq objects
    BY <1>1, <1>3 DEF IInv, TypeOK
  <2>4. copied' \in [Ids -> SUBSET DataKeys] BY <1>3, CopiedType DEF IInv
  <2> QED
    BY <1>1, <1>3, <1>4, <2>1, <2>2, <2>3, <2>4, KeysSubset
       DEF Growth, IInv, TypeOK
<1>7. NewlyFinal
  <2>1. Needs(i) = {Ref[i][k] : k \in FieldKeys \cup {"GT"}}
    BY <1>1, PairingType DEF Needs, FieldKeys
  <2>2. percent = 100 => \A n \in Needs(i) : n \in objects /\ IsFinal(n)
    BY <1>3, <1>4, <1>5, <2>1
  <2> QED BY <1>3, <2>2 DEF NewlyFinal
<1> QED BY <1>1, <1>3, <1>5, <1>6, <1>7 DEF Effect

LEMMA PairingWaitEffect ==
  ASSUME IInv, NEW i \in Ids, FinalizePairingWait(i)
  PROVE  Effect(i)
<1>1. pc = "finalize" /\ i \in todo /\ i \in objects /\ Kind[i] = "pairing" /\ ~IsFinal(i)
  BY DEF FinalizePairingWait, Visit, IsNext, IInv, LoopInv
<1>2. /\ linked' = [linked EXCEPT ![i] = KeysOf("pairing")]
      /\ flagged' = flagged
      /\ objects' = objects /\ inited' = InitedByLink(i)
      /\ CopyFields(i, FieldKeys)
      /\ Report(i, 20) /\ AllLinked(i)
  BY DEF FinalizePairingWait, Report
<1>3. \A k \in FieldKeys \cup {"GT"} : Ref[i][k] \in objects
  BY <1>1, <1>2, AllLinkedRegistered
<1>4. Growth(i)
  <2>1. inited' \subseteq objects BY <1>2 DEF InitedByLink, IInv, TypeOK
  <2>2. copied' \in [Ids -> SUBSET DataKeys] BY <1>2, CopiedType DEF IInv
  <2>3. KeysOf("pairing") = KeysOf(Kind[i]) /\ KeysOf(Kind[i]) = FieldKeys \cup {"GT"}
    BY <1>1, PairingType
  <2> QED
    BY <1>1, <1>2, <1>3, <2>1, <2>2, <2>3, KeysSubset DEF Growth, IInv, TypeOK
<1>5. NewlyFinal BY <1>2 DEF NewlyFinal
<1> QED BY <1>1, <1>2, <1>4, <1>5 DEF Effect

LEMMA PairingWithGTEffect ==
  ASSUME IInv, NEW i \in Ids, FinalizePairingWithGT(i)
  PROVE  Effect(i)
<1> DEFINE gt      == Ref[i]["GT"]
           nested  == MulgPercent(gt, TRUE, TRUE)
           percent == PairingPercent(i, nested = 100)
<1>1. pc = "finalize" /\ i \in todo /\ i \in objects /\ Kind[i] = "pairing" /\ ~IsFinal(i)
  BY DEF FinalizePairingWithGT, Visit, IsNext, IInv, LoopInv
<1>2. gt \in Ids /\ gt # i /\ Kind[gt] = "mulg"
  BY <1>1, PairingType
<1>3. /\ linked' = [linked EXCEPT ![i] = KeysOf("pairing"),
                                   ![gt] = MulgLinks(gt, nested)]
      /\ flagged' = (flagged \ {gt}) \cup (IF nested = 100 THEN {gt} ELSE {})
                                     \cup (IF percent = 100 THEN {i} ELSE {})
      /\ inited' = inited \cup {i} \cup (IF nested = 100 THEN {gt} ELSE {})
      /\ objects' = objects /\ CopyFields(i, FieldKeys)
      /\ Report(i, percent) /\ AllLinked(i) /\ ~IsFinal(gt)
  BY DEF FinalizePairingWithGT, Report
<1>4. \A k \in FieldKeys \cup {"GT"} : Ref[i][k] \in objects
  BY <1>1, <1>3, AllLinkedRegistered
<1>5. /\ linked[gt] \subseteq MulgLinks(gt, nested)
      /\ MulgLinks(gt, nested) \subseteq {"base", "pairing"}
      /\ \A k \in MulgLinks(gt, nested) \ linked[gt] : Ref[gt][k] \in objects
      /\ nested = 100 => /\ "base" \in MulgLinks(gt, nested)
                         /\ QuadFinal(Ref[gt]["base"])
  <2>1. MulgReached(gt, nested) BY MulgReachedNested
  <2> HIDE DEF gt, nested
  <2> QED BY <1>2, <2>1, MulgLinksRegistered
<1>6. /\ percent \in Nat
      /\ percent = 100 => nested = 100 /\ \A k \in FieldKeys : IsFinal(Ref[i][k])
  BY PairingPercentIs100
<1> HIDE DEF nested, percent
<1>7. /\ linked'[i] = KeysOf("pairing")
      /\ linked'[gt] = MulgLinks(gt, nested)
      /\ \A j \in Ids \ {i, gt} : linked'[j] = linked[j]
  BY <1>2, <1>3 DEF IInv, TypeOK
<1>8. KeysOf(Kind[gt]) = {"base", "pairing"} BY <1>2 DEF KeysOf
<1>9. Growth(gt)
  <2>1. inited' \subseteq objects BY <1>1, <1>3, <1>4 DEF IInv, TypeOK
  <2>2. flagged \ {gt} \subseteq flagged' /\ flagged' \subseteq objects
    BY <1>1, <1>3, <1>4 DEF IInv, TypeOK
  <2>3. \A j \in Ids :
          /\ linked[j] \subseteq linked'[j]
          /\ linked'[j] \subseteq KeysOf(Kind[j])
          /\ \A k \in linked'[j] \ linked[j] : Ref[j][k] \in objects
    BY <1>1, <1>4, <1>5, <1>7, <1>8, PairingType DEF IInv, TypeOK
  <2>4. linked' \in [Ids -> SUBSET Keys]
    BY <1>3, <2>3, KeysSubset DEF IInv, TypeOK
  <2>5. copied' \in [Ids -> SUBSET DataKeys] BY <1>3, CopiedType DEF IInv
  <2> QED BY <1>2, <1>3, <2>1, <2>2, <2>3, <2>4, <2>5 DEF Growth
<1>10. nested = 100 => IsFinal(gt)'
  <2> DEFINE b == Ref[gt]["base"]
  <2> SUFFICES ASSUME nested = 100 PROVE IsFinal(gt)'
    OBVIOUS
  <2>1. b \in Ids /\ Kind[b] # "mulg"
    BY <1>2, GraphAssumption DEF WellTyped, Fields
  <2>2. IsFinal(b) BY <1>5, <2>1 DEF IsFinal
  <2>3. IsFinal(b)' BY <1>9, <2>1, <2>2, GrowthKeepsFinal DEF IInv
  <2>4. QuadFinal(b)' BY <2>3 DEF IsFinal
  <2>5. gt \in flagged' /\ "base" \in linked'[gt] BY <1>3, <1>5, <1>7
  <2> QED BY <1>2, <2>4, <2>5 DEF IsFinal, QuadFinal
<1>11. NewlyFinal
  <2>1. Needs(i) = {Ref[i][k] : k \in FieldKeys \cup {"GT"}}
    BY <1>1, PairingType DEF Needs, FieldKeys
  <2>2. percent = 100 =>
          \A n \in Needs(i) : n \in objects /\ (IsFinal(n) \/ IsFinal(n)')
    BY <1>4, <1>6, <1>10, <2>1
  <2> QED BY <1>2, <1>3, <2>2 DEF NewlyFinal
<1> QED BY <1>1, <1>2, <1>3, <1>6, <1>9, <1>11 DEF Effect

-----------------------------------------------------------------------------
(* The invariant, action by action.                                        *)

(* A step that leaves or extends the registry keeps final what was final.  *)
KeepsFinal == \A j \in objects : IsFinal(j) => IsFinal(j)'

LEMMA EffectKeepsFinal ==
  ASSUME IInv, NEW i \in Ids, Effect(i)
  PROVE  KeepsFinal
BY GrowthKeepsFinal DEF KeepsFinal, Effect, IInv, TypeOK

LEMMA EffectPreserves ==
  ASSUME IInv, NEW i \in Ids, Effect(i)
  PROVE  IInv'
<1>1. PICK x \in Ids : Growth(x) BY DEF Effect
<1>2. KeepsFinal BY EffectKeepsFinal
<1>3. (\E p \in Nat : Report(i, p)) \/ Throw BY DEF Effect
<1>4. pc = "finalize" /\ i \in todo /\ NewlyFinal BY DEF Effect
<1>5. TypeOK'
  <2>1. /\ objects' = objects /\ flagged' \subseteq objects
        /\ inited' \subseteq objects /\ linked' \in [Ids -> SUBSET Keys]
        /\ copied' \in [Ids -> SUBSET DataKeys]
        /\ \A j \in Ids : linked'[j] \subseteq KeysOf(Kind[j])
    BY <1>1 DEF Growth
  <2>2. CASE \E p \in Nat : Report(i, p)
    <3>1. PICK p \in Nat : Report(i, p) BY <2>2
    <3> QED BY <2>1, <3>1 DEF Report, StillAllFinal, IInv, TypeOK
  <2>3. CASE Throw
    BY <2>1, <2>3 DEF Throw, Return, Expire, IInv, TypeOK
  <2> QED BY <1>3, <2>2, <2>3
<1>6. NoDanglingLink'
  BY <1>1 DEF Growth, NoDanglingLink, IInv
<1>7. ElementsLinked'
  BY <1>1 DEF Growth, ElementsLinked, IInv, TypeOK
<1>8. FinalClosed'
  <2> SUFFICES ASSUME NEW j \in objects, IsFinal(j)', NEW n \in Needs(j)
               PROVE  n \in objects' /\ IsFinal(n)'
    BY <1>1 DEF Growth, FinalClosed, Needs
  <2>1. objects' = objects BY <1>1 DEF Growth
  <2>2. CASE Kind[j] \in {"fi", "mulg", "montfp"}
    BY <1>5, <2>1, <2>2, TypeOKClosesSubFieldsNext DEF SubFieldsClosed, Needs
  <2>3. CASE Kind[j] \in {"element", "curve", "pairing"}
    <3>1. j \in flagged' BY DEF IsFinal, QuadFinal
    <3>2. CASE j \in flagged
      <4>1. IsFinal(j) BY <2>3, <3>2 DEF IsFinal, QuadFinal
      <4>2. n \in objects /\ IsFinal(n) BY <4>1 DEF IInv, FinalClosed
      <4> QED BY <1>2, <2>1, <4>2 DEF KeepsFinal
    <3>3. CASE j \notin flagged
      <4>1. n \in objects /\ (IsFinal(n) \/ IsFinal(n)')
        BY <1>4, <2>3, <3>1, <3>3 DEF NewlyFinal
      <4> QED BY <1>2, <2>1, <4>1 DEF KeepsFinal
    <3> QED BY <3>2, <3>3
  <2>4. Kind[j] \in Kinds BY GraphAssumption DEF IInv, TypeOK
  <2> QED BY <2>2, <2>3, <2>4 DEF Kinds
<1>9. LoopInv' /\ OkMeansComplete'
  <2>1. objects' = objects BY <1>1 DEF Growth
  <2>2. outcome = "none" BY <1>4 DEF IInv, LoopInv, Running
  <2>3. CASE \E p \in Nat : Report(i, p)
    <3>1. PICK p \in Nat : Report(i, p) BY <2>3
    <3>2. /\ pc' \in {"finalize", "aborted"} /\ outcome' = "none"
          /\ todo' = todo \ {i} /\ (allFinal' => allFinal /\ IsFinal(i)')
      BY <1>4, <2>2, <3>1 DEF Report, StillAllFinal
    <3>3. todo' \subseteq objects'
      BY <1>4, <2>1, <3>2 DEF IInv, LoopInv
    <3>4. allFinal' => \A j \in objects' \ todo' : IsFinal(j)'
      BY <1>2, <1>4, <2>1, <3>2 DEF IInv, LoopInv, KeepsFinal
    <3> QED BY <3>2, <3>3, <3>4 DEF LoopInv, OkMeansComplete, Running
  <2>4. CASE Throw
    BY <2>4 DEF Throw, Return, Expire, LoopInv, OkMeansComplete, Running
  <2> QED BY <1>3, <2>3, <2>4
<1> QED BY <1>5, <1>6, <1>7, <1>8, <1>9 DEF IInv

(* Steps that leave the graph alone.                                       *)
LEMMA SameGraph ==
  ASSUME IInv, UNCHANGED graph
  PROVE  /\ \A j : IsFinal(j)' <=> IsFinal(j)
         /\ NoDanglingLink' /\ ElementsLinked' /\ FinalClosed'
<1>1. /\ objects' = objects /\ flagged' = flagged
      /\ linked' = linked /\ inited' = inited
  BY DEF graph
<1>2. \A j : IsFinal(j)' <=> IsFinal(j)
  BY <1>1 DEF IsFinal, QuadFinal
<1> QED
  BY <1>1, <1>2 DEF IInv, NoDanglingLink, ElementsLinked, FinalClosed, Needs

LEMMA InitInv == Init => IInv
<1> SUFFICES ASSUME Init PROVE IInv
  OBVIOUS
<1>1. TypeOK
  BY RankAssumption DEF Init, TypeOK
<1> QED
  BY <1>1 DEF Init, IInv, LoopInv, Running, NoDanglingLink, ElementsLinked,
              FinalClosed, OkMeansComplete

LEMMA PopulatePreserves ==
  ASSUME IInv, NEW d \in Documents, Populate(d)
  PROVE  IInv'
<1>1. UNCHANGED graph BY DEF Populate
<1>2. TypeOK'
  BY <1>1, DocumentAssumption DEF Populate, IInv, TypeOK, graph
<1>3. LoopInv' /\ OkMeansComplete'
  BY DEF Populate, IInv, LoopInv, OkMeansComplete, Running
<1> QED BY <1>1, <1>2, <1>3, SameGraph DEF IInv

LEMMA ClearPreserves ==
  ASSUME IInv, Clear
  PROVE  IInv'
<1>1. TypeOK'
  BY DEF Clear, IInv, TypeOK, LoopInv, loop
<1>2. LoopInv' /\ OkMeansComplete'
  BY DEF Clear, IInv, LoopInv, OkMeansComplete, Running
<1> QED
  BY <1>1, <1>2 DEF Clear, IInv, NoDanglingLink, ElementsLinked, FinalClosed

LEMMA ThrowPreserves ==
  ASSUME IInv, Throw, UNCHANGED graph
  PROVE  IInv'
<1>1. TypeOK'
  BY DEF Throw, Return, Expire, IInv, TypeOK, graph
<1>2. LoopInv' /\ OkMeansComplete'
  BY DEF Throw, Return, Expire, LoopInv, OkMeansComplete, Running
<1> QED BY <1>1, <1>2, SameGraph DEF IInv

LEMMA AbortPreserves ==
  ASSUME IInv, Abort
  PROVE  IInv'
<1>1. UNCHANGED graph BY DEF Abort
<1>2. TypeOK'
  BY DEF Abort, IInv, TypeOK, graph, loop
<1>3. LoopInv' BY DEF Abort, LoopInv, Running
<1>4. OkMeansComplete'
  BY <1>1, SameGraph DEF Abort, IInv, OkMeansComplete, graph
<1> QED BY <1>1, <1>2, <1>3, <1>4, SameGraph DEF IInv

LEMMA StartPassPreserves ==
  ASSUME IInv, Running, NEW old \in Nat, StartPass(old)
  PROVE  IInv'
<1>1. UNCHANGED graph BY DEF StartPass
<1>2. TypeOK'
  BY DEF StartPass, NativeStatus, IInv, TypeOK, graph
<1>3. LoopInv' /\ OkMeansComplete'
  BY DEF StartPass, IInv, TypeOK, LoopInv, OkMeansComplete, Running, graph
<1> QED BY <1>1, <1>2, <1>3, SameGraph DEF IInv

LEMMA SkipFinalPreserves ==
  ASSUME IInv, NEW i \in Ids, SkipFinal(i)
  PROVE  IInv'
<1>1. UNCHANGED graph BY DEF SkipFinal
<1>2. TypeOK'
  BY DEF SkipFinal, IInv, TypeOK, graph
<1>3. LoopInv' /\ OkMeansComplete'
  <2>1. \A j : IsFinal(j)' <=> IsFinal(j) BY <1>1, SameGraph
  <2> QED
    BY <2>1 DEF SkipFinal, IInv, LoopInv, OkMeansComplete, Running, graph
<1> QED BY <1>1, <1>2, <1>3, SameGraph DEF IInv

(* A construction registers new objects and leaves the others alone.       *)
LEMMA ConstructEffect ==
  ASSUME IInv, NEW i \in Ids, ConstructObject(i)
  PROVE  /\ NewObjects(i) \subseteq Ids \ objects
         /\ objects' = objects \cup NewObjects(i)
         /\ flagged' = flagged
         /\ \A j \in Ids : linked'[j] =
              IF j \notin NewObjects(i) THEN linked[j]
              ELSE IF Kind[j] = "element" THEN {"field"} ELSE {}
         /\ inited' \subseteq objects'
         /\ \A j \in objects : IsFinal(j) <=> IsFinal(j)'
         /\ \A j \in NewObjects(i) : ~IsFinal(j)'
<1>1. NewObjects(i) \subseteq Ids \ objects
  <2>1. Kind[i] = "element" => Ref[i]["field"] \in Ids
    BY GraphAssumption DEF WellTyped, Fields
  <2> QED BY <2>1 DEF NewObjects
<1>2. objects' = objects \cup NewObjects(i) BY DEF ConstructObject
<1>3. flagged' = flagged BY <1>1 DEF ConstructObject, IInv, TypeOK
<1>4. \A j \in Ids : linked'[j] =
        IF j \notin NewObjects(i) THEN linked[j]
        ELSE IF Kind[j] = "element" THEN {"field"} ELSE {}
  BY DEF ConstructObject, LinkedAtFirst
<1>5. inited' \subseteq objects'
  BY <1>2 DEF ConstructObject, InitedAtFirst, IInv, TypeOK
<1>6. \A j \in objects : linked'[j] = linked[j]
  BY <1>1, <1>4 DEF IInv, TypeOK
<1>7. \A j \in objects : IsFinal(j) <=> IsFinal(j)'
  <2> SUFFICES ASSUME NEW j \in objects PROVE IsFinal(j) <=> IsFinal(j)'
    OBVIOUS
  <2>1. \A m \in objects : QuadFinal(m) <=> QuadFinal(m)'
    BY <1>3, <1>6 DEF QuadFinal
  <2>2. Kind[j] = "mulg" /\ "base" \in linked[j] => Ref[j]["base"] \in objects
    BY DEF IInv, NoDanglingLink, TypeOK
  <2> QED BY <1>6, <2>1, <2>2 DEF IsFinal
<1>8. \A j \in NewObjects(i) : ~IsFinal(j)'
  BY <1>1, <1>3 DEF IsFinal, QuadFinal, IInv, TypeOK
<1> QED BY <1>1, <1>2, <1>3, <1>4, <1>5, <1>7, <1>8

LEMMA ConstructPreserves ==
  ASSUME IInv, NEW i \in Ids, ConstructObject(i)
  PROVE  IInv'
<1> DEFINE new == NewObjects(i)
<1>1. pc = "construct" /\ pc' = "construct" /\ outcome' = outcome
  BY DEF ConstructObject
<1>2. TypeOK'
  <2>1. linked' \in [Ids -> SUBSET Keys]
    BY DEF ConstructObject, LinkedAtFirst, IInv, TypeOK, Keys
  <2>2. \A j \in Ids : linked'[j] \subseteq KeysOf(Kind[j])
    <3>1. \A j \in Ids : Kind[j] = "element" => KeysOf(Kind[j]) = {"field"}
      BY DEF KeysOf
    <3> QED BY <3>1, ConstructEffect DEF IInv, TypeOK
  <2>3. live' \subseteq objects' /\ flagged' \subseteq objects'
        /\ inited' \subseteq objects' /\ objects' \subseteq Ids
    BY ConstructEffect DEF ConstructObject, IInv, TypeOK
  <2> QED BY <2>1, <2>2, <2>3 DEF ConstructObject, IInv, TypeOK
<1>3. NoDanglingLink'
  <2> SUFFICES ASSUME NEW j \in Ids, NEW k \in linked'[j]
               PROVE  Ref[j][k] \in objects'
    BY DEF NoDanglingLink
  <2>1. CASE j \notin new
    BY <2>1, ConstructEffect DEF IInv, NoDanglingLink
  <2>2. CASE j \in new
    <3>1. Kind[j] = "element" /\ k = "field" BY <2>2, ConstructEffect
    <3>2. j = i
      <4>1. Kind[i] = "element" => Kind[Ref[i]["field"]] # "element"
        BY GraphAssumption DEF WellTyped, Fields
      <4> QED BY <2>2, <3>1, <4>1 DEF NewObjects
    <3> QED BY <3>1, <3>2, ConstructEffect DEF NewObjects
  <2> QED BY <2>1, <2>2
<1>4. ElementsLinked'
  BY ConstructEffect DEF ElementsLinked, IInv, TypeOK
<1>5. FinalClosed'
  <2> SUFFICES ASSUME NEW j \in objects', IsFinal(j)', NEW n \in Needs(j)
               PROVE  n \in objects' /\ IsFinal(n)'
    BY DEF FinalClosed, Needs
  <2>1. j \in objects /\ IsFinal(j) BY ConstructEffect
  <2> QED BY <2>1, ConstructEffect DEF IInv, FinalClosed
<1>6. LoopInv' /\ OkMeansComplete'
  BY <1>1 DEF IInv, LoopInv, OkMeansComplete, Running
<1> QED BY <1>2, <1>3, <1>4, <1>5, <1>6 DEF IInv

LEMMA ReturnPreserves ==
  ASSUME IInv, EndPassDone
  PROVE  IInv'
<1>1. pc = "finalize" /\ todo = {} /\ allFinal BY DEF EndPassDone
<1>2. CASE Abort BY <1>1, <1>2, AbortPreserves DEF Running
<1>3. CASE /\ Return(IF rootId \in objects THEN "ok" ELSE "error")
           /\ UNCHANGED graph
  <2>1. TypeOK' BY <1>3 DEF Return, Expire, IInv, TypeOK, graph
  <2>2. \A i \in objects : IsFinal(i) BY <1>1 DEF IInv, LoopInv
  <2>3. \A j : IsFinal(j)' <=> IsFinal(j) BY <1>3, SameGraph
  <2>4. OkMeansComplete'
    BY <1>3, <2>2, <2>3 DEF Return, OkMeansComplete, graph
  <2>5. LoopInv' BY <1>3 DEF Return, Expire, LoopInv, Running
  <2> QED BY <1>3, <2>1, <2>4, <2>5, SameGraph DEF IInv
<1> QED BY <1>2, <1>3 DEF EndPassDone

LEMMA FinalizeEffect ==
  ASSUME IInv, NEW i \in Ids,
         \/ SkipFinal(i)
         \/ FinalizeElement(i) \/ FinalizeMontFP(i)
         \/ FinalizeCurveFails(i) \/ FinalizeCurve(i) \/ FinalizeFi(i)
         \/ FinalizeMulgFails(i) \/ FinalizeMulg(i)
         \/ FinalizePairingFails(i) \/ FinalizePairingGTFinal(i)
         \/ FinalizePairingWait(i) \/ FinalizePairingWithGT(i)
  PROVE  SkipFinal(i) \/ Effect(i)
BY ElementEffect, MontFPEffect, CurveFailsEffect, CurveEffect, FiEffect,
   MulgFailsEffect, MulgEffect, PairingFailsEffect, PairingGTFinalEffect,
   PairingWaitEffect, PairingWithGTEffect

(* Every step of populate preserves the invariant.                         *)
LEMMA StepPreserves == IInv /\ Step => IInv'
<1> SUFFICES ASSUME IInv, Step PROVE IInv'
  OBVIOUS
<1>1. CASE Construct
  <2>1. PICK i \in Ids :
          ConstructFails(i) \/ ConstructCrashes(i) \/ ConstructObject(i)
    BY <1>1 DEF Construct
  <2>2. CASE ConstructFails(i)
    BY <2>2, ThrowPreserves DEF ConstructFails
  <2>3. CASE ConstructCrashes(i)
    BY <2>3, AbortPreserves DEF ConstructCrashes
  <2> QED BY <2>1, <2>2, <2>3, ConstructPreserves
<1>2. CASE ConstructDone
  <2>1. Running BY <1>2 DEF ConstructDone, Running
  <2> QED BY <1>2, <2>1, AbortPreserves, StartPassPreserves DEF ConstructDone
<1>3. CASE Finalize
  <2>1. PICK i \in Ids : SkipFinal(i) \/ Effect(i)
    BY <1>3, FinalizeEffect DEF Finalize
  <2> QED BY <2>1, SkipFinalPreserves, EffectPreserves
<1>4. CASE EndPassEmpty
  BY <1>4, AbortPreserves DEF EndPassEmpty, Running
<1>5. CASE EndPassDone
  BY <1>5, ReturnPreserves
<1>6. CASE EndPassAgain
  <2>1. Running /\ status \in Nat BY <1>6 DEF EndPassAgain, Running, IInv, TypeOK
  <2> QED BY <1>6, <2>1, AbortPreserves, StartPassPreserves DEF EndPassAgain
<1> QED BY <1>1, <1>2, <1>3, <1>4, <1>5, <1>6 DEF Step, EndPass

LEMMA StutterPreserves == IInv /\ UNCHANGED vars => IInv'
<1> SUFFICES ASSUME IInv, UNCHANGED vars PROVE IInv'
  OBVIOUS
<1>1. UNCHANGED <<graph, loop>> BY DEF vars
<1>2. TypeOK' BY <1>1 DEF vars, graph, loop, IInv, TypeOK
<1>3. \A j : IsFinal(j)' <=> IsFinal(j) BY <1>1, SameGraph
<1>4. LoopInv' /\ OkMeansComplete'
  BY <1>1, <1>3 DEF vars, graph, loop, IInv, LoopInv, OkMeansComplete, Running
<1> QED BY <1>1, <1>2, <1>4, SameGraph DEF IInv

LEMMA NextPreserves == IInv /\ [Next]_vars => IInv'
<1>1. ASSUME IInv, ClearCrashes PROVE IInv'
  BY <1>1, AbortPreserves DEF ClearCrashes
<1> QED
  BY <1>1, PopulatePreserves, ClearPreserves, StepPreserves, StutterPreserves
     DEF Next

(* The inductive invariant holds of every reachable state.                 *)
THEOREM Invariance == Spec => []IInv
BY InitInv, NextPreserves, PTL DEF Spec

(* Every variable keeps its type: in particular flags, initialized native  *)
(* fields and live descriptions belong to registered objects.              *)
THEOREM TypeCorrect == Spec => []TypeOK
BY Invariance, PTL DEF IInv

(* Links never dangle: no import dereferences an expired weak pointer.     *)
THEOREM LinksNeverDangle == Spec => []NoDanglingLink
BY Invariance, PTL DEF IInv

(* Nothing is final before what it was built from.                         *)
THEOREM FinalityIsClosed == Spec => []FinalClosed
BY Invariance, PTL DEF IInv

(* populate returns an object only when all objects of the context are     *)
(* final, with and without assertions.                                     *)
THEOREM ReturnedMeansComplete == Spec => []OkMeansComplete
BY Invariance, PTL DEF IInv

-----------------------------------------------------------------------------
(* What is final stays final until the context is cleared.                 *)

LEMMA StepKeepsFinal == IInv /\ Step => KeepsFinal
<1> SUFFICES ASSUME IInv, Step PROVE KeepsFinal
  OBVIOUS
<1>1. CASE UNCHANGED graph
  BY <1>1, SameGraph DEF KeepsFinal
<1>2. CASE Construct
  <2>1. PICK i \in Ids :
          ConstructFails(i) \/ ConstructCrashes(i) \/ ConstructObject(i)
    BY <1>2 DEF Construct
  <2>2. CASE ConstructFails(i) \/ ConstructCrashes(i)
    BY <1>1, <2>2 DEF ConstructFails, ConstructCrashes, Abort
  <2>3. CASE ConstructObject(i) BY <2>3, ConstructEffect DEF KeepsFinal
  <2> QED BY <2>1, <2>2, <2>3
<1>3. CASE Finalize
  <2>1. PICK i \in Ids : SkipFinal(i) \/ Effect(i)
    BY <1>3, FinalizeEffect DEF Finalize
  <2>2. CASE SkipFinal(i) BY <1>1, <2>2 DEF SkipFinal
  <2> QED BY <2>1, <2>2, EffectKeepsFinal
<1>4. CASE ConstructDone \/ EndPass
  <2>1. UNCHANGED graph
    BY <1>4 DEF ConstructDone, EndPass, EndPassEmpty, EndPassDone, EndPassAgain,
                Abort, StartPass
  <2> QED BY <1>1, <2>1
<1> QED BY <1>2, <1>3, <1>4 DEF Step

THEOREM FinalityIsStable == Spec => FinalStable
<1> DEFINE A == \A i \in objects : IsFinal(i) => IsFinal(i)' \/ objects' = {}
<1>1. ASSUME IInv, [Next]_vars PROVE [A]_vars
  <2>1. CASE Step BY <1>1, <2>1, StepKeepsFinal DEF KeepsFinal
  <2>2. CASE Clear BY <2>2 DEF Clear
  <2>3. CASE ClearCrashes \/ \E d \in Documents : Populate(d)
    <3>1. UNCHANGED graph BY <2>3 DEF Populate, ClearCrashes, Abort
    <3> QED BY <1>1, <3>1, SameGraph
  <2> QED BY <1>1, <2>1, <2>2, <2>3 DEF Next
<1> QED BY <1>1, Invariance, PTL DEF Spec, FinalStable

-----------------------------------------------------------------------------
(* A curve, fi or mulg that lost its description is never completed.       *)

(* finalize resolves no key of an orphan: a curve throws, fi and mulg take *)
(* the branch that leaves the flag down.                                   *)
LEMMA OrphanUnresolved ==
  ASSUME NEW i \in Orphans
  PROVE  i \in objects /\ i \notin live /\ i \notin flagged
         /\ Kind[i] \in {"curve", "fi", "mulg"}
         /\ \A k : ~Resolvable(i, k)
BY DEF Orphans, Resolvable

LEMMA FinalizeKeepsOrphans ==
  ASSUME IInv, NEW i \in Ids, NEW o \in Orphans,
         \/ FinalizeElement(i) \/ FinalizeMontFP(i)
         \/ FinalizeCurveFails(i) \/ FinalizeCurve(i) \/ FinalizeFi(i)
         \/ FinalizeMulgFails(i) \/ FinalizeMulg(i)
         \/ FinalizePairingFails(i) \/ FinalizePairingGTFinal(i)
         \/ FinalizePairingWait(i) \/ FinalizePairingWithGT(i)
  PROVE  o \notin flagged'
<1>o. o \notin flagged /\ o \notin live /\ ~Resolvable(o, "base")
      /\ Kind[o] \in {"curve", "fi", "mulg"}
  BY OrphanUnresolved
<1>1. CASE FinalizeElement(i)
  BY <1>o, <1>1 DEF FinalizeElement, Visit, SetFlag
<1>2. CASE FinalizeMontFP(i)
  BY <1>o, <1>2 DEF FinalizeMontFP, Visit, SetFlag
<1>3. CASE FinalizeCurveFails(i)
  BY <1>o, <1>3 DEF FinalizeCurveFails
<1>4. CASE FinalizeCurve(i)
  BY <1>o, <1>4 DEF FinalizeCurve, SetFlag, CurveThrows
<1>5. CASE FinalizeFi(i)
  BY <1>o, <1>5 DEF FinalizeFi, SetFlag
<1>6. CASE FinalizeMulgFails(i)
  BY <1>o, <1>6 DEF FinalizeMulgFails, SetFlag, MulgPercentInPass, MulgPercent, Thrown
<1>7. CASE FinalizeMulg(i)
  BY <1>o, <1>7 DEF FinalizeMulg, SetFlag, MulgFlag, MulgPercentInPass, MulgPercent, Thrown
<1>8. CASE FinalizePairingFails(i)
  BY <1>o, <1>8 DEF FinalizePairingFails
<1>9. CASE FinalizePairingGTFinal(i)
  BY <1>o, <1>9 DEF FinalizePairingGTFinal, Visit, SetFlag
<1>10. CASE FinalizePairingWait(i)
  BY <1>o, <1>10 DEF FinalizePairingWait
<1>11. CASE FinalizePairingWithGT(i)
  <2> DEFINE gt     == Ref[i]["GT"]
             nested == MulgPercent(gt, TRUE, TRUE)
  <2>1. o # i
    <3>1. Kind[i] = "pairing" BY <1>11 DEF FinalizePairingWithGT, Visit
    <3> QED BY <1>o, <3>1
  <2>2. flagged' \subseteq flagged \cup {i} \cup (IF nested = 100 THEN {gt} ELSE {})
    BY <1>11 DEF FinalizePairingWithGT
  <2>3. CASE o = gt
    <3>1. nested = 25 BY <1>o, <2>3 DEF MulgPercent
    <3> HIDE DEF nested
    <3> QED BY <1>o, <2>1, <2>2, <3>1
  <2>4. CASE o # gt
    <3> HIDE DEF nested, gt
    <3> QED BY <1>o, <2>1, <2>2, <2>4
  <2> QED BY <2>3, <2>4
<1> QED BY <1>1, <1>2, <1>3, <1>4, <1>5, <1>6, <1>7, <1>8, <1>9, <1>10, <1>11

LEMMA StepKeepsOrphans == IInv /\ Step => Orphans \subseteq Orphans'
<1> SUFFICES ASSUME IInv, Step, NEW o \in Orphans PROVE o \in Orphans'
  OBVIOUS
<1>o. o \in objects /\ o \notin flagged /\ o \notin live
      /\ Kind[o] \in {"curve", "fi", "mulg"}
  BY OrphanUnresolved
<1>1. CASE UNCHANGED graph /\ (live' = live \/ live' = {})
  BY <1>o, <1>1 DEF Orphans, graph
<1>2. CASE Construct
  <2>1. PICK i \in Ids :
          ConstructFails(i) \/ ConstructCrashes(i) \/ ConstructObject(i)
    BY <1>2 DEF Construct
  <2>2. CASE ConstructFails(i) \/ ConstructCrashes(i)
    BY <1>1, <2>2
       DEF ConstructFails, ConstructCrashes, Abort, Throw, Return, Expire
  <2>3. CASE ConstructObject(i)
    <3>1. live' = live \cup NewObjects(i) BY <2>3 DEF ConstructObject
    <3> QED BY <1>o, <2>3, <3>1, ConstructEffect DEF Orphans
  <2> QED BY <2>1, <2>2, <2>3
<1>3. CASE Finalize
  <2>1. PICK i \in Ids :
          \/ SkipFinal(i)
          \/ FinalizeElement(i) \/ FinalizeMontFP(i)
          \/ FinalizeCurveFails(i) \/ FinalizeCurve(i) \/ FinalizeFi(i)
          \/ FinalizeMulgFails(i) \/ FinalizeMulg(i)
          \/ FinalizePairingFails(i) \/ FinalizePairingGTFinal(i)
          \/ FinalizePairingWait(i) \/ FinalizePairingWithGT(i)
    BY <1>3 DEF Finalize
  <2>2. CASE SkipFinal(i) BY <1>1, <2>2 DEF SkipFinal
  <2>3. CASE ~SkipFinal(i)
    <3>1. o \notin flagged' BY <2>1, <2>3, FinalizeKeepsOrphans
    <3>2. Effect(i) BY <2>1, <2>3, FinalizeEffect
    <3>3. objects' = objects BY <3>2 DEF Effect, Growth
    <3>4. live' = live \/ live' = {}
      BY <3>2 DEF Effect, Report, Throw, Return, Expire
    <3> QED BY <1>o, <3>1, <3>3, <3>4 DEF Orphans
  <2> QED BY <2>2, <2>3
<1>4. CASE ConstructDone \/ EndPass
  <2>1. UNCHANGED graph /\ (live' = live \/ live' = {})
    BY <1>4 DEF ConstructDone, EndPass, EndPassEmpty, EndPassDone, EndPassAgain,
                Abort, StartPass, Return, Expire
  <2> QED BY <1>1, <2>1
<1> QED BY <1>2, <1>3, <1>4 DEF Step

(* A failed import is not repaired by a later one: what it left without a  *)
(* description stays unfinished until the context is cleared.              *)
THEOREM OrphansAreStuck == Spec => OrphansStay
<1> DEFINE A == Orphans \subseteq Orphans' \/ objects' = {}
<1>1. ASSUME IInv, [Next]_vars PROVE [A]_vars
  <2>1. CASE Step BY <1>1, <2>1, StepKeepsOrphans
  <2>2. CASE Clear BY <2>2 DEF Clear
  <2>3. CASE ClearCrashes \/ \E d \in Documents : Populate(d)
    BY <2>3 DEF Populate, ClearCrashes, Abort, graph, Orphans
  <2> QED BY <1>1, <2>1, <2>2, <2>3 DEF Next
<1> QED BY <1>1, Invariance, PTL DEF Spec, OrphansStay

-----------------------------------------------------------------------------
(* The import implements module Import.                                    *)

Done  == {i \in objects : IsFinal(i)}
Phase == IF Running THEN "running" ELSE IF pc = "idle" THEN "idle" ELSE "dead"

LEMMA StepOutcome ==
  ASSUME IInv, Step
  PROVE  /\ Running /\ rootId' = rootId
         /\ objects \subseteq objects'
         /\ \/ Running' /\ outcome' = outcome
            \/ pc' = "idle" /\ outcome' = "error"
            \/ pc' = "aborted" /\ outcome' = outcome
            \/ pc' = "idle" /\ outcome' = "ok" /\ UNCHANGED graph
<1>1. CASE Construct
  <2>1. PICK i \in Ids :
          ConstructFails(i) \/ ConstructCrashes(i) \/ ConstructObject(i)
    BY <1>1 DEF Construct
  <2>2. CASE ConstructFails(i) \/ ConstructCrashes(i)
    BY <2>2
       DEF ConstructFails, ConstructCrashes, Abort, Throw, Return, Running, graph
  <2>3. CASE ConstructObject(i)
    BY <2>3 DEF ConstructObject, Running
  <2> QED BY <2>1, <2>2, <2>3
<1>2. CASE Finalize
  <2>1. PICK i \in Ids : SkipFinal(i) \/ Effect(i)
    BY <1>2, FinalizeEffect DEF Finalize
  <2>2. CASE SkipFinal(i) BY <2>2 DEF SkipFinal, Running, graph
  <2>3. CASE Effect(i)
    <3>1. objects' = objects /\ pc = "finalize" BY <2>3 DEF Effect, Growth
    <3>2. (\E p \in Nat : Report(i, p)) \/ Throw BY <2>3 DEF Effect
    <3> QED BY <3>1, <3>2 DEF Report, Throw, Return, Running
  <2> QED BY <2>1, <2>2, <2>3
<1>3. CASE ConstructDone
  BY <1>3 DEF ConstructDone, Abort, StartPass, Running, graph
<1>4. CASE EndPass
  BY <1>4 DEF EndPass, EndPassEmpty, EndPassDone, EndPassAgain, Abort,
              StartPass, Return, Running, graph
<1> QED BY <1>1, <1>2, <1>3, <1>4 DEF Step

LEMMA StepRefines ==
  ASSUME IInv, IInv', Step
  PROVE  Promise!Next
<1>1. /\ Running /\ rootId' = rootId /\ objects \subseteq objects'
      /\ \/ Running' /\ outcome' = outcome
         \/ pc' = "idle" /\ outcome' = "error"
         \/ pc' = "aborted" /\ outcome' = outcome
         \/ pc' = "idle" /\ outcome' = "ok" /\ UNCHANGED graph
  BY StepOutcome
<1>2. KeepsFinal BY StepKeepsFinal
<1>3. objects' \subseteq Ids BY DEF IInv, TypeOK
<1>4. \A i \in Done' : [j \in Ids |-> Needs(j)][i] \subseteq Done'
  BY <1>3 DEF Done, IInv, FinalClosed, Needs
<1>5. Done \subseteq Done' /\ Done' \subseteq objects'
  BY <1>1, <1>2 DEF Done, KeepsFinal
<1>6. Promise!Grow
  BY <1>1, <1>3, <1>4, <1>5 DEF Promise!Grow, Promise!Closed, Done
<1>7. CASE Running' /\ outcome' = outcome
  BY <1>1, <1>6, <1>7 DEF Promise!Next, Promise!Work
<1>8. CASE pc' = "idle" /\ outcome' = "error"
  BY <1>6, <1>8 DEF Promise!Next, Promise!Fail, Running
<1>9. CASE pc' = "aborted" /\ outcome' = outcome
  BY <1>6, <1>9 DEF Promise!Next, Promise!Die, Running
<1>10. CASE pc' = "idle" /\ outcome' = "ok" /\ UNCHANGED graph
  <2>1. \A i : IsFinal(i)' <=> IsFinal(i) BY <1>10, SameGraph
  <2>2. rootId \in objects /\ \A i \in objects : IsFinal(i)
    BY <1>1, <1>10, <2>1 DEF IInv, OkMeansComplete, graph
  <2> QED BY <1>1, <1>10, <2>1, <2>2 DEF Promise!Next, Promise!Succeed, Running, graph
<1> QED BY <1>1, <1>7, <1>8, <1>9, <1>10

(* PbcContext keeps the promise of module Import: under the mapping of     *)
(* Promise every step of populate and clear is a step of Import.           *)
THEOREM Implementation == Spec => ImplementsImport
<1>1. Init => Promise!Init
  BY DEF Init, Promise!Init, Running
<1>2. ASSUME IInv, IInv', [Next]_vars
      PROVE  [Promise!Next]_(Promise!vars)
  <2>1. CASE Step BY <1>2, <2>1, StepRefines
  <2>2. CASE Clear
    BY <2>2 DEF Clear, Promise!Next, Promise!Forget, Running
  <2>3. CASE \E d \in Documents : Populate(d)
    <3>1. PICK d \in Documents : Populate(d) BY <2>3
    <3>2. UNCHANGED graph BY <3>1 DEF Populate
    <3>3. \A i : IsFinal(i)' <=> IsFinal(i) BY <1>2, <3>2, SameGraph
    <3>4. d.root \in Ids \cup {Nil} BY DocumentAssumption
    <3> QED
      BY <3>1, <3>2, <3>3, <3>4
      DEF Populate, Promise!Next, Promise!Call, Running, graph
  <2>4. CASE ClearCrashes
    <3>1. UNCHANGED graph /\ objects # {} /\ objects' = objects
      BY <2>4 DEF ClearCrashes, Abort, graph
    <3>2. \A i : IsFinal(i)' <=> IsFinal(i) BY <1>2, <3>1, SameGraph
    <3> QED
      BY <2>4, <3>1, <3>2
      DEF ClearCrashes, Abort, Promise!Next, Promise!Crash, Running
  <2>5. CASE UNCHANGED vars
    <3>1. UNCHANGED graph BY <2>5 DEF vars
    <3>2. \A i : IsFinal(i)' <=> IsFinal(i) BY <1>2, <3>1, SameGraph
    <3> QED BY <2>5, <3>1, <3>2 DEF vars, Promise!vars, Running, graph
  <2> QED BY <1>2, <2>1, <2>2, <2>3, <2>4, <2>5 DEF Next
<1> QED BY <1>1, <1>2, Invariance, PTL DEF Spec, ImplementsImport, Promise!Spec
=============================================================================
