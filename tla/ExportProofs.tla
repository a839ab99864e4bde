----------------------------- MODULE ExportProofs -----------------------------
(***************************************************************************)
(* What TLAPS proves about Export, for every graph of objects and every    *)
(* scenario: the walk describes each object once and ends, what exportJson *)
(* returns is complete, and the values it wrote are read back.             *)
(*                                                                         *)
(* The invariant accounts for every key of a description that was begun:   *)
(* it is still in the program of the running addToJson, or its member is   *)
(* there and the object it names is described.  Only running calls have a  *)
(* rest of their program, so that nothing is left when the stack is empty. *)
(***************************************************************************)
EXTENDS Export, ConversionsProofs

(* Sequences: what taking the first or last element off, or adding one,    *)
(* does to the set of elements.                                            *)

LEMMA HeadTail ==
  ASSUME NEW S, NEW s \in Seq(S), s # <<>>
  PROVE  /\ Head(s) \in S /\ Head(s) \in Range(s)
         /\ Tail(s) \in Seq(S) /\ Len(Tail(s)) < Len(s)
         /\ \A x \in Range(s) : x = Head(s) \/ x \in Range(Tail(s))
<1>1. Len(s) \in Nat /\ Len(s) > 0 /\ Head(s) = s[1] /\ DOMAIN s = 1 .. Len(s)
  OBVIOUS
<1>2. /\ Head(s) \in S /\ Tail(s) \in Seq(S) /\ Len(Tail(s)) = Len(s) - 1
      /\ \A n \in 1 .. Len(Tail(s)) : Tail(s)[n] = s[n + 1]
  BY HeadTailProperties
<1>3. ASSUME NEW n \in 1 .. Len(s), n # 1 PROVE s[n] \in Range(Tail(s))
  <2>1. n - 1 \in 1 .. Len(Tail(s)) /\ s[(n - 1) + 1] = s[n] BY <1>1, <1>2, <1>3
  <2>2. DOMAIN Tail(s) = 1 .. Len(Tail(s)) BY <1>2
  <2> QED BY <1>2, <2>1, <2>2 DEF Range
<1> QED BY <1>1, <1>2, <1>3 DEF Range

LEMMA LastOf ==
  ASSUME NEW S, NEW s \in Seq(S), s # <<>>
  PROVE  s[Len(s)] \in S /\ s[Len(s)] \in Range(s) /\ Len(s) \in 1 .. Len(s)
BY DEF Range

LEMMA AppendOf ==
  ASSUME NEW S, NEW s \in Seq(S), NEW x \in S
  PROVE  /\ Append(s, x) \in Seq(S) /\ Len(Append(s, x)) = Len(s) + 1
         /\ \A n \in 1 .. Len(s) : Append(s, x)[n] = s[n]
         /\ Append(s, x)[Len(s) + 1] = x
         /\ Range(Append(s, x)) = Range(s) \cup {x}
<1>1. <<x>> \in Seq(S) OBVIOUS
<1>2. Append(s, x) = s \o <<x>> BY AppendIsConcat
<1>3. Range(s \o <<x>>) = Range(s) \cup Range(<<x>>)
  BY <1>1, RangeConcatenation
<1>4. Range(<<x>>) = {x} BY DEF Range
<1>5. /\ Append(s, x) \in Seq(S) /\ Len(Append(s, x)) = Len(s) + 1
      /\ \A n \in 1 .. Len(s) : Append(s, x)[n] = s[n]
      /\ Append(s, x)[Len(s) + 1] = x
  BY AppendProperties
<1> QED BY <1>2, <1>3, <1>4, <1>5

LEMMA FrontOf ==
  ASSUME NEW S, NEW s \in Seq(S), s # <<>>
  PROVE  /\ SubSeq(s, 1, Len(s) - 1) \in Seq(S)
         /\ Len(SubSeq(s, 1, Len(s) - 1)) = Len(s) - 1
         /\ \A n \in 1 .. Len(s) - 1 : SubSeq(s, 1, Len(s) - 1)[n] = s[n]
         /\ Range(SubSeq(s, 1, Len(s) - 1)) \subseteq Range(s)
         /\ \A x \in Range(s) :
              x = s[Len(s)] \/ x \in Range(SubSeq(s, 1, Len(s) - 1))
<1> DEFINE f == SubSeq(s, 1, Len(s) - 1)
<1>1. Len(s) \in Nat /\ Len(s) > 0 /\ \A n \in 1 .. Len(s) - 1 : s[n] \in S
  OBVIOUS
<1>2. /\ f \in Seq(S) /\ Len(f) = Len(s) - 1
      /\ \A n \in 1 .. (Len(s) - 1) - 1 + 1 : f[n] = s[1 + n - 1]
  <2> DEFINE m == Len(s) - 1
  <2>1. m \in Int /\ 1 \in Int /\ \A n \in 1 .. m : s[n] \in S BY <1>1
  <2> HIDE DEF m
  <2>2. /\ SubSeq(s, 1, m) \in Seq(S)
        /\ Len(SubSeq(s, 1, m)) = IF 1 <= m THEN m - 1 + 1 ELSE 0
        /\ \A n \in 1 .. m - 1 + 1 : SubSeq(s, 1, m)[n] = s[1 + n - 1]
    BY <2>1, SubSeqProperties
  <2>3. m = Len(s) - 1 /\ f = SubSeq(s, 1, m) BY DEF m
  <2> HIDE DEF f
  <2>4. Len(f) = Len(s) - 1 BY <1>1, <2>2, <2>3
  <2>5. \A n \in 1 .. (Len(s) - 1) - 1 + 1 : f[n] = s[1 + n - 1]
    BY <2>2, <2>3
  <2>6. f \in Seq(S) BY <2>2, <2>3
  <2> QED BY <2>4, <2>5, <2>6
<1> HIDE DEF f
<1>3. \A n \in 1 .. Len(s) - 1 : f[n] = s[n]
  BY <1>1, <1>2
<1>4. Range(f) = {f[n] : n \in 1 .. Len(f)} /\ Range(s) = {s[n] : n \in 1 .. Len(s)}
  BY <1>2, RangeEquality
<1>5. \A x \in Range(s) : x = s[Len(s)] \/ x \in Range(f)
  <2> TAKE x \in Range(s)
  <2>1. PICK n \in 1 .. Len(s) : x = s[n] BY <1>4
  <2>2. n = Len(s) \/ n \in 1 .. Len(f) BY <1>1, <1>2
  <2> QED BY <1>2, <1>3, <1>4, <2>1, <2>2
<1>6. Range(f) \subseteq Range(s)
  <2> SUFFICES ASSUME NEW n \in 1 .. Len(f) PROVE f[n] \in Range(s)
    BY <1>4
  <2>1. n \in 1 .. Len(s) /\ f[n] = s[n] BY <1>1, <1>2, <1>3
  <2> QED BY <1>4, <2>1
<1> QED BY <1>2, <1>3, <1>5, <1>6 DEF f

-----------------------------------------------------------------------------
(* Programs: what addToJson of each class writes, and that it is enough    *)
(* for what the class reads.                                               *)

Words == {"order", "native", "self", "base", "field", "value", "modulus",
          "negpinv", "r", "r3", "a", "b", "cofac", "pairing", "G1", "G2", "GT",
          "Zr", "Eq", "Fq", "Fq2", "phikonr"}

LEMMA AbstractSteps ==
  ASSUME NEW i \in Ids
  PROVE  /\ AbstractField(i) \in Seq(Words)
         /\ Range(AbstractField(i)) =
              {"order"} \cup (IF i \in known THEN {"native"} ELSE {})
<1>1. /\ <<"order">> \in Seq(Words) /\ Range(<<"order">>) = {"order"}
      /\ <<"order", "native">> \in Seq(Words)
      /\ Range(<<"order", "native">>) = {"order", "native"}
  BY DEF Words, Range
<1> QED BY <1>1 DEF AbstractField

LEMMA SubSteps ==
  ASSUME NEW i \in Ids
  PROVE  /\ SubField(i) \in Seq(Words)
         /\ Range(SubField(i)) = Range(AbstractField(i)) \cup {"self", "base"}
<1> DEFINE own == <<"self", "base">>
<1>1. own \in Seq(Words) BY DEF Words
<1>2. Range(own) = {"self", "base"} BY DEF Range
<1>3. AbstractField(i) \in Seq(Words) BY AbstractSteps
<1>4. SubField(i) = AbstractField(i) \o own BY DEF SubField
<1> HIDE DEF own
<1>5. Range(AbstractField(i) \o own) = Range(AbstractField(i)) \cup Range(own)
  BY <1>1, <1>3, RangeConcatenation
<1>6. AbstractField(i) \o own \in Seq(Words)
  BY <1>1, <1>3, ConcatProperties
<1> QED BY <1>2, <1>4, <1>5, <1>6

LEMMA ProgramSteps ==
  ASSUME NEW i \in Ids
  PROVE  /\ Program(i) \in Seq(Steps(i))
         /\ Kind[i] \in {"montfp", "curve", "fi", "mulg"} =>
              Range(AbstractField(i)) \subseteq Steps(i)
         /\ Read(Kind[i]) \subseteq Keys(i) \cup
              (IF Kind[i] = "mulg" /\ ~HasPairing(i) THEN {"pairing"} ELSE {})
         /\ "value" \in Steps(i) => Kind[i] = "element"
<1>1. Kind[i] \in Kinds BY ExportGraph
<1> DEFINE mont == <<"self", "modulus", "negpinv", "r", "r3">>
           curv == <<"self", "a", "b", "cofac">>
           elem == <<"field", "value">>
           pair == <<"G1", "G2", "GT", "Zr", "Eq", "Fq", "Fq2", "r", "phikonr">>
           link == <<"self", "pairing">>
           none == <<"self">>
<1>2. /\ mont \in Seq(Words) /\ Range(mont) = {"self", "modulus", "negpinv", "r", "r3"}
      /\ curv \in Seq(Words) /\ Range(curv) = {"self", "a", "b", "cofac"}
  BY DEF Words, Range
<1>3. /\ elem \in Seq(Words) /\ Range(elem) = {"field", "value"}
      /\ link \in Seq(Words) /\ Range(link) = {"self", "pairing"}
      /\ none \in Seq(Words) /\ Range(none) = {"self"}
  BY DEF Words, Range
<1>4. pair \in Seq(Words) /\ Range(pair) = {"G1", "G2", "GT", "Zr", "Eq", "Fq",
                                            "Fq2", "r", "phikonr"}
  BY DEF Words, Range
<1>5. /\ AbstractField(i) \in Seq(Words) /\ SubField(i) \in Seq(Words)
      /\ "order" \in Range(AbstractField(i)) /\ "value" \notin Range(AbstractField(i))
      /\ Range(SubField(i)) = Range(AbstractField(i)) \cup {"self", "base"}
  BY AbstractSteps, SubSteps
<1> HIDE DEF mont, curv, elem, pair, link, none
<1>6. CASE Kind[i] = "element"
  <2>1. Program(i) = elem BY <1>6 DEF Program, Element, elem
  <2> QED BY <1>3, <1>6, <2>1, SeqOfRange
    DEF Steps, Keys, Read, ReadByElement
<1>7. CASE Kind[i] = "montfp"
  <2>1. Program(i) = AbstractField(i) \o mont
    BY <1>7 DEF Program, MontFPField, mont
  <2>2. /\ Program(i) \in Seq(Words)
        /\ Steps(i) = Range(AbstractField(i)) \cup Range(mont)
    BY <1>2, <1>5, <2>1, ConcatProperties, RangeConcatenation DEF Steps
  <2> QED BY <1>2, <1>5, <1>7, <2>2, SeqOfRange
    DEF Steps, Keys, Read, ReadByMontFPField, ReadByField
<1>8. CASE Kind[i] = "curve"
  <2>1. Program(i) = AbstractField(i) \o curv
    BY <1>8 DEF Program, CurveField, curv
  <2>2. /\ Program(i) \in Seq(Words)
        /\ Steps(i) = Range(AbstractField(i)) \cup Range(curv)
    BY <1>2, <1>5, <2>1, ConcatProperties, RangeConcatenation DEF Steps
  <2> QED BY <1>2, <1>5, <1>8, <2>2, SeqOfRange
    DEF Steps, Keys, Read, ReadByField
<1>9. CASE Kind[i] = "fi"
  <2>1. Program(i) = SubField(i) BY <1>9 DEF Program
  <2> QED BY <1>5, <1>9, <2>1, SeqOfRange
    DEF Steps, Keys, Read, ReadByField
<1>10. CASE Kind[i] = "mulg" /\ HasPairing(i)
  <2>1. Program(i) = SubField(i) \o link
    BY <1>10 DEF Program, MultiplicativeSubgroup, link
  <2>2. /\ Program(i) \in Seq(Words)
        /\ Steps(i) = Range(SubField(i)) \cup Range(link)
    BY <1>3, <1>5, <2>1, ConcatProperties, RangeConcatenation DEF Steps
  <2> QED BY <1>3, <1>5, <1>10, <2>2, SeqOfRange
    DEF Steps, Keys, Read, ReadByField
<1>11. CASE Kind[i] = "mulg" /\ ~HasPairing(i)
  <2>1. Program(i) = SubField(i) \o none
    BY <1>11 DEF Program, MultiplicativeSubgroup, none
  <2>2. /\ Program(i) \in Seq(Words)
        /\ Steps(i) = Range(SubField(i)) \cup Range(none)
    BY <1>3, <1>5, <2>1, ConcatProperties, RangeConcatenation DEF Steps
  <2> QED BY <1>3, <1>5, <1>11, <2>2, SeqOfRange
    DEF Steps, Keys, Read, ReadByField
<1>12. CASE Kind[i] = "pairing"
  <2>1. Program(i) = pair BY <1>12 DEF Program, Pairing, pair
  <2> QED BY <1>4, <1>12, <2>1, SeqOfRange
    DEF Steps, Keys, Read, ReadByPairing
<1> QED BY <1>1, <1>6, <1>7, <1>8, <1>9, <1>10, <1>11, <1>12 DEF Kinds

-----------------------------------------------------------------------------
Scene ==
  /\ asserts \in BOOLEAN
  /\ alive \subseteq Ids /\ root \in alive /\ final \subseteq Ids
  /\ known \subseteq {i \in Ids : "native" \in DOMAIN Ref[i]}
  /\ \A l \in unset : l[1] \in Ids

(* Only running calls have something left to do, and what runs is          *)
(* described; the root comes first.                                        *)
Walk ==
  /\ \A i \in Ids : rest[i] # <<>> => i \in Range(stack)
  /\ Range(stack) \subseteq described
  /\ described # {} => root \in described
  /\ outcome = "ok" => stack = <<>> /\ described # {}
  /\ \A i \in described : Passes(i)

(* A running call has a reference no older than the document as it was     *)
(* created.                                                                *)
Room ==
  /\ capacity >= Capacity
  /\ \A i \in Range(stack) : Capacity <= taken[i] /\ taken[i] <= capacity

(* Every key of a description is still to be written, or was; the cofactor *)
(* is never that of an unfinished curve.                                   *)
Done(i, k) ==
  /\ k \in DOMAIN Ref[i] => Reaches(i, k) /\ Ref[i][k] \in described
  /\ k = "cofac" => i \in final
  /\ Fits => k \in members[i] \/ (k = "value" /\ Unprinted(i))

Accounted ==
  \A i \in described : \A k \in Keys(i) : k \in Range(rest[i]) \/ Done(i, k)

IInv == TypeOK /\ Scene /\ OnceEach /\ Walk /\ Room /\ Accounted

LEMMA InitIInv == Init => IInv
<1> SUFFICES ASSUME Init PROVE IInv
  OBVIOUS
<1>1. Scene BY ScenarioAssumption DEF Init, Scene
<1>2. stack = <<>> /\ Range(stack) = {} /\ Len(stack) = 0 /\ described = {}
  BY DEF Init, Range
<1>3. TypeOK
  <2>1. \A i \in Ids : rest[i] \in Seq(Steps(i)) /\ members[i] \subseteq Keys(i)
    BY DEF Init
  <2> QED BY <1>1, <1>2, <2>1, CapacityAssumption DEF Init, TypeOK, Scene
<1>4. OnceEach /\ Room /\ Accounted
  BY <1>2, CapacityAssumption DEF Init, OnceEach, Room, Accounted
<1>5. Walk BY <1>2 DEF Init, Walk
<1> QED BY <1>1, <1>3, <1>4, <1>5 DEF IInv

LEMMA GrownProperties ==
  ASSUME TypeOK PROVE Grown \in Nat /\ Grown >= capacity
<1>1. capacity \in Nat BY DEF TypeOK
<1>2. (capacity + 1) \div 2 \in Nat BY <1>1
<1> QED BY <1>1, <1>2 DEF Grown

LEMMA PassesKept ==
  ASSUME NEW i \in Ids, Passes(i), UNCHANGED graph PROVE Passes(i)'
BY DEF Passes, Ready, QuadFinal, graph

LEMMA StepsKept ==
  ASSUME NEW i \in Ids, UNCHANGED graph
  PROVE  Program(i)' = Program(i) /\ Steps(i)' = Steps(i) /\ Keys(i)' = Keys(i)
BY DEF Program, Steps, Keys, AbstractField, SubField, graph, MontFPField,
       CurveField, MultiplicativeSubgroup, HasPairing, Reaches

(* A description is begun.                                                 *)
LEMMA BeginIInv ==
  ASSUME IInv, NEW i \in Ids, Begin(i), Passes(i), i \notin described,
         i = root \/ described # {}, outcome = "none",
         UNCHANGED <<graph, members, text, outcome>>
  PROVE  IInv'
<1>1. /\ stack \in Seq(Ids) /\ DOMAIN rest = Ids /\ DOMAIN members = Ids
      /\ taken \in [Ids -> Nat] /\ capacity \in Nat /\ described \subseteq Ids
  BY DEF IInv, TypeOK
<1>2. /\ stack' \in Seq(Ids) /\ Len(stack') = Len(stack) + 1
      /\ \A n \in 1 .. Len(stack) : stack'[n] = stack[n]
      /\ stack'[Len(stack) + 1] = i
      /\ Range(stack') = Range(stack) \cup {i}
  BY <1>1, AppendOf DEF Begin
<1>3. /\ rest' = [rest EXCEPT ![i] = Program(i)]
      /\ taken' = [taken EXCEPT ![i] = Grown] /\ capacity' = Grown
      /\ described' = described \cup {i} /\ members' = members /\ outcome' = outcome
  BY DEF Begin
<1>4. Grown \in Nat /\ Grown >= capacity BY GrownProperties DEF IInv
<1>5. Program(i) \in Seq(Steps(i)) BY ProgramSteps
<1>6. TypeOK'
  <2>1. \A j \in Ids : rest'[j] \in Seq(Steps(j))' /\ members'[j] \subseteq Keys(j)'
    BY <1>1, <1>3, <1>5, StepsKept DEF IInv, TypeOK
  <2> QED BY <1>1, <1>2, <1>3, <1>4, <2>1 DEF IInv, TypeOK, graph
<1>7. Scene' BY DEF IInv, Scene, graph
<1>8. i \notin Range(stack) BY DEF IInv, Walk
<1>9. OnceEach'
  <2> SUFFICES ASSUME NEW m \in 1 .. Len(stack) + 1, NEW n \in 1 .. Len(stack) + 1,
                      stack'[m] = stack'[n]
               PROVE  m = n
    BY <1>2 DEF OnceEach
  <2>1. Len(stack) \in Nat BY <1>1
  <2>2. \A k \in 1 .. Len(stack) : stack[k] \in Range(stack)
    BY <1>1 DEF Range
  <2>3. \A k \in 1 .. Len(stack) : stack'[k] # i
    BY <1>2, <1>8, <2>2
  <2>4. CASE m = Len(stack) + 1 \/ n = Len(stack) + 1
    BY <1>2, <2>1, <2>3, <2>4
  <2>5. CASE m \in 1 .. Len(stack) /\ n \in 1 .. Len(stack)
    BY <1>2, <2>5 DEF IInv, OnceEach
  <2> QED BY <2>1, <2>4, <2>5
<1>10. Walk'
  <2>1. \A j \in Ids : rest'[j] # <<>> => j \in Range(stack')
    BY <1>1, <1>2, <1>3 DEF IInv, Walk
  <2>2. \A j \in described' : Passes(j)'
    BY <1>1, <1>3, PassesKept DEF IInv, Walk
  <2> QED BY <1>2, <1>3, <2>1, <2>2 DEF IInv, Walk, graph
<1>11. Room'
  <2>1. Capacity \in Nat BY CapacityAssumption
  <2>2. \A j \in Range(stack') : j \in Ids /\ (j # i => j \in Range(stack))
    BY <1>1, <1>2 DEF IInv, Walk
  <2> QED BY <1>1, <1>3, <1>4, <2>1, <2>2 DEF IInv, Room
<1>12. Accounted'
  <2> SUFFICES ASSUME NEW j \in described', NEW k \in Keys(j)',
                      k \notin Range(rest'[j])
               PROVE  Done(j, k)'
    BY DEF Accounted
  <2>1. j \in Ids /\ k \in Keys(j) BY <1>1, <1>3, StepsKept
  <2>2. j # i BY <1>1, <1>3, <2>1 DEF Keys, Steps
  <2>3. Done(j, k) BY <1>1, <1>3, <2>1, <2>2 DEF IInv, Accounted
  <2>4. Fits' => Fits
    BY <1>1, <1>3, <1>4, CapacityAssumption DEF IInv, Room, Fits
  <2> QED BY <1>3, <2>3, <2>4 DEF Done, Reaches, Unprinted, graph
<1> QED BY <1>6, <1>7, <1>9, <1>10, <1>11, <1>12 DEF IInv

(* What the top of the stack is, and what taking a step off its program    *)
(* leaves.                                                                 *)
LEMMA TopProperties ==
  ASSUME IInv, Running
  PROVE  /\ Top \in Ids /\ Top \in Range(stack) /\ Top \in described
         /\ rest[Top] # <<>> =>
              /\ NextStep \in Steps(Top)
              /\ Tail(rest[Top]) \in Seq(Steps(Top))
              /\ \A k \in Range(rest[Top]) :
                   k = NextStep \/ k \in Range(Tail(rest[Top]))
<1>1. stack \in Seq(Ids) /\ stack # <<>> BY DEF IInv, TypeOK, Running
<1>2. Top \in Ids /\ Top \in Range(stack) BY <1>1, LastOf DEF Top
<1>3. Top \in described BY <1>2 DEF IInv, Walk
<1>4. rest[Top] \in Seq(Steps(Top)) BY <1>2 DEF IInv, TypeOK
<1> QED BY <1>2, <1>3, <1>4, HeadTail DEF NextStep

(* A step of the running program is done, which adds a member if self is   *)
(* fresh; an element that is not initialized may have none to add.         *)
LEMMA StepIInv ==
  ASSUME IInv, Running, rest[Top] # <<>>, NextStep # "self",
         NextStep \in DOMAIN Ref[Top] =>
           Target \in described /\ Reaches(Top, NextStep),
         NextStep = "cofac" => Top \in final,
         rest' = [rest EXCEPT ![Top] = Tail(@)],
         UNCHANGED <<graph, stack, described, capacity, taken, outcome>>,
         \/ members' = IF Fresh THEN [members EXCEPT ![Top] = @ \cup {NextStep}]
                       ELSE members
         \/ members' = members /\ NextStep = "value" /\ Unprinted(Top)
  PROVE  IInv'
<1>1. /\ Top \in Ids /\ Top \in Range(stack) /\ Top \in described
      /\ NextStep \in Steps(Top) /\ Tail(rest[Top]) \in Seq(Steps(Top))
      /\ \A k \in Range(rest[Top]) : k = NextStep \/ k \in Range(Tail(rest[Top]))
  BY TopProperties
<1>2. /\ rest' = [rest EXCEPT ![Top] = Tail(rest[Top])]
      /\ UNCHANGED <<graph, stack, described, capacity, taken, outcome>>
      /\ members' \in {members, [members EXCEPT ![Top] = @ \cup {NextStep}]}
  OBVIOUS
<1>3. /\ DOMAIN rest = Ids /\ DOMAIN members = Ids /\ described \subseteq Ids
      /\ taken \in [Ids -> Nat] /\ capacity \in Nat
  BY DEF IInv, TypeOK
<1>4. TypeOK'
  <2>1. NextStep \in Keys(Top) BY <1>1 DEF Keys
  <2>2. \A j \in Ids : rest'[j] \in Seq(Steps(j))' /\ members'[j] \subseteq Keys(j)'
    BY <1>1, <1>2, <1>3, <2>1, StepsKept DEF IInv, TypeOK
  <2>3. DOMAIN rest' = Ids /\ DOMAIN members' = Ids BY <1>2, <1>3
  <2> QED BY <1>2, <2>2, <2>3 DEF IInv, TypeOK, graph
<1>5. Scene' /\ OnceEach' /\ Room'
  BY <1>2 DEF IInv, Scene, OnceEach, Room, graph
<1>6. Walk'
  <2>1. \A j \in Ids : rest'[j] # <<>> => j \in Range(stack')
    BY <1>1, <1>2, <1>3 DEF IInv, Walk
  <2>2. \A j \in described' : Passes(j)'
    BY <1>2, <1>3, PassesKept DEF IInv, Walk
  <2> QED BY <1>2, <2>1, <2>2 DEF IInv, Walk, graph
<1>7. Accounted'
  <2> SUFFICES ASSUME NEW j \in described', NEW k \in Keys(j)',
                      k \notin Range(rest'[j])
               PROVE  Done(j, k)'
    BY DEF Accounted
  <2>1. j \in described /\ j \in Ids /\ k \in Keys(j)
    BY <1>2, <1>3, StepsKept
  <2>2. Fits' = Fits /\ described' = described BY <1>2 DEF Fits
  <2>3. members[j] \subseteq members'[j] BY <1>1, <1>2, <1>3, <2>1
  <2>4. CASE Done(j, k)
    BY <1>2, <2>2, <2>3, <2>4 DEF Done, Reaches, Unprinted, graph
  <2>5. CASE ~Done(j, k)
    <3>1. k \in Range(rest[j]) BY <2>1, <2>5 DEF IInv, Accounted
    <3>2. j = Top /\ k = NextStep BY <1>1, <1>2, <1>3, <2>1, <3>1
    <3>3. Fits => Fresh
      BY <1>1, <1>3, CapacityAssumption DEF IInv, Room, Fits, Fresh
    <3>4. Fits => k \in members'[j] \/ (k = "value" /\ Unprinted(j))
      BY <1>1, <1>3, <3>2, <3>3
    <3>5. k \in DOMAIN Ref[j] => Reaches(j, k) /\ Ref[j][k] \in described
      BY <3>2 DEF Target
    <3>6. k = "cofac" => j \in final BY <3>2
    <3> QED BY <1>2, <2>2, <3>4, <3>5, <3>6 DEF Done, Reaches, Unprinted, graph
  <2> QED BY <2>4, <2>5
<1> QED BY <1>4, <1>5, <1>6, <1>7 DEF IInv

LEMMA TakeAgainIInv == ASSUME IInv, TakeAgain PROVE IInv'
<1>1. /\ Top \in Ids /\ Top \in Range(stack) /\ Top \in described
      /\ NextStep \in Steps(Top) /\ Tail(rest[Top]) \in Seq(Steps(Top))
      /\ \A k \in Range(rest[Top]) : k = NextStep \/ k \in Range(Tail(rest[Top]))
  BY TopProperties DEF TakeAgain
<1>2. /\ rest' = [rest EXCEPT ![Top] = Tail(rest[Top])] /\ NextStep = "self"
      /\ taken' = [taken EXCEPT ![Top] = capacity]
      /\ UNCHANGED <<graph, stack, described, members, text, capacity, outcome>>
  BY DEF TakeAgain
<1>3. /\ DOMAIN rest = Ids /\ DOMAIN members = Ids /\ described \subseteq Ids
      /\ taken \in [Ids -> Nat] /\ capacity \in Nat /\ Range(stack) \subseteq described
  BY DEF IInv, TypeOK, Walk
<1>4. TypeOK'
  <2>1. \A j \in Ids : rest'[j] \in Seq(Steps(j))' /\ members'[j] \subseteq Keys(j)'
    BY <1>1, <1>2, <1>3, StepsKept DEF IInv, TypeOK
  <2>2. DOMAIN rest' = Ids /\ taken' \in [Ids -> Nat] BY <1>2, <1>3
  <2> QED BY <1>2, <2>1, <2>2 DEF IInv, TypeOK, graph
<1>5. Scene' /\ OnceEach' BY <1>2 DEF IInv, Scene, OnceEach, graph
<1>6. Room' BY <1>1, <1>2, <1>3, CapacityAssumption DEF IInv, Room
<1>7. Walk'
  <2>1. \A j \in Ids : rest'[j] # <<>> => j \in Range(stack')
    BY <1>1, <1>2, <1>3 DEF IInv, Walk
  <2>2. \A j \in described' : Passes(j)'
    BY <1>2, <1>3, PassesKept DEF IInv, Walk
  <2> QED BY <1>2, <2>1, <2>2 DEF IInv, Walk, graph
<1>8. Accounted'
  <2> SUFFICES ASSUME NEW j \in described', NEW k \in Keys(j)',
                      k \notin Range(rest'[j])
               PROVE  Done(j, k)'
    BY DEF Accounted
  <2>1. j \in described /\ j \in Ids /\ k \in Keys(j) /\ k # "self"
    BY <1>2, <1>3, StepsKept DEF Keys
  <2>2. k \notin Range(rest[j]) BY <1>1, <1>2, <1>3, <2>1
  <2>3. Done(j, k) BY <2>1, <2>2 DEF IInv, Accounted
  <2> QED BY <1>2, <2>3 DEF Done, Fits, Reaches, Unprinted, graph
<1> QED BY <1>4, <1>5, <1>6, <1>7, <1>8 DEF IInv

(* Every call returns in its turn.                                         *)
LEMMA LeaveIInv == ASSUME IInv, Leave PROVE IInv'
<1>1. /\ stack \in Seq(Ids) /\ stack # <<>> /\ rest[Top] = <<>>
      /\ stack' = SubSeq(stack, 1, Len(stack) - 1)
      /\ outcome' = IF Len(stack) = 1 THEN "ok" ELSE "none"
      /\ UNCHANGED <<graph, rest, described, members, text, capacity, taken>>
  BY DEF IInv, TypeOK, Leave, Running
<1>2. /\ stack' \in Seq(Ids) /\ Len(stack') = Len(stack) - 1
      /\ \A n \in 1 .. Len(stack) - 1 : stack'[n] = stack[n]
      /\ Range(stack') \subseteq Range(stack)
      /\ \A x \in Range(stack) : x = Top \/ x \in Range(stack')
  BY <1>1, FrontOf DEF Top
<1>3. Top \in described BY TopProperties DEF Leave
<1>4. TypeOK'
  <2>1. \A j \in Ids : rest'[j] \in Seq(Steps(j))' /\ members'[j] \subseteq Keys(j)'
    BY <1>1, StepsKept DEF IInv, TypeOK
  <2> QED BY <1>1, <1>2, <2>1 DEF IInv, TypeOK, graph
<1>5. Scene' BY <1>1 DEF IInv, Scene, graph
<1>6. OnceEach'
  <2>1. \A n \in 1 .. Len(stack) - 1 : n \in 1 .. Len(stack) BY <1>1
  <2> QED BY <1>1, <1>2, <2>1 DEF IInv, OnceEach
<1>7. Room' BY <1>1, <1>2 DEF IInv, Room
<1>8. Walk'
  <2>1. \A j \in Ids : rest'[j] # <<>> => j \in Range(stack')
    BY <1>1, <1>2 DEF IInv, Walk
  <2>2. \A j \in described' : Passes(j)'
    BY <1>1, PassesKept DEF IInv, Walk, TypeOK
  <2>3. outcome' = "ok" => stack' = <<>> BY <1>1, <1>2
  <2> QED BY <1>1, <1>2, <1>3, <2>1, <2>2, <2>3 DEF IInv, Walk, graph
<1>9. Accounted'
  <2>1. \A j \in described : Keys(j)' = Keys(j)
    BY <1>1, StepsKept DEF IInv, TypeOK
  <2> QED BY <1>1, <2>1 DEF IInv, Accounted, Done, Fits, Reaches, Unprinted,
                            graph
<1> QED BY <1>4, <1>5, <1>6, <1>7, <1>8, <1>9 DEF IInv

LEMMA StopIInv ==
  ASSUME IInv, outcome' \in {"throw", "abort"},
         UNCHANGED <<graph, stack, rest, described, members, text, capacity, taken>>
  PROVE  IInv'
<1>1. TypeOK'
  <2>1. \A j \in Ids : rest'[j] \in Seq(Steps(j))' /\ members'[j] \subseteq Keys(j)'
    BY StepsKept DEF IInv, TypeOK
  <2> QED BY <2>1 DEF IInv, TypeOK, graph
<1>2. Scene' /\ OnceEach' /\ Room' BY DEF IInv, Scene, OnceEach, Room, graph
<1>3. Walk'
  <2>1. \A j \in described' : Passes(j)'
    BY PassesKept DEF IInv, Walk, TypeOK
  <2> QED BY <2>1 DEF IInv, Walk, graph
<1>4. Accounted'
  <2>1. \A j \in described : Keys(j)' = Keys(j) BY StepsKept DEF IInv, TypeOK
  <2> QED BY <2>1 DEF IInv, Accounted, Done, Fits, Reaches, Unprinted,
                            graph
<1> QED BY <1>1, <1>2, <1>3, <1>4 DEF IInv

(* The call reads native data that is not there.                           *)
LEMMA PrintsGarbageIInv == ASSUME IInv, PrintsGarbage PROVE IInv'
<1>1. /\ Running /\ rest[Top] # <<>> /\ NextStep = "value" /\ Top \notin final
  BY DEF PrintsGarbage, Bare
<1>2. Top \in Ids /\ Top \in described BY <1>1, TopProperties
<1>3. Unprinted(Top)
  BY <1>1, <1>2 DEF IInv, Walk, Passes, Ready, QuadFinal, Unprinted
<1>4. NextStep \notin DOMAIN Ref[Top]
  <2>1. Kind[Top] \in Kinds /\ DOMAIN Ref[Top] \subseteq KeysOf(Kind[Top])
    BY <1>2, ExportGraph
  <2> QED BY <1>1, <2>1 DEF Kinds, KeysOf
<1>5. CASE /\ outcome' \in {"abort", "throw"}
           /\ UNCHANGED <<graph, stack, rest, described, members, text, capacity,
                         taken>>
  BY <1>5, StopIInv
<1>6. CASE AddMember(NextStep) BY <1>1, <1>4, <1>6, StepIInv DEF AddMember
<1>7. CASE /\ rest' = [rest EXCEPT ![Top] = Tail(@)]
           /\ UNCHANGED <<graph, stack, described, members, text, capacity,
                         taken, outcome>>
  BY <1>1, <1>3, <1>4, <1>7, StepIInv
<1> QED BY <1>5, <1>6, <1>7 DEF PrintsGarbage

LEMMA NextIInv == IInv /\ [Next]_vars => IInv'
<1> SUFFICES ASSUME IInv, [Next]_vars PROVE IInv'
  OBVIOUS
<1>1. CASE ExportJson
  <2>1. root \in Ids BY DEF IInv, Scene
  <2> QED BY <1>1, <2>1, BeginIInv DEF ExportJson
<1>2. CASE Descend
  <2>1. Running BY <1>2 DEF Descend, AtReference
  <2>2. Top \in Ids /\ Top \in described BY <2>1, TopProperties
  <2>3. Target \in Ids
    BY <1>2, <2>2, ExportGraph DEF Descend, AtReference, Target
  <2> QED BY <1>2, <2>1, <2>2, <2>3, BeginIInv DEF Descend, Running, Contains
<1>3. CASE AddReference
  <2>1. "self" \notin DOMAIN Ref[Top]
    <3>1. Top \in Ids BY <1>3, TopProperties DEF AddReference, AtReference
    <3>2. Kind[Top] \in Kinds /\ DOMAIN Ref[Top] \subseteq KeysOf(Kind[Top])
      BY <3>1, ExportGraph
    <3> QED BY <3>2 DEF Kinds, KeysOf
  <2>2. NextStep # "cofac"
    <3>1. Top \in Ids BY <1>3, TopProperties DEF AddReference, AtReference
    <3>2. Kind[Top] \in Kinds /\ DOMAIN Ref[Top] \subseteq KeysOf(Kind[Top])
      BY <3>1, ExportGraph
    <3> QED BY <1>3, <3>2 DEF Kinds, KeysOf, AddReference, AtReference
  <2> QED BY <1>3, <2>1, <2>2, StepIInv
    DEF AddReference, AtReference, Contains, AddMember
<1>4. CASE AddField BY <1>4, StepIInv DEF AddField, AddMember, Bare
<1>5. CASE TakeAgain BY <1>5, TakeAgainIInv
<1>6. CASE Leave BY <1>6, LeaveIInv
<1>7. CASE Expired BY <1>7, StopIInv DEF Expired
<1>8. CASE AssertionFails BY <1>8, StopIInv DEF AssertionFails
<1>9. CASE CofacCrashes BY <1>9, StopIInv DEF CofacCrashes
<1>10. CASE PrintsGarbage BY <1>10, PrintsGarbageIInv
<1>11. CASE UNCHANGED vars
  <2>1. UNCHANGED <<graph, stack, rest, described, members, text, capacity,
                    taken, outcome>>
    BY <1>11 DEF vars
  <2>2. \A j \in Ids : Keys(j)' = Keys(j) /\ Steps(j)' = Steps(j)
    BY <2>1, StepsKept
  <2>3. TypeOK' BY <2>1, <2>2 DEF IInv, TypeOK, graph
  <2>4. Scene' /\ OnceEach' /\ Room'
    BY <2>1 DEF IInv, Scene, OnceEach, Room, graph
  <2>5. \A j \in described' : Passes(j)'
    BY <2>1, PassesKept DEF IInv, Walk, TypeOK
  <2>6. Walk' BY <2>1, <2>5 DEF IInv, Walk, graph
  <2>7. \A j \in described : Keys(j)' = Keys(j) BY <2>2 DEF IInv, TypeOK
  <2>8. Accounted' BY <2>1, <2>7 DEF IInv, Accounted, Done, Fits, Reaches, Unprinted,
                            graph
  <2> QED BY <2>3, <2>4, <2>6, <2>8 DEF IInv
<1> QED
  BY <1>1, <1>2, <1>3, <1>4, <1>5, <1>6, <1>7, <1>8, <1>9, <1>10, <1>11 DEF Next

-----------------------------------------------------------------------------
(* What a document that grows does not lose.  A sturdy member is written   *)
(* right after its call took a reference, and a call that waits for the    *)
(* ones above it is about to write a reference.                            *)
Prompt ==
  \A i \in Ids : rest[i] # <<>> /\ Head(rest[i]) \in Sturdy => taken[i] = capacity

Waiting ==
  \A n \in 1 .. Len(stack) - 1 :
    rest[stack[n]] # <<>> /\ Head(rest[stack[n]]) \in DOMAIN Ref[stack[n]]

After(s) == \A n \in 2 .. Len(s) : s[n] \in Sturdy => s[n - 1] = "self"

NeverLost ==
  \A i \in described : \A k \in Keys(i) \cap Sturdy :
    k \in Range(rest[i]) \/ k \in members[i]

Lossless == Prompt /\ Waiting /\ (\A i \in Ids : After(rest[i])) /\ NeverLost

LEMMA NotSturdy ==
  ASSUME NEW i \in Ids PROVE DOMAIN Ref[i] \cap (Sturdy \cup {"self"}) = {}
<1>1. Kind[i] \in Kinds /\ DOMAIN Ref[i] \subseteq KeysOf(Kind[i]) BY ExportGraph
<1> QED BY <1>1 DEF Kinds, KeysOf, Sturdy

LEMMA AfterTail ==
  ASSUME NEW S, NEW s \in Seq(S), s # <<>>, After(s)
  PROVE  /\ After(Tail(s))
         /\ Tail(s) # <<>> /\ Head(Tail(s)) \in Sturdy => Head(s) = "self"
<1>1. /\ Len(s) \in Nat /\ Tail(s) \in Seq(S) /\ Len(Tail(s)) = Len(s) - 1
      /\ \A n \in 1 .. Len(s) - 1 : Tail(s)[n] = s[n + 1]
      /\ Head(s) = s[1]
  BY HeadTailProperties
<1>2. ASSUME NEW n \in 2 .. Len(Tail(s)), Tail(s)[n] \in Sturdy
      PROVE  Tail(s)[n - 1] = "self"
  <2>1. n + 1 \in 2 .. Len(s) /\ (n + 1) - 1 = n /\ n \in 1 .. Len(s) - 1
        /\ n - 1 \in 1 .. Len(s) - 1 /\ (n - 1) + 1 = n
    BY <1>1
  <2>2. s[n + 1] \in Sturdy BY <1>1, <1>2, <2>1
  <2>3. s[n] = "self" BY <2>1, <2>2 DEF After
  <2> QED BY <1>1, <2>1, <2>3
<1>3. ASSUME Tail(s) # <<>>, Head(Tail(s)) \in Sturdy PROVE s[1] = "self"
  <2>1. Head(Tail(s)) = Tail(s)[1] /\ Len(Tail(s)) > 0 BY <1>1, <1>3
  <2>2. 2 \in 2 .. Len(s) /\ 1 \in 1 .. Len(s) - 1 BY <1>1, <2>1
  <2>3. s[2] \in Sturdy BY <1>1, <1>3, <2>1, <2>2
  <2> QED BY <2>2, <2>3 DEF After
<1> QED BY <1>1, <1>2, <1>3 DEF After

LEMMA AfterConcat ==
  ASSUME NEW S, NEW s \in Seq(S), NEW t \in Seq(S), After(s), After(t),
         t # <<>> => t[1] \notin Sturdy
  PROVE  After(s \o t)
<1>1. /\ Len(s) \in Nat /\ Len(t) \in Nat /\ Len(s \o t) = Len(s) + Len(t)
      /\ \A n \in 1 .. Len(s) + Len(t) :
           (s \o t)[n] = IF n <= Len(s) THEN s[n] ELSE t[n - Len(s)]
  BY ConcatProperties
<1> SUFFICES ASSUME NEW n \in 2 .. Len(s) + Len(t), (s \o t)[n] \in Sturdy
             PROVE  (s \o t)[n - 1] = "self"
  BY <1>1 DEF After
<1>2. CASE n <= Len(s)
  <2>1. n \in 2 .. Len(s) /\ s[n] \in Sturdy BY <1>1, <1>2
  <2>2. s[n - 1] = "self" BY <2>1 DEF After
  <2>3. n - 1 \in 1 .. Len(s) + Len(t) /\ n - 1 <= Len(s) BY <1>1, <1>2
  <2> QED BY <1>1, <2>2, <2>3
<1>3. CASE n = Len(s) + 1
  <2>1. t # <<>> /\ n - Len(s) = 1 /\ ~(n <= Len(s)) /\ n \in 1 .. Len(s) + Len(t)
    BY <1>1, <1>3
  <2>2. (s \o t)[n] = t[1] BY <1>1, <2>1
  <2> QED BY <2>1, <2>2
<1>4. CASE n > Len(s) + 1
  <2> DEFINE m == n - Len(s)
  <2>1. /\ m \in 2 .. Len(t) /\ ~(n <= Len(s)) /\ n \in 1 .. Len(s) + Len(t)
        /\ n - 1 \in 1 .. Len(s) + Len(t) /\ ~(n - 1 <= Len(s))
        /\ (n - 1) - Len(s) = m - 1
    BY <1>1, <1>4
  <2>2. t[m] \in Sturdy BY <1>1, <2>1
  <2>3. t[m - 1] = "self" BY <2>1, <2>2 DEF After
  <2> QED BY <1>1, <2>1, <2>3
<1> QED BY <1>1, <1>2, <1>3, <1>4

LEMMA ProgramAfter == ASSUME NEW i \in Ids PROVE After(Program(i))
<1>1. Kind[i] \in Kinds BY ExportGraph
<1>2. AbstractField(i) \in Seq(Words) /\ After(AbstractField(i))
  BY AbstractSteps DEF AbstractField, After, Sturdy
<1>3. ASSUME NEW t \in Seq(Words), t # <<>>, t[1] = "self", After(t)
      PROVE  After(AbstractField(i) \o t)
  BY <1>2, <1>3, AfterConcat DEF Sturdy
<1>4. SubField(i) \in Seq(Words) /\ After(SubField(i))
  <2> DEFINE own == <<"self", "base">>
  <2>1. own \in Seq(Words) /\ own # <<>> /\ own[1] = "self" /\ After(own)
    BY DEF Words, After, Sturdy
  <2>2. SubField(i) = AbstractField(i) \o own BY DEF SubField
  <2> HIDE DEF own
  <2> QED BY <1>3, <2>1, <2>2, SubSteps
<1>5. ASSUME NEW t \in Seq(Words), t # <<>>, t[1] = "self", After(t)
      PROVE  After(SubField(i) \o t)
  BY <1>4, <1>5, AfterConcat DEF Sturdy
<1> DEFINE mont == <<"self", "modulus", "negpinv", "r", "r3">>
           curv == <<"self", "a", "b", "cofac">>
           link == <<"self", "pairing">>
           none == <<"self">>
<1>6. mont \in Seq(Words) /\ mont # <<>> /\ mont[1] = "self" /\ After(mont)
  BY DEF Words, After, Sturdy
<1>7. curv \in Seq(Words) /\ curv # <<>> /\ curv[1] = "self" /\ After(curv)
  BY DEF Words, After, Sturdy
<1>8. /\ link \in Seq(Words) /\ link # <<>> /\ link[1] = "self" /\ After(link)
      /\ none \in Seq(Words) /\ none # <<>> /\ none[1] = "self" /\ After(none)
  BY DEF Words, After, Sturdy
<1>9. After(Element) /\ After(Pairing) BY DEF Element, Pairing, After, Sturdy
<1>10. /\ Kind[i] = "montfp" => Program(i) = AbstractField(i) \o mont
       /\ Kind[i] = "curve" => Program(i) = AbstractField(i) \o curv
       /\ Kind[i] = "fi" => Program(i) = SubField(i)
       /\ Kind[i] = "mulg" => Program(i) \in {SubField(i) \o link, SubField(i) \o none}
       /\ Kind[i] = "element" => Program(i) = Element
       /\ Kind[i] = "pairing" => Program(i) = Pairing
  BY DEF Program, MontFPField, CurveField, MultiplicativeSubgroup
<1> HIDE DEF mont, curv, link, none
<1> QED BY <1>1, <1>3, <1>4, <1>5, <1>6, <1>7, <1>8, <1>9, <1>10 DEF Kinds

LEMMA ProgramBegins ==
  ASSUME NEW i \in Ids PROVE Keys(i) \subseteq Range(Program(i))
BY DEF Keys, Steps

(* A description is begun with a new reference; the calls below wait.      *)
LEMMA BeginLossless ==
  ASSUME IInv, Lossless, NEW i \in Ids, Begin(i), i \notin described,
         stack # <<>> => rest[Top] # <<>> /\ NextStep \in DOMAIN Ref[Top],
         UNCHANGED <<graph, members>>
  PROVE  Lossless'
<1>1. /\ stack \in Seq(Ids) /\ DOMAIN rest = Ids /\ taken \in [Ids -> Nat]
      /\ described \subseteq Ids
      /\ rest' = [rest EXCEPT ![i] = Program(i)]
      /\ taken' = [taken EXCEPT ![i] = Grown] /\ capacity' = Grown
      /\ described' = described \cup {i} /\ members' = members
  BY DEF Begin, IInv, TypeOK
<1>2. /\ Len(stack) \in Nat /\ Len(stack') = Len(stack) + 1
      /\ \A n \in 1 .. Len(stack) : stack'[n] = stack[n]
  BY <1>1, AppendOf DEF Begin
<1>3. \A n \in 1 .. Len(stack) : stack[n] \in Ids /\ stack[n] \in Range(stack)
  BY <1>1 DEF Range
<1>4. i \notin Range(stack) BY DEF IInv, Walk
<1>5. \A n \in 1 .. Len(stack) :
        rest[stack[n]] # <<>> /\ Head(rest[stack[n]]) \in DOMAIN Ref[stack[n]]
  <2> TAKE n \in 1 .. Len(stack)
  <2>1. CASE n = Len(stack)
    <3>1. stack # <<>> BY <1>2, <2>1
    <3> QED BY <2>1, <3>1 DEF Top, NextStep
  <2>2. CASE n # Len(stack)
    <3>1. n \in 1 .. Len(stack) - 1 BY <1>2, <2>2
    <3> QED BY <3>1 DEF Lossless, Waiting
  <2> QED BY <2>1, <2>2
<1>6. Waiting'
  <2> SUFFICES ASSUME NEW n \in 1 .. Len(stack)
               PROVE  /\ rest'[stack'[n]] # <<>>
                      /\ Head(rest'[stack'[n]]) \in DOMAIN Ref[stack'[n]]
    BY <1>2 DEF Waiting
  <2>1. stack'[n] = stack[n] /\ stack[n] \in Ids /\ stack[n] # i
    BY <1>2, <1>3, <1>4
  <2>2. rest'[stack[n]] = rest[stack[n]] BY <1>1, <2>1
  <2> QED BY <1>5, <2>1, <2>2
<1>7. Prompt'
  <2> SUFFICES ASSUME NEW j \in Ids, rest'[j] # <<>>, Head(rest'[j]) \in Sturdy
               PROVE  taken'[j] = capacity'
    BY DEF Prompt, Sturdy
  <2>1. CASE j = i BY <1>1, <2>1
  <2>2. CASE j # i
    <3>1. rest'[j] = rest[j] BY <1>1, <2>2
    <3>2. j \in Range(stack) BY <3>1 DEF IInv, Walk
    <3>3. PICK n \in 1 .. Len(stack) : j = stack[n] BY <1>1, <3>2, RangeEquality
    <3>4. Head(rest[j]) \in DOMAIN Ref[j] BY <1>5, <3>3
    <3> QED BY <3>1, <3>4, NotSturdy
  <2> QED BY <2>1, <2>2
<1>8. \A j \in Ids : After(rest'[j])
  BY <1>1, ProgramAfter DEF Lossless
<1>9. NeverLost'
  <2> SUFFICES ASSUME NEW j \in described', NEW k \in Keys(j)' \cap Sturdy
               PROVE  k \in Range(rest'[j]) \/ k \in members'[j]
    BY DEF NeverLost, Sturdy
  <2>1. j \in Ids /\ k \in Keys(j) BY <1>1, StepsKept
  <2>2. CASE j = i BY <1>1, <2>1, <2>2, ProgramBegins
  <2>3. CASE j # i BY <1>1, <2>1, <2>3 DEF Lossless, NeverLost
  <2> QED BY <2>2, <2>3
<1> QED BY <1>6, <1>7, <1>8, <1>9 DEF Lossless, After, Sturdy

(* A step of the running program is done, and was not lost if it is a      *)
(* sturdy one.                                                             *)
LEMMA StepLossless ==
  ASSUME IInv, Lossless, Running, rest[Top] # <<>>,
         rest' = [rest EXCEPT ![Top] = Tail(@)],
         UNCHANGED <<graph, stack, described, capacity>>,
         taken' = IF NextStep = "self" THEN [taken EXCEPT ![Top] = capacity] ELSE taken,
         \A j \in Ids : members[j] \subseteq members'[j],
         NextStep \in Sturdy => NextStep \in members'[Top]
  PROVE  Lossless'
<1>1. /\ Top \in Ids /\ \A k \in Range(rest[Top]) :
                           k = NextStep \/ k \in Range(Tail(rest[Top]))
  BY TopProperties
<1>2. /\ stack \in Seq(Ids) /\ stack # <<>> /\ DOMAIN rest = Ids
      /\ taken \in [Ids -> Nat] /\ described \subseteq Ids
      /\ rest[Top] \in Seq(Steps(Top))
  BY <1>1 DEF IInv, TypeOK, Running
<1>3. /\ After(Tail(rest[Top]))
      /\ Tail(rest[Top]) # <<>> /\ Head(Tail(rest[Top])) \in Sturdy =>
           NextStep = "self"
  BY <1>1, <1>2, AfterTail DEF Lossless, NextStep
<1>4. /\ rest'[Top] = Tail(rest[Top])
      /\ \A j \in Ids : j # Top => rest'[j] = rest[j] /\ taken'[j] = taken[j]
      /\ NextStep = "self" => taken'[Top] = capacity'
  BY <1>1, <1>2
<1>5. Waiting'
  <2> SUFFICES ASSUME NEW n \in 1 .. Len(stack) - 1
               PROVE  /\ rest'[stack[n]] # <<>>
                      /\ Head(rest'[stack[n]]) \in DOMAIN Ref[stack[n]]
    BY DEF Waiting
  <2>1. Len(stack) \in Nat /\ n \in 1 .. Len(stack) /\ Len(stack) \in 1 .. Len(stack)
        /\ n # Len(stack) /\ stack[n] \in Ids
    BY <1>2
  <2>2. stack[n] # Top BY <2>1 DEF IInv, OnceEach, Top
  <2>3. rest'[stack[n]] = rest[stack[n]] BY <1>4, <2>1, <2>2
  <2> QED BY <2>3 DEF Lossless, Waiting
<1>6. Prompt'
  <2> SUFFICES ASSUME NEW j \in Ids, rest'[j] # <<>>, Head(rest'[j]) \in Sturdy
               PROVE  taken'[j] = capacity'
    BY DEF Prompt, Sturdy
  <2>1. CASE j = Top BY <1>3, <1>4, <2>1
  <2>2. CASE j # Top BY <1>4, <2>2 DEF Lossless, Prompt
  <2> QED BY <2>1, <2>2
<1>7. \A j \in Ids : After(rest'[j])
  <2> TAKE j \in Ids
  <2>1. CASE j = Top BY <1>3, <1>4, <2>1
  <2>2. CASE j # Top
    <3>1. rest'[j] = rest[j] BY <1>4, <2>2
    <3> QED BY <3>1 DEF Lossless
  <2> QED BY <2>1, <2>2
<1>8. NeverLost'
  <2> SUFFICES ASSUME NEW j \in described', NEW k \in Keys(j)' \cap Sturdy
               PROVE  k \in Range(rest'[j]) \/ k \in members'[j]
    BY DEF NeverLost, Sturdy
  <2>1. j \in Ids /\ j \in described /\ k \in Keys(j) BY <1>2, StepsKept
  <2>2. k \in Range(rest[j]) \/ k \in members[j] BY <2>1 DEF Lossless, NeverLost
  <2>3. CASE j = Top BY <1>1, <1>4, <2>1, <2>2, <2>3
  <2>4. CASE j # Top BY <1>4, <2>1, <2>2, <2>4
  <2> QED BY <2>3, <2>4
<1> QED BY <1>5, <1>6, <1>7, <1>8 DEF Lossless, After, Sturdy

LEMMA LosslessKept ==
  ASSUME IInv, Lossless,
         UNCHANGED <<graph, stack, rest, described, members, capacity, taken>>
  PROVE  Lossless'
<1>1. \A j \in described : Keys(j)' = Keys(j) BY StepsKept DEF IInv, TypeOK
<1> QED BY <1>1 DEF Lossless, Prompt, Waiting, After, NeverLost, Sturdy

LEMMA NextLossless == IInv /\ Lossless /\ [Next]_vars => Lossless'
<1> SUFFICES ASSUME IInv, Lossless, [Next]_vars PROVE Lossless'
  OBVIOUS
<1>1. CASE ExportJson
  <2>1. root \in Ids BY DEF IInv, Scene
  <2>2. stack = <<>>
    <3>1. stack \in Seq(Ids) /\ Range(stack) = {}
      BY <1>1 DEF ExportJson, IInv, TypeOK, Walk
    <3>2. ASSUME stack # <<>> PROVE FALSE BY <3>1, <3>2, LastOf
    <3> QED BY <3>2
  <2> QED BY <1>1, <2>1, <2>2, BeginLossless DEF ExportJson
<1>2. CASE Descend
  <2>1. Top \in Ids BY <1>2, TopProperties DEF Descend, AtReference
  <2>2. Target \in Ids
    BY <1>2, <2>1, ExportGraph DEF Descend, AtReference, Target
  <2> QED BY <1>2, <2>2, BeginLossless DEF Descend, AtReference, Contains
<1>3. CASE AddReference \/ AddField \/ PrintsGarbage
  <2>1. Running /\ Top \in Ids /\ rest[Top] # <<>> /\ DOMAIN members = Ids
    BY <1>3, TopProperties
      DEF AddReference, AddField, PrintsGarbage, AtReference, IInv, TypeOK
  <2>2. NextStep \in DOMAIN Ref[Top] => NextStep \notin Sturdy \cup {"self"}
    BY <2>1, NotSturdy
  <2>3. NextStep # "self"
    BY <1>3, <2>2 DEF AddReference, AddField, PrintsGarbage, AtReference
  <2>4. NextStep \in Sturdy => Fresh
    BY <2>1 DEF Lossless, Prompt, NextStep, Fresh
  <2>5. CASE AddMember(NextStep)
    <3>1. \A j \in Ids : members[j] \subseteq members'[j]
      BY <2>1, <2>5 DEF AddMember
    <3>2. NextStep \in Sturdy => NextStep \in members'[Top]
      BY <2>1, <2>4, <2>5 DEF AddMember
    <3> QED BY <2>1, <2>3, <2>5, <3>1, <3>2, StepLossless DEF AddMember
  <2>6. CASE UNCHANGED <<graph, stack, rest, described, members, capacity, taken>>
    BY <2>6, LosslessKept
  <2>7. CASE /\ PrintsGarbage
             /\ rest' = [rest EXCEPT ![Top] = Tail(@)]
             /\ UNCHANGED <<graph, stack, described, members, capacity, taken>>
    <3>1. NextStep \notin Sturdy BY <2>7 DEF PrintsGarbage, Sturdy
    <3> QED BY <2>1, <2>3, <2>7, <3>1, StepLossless
  <2> QED BY <1>3, <2>5, <2>6, <2>7 DEF AddReference, AddField, PrintsGarbage
<1>4. CASE TakeAgain
  <2>1. NextStep \notin Sturdy BY <1>4 DEF TakeAgain, Sturdy
  <2> QED BY <1>4, <2>1, StepLossless DEF TakeAgain
<1>5. CASE Leave
  <2>1. stack \in Seq(Ids) /\ stack # <<>> BY <1>5 DEF IInv, TypeOK, Leave, Running
  <2>2. /\ Len(stack) \in Nat /\ Len(stack') = Len(stack) - 1
        /\ \A n \in 1 .. Len(stack) - 1 : stack'[n] = stack[n]
    BY <1>5, <2>1, FrontOf DEF Leave
  <2>3. UNCHANGED <<graph, rest, described, members, capacity, taken>>
    BY <1>5 DEF Leave
  <2>4. Waiting' BY <2>2, <2>3 DEF Lossless, Waiting
  <2>5. \A j \in described : Keys(j)' = Keys(j)
    BY <2>3, StepsKept DEF IInv, TypeOK
  <2> QED BY <2>3, <2>4, <2>5 DEF Lossless, Prompt, After, NeverLost, Sturdy
<1>6. CASE Expired \/ AssertionFails \/ CofacCrashes \/ UNCHANGED vars
  BY <1>6, LosslessKept DEF Expired, AssertionFails, CofacCrashes, vars
<1> QED BY <1>1, <1>2, <1>3, <1>4, <1>5, <1>6 DEF Next

LEMMA InitLossless == Init => Lossless
<1> SUFFICES ASSUME Init PROVE Lossless
  OBVIOUS
<1>1. stack = <<>> /\ Len(stack) = 0 /\ described = {} BY DEF Init
<1>2. \A i \in Ids : rest[i] = <<>> /\ Len(rest[i]) = 0 BY DEF Init
<1> QED BY <1>1, <1>2 DEF Lossless, Prompt, Waiting, After, NeverLost

-----------------------------------------------------------------------------
LEMMA Invariance == Spec => [](IInv /\ Lossless)
<1> QED BY InitIInv, NextIInv, InitLossless, NextLossless, PTL DEF Spec

(* The variables keep their types: no addToJson writes a key that its      *)
(* class does not have.                                                    *)
THEOREM TypeCorrect == Spec => []TypeOK
<1>1. IInv => TypeOK BY DEF IInv
<1> QED BY <1>1, Invariance, PTL

(* However the graph leads back, an object is described by one call at a   *)
(* time.                                                                   *)
THEOREM DescribedOnce == Spec => []OnceEach
<1>1. IInv => OnceEach BY DEF IInv
<1> QED BY <1>1, Invariance, PTL

(* What exportJson returns describes the root and all it leads to over     *)
(* links that are set and not expired, with what importing it reads: all   *)
(* of it if the document never had to grow, and otherwise what the         *)
(* constructors of fields read.  With assertions nothing in it is          *)
(* unfinished, without them no curve is.                                   *)
THEOREM ExportIsComplete == Spec => []ReturnedIsComplete
<1>1. IInv /\ Lossless => ReturnedIsComplete
  <2> SUFFICES ASSUME IInv, Lossless, outcome = "ok" PROVE ReturnedIsComplete
    BY DEF ReturnedIsComplete
  <2>1. stack = <<>> /\ root \in described /\ described \subseteq Ids
    BY DEF IInv, TypeOK, Walk
  <2>2. Range(stack) = {} BY <2>1 DEF Range
  <2>3. \A i \in described : rest[i] = <<>> /\ Range(rest[i]) = {} /\ Passes(i)
    BY <2>1, <2>2 DEF IInv, Walk, Range
  <2>4. ASSUME NEW i \in described
        PROVE  /\ Kind[i] = "curve" => i \in final
               /\ \A k \in Leads(i) : Reaches(i, k) /\ Ref[i][k] \in described
               /\ \A k \in Read(Kind[i]) :
                    Fits \/ k \in Sturdy => k \in Names(i) \cup MayLack(i)
    <3>1. \A k \in Keys(i) : Done(i, k)
      BY <2>3 DEF IInv, Accounted
    <3>2. i \in Ids /\ Kind[i] \in Kinds BY <2>1, ExportGraph
    <3>3. Read(Kind[i]) \subseteq Keys(i) \cup
            (IF Kind[i] = "mulg" /\ ~HasPairing(i) THEN {"pairing"} ELSE {})
      BY <3>2, ProgramSteps
    <3>4. Kind[i] = "curve" => i \in final
      BY <3>1, <3>3 DEF Read, Done
    <3>5. i \in known => "native" \in Keys(i)
      <4> SUFFICES ASSUME i \in known PROVE "native" \in Keys(i)
        OBVIOUS
      <4>1. "native" \in DOMAIN Ref[i] BY DEF IInv, Scene
      <4>2. Kind[i] \in {"montfp", "curve", "fi", "mulg"}
        BY <3>2, <4>1, ExportGraph DEF Kinds, KeysOf
      <4>3. "native" \in Range(AbstractField(i)) BY <3>2, AbstractSteps
      <4> QED BY <3>2, <4>1, <4>2, <4>3, ProgramSteps DEF Keys
    <3>6. Leads(i) \subseteq Keys(i)
      <4>1. DOMAIN Ref[i] \subseteq KeysOf(Kind[i]) BY <3>2, ExportGraph
      <4>2. KeysOf(Kind[i]) \ {"native"} \subseteq Read(Kind[i])
        BY <3>2 DEF Kinds, KeysOf, Read, ReadByField,
              ReadByElement, ReadByMontFPField, ReadByPairing
      <4> QED BY <3>3, <3>5, <4>1, <4>2 DEF Leads, HasPairing
    <3>7. \A k \in Leads(i) : k \in DOMAIN Ref[i] BY DEF Leads
    <3>8. \A k \in Leads(i) : Reaches(i, k) /\ Ref[i][k] \in described
      BY <3>1, <3>6, <3>7 DEF Done
    <3>9. ASSUME Fits, NEW k \in Read(Kind[i])
          PROVE  k \in Names(i) \cup MayLack(i)
      <4>1. CASE k \in Keys(i) BY <3>1, <3>9, <4>1 DEF Done, Names, MayLack
      <4>2. CASE k \notin Keys(i)
        <5>1. k = "pairing" /\ Kind[i] = "mulg" /\ ~HasPairing(i)
          BY <3>3, <3>9, <4>2
        <5>2. CASE i \in known
          <6>1. "native" \in members[i] BY <3>1, <3>5, <3>9, <5>2 DEF Done
          <6> QED BY <5>1, <6>1 DEF Names
        <5>3. CASE i \notin known
          BY <5>1, <5>3 DEF MayLack, Linkless, HasPairing
        <5> QED BY <5>2, <5>3
      <4> QED BY <4>1, <4>2
    <3>10. ASSUME NEW k \in Read(Kind[i]), k \in Sturdy
           PROVE  k \in Names(i) \cup MayLack(i)
      <4>1. k \in Keys(i) BY <3>3, <3>10 DEF Sturdy
      <4>2. k \in members[i] BY <2>3, <3>10, <4>1 DEF Lossless, NeverLost
      <4> QED BY <4>2 DEF Names
    <3> QED BY <3>4, <3>8, <3>9, <3>10
  <2> QED BY <2>1, <2>3, <2>4 DEF ReturnedIsComplete, Passes
<1> QED BY <1>1, Invariance, PTL

(* As long as the context has fewer objects than a document has room for,  *)
(* rapidjson never moves a description, and nothing can be lost.           *)
THEOREM SmallExportsFit ==
  ASSUME Cardinality(Ids) < Capacity PROVE Spec => []Fits
<1>1. Init => Fits BY DEF Init, Fits
<1>2. IInv /\ Fits /\ [Next]_vars => Fits'
  <2> SUFFICES ASSUME IInv, Fits, [Next]_vars PROVE Fits'
    OBVIOUS
  <2>1. CASE ExportJson \/ Descend
    <3>1. PICK i \in Ids : Begin(i) /\ i \notin described
      <4>1. CASE ExportJson BY <4>1 DEF IInv, Scene, ExportJson
      <4>2. CASE Descend
        <5>1. Top \in Ids BY <4>2, TopProperties DEF Descend, AtReference
        <5>2. Target \in Ids
          BY <4>2, <5>1, ExportGraph DEF Descend, AtReference, Target
        <5> QED BY <4>2, <5>2 DEF Descend, Contains
      <4> QED BY <2>1, <4>1, <4>2
    <3>2. IsFiniteSet(Ids) /\ described \subseteq Ids BY ExportGraph DEF IInv, TypeOK
    <3>3. Cardinality(described) < Cardinality(Ids)
      BY <3>1, <3>2, FS_Subset, FS_CardinalityType
    <3>4. /\ Cardinality(described) \in Nat /\ Cardinality(Ids) \in Nat
      BY <3>2, FS_Subset, FS_CardinalityType
    <3>5. Capacity \in Nat BY CapacityAssumption
    <3>6. ~(Size >= capacity) BY <3>3, <3>4, <3>5 DEF Size, Fits
    <3> QED BY <3>1, <3>6 DEF Begin, Grown, Fits
  <2>2. CASE ~(ExportJson \/ Descend)
    <3>1. capacity' = capacity
      BY <2>2 DEF Next, AddReference, AddField, AddMember, TakeAgain, Leave,
                  Expired, AssertionFails, CofacCrashes, PrintsGarbage, vars
    <3> QED BY <3>1 DEF Fits
  <2> QED BY <2>1, <2>2
<1> QED BY <1>1, <1>2, Invariance, PTL DEF Spec

(* Every step describes one more object, shortens what a running call has  *)
(* to do, or returns: the walk ends, however the graph leads back.         *)
THEOREM WalkProgresses == Spec => Progress
<1> DEFINE Forth ==
      \/ described \subseteq described' /\ described' # described
      \/ described' = described /\ \E i \in Ids : Len(rest'[i]) < Len(rest[i])
      \/ rest' = rest /\ Len(stack') < Len(stack)
      \/ outcome' # outcome
<1>1. ASSUME IInv, Next PROVE Forth
  <2>1. CASE ExportJson BY <2>1 DEF ExportJson, Begin
  <2>2. CASE Descend BY <2>2 DEF Descend, Begin, Contains
  <2>3. ASSUME Running, rest[Top] # <<>>, described' = described,
               rest' = [rest EXCEPT ![Top] = Tail(@)]
        PROVE  Forth
    <3>1. Top \in Ids /\ DOMAIN rest = Ids /\ rest[Top] \in Seq(Steps(Top))
      BY <1>1, <2>3, TopProperties DEF IInv, TypeOK
    <3>2. rest'[Top] = Tail(rest[Top]) BY <2>3, <3>1
    <3>3. Len(Tail(rest[Top])) < Len(rest[Top]) BY <2>3, <3>1, HeadTail
    <3> QED BY <2>3, <3>1, <3>2, <3>3
  <2>4. CASE AddReference
    BY <2>3, <2>4 DEF AddReference, AtReference, AddMember
  <2>5. CASE AddField BY <2>3, <2>5 DEF AddField, AddMember
  <2>6. CASE TakeAgain BY <2>3, <2>6 DEF TakeAgain
  <2>7. CASE Leave
    <3>1. stack \in Seq(Ids) /\ stack # <<>>
      BY <1>1, <2>7 DEF IInv, TypeOK, Leave, Running
    <3>2. Len(stack') = Len(stack) - 1 BY <2>7, <3>1, FrontOf DEF Leave
    <3>3. Len(stack) \in Nat BY <3>1
    <3>4. Len(stack') < Len(stack) BY <3>2, <3>3
    <3>5. rest' = rest BY <2>7 DEF Leave
    <3> QED BY <3>4, <3>5
  <2>8. CASE Expired BY <2>8 DEF Expired, AtReference, Running
  <2>9. CASE AssertionFails BY <2>9 DEF AssertionFails, AtReference, Running
  <2>10. CASE CofacCrashes BY <2>10 DEF CofacCrashes, Running
  <2>11. CASE PrintsGarbage
    <3>1. CASE outcome' \in {"abort", "throw"}
      BY <2>11, <3>1 DEF PrintsGarbage, Running
    <3>2. CASE rest' = [rest EXCEPT ![Top] = Tail(@)] /\ described' = described
      BY <2>3, <2>11, <3>2 DEF PrintsGarbage
    <3> QED BY <2>11, <3>1, <3>2 DEF PrintsGarbage, AddMember
  <2> QED BY <1>1, <2>1, <2>2, <2>4, <2>5, <2>6, <2>7, <2>8, <2>9, <2>10, <2>11
    DEF Next
<1>2. IInv /\ [Next]_vars => [Forth]_vars BY <1>1
<1>3. Spec => [][Forth]_vars BY <1>2, Invariance, PTL DEF Spec
<1> QED BY <1>3 DEF Progress

-----------------------------------------------------------------------------
(* Values.  They do not change while an object is exported; what a         *)
(* description says of a value was written from it, in one piece, by the   *)
(* call that added the member.                                             *)

TextOf(i, key, kind) == i \in Valued /\ Kind[i] = kind /\ key \in members[i]

Values ==
  /\ \E s \in Scenarios : value = s.value
  /\ DOMAIN text = Ids
  /\ \A i \in Ids : i \in final /\ TextOf(i, "value", "element") =>
                     text[i] = Described(value[i])
  /\ \A i \in Ids : TextOf(i, "modulus", "montfp") => text[i] \in limbs_to_str(value[i])

LEMMA InitValues == Init => Values
<1> SUFFICES ASSUME Init PROVE Values
  OBVIOUS
<1>1. \A i \in Ids : members[i] = {} BY DEF Init
<1>2. \E s \in Scenarios : value = s.value BY DEF Init
<1>3. DOMAIN text = Ids BY DEF Init
<1> QED BY <1>1, <1>2, <1>3 DEF Values, TextOf

(* A member that says nothing of the value.                                *)
LEMMA OtherMember ==
  ASSUME IInv, Values, NEW key, AddMember(key), Running, UNCHANGED text,
         \A i \in Ids : i = Top /\ Fresh =>
           /\ Kind[i] = "element" => key # "value"
           /\ Kind[i] = "montfp" => key # "modulus"
  PROVE  Values'
<1>1. Top \in Ids BY TopProperties
<1>2. value' = value /\ final' = final BY DEF AddMember, graph
<1>3. \A i \in Ids : members'[i] =
         IF i = Top /\ Fresh THEN members[i] \cup {key} ELSE members[i]
  BY <1>1 DEF AddMember, IInv, TypeOK
<1>4. \A i \in Ids :
         /\ TextOf(i, "value", "element")' => TextOf(i, "value", "element")
         /\ TextOf(i, "modulus", "montfp")' => TextOf(i, "modulus", "montfp")
  BY <1>3 DEF TextOf
<1> QED BY <1>2, <1>4 DEF Values

LEMMA ValueMember ==
  ASSUME IInv, Values, AddField, Top \in Valued, NextStep \in {"value", "modulus"},
         Fresh
  PROVE  Values'
<1>1. Top \in Ids /\ Running BY TopProperties DEF AddField
<1>2. value' = value /\ final' = final BY DEF AddField, AddMember, graph
<1>3. PICK t \in ValueText(Top) : text' = [text EXCEPT ![Top] = t]
  BY DEF AddField
<1>4. \A i \in Ids : i # Top => members'[i] = members[i]
  BY <1>1 DEF AddField, AddMember, IInv, TypeOK
<1>5. /\ DOMAIN text' = Ids /\ text'[Top] = t
      /\ \A i \in Ids : i # Top => text'[i] = text[i]
  BY <1>1, <1>3 DEF Values
<1>6. ASSUME NEW i \in Ids, i \in final, TextOf(i, "value", "element")'
      PROVE  text'[i] = Described(value[i])
  <2>1. CASE i = Top
    <3>1. ValueText(Top) = {Described(value[Top])}
      BY <1>6, <2>1 DEF ValueText, TextOf
    <3> QED BY <1>3, <1>5, <2>1, <3>1
  <2>2. CASE i # Top
    <3>1. TextOf(i, "value", "element") BY <1>4, <1>6, <2>2 DEF TextOf
    <3> QED BY <1>5, <1>6, <2>2, <3>1 DEF Values
  <2> QED BY <2>1, <2>2
<1>7. ASSUME NEW i \in Ids, TextOf(i, "modulus", "montfp")'
      PROVE  text'[i] \in limbs_to_str(value[i])
  <2>1. CASE i = Top
    <3>1. ValueText(Top) = limbs_to_str(value[Top])
      BY <1>7, <2>1 DEF ValueText, TextOf
    <3> QED BY <1>3, <1>5, <2>1, <3>1
  <2>2. CASE i # Top
    <3>1. TextOf(i, "modulus", "montfp") BY <1>4, <1>7, <2>2 DEF TextOf
    <3> QED BY <1>5, <2>2, <3>1 DEF Values
  <2> QED BY <2>1, <2>2
<1> QED BY <1>2, <1>5, <1>6, <1>7 DEF Values

LEMMA NextValues == IInv /\ Values /\ [Next]_vars => Values'
<1> SUFFICES ASSUME IInv, Values, [Next]_vars PROVE Values'
  OBVIOUS
<1>1. CASE AddReference
  <2>1. Running /\ NextStep \in DOMAIN Ref[Top] BY <1>1 DEF AddReference, AtReference
  <2>2. Top \in Ids BY <2>1, TopProperties
  <2>3. NextStep \in KeysOf(Kind[Top]) BY <2>1, <2>2, ExportGraph
  <2>4. /\ Kind[Top] = "element" => NextStep # "value"
        /\ Kind[Top] = "montfp" => NextStep # "modulus"
    BY <2>3 DEF KeysOf
  <2> QED BY <1>1, <2>1, <2>4, OtherMember DEF AddReference
<1>2. CASE AddField
  <2>1. CASE Top \in Valued /\ NextStep \in {"value", "modulus"} /\ Fresh
    BY <1>2, <2>1, ValueMember
  <2>2. CASE ~(Top \in Valued /\ NextStep \in {"value", "modulus"} /\ Fresh)
    <3>1. AddMember(NextStep) /\ Running /\ UNCHANGED text BY <1>2, <2>2 DEF AddField
    <3>2. \A i \in Ids : i = Top /\ Fresh =>
            /\ Kind[i] = "element" => NextStep # "value"
            /\ Kind[i] = "montfp" => NextStep # "modulus"
      BY <2>2 DEF Valued
    <3> QED BY <3>1, <3>2, OtherMember
  <2> QED BY <2>1, <2>2
<1>3. CASE UNCHANGED <<value, final, members, text>>
  BY <1>3 DEF Values, TextOf
<1>4. CASE PrintsGarbage
  <2>1. Top \in Ids /\ "value" \in Steps(Top) /\ Top \notin final
    BY <1>4, TopProperties DEF PrintsGarbage, Bare
  <2>2. Kind[Top] = "element" BY <2>1, ProgramSteps
  <2>3. CASE UNCHANGED <<value, final, members, text>> BY <1>3, <2>3
  <2>4. CASE AddMember(NextStep) /\ text' = [text EXCEPT ![Top] = Described(<<0>>)]
    <3>1. value' = value /\ final' = final BY <2>4 DEF AddMember, graph
    <3>2. \A i \in Ids : i # Top => members'[i] = members[i] /\ text'[i] = text[i]
      BY <2>1, <2>4 DEF AddMember, IInv, TypeOK, Values
    <3>3. \A i \in Ids : i # Top =>
            /\ TextOf(i, "value", "element")' => TextOf(i, "value", "element")
            /\ TextOf(i, "modulus", "montfp")' => TextOf(i, "modulus", "montfp")
      BY <3>2 DEF TextOf
    <3>4. \A i \in Ids : i = Top => i \notin final /\ ~TextOf(i, "modulus", "montfp")'
      BY <2>1, <2>2 DEF TextOf
    <3>5. ASSUME NEW i \in Ids, i \in final, TextOf(i, "value", "element")'
          PROVE  text'[i] = Described(value[i])
      <4>1. i # Top BY <3>4, <3>5
      <4> QED BY <3>2, <3>3, <3>5, <4>1 DEF Values
    <3>6. ASSUME NEW i \in Ids, TextOf(i, "modulus", "montfp")'
          PROVE  text'[i] \in limbs_to_str(value[i])
      <4>1. i # Top BY <3>4, <3>6
      <4> QED BY <3>2, <3>3, <3>6, <4>1 DEF Values
    <3>7. DOMAIN text' = Ids BY <2>4 DEF Values
    <3> QED BY <3>1, <3>5, <3>6, <3>7 DEF Values
  <2> QED BY <1>4, <2>3, <2>4 DEF PrintsGarbage, graph
<1>5. CASE ~AddReference /\ ~AddField /\ ~PrintsGarbage
  BY <1>3, <1>5 DEF Next, ExportJson, Descend, TakeAgain, Leave, Expired,
     AssertionFails, CofacCrashes, graph, vars
<1> QED BY <1>1, <1>2, <1>4, <1>5

LEMMA ValuesInvariant == Spec => [](IInv /\ Values)
<1> QED BY InitIInv, NextIInv, InitValues, NextValues, PTL DEF Spec

(* What the assumption says of the value of an object.                     *)
LEMMA ValueForms ==
  ASSUME Values, NEW i \in Valued
  PROVE  /\ Kind[i] = "montfp" => IsPrime(value[i])
         /\ Kind[i] = "element" /\ value[i] # Infinity =>
              /\ \/ \E x \in Nat : value[i] = <<x>>
                 \/ \E x \in Nat, y \in Nat : value[i] = <<x, y>>
              /\ Prime(i) # 0 =>
                   /\ IsPrime(Prime(i))
                   /\ \E x, y \in 0 .. Prime(i) - 1 :
                        value[i] = <<x, y>> /\ OnCurve(<<x, y>>, Prime(i))
<1>1. PICK s \in Scenarios : value = s.value BY DEF Values
<1>2. i \in Ids /\ Kind[i] \in {"element", "montfp"} BY DEF Valued
<1>3. Kind[i] = "montfp" => IsPrime(value[i]) BY <1>1, ValueAssumption
<1>4. ASSUME Kind[i] = "element", value[i] # Infinity, OnACurve(i)
      PROVE  /\ IsPrime(Prime(i))
             /\ \E x, y \in 0 .. Prime(i) - 1 :
                  value[i] = <<x, y>> /\ OnCurve(<<x, y>>, Prime(i))
  <2> DEFINE curve == Ref[i]["field"]
  <2>1. curve \in Ids /\ Kind[curve] = "curve"
    <3>1. "field" \in DOMAIN Ref[i] BY <1>2, <1>4, ExportGraph DEF KeysOf
    <3> QED BY <1>2, <1>4, <3>1, ExportGraph DEF OnACurve
  <2>2. Ref[curve]["a"] \in Ids
    <3>1. "a" \in DOMAIN Ref[curve] BY <2>1, ExportGraph DEF KeysOf
    <3> QED BY <2>1, <3>1, ExportGraph
  <2>3. Kind[Ref[curve]["a"]] = "element" /\ Kind[PrimeField(i)] = "montfp"
    BY <2>1, ValueAssumption DEF PrimeField
  <2>4. PrimeField(i) \in Ids
    <3>1. "field" \in DOMAIN Ref[Ref[curve]["a"]] BY <2>2, <2>3, ExportGraph DEF KeysOf
    <3> QED BY <2>2, <3>1, ExportGraph DEF PrimeField
  <2>5. PrimeField(i) \in Valued BY <2>3, <2>4 DEF Valued
  <2>6. IsPrime(s.value[PrimeField(i)]) BY <2>3, <2>5, ValueAssumption
  <2>7. Prime(i) = s.value[PrimeField(i)] BY <1>1, <1>4 DEF Prime
  <2>8. \E x, y \in 0 .. Prime(i) - 1 :
          value[i] = <<x, y>> /\ OnCurve(<<x, y>>, Prime(i))
    BY <1>1, <1>4, <2>7, ValueAssumption
  <2> QED BY <2>6, <2>7, <2>8
<1>5. ASSUME Kind[i] = "element", value[i] # Infinity, ~OnACurve(i)
      PROVE  \/ \E x \in Nat : value[i] = <<x>>
             \/ \E x \in Nat, y \in Nat : value[i] = <<x, y>>
  <2>1. value[i] \in Seq(Nat) /\ Len(value[i]) \in {1, 2}
    BY <1>1, <1>5, ValueAssumption
  <2>2. CASE Len(value[i]) = 1
    <3>1. value[i] = <<value[i][1]>> /\ value[i][1] \in Nat BY <2>1, <2>2
    <3> QED BY <3>1
  <2>3. CASE Len(value[i]) = 2
    <3>1. /\ value[i] = <<value[i][1], value[i][2]>>
          /\ value[i][1] \in Nat /\ value[i][2] \in Nat
      BY <2>1, <2>3
    <3> QED BY <3>1
  <2> QED BY <2>1, <2>2, <2>3
<1>6. Prime(i) # 0 => OnACurve(i) BY DEF Prime
<1>7. ASSUME Kind[i] = "element", value[i] # Infinity, OnACurve(i)
      PROVE  \E x \in Nat, y \in Nat : value[i] = <<x, y>>
  <2>1. PICK x, y \in 0 .. Prime(i) - 1 : value[i] = <<x, y>> BY <1>4, <1>7
  <2>2. x \in Nat /\ y \in Nat BY <1>4, <1>7 DEF IsPrime
  <2> QED BY <2>1, <2>2
<1> QED BY <1>3, <1>4, <1>5, <1>6, <1>7

(* Every element but infinity, and but one with a component 24, comes back *)
(* from its description and passes the assertion at Element.cpp:234.       *)
THEOREM ElementsComeBack == Spec => []OnlyOIsLost
<1>1. Values => OnlyOIsLost
  <2> SUFFICES ASSUME Values, NEW i \in described \cap Valued \cap final,
                      Kind[i] = "element", "value" \in members[i],
                      value[i] # Infinity, \A n \in DOMAIN value[i] : value[i][n] # 24
               PROVE  /\ Imported(Prime(i), text[i]) = {value[i]}
                      /\ PrintsAsRead(Prime(i), text[i])
    BY DEF OnlyOIsLost
  <2>1. i \in Valued /\ i \in Ids BY DEF Valued
  <2>2. text[i] = Described(value[i]) BY <2>1 DEF Values, TextOf
  <2>3. Kept(value[i]) BY <2>1, ValueForms DEF Kept
  <2>4. Prime(i) # 0 => Len(value[i]) = 2 /\ OnCurve(value[i], Prime(i))
    <3> SUFFICES ASSUME Prime(i) # 0
                 PROVE  Len(value[i]) = 2 /\ OnCurve(value[i], Prime(i))
      OBVIOUS
    <3>1. PICK x, y \in 0 .. Prime(i) - 1 :
            value[i] = <<x, y>> /\ OnCurve(<<x, y>>, Prime(i))
      BY <2>1, ValueForms
    <3> QED BY <3>1
  <2> QED BY <2>2, <2>3, <2>4, ElementComesBack
<1> QED BY <1>1, ValuesInvariant, PTL

(* The modulus of every field comes back from its description, through GMP *)
(* and through the reverse map.                                            *)
THEOREM ModuliComeBack == Spec => []ModulusComesBack
<1>1. Values => ModulusComesBack
  <2> SUFFICES ASSUME Values, NEW i \in described \cap Valued,
                      Kind[i] = "montfp", "modulus" \in members[i]
               PROVE  /\ str_to_mpz(text[i], CONVERSION_BASE) = {value[i]}
                      /\ str_to_limbs(text[i]) = {value[i]}
    BY DEF ModulusComesBack
  <2>1. i \in Valued /\ i \in Ids BY DEF Valued
  <2>2. text[i] \in limbs_to_str(value[i]) BY <2>1 DEF Values, TextOf
  <2>3. IsPrime(value[i]) BY <2>1, ValueForms
  <2>4. value[i] \in Nat BY <2>3 DEF IsPrime
  <2>5. value[i] # 24
    <3>1. 2 \in 2 .. 24 - 1 /\ 24 % 2 = 0 OBVIOUS
    <3>2. ~IsPrime(24) BY <3>1 DEF IsPrime
    <3> QED BY <2>3, <3>2
  <2>6. text[i] = mpz_to_str(value[i]) BY <2>2, <2>4, LimbsComeBack
  <2> QED BY <2>4, <2>5, <2>6, LimbsComeBack, MpzComesBack
<1> QED BY <1>1, ValuesInvariant, PTL

(* Every point but infinity comes back from its compressed bytes.          *)
THEOREM PointsComeBack == Spec => []BytesComeBack
<1>1. Values => BytesComeBack
  <2> SUFFICES ASSUME Values, NEW i \in described \cap Valued \cap final,
                      Kind[i] = "element", Prime(i) # 0, value[i] # Infinity
               PROVE  elementFromBytes(toBytes(value[i], Prime(i)), Prime(i)) =
                        {value[i]}
    BY DEF BytesComeBack
  <2>1. /\ IsPrime(Prime(i))
        /\ \E x, y \in 0 .. Prime(i) - 1 :
             value[i] = <<x, y>> /\ OnCurve(<<x, y>>, Prime(i))
    BY ValueForms
  <2> QED BY <2>1, PointComesBack
<1> QED BY <1>1, ValuesInvariant, PTL

=============================================================================
