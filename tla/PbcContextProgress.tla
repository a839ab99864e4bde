-------------------------- MODULE PbcContextProgress --------------------------
(***************************************************************************)
(* Theorems about what an import achieves: that the native fields of final *)
(* objects are initialized, and that the import of a complete document     *)
(* fails neither with an exception nor with an assertion, in every order   *)
(* of the uuids.                                                           *)
(*                                                                         *)
(* Both need to know what the construction loop has registered.  The       *)
(* second needs a measure: the status that a pass adds up is compared with *)
(* that of the pass before it (PbcContext.cpp:212-215).                    *)
(***************************************************************************)
EXTENDS PbcContextProofs

(* What a running import knows about its document.                         *)
Registered ==
  /\ Running => /\ doc \in Documents /\ doc.wellformed
                /\ rootId = doc.root
                /\ live \subseteq doc.entries
  /\ pc = "construct" => /\ todo \subseteq doc.entries
                         /\ doc.entries \ todo \subseteq objects
                         /\ live \cap todo \cap Pairings = {}
  /\ pc = "finalize" => doc.entries \subseteq objects

(* Steps of the finalize loop, that only look at the graph.                *)
LEMMA EffectKeepsRegistered ==
  ASSUME IInv, Registered, NEW i \in Ids, SkipFinal(i) \/ Effect(i)
  PROVE  Registered'
<1>1. CASE SkipFinal(i)
  BY <1>1 DEF SkipFinal, graph, Registered, Running
<1>2. CASE Effect(i)
  <2>1. pc = "finalize" /\ objects' = objects
    BY <1>2 DEF Effect, Growth
  <2>2. CASE Throw
    BY <2>2 DEF Throw, Return, Registered, Running
  <2>3. CASE \E p \in Nat : Report(i, p)
    <3>1. PICK p \in Nat : Report(i, p) BY <2>3
    <3>2. /\ pc' \in {"finalize", "aborted"}
          /\ doc' = doc /\ rootId' = rootId /\ live' = live
      BY <2>1, <3>1 DEF Report
    <3> QED BY <2>1, <3>2 DEF Registered, Running
  <2> QED BY <1>2, <2>2, <2>3 DEF Effect
<1> QED BY <1>1, <1>2

LEMMA ConstructKeepsRegistered ==
  ASSUME IInv, Registered, NEW i \in Ids, ConstructObject(i)
  PROVE  Registered'
<1>1. /\ pc = "construct" /\ i \in todo /\ i \in doc.entries
      /\ pc' = pc /\ doc' = doc /\ rootId' = rootId
      /\ todo' = todo \ {i} /\ live' = live \cup NewObjects(i)
      /\ objects' = objects \cup NewObjects(i)
  BY DEF ConstructObject, IsNext, Registered
<1>2. NewObjects(i) \subseteq doc.entries /\ i \in objects'
  BY <1>1 DEF ConstructObject, Unconstructible, NewObjects
<1>3. NewObjects(i) \cap Pairings \subseteq {i}
  BY GraphAssumption DEF NewObjects, WellTyped, Fields, Pairings
<1> QED BY <1>1, <1>2, <1>3 DEF Registered, Running

LEMMA NextKeepsRegistered ==
  ASSUME IInv, Registered, [Next]_vars
  PROVE  Registered'
<1>1. CASE UNCHANGED vars
  BY <1>1 DEF vars, graph, loop, Registered, Running
<1>2. CASE Clear \/ ClearCrashes
  BY <1>2 DEF Clear, ClearCrashes, Abort, Registered, Running
<1>3. CASE \E d \in Documents : Populate(d)
  <2>1. PICK d \in Documents : Populate(d) BY <1>3
  <2>2. pc = "idle" /\ live = {} /\ live' = live /\ objects' = objects
    BY <2>1 DEF Populate, graph, IInv, LoopInv
  <2>3. CASE d.wellformed
    <3>1. /\ pc' = "construct" /\ doc' = d /\ todo' = d.entries
          /\ rootId' = d.root
      BY <2>1, <2>3 DEF Populate
    <3> QED BY <2>2, <2>3, <3>1 DEF Registered, Running
  <2>4. CASE ~d.wellformed
    <3>1. pc' = "idle" BY <2>1, <2>4 DEF Populate
    <3> QED BY <3>1 DEF Registered, Running
  <2> QED BY <2>3, <2>4
<1>4. CASE Construct
  <2>1. PICK i \in Ids :
          ConstructFails(i) \/ ConstructCrashes(i) \/ ConstructObject(i)
    BY <1>4 DEF Construct
  <2>2. CASE ConstructFails(i) \/ ConstructCrashes(i)
    BY <2>2 DEF ConstructFails, ConstructCrashes, Abort, Throw, Return,
                Registered, Running
  <2> QED BY <2>1, <2>2, ConstructKeepsRegistered
<1>5. CASE ConstructDone
  <2>1. CASE Abort BY <2>1 DEF Abort, Registered, Running
  <2>2. CASE StartPass(0)
    BY <1>5, <2>2 DEF ConstructDone, StartPass, graph, Registered, Running
  <2> QED BY <1>5, <2>1, <2>2 DEF ConstructDone
<1>6. CASE Finalize
  <2>1. PICK i \in Ids : SkipFinal(i) \/ Effect(i)
    BY <1>6, FinalizeEffect DEF Finalize
  <2> QED BY <2>1, EffectKeepsRegistered
<1>7. CASE EndPass
  <2>1. CASE Abort BY <2>1 DEF Abort, Registered, Running
  <2>2. CASE StartPass(status) /\ pc = "finalize"
    BY <2>2 DEF StartPass, graph, Registered, Running
  <2>3. CASE Return(IF rootId \in objects THEN "ok" ELSE "error")
    BY <2>3 DEF Return, Registered, Running
  <2> QED
    BY <1>7, <2>1, <2>2, <2>3 DEF EndPass, EndPassEmpty, EndPassDone, EndPassAgain
<1> QED BY <1>1, <1>2, <1>3, <1>4, <1>5, <1>6, <1>7 DEF Next, Step

LEMMA RegisteredAlways == Spec => []Registered
<1>1. Init => Registered BY DEF Init, Registered, Running
<1> QED BY <1>1, Invariance, NextKeepsRegistered, PTL DEF Spec

-----------------------------------------------------------------------------
(* Native fields.  A GT is flagged only after its pairing had a native GT, *)
(* which linking the GT later cannot take away again; the exception that   *)
(* leaves a GT flagged without one (MulgFlag) is thrown only when the      *)
(* document lost the pairing.                                              *)

GTsReady ==
  \A m \in flagged :
    Kind[m] = "mulg" => m \in inited /\ Ref[m]["pairing"] \in inited

LEMMA PairingOfGT ==
  ASSUME NEW m \in Ids, Kind[m] = "mulg"
  PROVE  /\ Ref[m]["pairing"] \in Ids
         /\ Kind[Ref[m]["pairing"]] = "pairing"
         /\ Ref[Ref[m]["pairing"]]["GT"] = m
BY GraphAssumption DEF WellTyped, Pairings

LEMMA NativeFieldsReady ==
  ASSUME IInv, GTsReady
  PROVE  GTReady
<1> SUFFICES ASSUME NEW i \in objects, IsFinal(i), Kind[i] \in {"mulg", "pairing"}
             PROVE  i \in inited
  BY DEF GTReady
<1>1. i \in Ids BY DEF IInv, TypeOK
<1>2. CASE Kind[i] = "mulg" BY <1>2 DEF IsFinal, QuadFinal, GTsReady
<1>3. CASE Kind[i] = "pairing"
  <2>1. Ref[i]["GT"] \in Needs(i) BY <1>3 DEF Needs, KeysOf
  <2>2. IsFinal(Ref[i]["GT"]) BY <2>1 DEF IInv, FinalClosed
  <2>3. Ref[i]["GT"] \in flagged BY <2>2 DEF IsFinal, QuadFinal
  <2> QED BY <1>1, <1>3, <2>3, PairingType DEF GTsReady
<1> QED BY <1>2, <1>3

(* A step that flags no GT and takes no native field away.                 *)
LEMMA SameGTs ==
  ASSUME GTsReady, inited \subseteq inited',
         \A m \in flagged' \ flagged : Kind[m] # "mulg"
  PROVE  GTsReady'
BY DEF GTsReady

LEMMA LinkingGTKeepsReady ==
  ASSUME IInv, GTsReady, NEW i \in Ids, Kind[i] = "pairing",
         inited' = InitedByLink(i),
         \A m \in flagged' \ flagged : Kind[m] # "mulg"
  PROVE  GTsReady'
<1> SUFFICES ASSUME NEW m \in flagged', Kind[m] = "mulg"
             PROVE  m \in inited' /\ Ref[m]["pairing"] \in inited'
  BY DEF GTsReady
<1>1. m \in flagged /\ m \in Ids BY DEF IInv, TypeOK
<1>2. m \in inited /\ Ref[m]["pairing"] \in inited BY <1>1 DEF GTsReady
<1>3. m # i OBVIOUS
<1>4. Ref[m]["pairing"] = i => inited' = inited
  BY <1>1, <1>2, PairingOfGT DEF InitedByLink
<1> QED BY <1>2, <1>3, <1>4 DEF InitedByLink

(* In a pass, a GT is linked to its pairing, or finds it.                  *)
LEMMA PassFindsPairing ==
  ASSUME IInv, Registered, PairedGTs,
         NEW m \in Ids, Kind[m] = "mulg", pc = "finalize"
  PROVE  MulgPercentInPass(m) # Thrown
<1>1. ASSUME m \in live PROVE Resolvable(m, "pairing")
  <2>1. Ref[m]["pairing"] \in doc.entries
    BY <1>1 DEF Registered, Running, PairedGTs
  <2> QED BY <1>1, <2>1 DEF Registered, Resolvable
<1>2. CASE m \in live
  BY <1>1, <1>2 DEF MulgPercentInPass, MulgPercent, Missing, Thrown
<1>3. CASE m \notin live
  BY <1>3 DEF MulgPercentInPass, MulgPercent, Resolvable, Thrown
<1> QED BY <1>2, <1>3

LEMMA MulgKeepsReady ==
  ASSUME IInv, Registered, PairedGTs, GTsReady, NEW i \in Ids,
         FinalizeMulgFails(i) \/ FinalizeMulg(i)
  PROVE  GTsReady'
<1>1. pc = "finalize" /\ Kind[i] = "mulg"
  BY DEF FinalizeMulgFails, FinalizeMulg, Visit
<1>2. MulgPercentInPass(i) # Thrown BY <1>1, PassFindsPairing
<1> DEFINE percent == MulgPercentInPass(i)
<1>3. /\ inited' = CopyGT(i, percent)
      /\ SetFlag(i, MulgFlag(percent))
  BY <1>2 DEF FinalizeMulgFails, FinalizeMulg
<1>4. CASE percent = 100
  <2>1. Ref[i]["pairing"] \in inited
    BY <1>4 DEF MulgPercentInPass, MulgPercent, Thrown
  <2>2. inited' = inited \cup {i} BY <1>3, <1>4, <2>1 DEF CopyGT
  <2>3. flagged' \subseteq flagged \cup {i} BY <1>3 DEF SetFlag
  <2> QED BY <2>1, <2>2, <2>3 DEF GTsReady
<1>5. CASE percent # 100
  <2>1. ~MulgFlag(percent) BY <1>2, <1>5 DEF MulgFlag
  <2>2. inited' = inited BY <1>3, <1>5 DEF CopyGT
  <2>3. flagged' = flagged \ {i} BY <1>3, <2>1 DEF SetFlag
  <2> QED BY <2>2, <2>3, SameGTs
<1> QED BY <1>4, <1>5

LEMMA PairingKeepsReady ==
  ASSUME IInv, GTsReady, NEW i \in Ids,
         \/ FinalizePairingFails(i) \/ FinalizePairingGTFinal(i)
         \/ FinalizePairingWait(i) \/ FinalizePairingWithGT(i)
  PROVE  GTsReady'
<1>1. Kind[i] = "pairing"
  BY DEF FinalizePairingFails, FinalizePairingGTFinal, FinalizePairingWait,
         FinalizePairingWithGT, Visit
<1>2. CASE FinalizePairingFails(i)
  BY <1>2, SameGTs DEF FinalizePairingFails
<1>3. CASE FinalizePairingGTFinal(i)
  <2>1. inited' = InitedByLink(i) /\ flagged' \subseteq flagged \cup {i}
    BY <1>3 DEF FinalizePairingGTFinal, SetFlag
  <2> QED BY <1>1, <2>1, LinkingGTKeepsReady
<1>4. CASE FinalizePairingWait(i)
  BY <1>1, <1>4, LinkingGTKeepsReady DEF FinalizePairingWait
<1>5. CASE FinalizePairingWithGT(i)
  <2> DEFINE gt     == Ref[i]["GT"]
             nested == MulgPercent(gt, TRUE, TRUE)
  <2>1. /\ inited' = inited \cup {i} \cup (IF nested = 100 THEN {gt} ELSE {})
        /\ flagged' \subseteq flagged \cup {i}
                                \cup (IF nested = 100 THEN {gt} ELSE {})
    BY <1>5 DEF FinalizePairingWithGT
  <2>2. Ref[gt]["pairing"] = i BY <1>1, PairingType
  <2> HIDE DEF nested
  <2> QED BY <1>1, <2>1, <2>2 DEF GTsReady
<1> QED BY <1>2, <1>3, <1>4, <1>5

LEMMA OthersKeepReady ==
  ASSUME GTsReady, NEW i \in Ids,
         \/ SkipFinal(i) \/ FinalizeElement(i) \/ FinalizeMontFP(i)
         \/ FinalizeCurveFails(i) \/ FinalizeCurve(i) \/ FinalizeFi(i)
  PROVE  GTsReady'
<1>1. inited' = inited
  BY DEF SkipFinal, graph, FinalizeElement, FinalizeMontFP,
         FinalizeCurveFails, FinalizeCurve, FinalizeFi
<1>2. /\ flagged' \subseteq flagged \cup {i}
      /\ i \in flagged' \ flagged => Kind[i] # "mulg"
  BY DEF SkipFinal, graph, FinalizeElement, FinalizeMontFP, Visit, SetFlag,
         FinalizeCurveFails, FinalizeCurve, FinalizeFi
<1> QED BY <1>1, <1>2, SameGTs

LEMMA NextKeepsReady ==
  ASSUME IInv, Registered, PairedGTs, GTsReady, [Next]_vars
  PROVE  GTsReady'
<1>1. CASE UNCHANGED graph BY <1>1, SameGTs DEF graph
<1>2. CASE Clear BY <1>2 DEF Clear, GTsReady
<1>3. CASE Construct
  <2>1. PICK i \in Ids :
          ConstructFails(i) \/ ConstructCrashes(i) \/ ConstructObject(i)
    BY <1>3 DEF Construct
  <2>2. CASE ConstructFails(i) \/ ConstructCrashes(i)
    BY <1>1, <2>2 DEF ConstructFails, ConstructCrashes, Abort
  <2>3. CASE ConstructObject(i)
    <3>1. NewObjects(i) \cap objects = {} /\ flagged' = flagged
      BY <2>3, ConstructEffect
    <3>2. inited \subseteq inited'
      BY <2>3, <3>1 DEF ConstructObject, IInv, TypeOK
    <3> QED BY <3>1, <3>2, SameGTs
  <2> QED BY <2>1, <2>2, <2>3
<1>4. CASE Finalize
  BY <1>4, OthersKeepReady, MulgKeepsReady, PairingKeepsReady DEF Finalize
<1>5. CASE (\E d \in Documents : Populate(d)) \/ ClearCrashes
           \/ ConstructDone \/ EndPass \/ UNCHANGED vars
  <2>1. UNCHANGED graph
    BY <1>5 DEF Populate, ClearCrashes, ConstructDone, EndPass, EndPassEmpty, EndPassDone,
                EndPassAgain, Abort, StartPass, vars
  <2> QED BY <1>1, <2>1
<1> QED BY <1>2, <1>3, <1>4, <1>5 DEF Next, Step

(* As long as no document describes a GT without its pairing, what is final*)
(* can be calculated with: whatever else documents lack, whatever failed   *)
(* before, the native field of a final GT and the native GT of a final     *)
(* pairing are initialized (MultiplicativeSubgroup.cpp:101-103).           *)
THEOREM FinalFieldsAreInitialized == PairedGTs => (Spec => []GTReady)
<1> SUFFICES ASSUME PairedGTs PROVE Spec => []GTReady
  OBVIOUS
<1>1. Init => GTsReady BY DEF Init, GTsReady
<1>2. IInv /\ Registered /\ GTsReady /\ [Next]_vars => GTsReady'
  BY NextKeepsReady
<1>3. IInv /\ GTsReady => GTReady BY NativeFieldsReady
<1> QED BY <1>1, <1>2, <1>3, Invariance, RegisteredAlways, PTL DEF Spec

-----------------------------------------------------------------------------
(* The data block of a pairing.  It is full when the pairing becomes final:*)
(* Pairing::finalize looks at all of its fields then, and copies them.     *)

BlocksFull == \A i \in flagged \cap Pairings : copied[i] = DataKeys

LEMMA CopyKeepsFull ==
  ASSUME IInv, BlocksFull, NEW i \in Ids, Kind[i] = "pairing", NEW ks,
         CopyFields(i, ks),
         \A j \in flagged' \ flagged : Kind[j] = "pairing" => j = i,
         i \in flagged' \ flagged =>
           ks = FieldKeys /\ \A k \in FieldKeys : IsFinal(Ref[i][k])
  PROVE  BlocksFull'
<1>1. copied \in [Ids -> SUBSET DataKeys] BY DEF IInv, TypeOK
<1>2. copied' = [copied EXCEPT ![i] = Copied(i, ks)] BY DEF CopyFields
<1>3. DataKeys \subseteq FieldKeys BY DEF DataKeys, FieldKeys
<1>4. ASSUME NEW j \in flagged' \cap Pairings PROVE copied'[j] = DataKeys
  <2>1. j \in Ids /\ Kind[j] = "pairing" BY <1>4 DEF Pairings
  <2>2. CASE j # i BY <1>1, <1>2, <1>4, <2>1, <2>2 DEF BlocksFull
  <2>3. CASE j = i /\ i \in flagged
    <3>1. copied[i] = DataKeys BY <1>4, <2>3 DEF BlocksFull
    <3>2. Copied(i, ks) = DataKeys BY <1>1, <3>1 DEF Copied
    <3> QED BY <1>1, <1>2, <2>3, <3>2
  <2>4. CASE j = i /\ i \notin flagged
    <3>1. ks = FieldKeys /\ \A k \in FieldKeys : IsFinal(Ref[i][k])
      BY <1>4, <2>4
    <3>2. Copied(i, ks) = DataKeys BY <1>1, <1>3, <3>1 DEF Copied
    <3> QED BY <1>1, <1>2, <2>4, <3>2
  <2> QED BY <2>2, <2>3, <2>4
<1> QED BY <1>4 DEF BlocksFull

LEMMA PairingKeepsFull ==
  ASSUME IInv, BlocksFull, NEW i \in Ids,
         \/ FinalizePairingFails(i) \/ FinalizePairingGTFinal(i)
         \/ FinalizePairingWait(i) \/ FinalizePairingWithGT(i)
  PROVE  BlocksFull'
<1>1. Kind[i] = "pairing" /\ ~IsFinal(i)
  BY DEF FinalizePairingFails, FinalizePairingGTFinal, FinalizePairingWait,
         FinalizePairingWithGT, Visit
<1>2. CASE FinalizePairingFails(i)
  <2>1. PICK n \in 1 .. 7 : CopyFields(i, KeysBefore(n))
    BY <1>2 DEF FinalizePairingFails
  <2>2. flagged' = flagged BY <1>2 DEF FinalizePairingFails
  <2> QED BY <1>1, <2>1, <2>2, CopyKeepsFull
<1>3. CASE FinalizePairingGTFinal(i)
  <2> DEFINE percent == PairingPercent(i, TRUE)
  <2>1. /\ flagged' = IF percent = 100 THEN flagged \cup {i} ELSE flagged \ {i}
        /\ CopyFields(i, FieldKeys)
    BY <1>3 DEF FinalizePairingGTFinal, SetFlag
  <2>2. percent = 100 => \A k \in FieldKeys : IsFinal(Ref[i][k])
    BY PairingPercentIs100
  <2> HIDE DEF percent
  <2> QED BY <1>1, <2>1, <2>2, CopyKeepsFull
<1>4. CASE FinalizePairingWait(i)
  BY <1>1, <1>4, CopyKeepsFull DEF FinalizePairingWait
<1>5. CASE FinalizePairingWithGT(i)
  <2> DEFINE gt      == Ref[i]["GT"]
             nested  == MulgPercent(gt, TRUE, TRUE)
             percent == PairingPercent(i, nested = 100)
  <2>1. /\ flagged' = (flagged \ {gt}) \cup (IF nested = 100 THEN {gt} ELSE {})
                                      \cup (IF percent = 100 THEN {i} ELSE {})
        /\ CopyFields(i, FieldKeys)
    BY <1>5 DEF FinalizePairingWithGT
  <2>2. percent = 100 => \A k \in FieldKeys : IsFinal(Ref[i][k])
    BY PairingPercentIs100
  <2>3. Kind[gt] = "mulg" BY <1>1, PairingType
  <2> HIDE DEF gt, nested, percent
  <2> QED BY <1>1, <2>1, <2>2, <2>3, CopyKeepsFull
<1> QED BY <1>2, <1>3, <1>4, <1>5

LEMMA NextKeepsFull ==
  ASSUME IInv, BlocksFull, [Next]_vars
  PROVE  BlocksFull'
<1>1. CASE UNCHANGED graph BY <1>1 DEF graph, BlocksFull
<1>2. CASE Clear BY <1>2 DEF Clear, BlocksFull
<1>3. CASE Construct
  <2>1. PICK i \in Ids :
          ConstructFails(i) \/ ConstructCrashes(i) \/ ConstructObject(i)
    BY <1>3 DEF Construct
  <2>2. CASE ConstructFails(i) \/ ConstructCrashes(i)
    BY <1>1, <2>2 DEF ConstructFails, ConstructCrashes, Abort
  <2>3. CASE ConstructObject(i)
    <3>1. NewObjects(i) \cap objects = {} /\ flagged' = flagged
      BY <2>3, ConstructEffect
    <3>2. \A j \in flagged : copied'[j] = copied[j]
      BY <2>3, <3>1 DEF ConstructObject, IInv, TypeOK
    <3> QED BY <3>1, <3>2 DEF BlocksFull
  <2> QED BY <2>1, <2>2, <2>3
<1>4. CASE Finalize
  <2>1. PICK i \in Ids :
          \/ SkipFinal(i)
          \/ FinalizeElement(i) \/ FinalizeMontFP(i)
          \/ FinalizeCurveFails(i) \/ FinalizeCurve(i) \/ FinalizeFi(i)
          \/ FinalizeMulgFails(i) \/ FinalizeMulg(i)
          \/ FinalizePairingFails(i) \/ FinalizePairingGTFinal(i)
          \/ FinalizePairingWait(i) \/ FinalizePairingWithGT(i)
    BY <1>4 DEF Finalize
  <2>2. CASE SkipFinal(i) BY <1>1, <2>2 DEF SkipFinal
  <2>3. CASE \/ FinalizeElement(i) \/ FinalizeMontFP(i)
             \/ FinalizeCurveFails(i) \/ FinalizeCurve(i) \/ FinalizeFi(i)
             \/ FinalizeMulgFails(i) \/ FinalizeMulg(i)
    <3>1. copied' = copied /\ Kind[i] # "pairing"
      BY <2>3 DEF FinalizeElement, FinalizeMontFP, FinalizeCurveFails,
                  FinalizeCurve, FinalizeFi, FinalizeMulgFails, FinalizeMulg,
                  Visit
    <3>2. flagged' \subseteq flagged \cup {i}
      BY <2>3 DEF FinalizeElement, FinalizeMontFP, FinalizeCurveFails,
                  FinalizeCurve, FinalizeFi, FinalizeMulgFails, FinalizeMulg,
                  SetFlag
    <3> QED BY <3>1, <3>2 DEF BlocksFull, Pairings
  <2> QED BY <2>1, <2>2, <2>3, PairingKeepsFull
<1>5. CASE (\E d \in Documents : Populate(d)) \/ ClearCrashes
           \/ ConstructDone \/ EndPass \/ UNCHANGED vars
  <2>1. UNCHANGED graph
    BY <1>5 DEF Populate, ClearCrashes, ConstructDone, EndPass, EndPassEmpty,
                EndPassDone, EndPassAgain, Abort, StartPass, vars
  <2> QED BY <1>1, <2>1
<1> QED BY <1>2, <1>3, <1>4, <1>5 DEF Next, Step

(* Where imports have left nothing unfinished, and no document described a *)
(* GT without its pairing, clear() destroys no pairing whose native fields *)
(* cannot be cleared, however many calls of finalize() it took to copy     *)
(* them.                                                                   *)
THEOREM CleanContextsClear == PairedGTs => (Spec => CleanClears)
<1> SUFFICES ASSUME PairedGTs PROVE Spec => CleanClears
  OBVIOUS
<1>1. Init => BlocksFull BY DEF Init, BlocksFull
<1>2. IInv /\ BlocksFull /\ [Next]_vars => BlocksFull' BY NextKeepsFull
<1>3. IInv /\ BlocksFull /\ GTReady /\ [Next]_vars
        => [pc = "idle" /\ (\A i \in objects : IsFinal(i))
              => pc' # "aborted"]_vars
  <2> SUFFICES ASSUME IInv, BlocksFull, GTReady, Next,
                      pc = "idle", \A i \in objects : IsFinal(i)
               PROVE  pc' # "aborted"
    OBVIOUS
  <2>1. \A i \in objects \cap Pairings : Destructible(i)
    BY DEF BlocksFull, GTReady, Destructible, IsFinal, QuadFinal, Pairings
  <2>2. ~ClearCrashes BY <2>1 DEF ClearCrashes
  <2>3. ~Step BY StepOutcome DEF Running
  <2> QED BY <2>2, <2>3 DEF Next, Clear, Populate
<1>4. Spec => []GTReady BY FinalFieldsAreInitialized
<1> QED BY <1>1, <1>2, <1>3, <1>4, Invariance, PTL DEF Spec, CleanClears

-----------------------------------------------------------------------------
(* Progress.  Parts(S, f) has as many members as the percentages f of the  *)
(* objects in S add up to: a sum that the theorems about finite sets reach.*)

Percentages == [Ids -> 0 .. 100]

Parts(S, f) == {x \in S \X (1 .. 100) : x[2] <= f[x[1]]}

LEMMA UpTo ==
  ASSUME NEW n \in Nat
  PROVE  IsFiniteSet(1 .. n) /\ Cardinality(1 .. n) = n
<1>1. 1 \in Int /\ n \in Int OBVIOUS
<1>2. /\ IsFiniteSet(1 .. n)
      /\ Cardinality(1 .. n) = IF 1 > n THEN 0 ELSE n - 1 + 1
  BY <1>1, FS_Interval, Zenon
<1> QED BY <1>2

LEMMA PartsFinite ==
  ASSUME NEW S \in SUBSET Ids, NEW f
  PROVE  /\ IsFiniteSet(Parts(S, f))
         /\ Cardinality(Parts(S, f)) \in Nat
<1>1. IsFiniteSet(S) BY RankAssumption, FS_Subset
<1>2. IsFiniteSet(1 .. 100) BY UpTo
<1>3. IsFiniteSet(S \X (1 .. 100)) BY <1>1, <1>2, FS_Product
<1>4. Parts(S, f) \subseteq S \X (1 .. 100) BY DEF Parts
<1> QED BY <1>3, <1>4, FS_Subset, FS_CardinalityType

(* The percentage of one more object.                                      *)
LEMMA PartsAdd ==
  ASSUME NEW S \in SUBSET Ids, NEW i \in Ids, i \notin S,
         NEW f \in Percentages, NEW g \in Percentages,
         \A j \in S : g[j] = f[j]
  PROVE  Cardinality(Parts(S \cup {i}, g)) = Cardinality(Parts(S, f)) + g[i]
<1> DEFINE p == g[i]
<1>0. p \in 0 .. 100 /\ g[i] = p BY DEF Percentages
<1> USE <1>0
<1> HIDE DEF p
<1> DEFINE A == Parts(S, f)
           B == {i} \X (1 .. p)
<1>1. Parts(S \cup {i}, g) = A \cup B
  <2>1. ASSUME NEW x \in Parts(S \cup {i}, g) PROVE x \in A \cup B
    <3>1. x = <<x[1], x[2]>> /\ x[1] \in S \cup {i} /\ x[2] \in 1 .. 100
          /\ x[2] <= g[x[1]]
      BY DEF Parts
    <3>2. CASE x[1] \in S BY <3>1, <3>2 DEF Parts
    <3>3. CASE x[1] = i BY <3>1, <3>3
    <3> QED BY <3>1, <3>2, <3>3
  <2>2. ASSUME NEW x \in A PROVE x \in Parts(S \cup {i}, g)
    BY <2>2 DEF Parts
  <2>3. ASSUME NEW x \in B PROVE x \in Parts(S \cup {i}, g)
    <3>1. x = <<i, x[2]>> /\ x[1] = i /\ x[2] \in 1 .. p OBVIOUS
    <3>2. x[2] \in 1 .. 100 /\ x[2] <= g[x[1]] BY <3>1
    <3> QED BY <3>1, <3>2 DEF Parts
  <2> QED BY <2>1, <2>2, <2>3
<1>2. IsFiniteSet(A) /\ Cardinality(A) \in Nat BY PartsFinite
<1>3. IsFiniteSet(B) /\ Cardinality(B) = p
  <2>1. IsFiniteSet(1 .. p) /\ Cardinality(1 .. p) = p BY UpTo
  <2>2. IsFiniteSet({i}) /\ Cardinality({i}) = 1 BY FS_Singleton
  <2>3. /\ IsFiniteSet({i} \X (1 .. p))
        /\ Cardinality({i} \X (1 .. p)) = Cardinality({i}) * Cardinality(1 .. p)
    BY <2>1, <2>2, FS_Product, Zenon
  <2>4. Cardinality(B) = 1 * p BY <2>1, <2>2, <2>3, Zenon
  <2> HIDE DEF B
  <2>5. 1 * p = p OBVIOUS
  <2> QED BY <2>3, <2>4, <2>5, Zenon DEF B
<1>4. A \cap B = {} BY DEF Parts
<1>5. Cardinality(A \cap B) = 0 BY <1>4, FS_EmptySet
<1>6. Cardinality(A \cup B) = Cardinality(A) + Cardinality(B) - Cardinality(A \cap B)
  BY <1>2, <1>3, FS_Union, Zenon
<1>7. Cardinality(A \cup B) = Cardinality(A) + p - 0
  BY <1>3, <1>5, <1>6, Zenon
<1> HIDE DEF A, B
<1>8. Cardinality(A \cup B) = Cardinality(A) + p BY <1>2, <1>7
<1> QED BY <1>1, <1>8, Zenon DEF A, p

LEMMA PartsLeq ==
  ASSUME NEW S \in SUBSET Ids, NEW f \in Percentages, NEW g \in Percentages,
         \A i \in S : f[i] <= g[i]
  PROVE  Cardinality(Parts(S, f)) <= Cardinality(Parts(S, g))
<1>1. Parts(S, f) \subseteq Parts(S, g)
  <2> SUFFICES ASSUME NEW x \in Parts(S, f) PROVE x \in Parts(S, g)
    OBVIOUS
  <2>1. x \in S \X (1 .. 100) /\ x[2] <= f[x[1]] BY DEF Parts
  <2>2. x[1] \in S /\ x[2] \in Int /\ f[x[1]] \in Int /\ g[x[1]] \in Int
    BY <2>1 DEF Percentages
  <2>3. x[2] <= g[x[1]] BY <2>1, <2>2
  <2> QED BY <2>1, <2>3 DEF Parts
<1> QED BY <1>1, PartsFinite, FS_Subset

LEMMA PartsLess ==
  ASSUME NEW S \in SUBSET Ids, NEW f \in Percentages, NEW g \in Percentages,
         \A i \in S : f[i] <= g[i],
         NEW m \in S, f[m] < g[m]
  PROVE  Cardinality(Parts(S, f)) < Cardinality(Parts(S, g))
<1> DEFINE x == <<m, g[m]>>
<1>1. x \in Parts(S, g) \ Parts(S, f)
  BY DEF Parts, Percentages
<1>2. Parts(S, f) \subseteq Parts(S, g) \ {x}
  <2> SUFFICES ASSUME NEW y \in Parts(S, f) PROVE y \in Parts(S, g) /\ y # x
    OBVIOUS
  <2>1. y \in S \X (1 .. 100) /\ y[2] <= f[y[1]] BY DEF Parts
  <2>2. y[1] \in S /\ y[2] \in Int /\ f[y[1]] \in Int /\ g[y[1]] \in Int
    BY <2>1 DEF Percentages
  <2>3. y[2] <= g[y[1]] BY <2>1, <2>2
  <2> QED BY <1>1, <2>1, <2>3 DEF Parts
<1>3. IsFiniteSet(Parts(S, g)) BY PartsFinite
<1>4. /\ IsFiniteSet(Parts(S, g) \ {x})
      /\ Cardinality(Parts(S, g) \ {x}) = Cardinality(Parts(S, g)) - 1
  BY <1>1, <1>3, FS_RemoveElement
<1>5. Cardinality(Parts(S, f)) <= Cardinality(Parts(S, g) \ {x})
  BY <1>2, <1>4, FS_Subset
<1> QED BY <1>4, <1>5, PartsFinite

LEMMA PartsAll ==
  ASSUME NEW S \in SUBSET Ids, NEW f \in Percentages, \A i \in S : f[i] = 100
  PROVE  Cardinality(Parts(S, f)) = 100 * Cardinality(S)
<1>1. Parts(S, f) = S \X (1 .. 100) BY DEF Parts
<1>2. IsFiniteSet(S) BY RankAssumption, FS_Subset
<1>3. IsFiniteSet(1 .. 100) /\ Cardinality(1 .. 100) = 100 BY UpTo
<1>4. Cardinality(S \X (1 .. 100)) = Cardinality(S) * Cardinality(1 .. 100)
  BY <1>2, <1>3, FS_Product
<1> QED BY <1>1, <1>2, <1>3, <1>4, FS_CardinalityType

LEMMA PartsNone ==
  ASSUME NEW f
  PROVE  Cardinality(Parts({}, f)) = 0
<1>1. Parts({}, f) = {} BY DEF Parts
<1> QED BY <1>1, FS_EmptySet

-----------------------------------------------------------------------------
(* The percentage of a pairing.                                            *)

Finals(i) == {k \in FieldKeys : IsFinal(Ref[i][k])}
Share(n)  == ((7 + n) * 100) \div 14

LEMMA ShareGrows ==
  /\ \A n \in 0 .. 7 : Share(n) \in 50 .. 100
  /\ \A m, n \in 0 .. 7 : m < n => Share(m) < Share(n)
  /\ Share(7) = 100
BY DEF Share

LEMMA FinalsBound ==
  ASSUME NEW F \in SUBSET FieldKeys
  PROVE  /\ IsFiniteSet(F) /\ Cardinality(F) \in 0 .. 6
         /\ F = FieldKeys => Cardinality(F) = 6
BY FieldKeysFinite, FS_Subset, FS_CardinalityType

LEMMA SharesOfFinals ==
  ASSUME NEW n \in 0 .. 6
  PROVE  /\ ((7 + n + 0) * 100) \div 14 = Share(n)
         /\ ((7 + n + 1) * 100) \div 14 = Share(n + 1)
         /\ Share(n) < Share(n + 1) /\ Share(n) < 100
         /\ Share(n) \in 50 .. 100 /\ Share(n + 1) \in 50 .. 100
BY DEF Share

(* With and without GT.                                                    *)
With(i)    == Share(Cardinality(Finals(i)) + 1)
Without(i) == Share(Cardinality(Finals(i)))

LEMMA PairingPercentIs ==
  ASSUME NEW i
  PROVE  /\ PairingPercent(i, TRUE) = With(i)
         /\ PairingPercent(i, FALSE) = Without(i)
<1> DEFINE n == Cardinality(Finals(i))
<1>1. n \in 0 .. 6
  <2>1. Finals(i) \in SUBSET FieldKeys BY DEF Finals
  <2> QED BY <2>1, FinalsBound, Zenon
<1>2. PairingPercent(i, TRUE) = ((7 + n + 1) * 100) \div 14
  BY DEF PairingPercent, Finals
<1>3. PairingPercent(i, FALSE) = ((7 + n + 0) * 100) \div 14
  BY DEF PairingPercent, Finals
<1> HIDE DEF n
<1>4. /\ PairingPercent(i, TRUE) = Share(n + 1)
      /\ PairingPercent(i, FALSE) = Share(n)
  BY <1>1, <1>2, <1>3, SharesOfFinals, Zenon
<1> QED BY <1>4, Zenon DEF n, With, Without

LEMMA GTCounts ==
  ASSUME NEW i
  PROVE  /\ Without(i) < With(i)
         /\ Without(i) \in 50 .. 99 /\ With(i) \in 50 .. 100
<1> DEFINE n == Cardinality(Finals(i))
<1>1. n \in 0 .. 6
  <2>1. Finals(i) \in SUBSET FieldKeys BY DEF Finals
  <2> QED BY <2>1, FinalsBound, Zenon
<1>2. With(i) = Share(n + 1) /\ Without(i) = Share(n) BY DEF With, Without
<1> HIDE DEF n
<1> QED BY <1>1, <1>2, SharesOfFinals

LEMMA GTCountsNext ==
  ASSUME NEW i
  PROVE  With(i)' \in 50 .. 100 /\ Without(i)' \in 50 .. 99
<1> DEFINE n == Cardinality(Finals(i)')
<1>1. n \in 0 .. 6
  <2>1. Finals(i)' \in SUBSET FieldKeys BY DEF Finals
  <2> QED BY <2>1, FinalsBound, Zenon
<1>2. With(i)' = Share(n + 1) /\ Without(i)' = Share(n) BY DEF With, Without
<1> HIDE DEF n
<1> QED BY <1>1, <1>2, SharesOfFinals

LEMMA AllCount ==
  ASSUME NEW i, \A k \in FieldKeys : IsFinal(Ref[i][k])
  PROVE  With(i) = 100
<1>1. Finals(i) = FieldKeys BY DEF Finals
<1>2. Cardinality(Finals(i)) = 6 BY <1>1, FinalsBound, Zenon
<1>3. With(i) = Share(6 + 1) BY <1>2, Zenon DEF With
<1> QED BY <1>3, ShareGrows

LEMMA CountGrows ==
  ASSUME TypeOK, KeepsFinal, NEW i
  PROVE  With(i) <= With(i)' /\ Without(i) <= Without(i)'
<1> DEFINE m == Cardinality(Finals(i))
           n == Cardinality(Finals(i)')
<1>1. Finals(i) \subseteq Finals(i)'
  <2>1. \A j : IsFinal(j) => j \in objects
    BY DEF TypeOK, IsFinal, QuadFinal
  <2> QED BY <2>1 DEF Finals, KeepsFinal
<1>2. Finals(i) \in SUBSET FieldKeys /\ Finals(i)' \in SUBSET FieldKeys
  BY DEF Finals
<1>3. IsFiniteSet(Finals(i)') /\ m \in 0 .. 6 /\ n \in 0 .. 6
  BY <1>2, FinalsBound, Zenon
<1>4. m <= n BY <1>1, <1>3, FS_Subset
<1>5. With(i) = Share(m + 1) /\ With(i)' = Share(n + 1)
      /\ Without(i) = Share(m) /\ Without(i)' = Share(n)
  BY DEF With, Without
<1> HIDE DEF m, n
<1>6. Share(m) <= Share(n) /\ Share(m + 1) <= Share(n + 1)
  BY <1>3, <1>4 DEF Share
<1> QED BY <1>5, <1>6

-----------------------------------------------------------------------------
(* What an object is worth: no less than what it last reported, and no     *)
(* more than what it will report once it has links to all it refers to.    *)

BaseFinal(m) == QuadFinal(Ref[m]["base"])

Worth(i) ==
  CASE IsFinal(i) -> 100
    [] ~IsFinal(i) /\ Kind[i] = "element" -> 50
    [] ~IsFinal(i) /\ Kind[i] = "montfp"  -> 0
    [] ~IsFinal(i) /\ Kind[i] = "curve"   ->
         IF Ref[i]["a"] \in flagged THEN 50 ELSE 40
    [] ~IsFinal(i) /\ Kind[i] = "fi"      -> 99
    [] ~IsFinal(i) /\ Kind[i] = "mulg"    -> IF BaseFinal(i) THEN 70 ELSE 49
    [] ~IsFinal(i) /\ Kind[i] = "pairing" ->
         IF ~IsFinal(Ref[i]["GT"]) THEN Without(i)
         ELSE IF With(i) = 100 THEN 99 ELSE With(i)

(* i has been visited: it is final, or has the links that others wait for. *)
MetBy(i) ==
  \/ IsFinal(i)
  \/ /\ Kind[i] = "mulg" => "base" \in linked[i]
     /\ Kind[i] = "pairing" => KeysOf("pairing") \subseteq linked[i]

LEMMA WorthType ==
  ASSUME NEW i \in Ids
  PROVE  /\ Worth(i) \in 0 .. 100
         /\ IsFinal(i) => Worth(i) = 100
         /\ ~IsFinal(i) => Worth(i) < 100
<1>1. Kind[i] \in Kinds BY GraphAssumption
<1>2. Without(i) \in 50 .. 99 /\ With(i) \in 50 .. 100 BY GTCounts
<1>3. CASE IsFinal(i) BY <1>3 DEF Worth
<1>4. CASE ~IsFinal(i) /\ Kind[i] = "pairing"
  <2>1. Worth(i) = IF ~IsFinal(Ref[i]["GT"]) THEN Without(i)
                   ELSE IF With(i) = 100 THEN 99 ELSE With(i)
    BY <1>4 DEF Worth
  <2> QED BY <1>2, <1>4, <2>1
<1>5. CASE ~IsFinal(i) /\ Kind[i] # "pairing"
  BY <1>1, <1>5 DEF Worth, Kinds
<1> QED BY <1>3, <1>4, <1>5

(* What the graph gains, it is worth.                                      *)
LEMMA WorthGrows ==
  ASSUME IInv, KeepsFinal, objects' = objects, NEW i \in objects
  PROVE  Worth(i) <= Worth(i)'
<1>1. TypeOK /\ i \in Ids /\ Kind[i] \in Kinds
  BY GraphAssumption DEF IInv, TypeOK
<1>2. \A j : IsFinal(j) => IsFinal(j)'
  BY <1>1 DEF TypeOK, KeepsFinal, IsFinal, QuadFinal
<1>3. CASE IsFinal(i) \/ IsFinal(i)'
  <2>1. IsFinal(i)' BY <1>2, <1>3
  <2>2. Worth(i)' = 100 BY <2>1 DEF Worth
  <2> QED BY <1>1, <2>2, WorthType
<1>4. CASE ~IsFinal(i) /\ ~IsFinal(i)' /\ Kind[i] = "curve"
  <2>1. Ref[i]["a"] \in Ids /\ Kind[Ref[i]["a"]] = "element"
    BY <1>1, <1>4, GraphAssumption, RefType DEF WellTyped, KeysOf
  <2>2. Ref[i]["a"] \in flagged => Ref[i]["a"] \in flagged'
    BY <1>2, <2>1 DEF IsFinal, QuadFinal
  <2> QED BY <1>4, <2>2 DEF Worth
<1>5. CASE ~IsFinal(i) /\ ~IsFinal(i)' /\ Kind[i] = "mulg"
  <2>1. Kind[Ref[i]["base"]] # "mulg"
    BY <1>1, <1>5, GraphAssumption DEF WellTyped
  <2>2. BaseFinal(i) => BaseFinal(i)'
    BY <1>2, <2>1 DEF IsFinal, BaseFinal
  <2> QED BY <1>5, <2>2 DEF Worth
<1>6. CASE ~IsFinal(i) /\ ~IsFinal(i)' /\ Kind[i] = "pairing"
  <2>1. IsFinal(Ref[i]["GT"]) => IsFinal(Ref[i]["GT"])' BY <1>2
  <2>2. With(i) <= With(i)' /\ Without(i) <= Without(i)' /\ Without(i) < With(i)
    BY <1>1, CountGrows, GTCounts
  <2>3. /\ With(i) \in 50 .. 100 /\ Without(i) \in 50 .. 99
        /\ With(i)' \in 50 .. 100 /\ Without(i)' \in 50 .. 99
    BY GTCounts, GTCountsNext
  <2>4. Worth(i) = IF ~IsFinal(Ref[i]["GT"]) THEN Without(i)
                   ELSE IF With(i) = 100 THEN 99 ELSE With(i)
    BY <1>6 DEF Worth
  <2>5. Worth(i)' = IF ~IsFinal(Ref[i]["GT"])' THEN Without(i)'
                    ELSE IF With(i)' = 100 THEN 99 ELSE With(i)'
    BY <1>6 DEF Worth
  <2> QED BY <2>1, <2>2, <2>3, <2>4, <2>5
<1>7. CASE ~IsFinal(i) /\ ~IsFinal(i)' /\ Kind[i] \in {"element", "montfp", "fi"}
  BY <1>7 DEF Worth
<1> QED BY <1>1, <1>3, <1>4, <1>5, <1>6, <1>7 DEF Kinds

-----------------------------------------------------------------------------
(* What one finalize call reports in the import of a complete document     *)
(* that finds nothing unfinished in the context.                           *)

Settled == \A i \in objects \ live : IsFinal(i)
Whole   == IInv /\ Registered /\ Complete(doc) /\ Settled
AllMet  == \A j \in objects : MetBy(j)

(* Whatever the call looks for is there.                                   *)
LEMMA Found ==
  ASSUME Whole, pc = "finalize", NEW i \in objects, ~IsFinal(i)
  PROVE  /\ i \in Ids
         /\ \A k \in KeysOf(Kind[i]) : /\ Ref[i][k] \in objects
                                       /\ Resolvable(i, k) /\ ~Missing(i, k)
<1>1. i \in live /\ i \in doc.entries
  BY DEF Whole, Settled, Registered, Running
<1>2. \A k \in KeysOf(Kind[i]) : Ref[i][k] \in objects
  BY <1>1 DEF Whole, Complete, Registered
<1> QED BY <1>1, <1>2 DEF Resolvable, Missing, Whole, IInv, TypeOK

(* The call that i receives reports p, and what that says about i.         *)
Reports(i, p) ==
  /\ Report(i, p) /\ p \in 20 .. 100
  /\ p = 100 => IsFinal(i)'
  /\ p < 100 => ~IsFinal(i)' /\ p <= Worth(i)'
  /\ MetBy(i)'
  /\ AllMet => Worth(i) <= p
  /\ (Kind[i] # "mulg" /\ \A j \in Needs(i) : IsFinal(j)) => p = 100
  /\ (Kind[i] = "pairing" /\ AllMet /\ BaseFinal(Ref[i]["GT"])) => With(i) <= p

LEMMA ElementReports ==
  ASSUME Whole, NEW i \in Ids, FinalizeElement(i)
  PROVE  \E p \in Int : Reports(i, p)
<1> DEFINE ready == IsFinal(Ref[i]["field"])
<1>1. Kind[i] = "element" /\ ~IsFinal(i) BY DEF FinalizeElement, Visit
<1>2. Report(i, IF ready THEN 100 ELSE 50) /\ SetFlag(i, ready)
  BY DEF FinalizeElement
<1>3. IsFinal(i)' <=> i \in flagged' BY <1>1 DEF IsFinal, QuadFinal
<1>4. Worth(i) = 50 BY <1>1 DEF Worth
<1>5. Needs(i) = {Ref[i]["field"]} BY <1>1 DEF Needs, KeysOf
<1>6. MetBy(i)' BY <1>1 DEF MetBy
<1>7. CASE ready
  <2>1. i \in flagged' BY <1>2, <1>7 DEF SetFlag
  <2>2. Report(i, 100) BY <1>2, <1>7
  <2>3. Reports(i, 100) BY <1>1, <1>3, <1>4, <1>6, <2>1, <2>2 DEF Reports
  <2> QED BY <2>3
<1>8. CASE ~ready
  <2>1. i \notin flagged' BY <1>2, <1>8 DEF SetFlag
  <2>2. Report(i, 50) BY <1>2, <1>8
  <2>3. Worth(i)' = 50 BY <1>1, <1>3, <2>1 DEF Worth
  <2>4. Reports(i, 50)
    BY <1>1, <1>3, <1>4, <1>5, <1>6, <1>8, <2>1, <2>2, <2>3 DEF Reports
  <2> QED BY <2>4
<1> QED BY <1>7, <1>8

LEMMA MontFPReports ==
  ASSUME Whole, NEW i \in Ids, FinalizeMontFP(i)
  PROVE  \E p \in Int : Reports(i, p)
<1>1. Kind[i] = "montfp" /\ ~IsFinal(i) BY DEF FinalizeMontFP, Visit
<1>2. Report(i, 100) /\ i \in flagged' BY DEF FinalizeMontFP, SetFlag
<1>3. IsFinal(i)' BY <1>1, <1>2 DEF IsFinal, QuadFinal
<1>4. Worth(i) = 0 BY <1>1 DEF Worth
<1>5. Reports(i, 100) BY <1>1, <1>2, <1>3, <1>4 DEF Reports, MetBy
<1> QED BY <1>5

LEMMA CurveReports ==
  ASSUME Whole, NEW i \in Ids, FinalizeCurve(i)
  PROVE  \E p \in Int : Reports(i, p)
<1> DEFINE waitA == Ref[i]["a"] \notin flagged
           waitB == Ref[i]["b"] \notin flagged
<1>1. Kind[i] = "curve" /\ ~IsFinal(i) BY DEF FinalizeCurve, Visit
<1>2. /\ Report(i, IF waitA THEN 40 ELSE IF waitB THEN 50 ELSE 100)
      /\ SetFlag(i, ~waitA /\ ~waitB)
  BY DEF FinalizeCurve
<1>3. IsFinal(i)' <=> i \in flagged' BY <1>1 DEF IsFinal, QuadFinal
<1>4. Needs(i) = {Ref[i]["a"], Ref[i]["b"]} BY <1>1 DEF Needs, KeysOf
<1>5. \A n \in Needs(i) : Kind[n] = "element"
  BY <1>1, <1>4, GraphAssumption DEF WellTyped
<1>6. \A n \in Needs(i) : IsFinal(n) => n \in flagged
  BY DEF IsFinal, QuadFinal
<1>7. MetBy(i)' BY <1>1 DEF MetBy
<1>8. Worth(i) = IF waitA THEN 40 ELSE 50 BY <1>1 DEF Worth
<1>9. CASE ~waitA /\ ~waitB
  <2>1. i \in flagged' /\ Report(i, 100) BY <1>2, <1>9 DEF SetFlag
  <2>2. Reports(i, 100) BY <1>1, <1>3, <1>7, <1>8, <2>1 DEF Reports
  <2> QED BY <2>2
<1>10. CASE waitA
  <2>1. flagged' = flagged \ {i} /\ Report(i, 40) BY <1>2, <1>10 DEF SetFlag
  <2>2. Worth(i)' = 40 BY <1>1, <1>3, <1>10, <2>1 DEF Worth
  <2>3. Reports(i, 40)
    BY <1>1, <1>3, <1>4, <1>6, <1>7, <1>8, <1>10, <2>1, <2>2 DEF Reports
  <2> QED BY <2>3
<1>11. CASE ~waitA /\ waitB
  <2>1. flagged' = flagged \ {i} /\ Report(i, 50) BY <1>2, <1>11 DEF SetFlag
  <2>2. Ref[i]["a"] \in flagged'
    BY <1>1, <1>4, <1>5, <1>11, <2>1
  <2>3. Worth(i)' = 50 BY <1>1, <1>3, <2>1, <2>2 DEF Worth
  <2>4. Reports(i, 50)
    BY <1>1, <1>3, <1>4, <1>6, <1>7, <1>8, <1>11, <2>1, <2>3 DEF Reports
  <2> QED BY <2>4
<1> QED BY <1>9, <1>10, <1>11

LEMMA FiReports ==
  ASSUME Whole, NEW i \in Ids, FinalizeFi(i)
  PROVE  \E p \in Int : Reports(i, p)
<1> DEFINE b == Ref[i]["base"]
<1>1. pc = "finalize" /\ i \in objects /\ Kind[i] = "fi" /\ ~IsFinal(i)
  BY DEF FinalizeFi, Visit, IsNext, Whole, IInv, LoopInv
<1>2. Resolvable(i, "base") BY <1>1, Found DEF KeysOf
<1>3. /\ Report(i, IF b \in flagged THEN 100 ELSE 99)
      /\ linked' = [linked EXCEPT ![i] = {"base"}]
      /\ flagged' = flagged \cup {i}
  BY <1>2 DEF FinalizeFi, SetFlag
<1>4. b # i BY <1>1, GraphAssumption DEF WellTyped, BaseFields
<1>5. "base" \in linked'[i] BY <1>3 DEF Whole, IInv, TypeOK
<1>6. IsFinal(i)' <=> b \in flagged
  BY <1>1, <1>3, <1>4, <1>5 DEF IsFinal, QuadFinal
<1>7. Needs(i) = {b} BY <1>1 DEF Needs, KeysOf
<1>8. IsFinal(b) => b \in flagged BY DEF IsFinal, QuadFinal
<1>9. Worth(i) = 99 BY <1>1 DEF Worth
<1>10. MetBy(i)' BY <1>1 DEF MetBy
<1>11. CASE b \in flagged
  <2>1. Reports(i, 100)
    BY <1>1, <1>3, <1>6, <1>9, <1>10, <1>11 DEF Reports
  <2> QED BY <2>1
<1>12. CASE b \notin flagged
  <2>1. Worth(i)' = 99 BY <1>1, <1>6, <1>12 DEF Worth
  <2>2. Reports(i, 99)
    BY <1>1, <1>3, <1>6, <1>7, <1>8, <1>9, <1>10, <1>12, <2>1 DEF Reports
  <2> QED BY <2>2
<1> QED BY <1>11, <1>12

(* The field a GT extends is not touched by the call that a GT receives.   *)
LEMMA BaseKept ==
  ASSUME IInv, NEW m \in Ids, Kind[m] = "mulg",
         \A j \in Ids : Kind[j] \in {"montfp", "curve", "fi"} =>
            (j \in flagged' <=> j \in flagged) /\ linked'[j] = linked[j]
  PROVE  BaseFinal(m)' <=> BaseFinal(m)
<1> DEFINE b == Ref[m]["base"]
<1>1. b \in Ids /\ Kind[b] \in {"montfp", "curve", "fi"}
  BY GraphAssumption DEF WellTyped, Fields
<1>2. Kind[b] = "fi" => Ref[b]["base"] \in Ids
                        /\ Kind[Ref[b]["base"]] \in {"montfp", "curve"}
  BY <1>1, GraphAssumption DEF WellTyped, BaseFields
<1> QED BY <1>1, <1>2 DEF BaseFinal, QuadFinal

LEMMA MulgReports ==
  ASSUME Whole, NEW i \in Ids, FinalizeMulg(i)
  PROVE  \E p \in Int : Reports(i, p)
<1> DEFINE P == Ref[i]["pairing"]
           p == MulgPercentInPass(i)
<1>1. pc = "finalize" /\ i \in objects /\ Kind[i] = "mulg" /\ ~IsFinal(i)
  BY DEF FinalizeMulg, Visit, IsNext, Whole, IInv, LoopInv
<1>2. /\ Resolvable(i, "base") /\ ~Missing(i, "pairing") /\ P \in objects
  BY <1>1, Found DEF KeysOf
<1>3. /\ linked' = [linked EXCEPT ![i] = MulgLinks(i, p)]
      /\ flagged' = IF p = 100 THEN flagged \cup {i} ELSE flagged \ {i}
      /\ Report(i, p)
  BY DEF FinalizeMulg, SetFlag, MulgFlag
<1>4. /\ p = 49 <=> ~BaseFinal(i)
      /\ p \in {49, 60, 70, 100}
      /\ p = 60 => "GT" \notin linked[P]
  BY <1>2 DEF MulgPercentInPass, MulgPercent, BaseFinal
<1> HIDE DEF p
<1>5. "base" \in linked'[i] BY <1>3, <1>4 DEF MulgLinks, Whole, IInv, TypeOK
<1>6. BaseFinal(i)' <=> BaseFinal(i)
  <2>1. \A j \in Ids : Kind[j] \in {"montfp", "curve", "fi"} =>
          (j \in flagged' <=> j \in flagged) /\ linked'[j] = linked[j]
    BY <1>1, <1>3 DEF Whole, IInv, TypeOK
  <2> QED BY <1>1, <2>1, BaseKept DEF Whole
<1>7. IsFinal(i)' <=> p = 100
  BY <1>1, <1>3, <1>4, <1>5, <1>6 DEF IsFinal, QuadFinal, BaseFinal
<1>8. p < 100 => p <= Worth(i)'
  BY <1>1, <1>4, <1>6, <1>7 DEF Worth
<1>9. MetBy(i)' BY <1>1, <1>5 DEF MetBy
<1>10. ASSUME AllMet PROVE Worth(i) <= p
  <2>1. Worth(i) = IF BaseFinal(i) THEN 70 ELSE 49 BY <1>1 DEF Worth
  <2>2. Kind[P] = "pairing" /\ Ref[P]["GT"] = i BY <1>1, PairingOfGT
  <2>3. i \in Needs(P) BY <2>2 DEF Needs, KeysOf
  <2>4. ~IsFinal(P) BY <1>1, <1>2, <2>3 DEF Whole, IInv, FinalClosed
  <2>5. "GT" \in linked[P]
    BY <1>2, <1>10, <2>2, <2>4 DEF AllMet, MetBy, KeysOf
  <2> QED BY <1>4, <2>1, <2>5
<1>11. Reports(i, p)
  BY <1>1, <1>3, <1>4, <1>7, <1>8, <1>9, <1>10 DEF Reports
<1> QED BY <1>4, <1>11

LEMMA PairingGTFinalReports ==
  ASSUME Whole, NEW i \in Ids, FinalizePairingGTFinal(i)
  PROVE  \E p \in Int : Reports(i, p)
<1> DEFINE p == With(i)
<1>1. i \in objects /\ Kind[i] = "pairing" /\ ~IsFinal(i)
      /\ IsFinal(Ref[i]["GT"])
  BY DEF FinalizePairingGTFinal, Visit, IsNext, Whole, IInv, LoopInv
<1>2. PairingPercent(i, TRUE) = p BY PairingPercentIs
<1>3. /\ linked' = [linked EXCEPT ![i] = KeysOf("pairing")]
      /\ SetFlag(i, p = 100) /\ Report(i, p)
  BY <1>2 DEF FinalizePairingGTFinal
<1>4. p \in 50 .. 100 /\ With(i)' \in 50 .. 100 BY GTCounts, GTCountsNext
<1>5. KeepsFinal BY PairingGTFinalEffect, EffectKeepsFinal DEF Whole
<1>6. p <= With(i)' BY <1>5, CountGrows DEF Whole, IInv
<1>7. IsFinal(Ref[i]["GT"])'
  BY <1>1, <1>5 DEF KeepsFinal, IsFinal, QuadFinal, Whole, IInv, TypeOK
<1>8. p = 100 <=> i \in flagged' BY <1>3 DEF SetFlag
<1>9. IsFinal(i)' <=> p = 100 BY <1>1, <1>8, Zenon DEF IsFinal, QuadFinal
<1>10. MetBy(i)' BY <1>1, <1>3 DEF MetBy, Whole, IInv, TypeOK
<1>11. Worth(i) = IF p = 100 THEN 99 ELSE p BY <1>1 DEF Worth
<1>12. ~IsFinal(i)' => Worth(i)' = IF With(i)' = 100 THEN 99 ELSE With(i)'
  BY <1>1, <1>7 DEF Worth
<1>13. (\A j \in Needs(i) : IsFinal(j)) => p = 100
  <2>1. \A k \in FieldKeys : Ref[i][k] \in Needs(i)
    BY <1>1 DEF Needs, KeysOf, FieldKeys
  <2> QED BY <2>1, AllCount
<1> HIDE DEF p
<1>14. p < 100 => ~IsFinal(i)' /\ p <= Worth(i)'
  BY <1>4, <1>6, <1>9, <1>12
<1>15. Worth(i) <= p BY <1>4, <1>11
<1>16. Reports(i, p)
  BY <1>3, <1>4, <1>9, <1>10, <1>13, <1>14, <1>15 DEF Reports, p
<1> QED BY <1>4, <1>16

LEMMA PairingWaitReports ==
  ASSUME Whole, NEW i \in Ids, FinalizePairingWait(i)
  PROVE  \E p \in Int : Reports(i, p)
<1> DEFINE gt == Ref[i]["GT"]
<1>1. pc = "finalize" /\ i \in objects /\ Kind[i] = "pairing" /\ ~IsFinal(i)
      /\ ~IsFinal(gt) /\ "base" \notin linked[gt]
  BY DEF FinalizePairingWait, Visit, IsNext, Whole, IInv, LoopInv
<1>2. /\ linked' = [linked EXCEPT ![i] = KeysOf("pairing")]
      /\ flagged' = flagged /\ Report(i, 20)
  BY DEF FinalizePairingWait
<1>3. gt \in objects /\ Kind[gt] = "mulg" /\ gt \in Needs(i)
  BY <1>1, Found, PairingType DEF KeysOf, Needs
<1>4. ~AllMet BY <1>1, <1>3 DEF AllMet, MetBy
<1>5. ~IsFinal(i)' BY <1>1, <1>2 DEF IsFinal, QuadFinal
<1>6. 20 <= Worth(i)'
  <2>1. Worth(i)' = IF ~IsFinal(Ref[i]["GT"])' THEN Without(i)'
                    ELSE IF With(i)' = 100 THEN 99 ELSE With(i)'
    BY <1>1, <1>5 DEF Worth
  <2> QED BY <2>1, GTCountsNext
<1>7. MetBy(i)' BY <1>1, <1>2 DEF MetBy, Whole, IInv, TypeOK
<1>8. Reports(i, 20)
  BY <1>1, <1>2, <1>3, <1>4, <1>5, <1>6, <1>7 DEF Reports
<1> QED BY <1>8

LEMMA PairingWithGTReports ==
  ASSUME Whole, NEW i \in Ids, FinalizePairingWithGT(i)
  PROVE  \E p \in Int : Reports(i, p)
<1> DEFINE gt     == Ref[i]["GT"]
           nested == MulgPercent(gt, TRUE, TRUE)
           p      == PairingPercent(i, nested = 100)
<1>1. pc = "finalize" /\ i \in objects /\ Kind[i] = "pairing" /\ ~IsFinal(i)
      /\ ~IsFinal(gt)
  BY DEF FinalizePairingWithGT, Visit, IsNext, Whole, IInv, LoopInv
<1>2. gt \in Ids /\ gt # i /\ Kind[gt] = "mulg" /\ Ref[gt]["pairing"] = i
  BY <1>1, PairingType
<1>3. gt \in objects /\ gt \in Needs(i)
  BY <1>1, Found DEF KeysOf, Needs
<1>4. Resolvable(gt, "base") /\ ~Missing(gt, "pairing")
  BY <1>1, <1>2, <1>3, Found DEF KeysOf
<1>5. nested = IF BaseFinal(gt) THEN 100 ELSE 49
  BY <1>4 DEF MulgPercent, BaseFinal
<1>6. p = IF BaseFinal(gt) THEN With(i) ELSE Without(i)
  <2>1. CASE BaseFinal(gt)
    <3>1. (nested = 100) = TRUE BY <1>5, <2>1
    <3> QED BY <2>1, <3>1, PairingPercentIs, Zenon
  <2>2. CASE ~BaseFinal(gt)
    <3> HIDE DEF nested
    <3>1. nested # 100 BY <1>5, <2>2
    <3>2. (nested = 100) = FALSE BY <3>1, Zenon
    <3> QED BY <2>2, <3>2, PairingPercentIs, Zenon
  <2> QED BY <2>1, <2>2
<1>7. /\ linked' = [linked EXCEPT ![i] = KeysOf("pairing"),
                                   ![gt] = MulgLinks(gt, nested)]
      /\ flagged' = (flagged \ {gt}) \cup (IF nested = 100 THEN {gt} ELSE {})
                                     \cup (IF p = 100 THEN {i} ELSE {})
      /\ Report(i, p)
  BY DEF FinalizePairingWithGT
<1> HIDE DEF nested, p
<1>8. i \notin flagged BY <1>1 DEF IsFinal, QuadFinal
<1>9. IsFinal(i)' <=> p = 100
  BY <1>1, <1>2, <1>7, <1>8 DEF IsFinal, QuadFinal
<1>10. /\ With(i) \in 50 .. 100 /\ Without(i) \in 50 .. 99
       /\ Without(i) < With(i)
       /\ With(i)' \in 50 .. 100 /\ Without(i)' \in 50 .. 99
  BY GTCounts, GTCountsNext
<1>11. With(i) <= With(i)' /\ Without(i) <= Without(i)'
  <2>1. KeepsFinal BY PairingWithGTEffect, EffectKeepsFinal DEF Whole
  <2> QED BY <2>1, CountGrows DEF Whole, IInv
<1>12. linked'[i] = KeysOf("pairing") /\ linked'[gt] = MulgLinks(gt, nested)
       /\ \A j \in Ids \ {i, gt} : linked'[j] = linked[j]
  BY <1>2, <1>7 DEF Whole, IInv, TypeOK
<1>13. MetBy(i)' BY <1>1, <1>12 DEF MetBy
<1>14. BaseFinal(gt) => IsFinal(gt)'
  <2> SUFFICES ASSUME BaseFinal(gt) PROVE IsFinal(gt)'
    OBVIOUS
  <2>1. \A j \in Ids : Kind[j] \in {"montfp", "curve", "fi"} =>
          (j \in flagged' <=> j \in flagged) /\ linked'[j] = linked[j]
    BY <1>1, <1>2, <1>7, <1>12
  <2>2. BaseFinal(gt)' <=> BaseFinal(gt) BY <1>2, <2>1, BaseKept DEF Whole
  <2>3. nested = 100 /\ gt \in flagged' BY <1>5, <1>7
  <2>4. "base" \in linked'[gt] BY <1>12, <2>3 DEF MulgLinks
  <2> QED BY <1>2, <2>2, <2>3, <2>4 DEF IsFinal, QuadFinal, BaseFinal
<1>15. p < 100 => ~IsFinal(i)' /\ p <= Worth(i)'
  <2>1. ~IsFinal(i)' => Worth(i)' = IF ~IsFinal(gt)' THEN Without(i)'
                        ELSE IF With(i)' = 100 THEN 99 ELSE With(i)'
    BY <1>1 DEF Worth
  <2>2. CASE BaseFinal(gt) BY <1>6, <1>9, <1>10, <1>11, <1>14, <2>1, <2>2
  <2>3. CASE ~BaseFinal(gt) BY <1>6, <1>9, <1>10, <1>11, <2>1, <2>3
  <2> QED BY <2>2, <2>3
<1>16. Worth(i) <= p
  <2>1. Worth(i) = Without(i) BY <1>1 DEF Worth
  <2> QED BY <1>6, <1>10, <2>1
<1>17. p \in 20 .. 100 BY <1>6, <1>10
<1>18. BaseFinal(gt) => With(i) <= p BY <1>6, <1>10
<1>19. Reports(i, p)
  BY <1>1, <1>3, <1>7, <1>9, <1>13, <1>15, <1>16, <1>17, <1>18 DEF Reports
<1> QED BY <1>17, <1>19

(* No call throws, so that every call reports, or the object is final.     *)
LEMMA NoneFails ==
  ASSUME Whole, NEW i \in Ids
  PROVE  ~FinalizeCurveFails(i) /\ ~FinalizeMulgFails(i) /\ ~FinalizePairingFails(i)
<1>1. ASSUME pc = "finalize", i \in todo PROVE i \in objects
  BY <1>1 DEF Whole, IInv, LoopInv
<1>2. ASSUME FinalizeCurveFails(i) PROVE FALSE
  <2>1. pc = "finalize" /\ i \in objects /\ Kind[i] = "curve" /\ ~IsFinal(i)
    BY <1>1, <1>2 DEF FinalizeCurveFails, Visit, IsNext
  <2>2. i \in live BY <2>1 DEF Whole, Settled
  <2>3. doc.nocofac = {} BY DEF Whole, Complete
  <2> QED
    BY <1>2, <2>1, <2>2, <2>3, Found DEF FinalizeCurveFails, CurveThrows, KeysOf
<1>3. ASSUME FinalizeMulgFails(i) PROVE FALSE
  <2>1. pc = "finalize" /\ i \in objects /\ Kind[i] = "mulg" /\ ~IsFinal(i)
    BY <1>1, <1>3 DEF FinalizeMulgFails, Visit, IsNext
  <2>2. ~Missing(i, "pairing") BY <2>1, Found DEF KeysOf
  <2>3. MulgPercentInPass(i) # Thrown
    BY <2>2 DEF MulgPercentInPass, MulgPercent, Thrown
  <2> QED BY <1>3, <2>3 DEF FinalizeMulgFails
<1>4. ASSUME FinalizePairingFails(i) PROVE FALSE
  <2>1. pc = "finalize" /\ i \in objects /\ Kind[i] = "pairing" /\ ~IsFinal(i)
    BY <1>1, <1>4 DEF FinalizePairingFails, Visit, IsNext
  <2>2. PICK n \in 1 .. 7 : Missing(i, PairingKeys[n])
    BY <1>4 DEF FinalizePairingFails
  <2>3. PairingKeys[n] \in KeysOf(Kind[i])
    BY <2>1, PairingKeysRange, PairingType
  <2> QED BY <2>1, <2>2, <2>3, Found
<1> QED BY <1>2, <1>3, <1>4

LEMMA CallReports ==
  ASSUME Whole, Finalize
  PROVE  \E i \in Ids : \/ SkipFinal(i)
                        \/ Effect(i) /\ \E p \in Int : Reports(i, p)
<1>1. ASSUME NEW i \in Ids, FinalizeElement(i)
      PROVE  Effect(i) /\ \E p \in Int : Reports(i, p)
  BY <1>1, ElementEffect, ElementReports DEF Whole
<1>2. ASSUME NEW i \in Ids, FinalizeMontFP(i)
      PROVE  Effect(i) /\ \E p \in Int : Reports(i, p)
  BY <1>2, MontFPEffect, MontFPReports DEF Whole
<1>3. ASSUME NEW i \in Ids, FinalizeCurve(i)
      PROVE  Effect(i) /\ \E p \in Int : Reports(i, p)
  BY <1>3, CurveEffect, CurveReports DEF Whole
<1>4. ASSUME NEW i \in Ids, FinalizeFi(i)
      PROVE  Effect(i) /\ \E p \in Int : Reports(i, p)
  BY <1>4, FiEffect, FiReports DEF Whole
<1>5. ASSUME NEW i \in Ids, FinalizeMulg(i)
      PROVE  Effect(i) /\ \E p \in Int : Reports(i, p)
  BY <1>5, MulgEffect, MulgReports DEF Whole
<1>6. ASSUME NEW i \in Ids, FinalizePairingGTFinal(i)
      PROVE  Effect(i) /\ \E p \in Int : Reports(i, p)
  BY <1>6, PairingGTFinalEffect, PairingGTFinalReports DEF Whole
<1>7. ASSUME NEW i \in Ids, FinalizePairingWait(i)
      PROVE  Effect(i) /\ \E p \in Int : Reports(i, p)
  BY <1>7, PairingWaitEffect, PairingWaitReports DEF Whole
<1>8. ASSUME NEW i \in Ids, FinalizePairingWithGT(i)
      PROVE  Effect(i) /\ \E p \in Int : Reports(i, p)
  BY <1>8, PairingWithGTEffect, PairingWithGTReports DEF Whole
<1> QED
  BY <1>1, <1>2, <1>3, <1>4, <1>5, <1>6, <1>7, <1>8, NoneFails DEF Finalize

-----------------------------------------------------------------------------
(* A pass against the one before.  r holds what the objects visited so far *)
(* have reported, w what the pass has to exceed: no object falls behind,   *)
(* and one of them, m, is or will be ahead, unless all of them are final.  *)

(* m will report more than x: it has not reported before, or will be final,*)
(* or will find its GT final.                                              *)
Due(m, x) ==
  \/ x = 0
  \/ x < 100 /\ Kind[m] # "mulg" /\ \A j \in Needs(m) : IsFinal(j)
  \/ x < With(m) /\ Kind[m] = "pairing" /\ BaseFinal(Ref[m]["GT"])

Tallied(r) ==
  /\ status = NativeStatus + Cardinality(Parts(objects \ todo, r))
  /\ \A i \in objects \ todo : /\ 20 <= r[i] /\ r[i] <= Worth(i)
                               /\ MetBy(i)
                               /\ allFinal => r[i] = 100

Ahead(w, r) ==
  /\ \A i \in objects : w[i] <= IF i \in todo THEN Worth(i) ELSE r[i]
  /\ oldStatus = 0 => \A i \in Ids : w[i] = 0
  /\ oldStatus # 0 => /\ AllMet
                      /\ oldStatus <= NativeStatus + Cardinality(Parts(objects, w))
  /\ \/ allFinal /\ \A i \in objects : IsFinal(i)
     \/ \E m \in objects : IF m \in todo THEN Due(m, w[m]) ELSE w[m] < r[m]

Pace == \E w, r \in Percentages : Tallied(r) /\ Ahead(w, r)

Worths == \A i \in Ids : Worth(i) \in 0 .. 100 /\ (IsFinal(i) => Worth(i) = 100)

LEMMA WorthsHold == Worths
BY WorthType DEF Worths

LEMMA WorthsHoldNext == Worths'
BY WorthsHold, PTL

LEMMA DueKept ==
  ASSUME IInv, KeepsFinal, NEW m \in Ids, NEW x \in 0 .. 100, Due(m, x)
  PROVE  Due(m, x)'
<1>1. \A j : IsFinal(j) => IsFinal(j)'
  BY DEF IInv, TypeOK, KeepsFinal, IsFinal, QuadFinal
<1>2. CASE x = 0 BY <1>2 DEF Due
<1>3. CASE x < 100 /\ Kind[m] # "mulg" /\ \A j \in Needs(m) : IsFinal(j)
  <2>1. \A j \in Needs(m)' : IsFinal(j)' BY <1>1, <1>3 DEF Needs
  <2> QED BY <1>3, <2>1 DEF Due
<1>4. CASE x < With(m) /\ Kind[m] = "pairing" /\ BaseFinal(Ref[m]["GT"])
  <2> DEFINE gt == Ref[m]["GT"]
  <2>1. gt \in Ids /\ Kind[gt] = "mulg" BY <1>4, PairingType
  <2>2. Kind[Ref[gt]["base"]] # "mulg" BY <2>1, GraphAssumption DEF WellTyped
  <2>3. BaseFinal(gt)' BY <1>1, <1>4, <2>2 DEF IsFinal, BaseFinal
  <2>4. With(m) <= With(m)' BY CountGrows DEF IInv
  <2>5. x < With(m)' BY <1>4, <2>4, GTCounts, GTCountsNext
  <2> QED BY <1>4, <2>3, <2>5 DEF Due
<1> QED BY <1>2, <1>3, <1>4 DEF Due

LEMMA MetKept ==
  ASSUME IInv, KeepsFinal, NEW j \in Ids, linked[j] \subseteq linked'[j], MetBy(j)
  PROVE  MetBy(j)'
<1>1. IsFinal(j) => IsFinal(j)'
  BY DEF IInv, TypeOK, KeepsFinal, IsFinal, QuadFinal
<1> QED BY <1>1 DEF MetBy

(* What one iteration of the pass counts for i.                            *)
Iteration(i, p) ==
  /\ i \in todo /\ todo' = todo \ {i}
  /\ objects' = objects /\ native' = native /\ oldStatus' = oldStatus
  /\ \A j \in Ids : linked[j] \subseteq linked'[j]
  /\ p \in 20 .. 100 /\ status' = status + p
  /\ allFinal' => allFinal /\ p = 100
  /\ allFinal /\ IsFinal(i) => allFinal'
  /\ p <= Worth(i)' /\ MetBy(i)'
  /\ AllMet => Worth(i) <= p
  /\ \A x \in 0 .. 100 : Due(i, x) /\ (x = 0 \/ AllMet) => x < p

LEMMA IterationKeepsPace ==
  ASSUME IInv, pc = "finalize", Pace, KeepsFinal,
         NEW i \in Ids, NEW p \in Int, Iteration(i, p)
  PROVE  Pace'
<1>0. /\ i \in todo /\ todo' = todo \ {i}
      /\ objects' = objects /\ native' = native /\ oldStatus' = oldStatus
      /\ \A j \in Ids : linked[j] \subseteq linked'[j]
      /\ p \in 20 .. 100 /\ status' = status + p
      /\ allFinal' => allFinal /\ p = 100
      /\ allFinal /\ IsFinal(i) => allFinal'
      /\ p <= Worth(i)' /\ MetBy(i)'
      /\ AllMet => Worth(i) <= p
      /\ \A x \in 0 .. 100 : Due(i, x) /\ (x = 0 \/ AllMet) => x < p
  BY DEF Iteration
<1>1. PICK w \in Percentages, r \in Percentages : Tallied(r) /\ Ahead(w, r)
  BY DEF Pace
<1>2. i \in Ids /\ i \in objects /\ objects \subseteq Ids
  BY <1>0 DEF IInv, TypeOK, LoopInv
<1>3. PICK q \in Percentages : q[i] = p /\ \A j \in Ids \ {i} : q[j] = r[j]
  <2>1. [r EXCEPT ![i] = p] \in Percentages BY <1>0, <1>2 DEF Percentages
  <2>2. [r EXCEPT ![i] = p][i] = p
        /\ \A j \in Ids \ {i} : [r EXCEPT ![i] = p][j] = r[j]
    BY <1>0, <1>1, <1>2 DEF Percentages
  <2> QED BY <2>1, <2>2
<1>4. \A j \in Ids : w[j] \in 0 .. 100 /\ r[j] \in 0 .. 100 /\ q[j] \in 0 .. 100
  BY <1>3 DEF Percentages
<1>5. objects' \ todo' = (objects \ todo) \cup {i} BY <1>0, <1>2
<1>6. \A j \in objects : Worth(j) <= Worth(j)' BY <1>0, WorthGrows
<1>7. \A j \in Ids : /\ Worth(j) \in 0 .. 100 /\ Worth(j)' \in 0 .. 100
                     /\ IsFinal(j) => Worth(j) = 100
  BY WorthsHold, WorthsHoldNext DEF Worths
<1>8. Tallied(q)'
  <2>1. NativeStatus' = NativeStatus /\ NativeStatus \in Int
    BY <1>0 DEF NativeStatus
  <2>2. Cardinality(Parts((objects \ todo) \cup {i}, q))
          = Cardinality(Parts(objects \ todo, r)) + q[i]
    <3>1. /\ objects \ todo \in SUBSET Ids /\ i \notin objects \ todo
          /\ \A j \in objects \ todo : q[j] = r[j]
      BY <1>0, <1>2, <1>3
    <3> QED BY <3>1, PartsAdd
  <2>3. Cardinality(Parts(objects \ todo, r)) \in Nat BY <1>2, PartsFinite
  <2>4. status = NativeStatus + Cardinality(Parts(objects \ todo, r))
    BY <1>1 DEF Tallied
  <2>5. status' = NativeStatus' + Cardinality(Parts((objects \ todo) \cup {i}, q))
    BY <1>0, <1>3, <2>1, <2>2, <2>3, <2>4
  <2>6. status' = (NativeStatus + Cardinality(Parts(objects \ todo, q)))'
    BY <1>5, <2>5, Zenon DEF Parts
  <2>7. ASSUME NEW j \in objects' \ todo'
        PROVE  /\ 20 <= q[j] /\ q[j] <= Worth(j)' /\ MetBy(j)'
               /\ allFinal' => q[j] = 100
    <3>1. CASE j = i BY <1>0, <1>3, <3>1
    <3>2. CASE j # i
      <4>1. j \in objects \ todo /\ j \in Ids BY <1>0, <1>2, <1>5, <2>7, <3>2
      <4>2. 20 <= r[j] /\ r[j] <= Worth(j) /\ MetBy(j) /\ (allFinal => r[j] = 100)
        BY <1>1, <4>1 DEF Tallied
      <4>3. MetBy(j)' BY <1>0, <4>1, <4>2, MetKept
      <4> QED BY <1>0, <1>3, <1>4, <1>6, <1>7, <3>2, <4>1, <4>2, <4>3
    <3> QED BY <3>1, <3>2
  <2> QED BY <2>6, <2>7 DEF Tallied
<1>9. oldStatus # 0 => AllMet BY <1>1 DEF Ahead
<1>10. oldStatus = 0 => \A j \in Ids : w[j] = 0 BY <1>1 DEF Ahead
<1>11. Ahead(w, q)'
  <2>1. ASSUME NEW j \in objects'
        PROVE  w[j] <= IF j \in todo' THEN Worth(j)' ELSE q[j]
    <3>1. j \in objects /\ j \in Ids BY <1>0, <1>2
    <3>2. w[j] <= IF j \in todo THEN Worth(j) ELSE r[j]
      BY <1>1, <3>1 DEF Ahead
    <3>3. CASE j = i
      <4>1. w[i] = 0 \/ Worth(i) <= p BY <1>0, <1>2, <1>9, <1>10
      <4> QED BY <1>0, <1>3, <1>4, <1>7, <3>1, <3>2, <3>3, <4>1
    <3>4. CASE j # i BY <1>0, <1>3, <1>4, <1>6, <1>7, <3>1, <3>2, <3>4
    <3> QED BY <3>3, <3>4
  <2>2. oldStatus' # 0 => AllMet'
    BY <1>0, <1>2, <1>9, MetKept DEF AllMet
  <2>3. oldStatus' # 0 =>
          oldStatus' <= (NativeStatus + Cardinality(Parts(objects, w)))'
    <3>1. (NativeStatus + Cardinality(Parts(objects, w)))'
            = NativeStatus + Cardinality(Parts(objects, w))
      BY <1>0, Zenon DEF NativeStatus, Parts
    <3> QED BY <1>0, <1>1, <3>1 DEF Ahead
  <2>4. \/ (allFinal /\ \A j \in objects : IsFinal(j))'
        \/ \E m \in objects' : IF m \in todo' THEN Due(m, w[m])' ELSE w[m] < q[m]
    <3>1. CASE allFinal /\ \A j \in objects : IsFinal(j)
      BY <1>0, <1>2, <3>1 DEF KeepsFinal
    <3>2. CASE \E m \in objects : IF m \in todo THEN Due(m, w[m]) ELSE w[m] < r[m]
      <4>1. PICK m \in objects : IF m \in todo THEN Due(m, w[m]) ELSE w[m] < r[m]
        BY <3>2
      <4>2. m \in Ids BY <1>2
      <4>3. CASE m = i
        <5>1. w[m] = 0 \/ AllMet BY <1>9, <1>10, <4>2
        <5>2. w[m] < p BY <1>0, <1>4, <4>1, <4>2, <4>3, <5>1
        <5> QED BY <1>0, <1>3, <4>3, <5>2
      <4>4. CASE m # i /\ m \in todo
        <5>1. Due(m, w[m])' BY <1>4, <4>1, <4>2, <4>4, DueKept
        <5> QED BY <1>0, <4>4, <5>1
      <4>5. CASE m # i /\ m \notin todo BY <1>0, <1>3, <4>1, <4>2, <4>5
      <4> QED BY <4>3, <4>4, <4>5
    <3> QED BY <1>1, <3>1, <3>2 DEF Ahead
  <2> QED BY <1>0, <1>10, <2>1, <2>2, <2>3, <2>4 DEF Ahead
<1> QED BY <1>1, <1>3, <1>8, <1>11 DEF Pace

LEMMA DueBound ==
  ASSUME NEW i \in Ids, NEW x \in 0 .. 100, Due(i, x)
  PROVE  x < 100
BY GTCounts DEF Due

LEMMA SkipCounts ==
  ASSUME Whole, NEW i \in Ids, SkipFinal(i)
  PROVE  Iteration(i, 100) /\ KeepsFinal
<1>1. /\ pc = "finalize" /\ i \in todo /\ IsFinal(i) /\ UNCHANGED graph
      /\ todo' = todo \ {i} /\ status' = status + 100
      /\ allFinal' = allFinal /\ native' = native /\ oldStatus' = oldStatus
  BY DEF SkipFinal, IsNext
<1>2. objects' = objects /\ linked' = linked BY <1>1 DEF graph
<1>3. KeepsFinal /\ IsFinal(i)' BY <1>1, SameGraph DEF KeepsFinal, Whole
<1>4. Worth(i)' = 100 BY <1>3, WorthsHoldNext DEF Worths
<1>5. MetBy(i)' BY <1>3 DEF MetBy
<1>6. Worth(i) <= 100 BY WorthsHold DEF Worths
<1> QED BY <1>1, <1>2, <1>3, <1>4, <1>5, <1>6, DueBound DEF Iteration

LEMMA CallCounts ==
  ASSUME Whole, NEW i \in Ids, Effect(i), NEW p \in Int, Reports(i, p)
  PROVE  /\ Iteration(i, p) /\ KeepsFinal
         /\ pc' = pc /\ outcome' = outcome /\ live' = live /\ doc' = doc
<1>1. pc = "finalize" /\ i \in todo /\ i \in objects
  BY DEF Effect, Whole, IInv, LoopInv
<1>2. objects' = objects /\ \A j \in Ids : linked[j] \subseteq linked'[j]
  BY DEF Effect, Growth
<1>3. KeepsFinal BY EffectKeepsFinal DEF Whole
<1>4. /\ p \in 20 .. 100 /\ MetBy(i)'
      /\ AllMet => Worth(i) <= p
      /\ p = 100 => IsFinal(i)'
      /\ p < 100 => ~IsFinal(i)' /\ p <= Worth(i)'
  BY DEF Reports
<1>5. /\ todo' = todo \ {i} /\ status' = status + p
      /\ allFinal' = StillAllFinal(i)
      /\ native' = native /\ oldStatus' = oldStatus
      /\ outcome' = outcome /\ live' = live /\ doc' = doc
      /\ pc' = IF Asserts /\ IsFinal(i)' # (p = 100) THEN "aborted" ELSE pc
  BY DEF Reports, Report
<1>6. IsFinal(i)' <=> p = 100 BY <1>4
<1>7. pc' = pc
  <2>1. IsFinal(i)' = (p = 100) BY <1>6, Zenon DEF IsFinal, QuadFinal
  <2> QED BY <1>5, <2>1, Zenon
<1>8. p <= Worth(i)' BY <1>4, WorthsHoldNext DEF Worths
<1>9. allFinal' => allFinal /\ p = 100 BY <1>5, <1>6 DEF StillAllFinal
<1>10. allFinal /\ IsFinal(i) => allFinal'
  BY <1>1, <1>3, <1>5 DEF StillAllFinal, KeepsFinal
<1>11. ASSUME NEW x \in 0 .. 100, Due(i, x), x = 0 \/ AllMet
       PROVE  x < p
  <2>1. (Kind[i] # "mulg" /\ \A j \in Needs(i) : IsFinal(j)) => p = 100
    BY DEF Reports
  <2>2. (Kind[i] = "pairing" /\ AllMet /\ BaseFinal(Ref[i]["GT"])) => With(i) <= p
    BY DEF Reports
  <2> QED BY <1>4, <1>11, <2>1, <2>2, GTCounts DEF Due
<1>12. Iteration(i, p)
  BY <1>1, <1>2, <1>4, <1>5, <1>8, <1>9, <1>10, <1>11 DEF Iteration
<1> QED BY <1>3, <1>5, <1>7, <1>12

LEMMA FinalizeKeepsPace ==
  ASSUME Whole, pc = "finalize", Pace, Finalize
  PROVE  /\ Pace' /\ KeepsFinal /\ objects' = objects
         /\ pc' = pc /\ outcome' = outcome /\ live' = live /\ doc' = doc
<1>1. PICK i \in Ids : \/ SkipFinal(i)
                       \/ Effect(i) /\ \E p \in Int : Reports(i, p)
  BY CallReports
<1>2. CASE SkipFinal(i)
  <2>1. Iteration(i, 100) /\ KeepsFinal BY <1>2, SkipCounts
  <2>2. Pace' BY <2>1, IterationKeepsPace DEF Whole
  <2> QED BY <1>2, <2>1, <2>2 DEF SkipFinal, Iteration
<1>3. CASE Effect(i) /\ \E p \in Int : Reports(i, p)
  <2>1. PICK p \in Int : Reports(i, p) BY <1>3
  <2>2. /\ Iteration(i, p) /\ KeepsFinal
        /\ pc' = pc /\ outcome' = outcome /\ live' = live /\ doc' = doc
    BY <1>3, <2>1, CallCounts
  <2>3. Pace' BY <2>2, IterationKeepsPace DEF Whole
  <2> QED BY <2>2, <2>3 DEF Iteration
<1> QED BY <1>1, <1>2, <1>3

-----------------------------------------------------------------------------
(* The passes.                                                             *)

(* What is not final includes an object that waits for none of the others; *)
(* when that is a GT, it waits for its pairing, whose turn comes.          *)
LEMMA SomeoneIsDue ==
  ASSUME Grounded, Whole, pc = "finalize", NEW w \in Percentages,
         \A i \in Ids : w[i] = Worth(i)
  PROVE  \/ \A i \in objects : IsFinal(i)
         \/ \E m \in objects : Due(m, w[m])
<1> DEFINE S == {i \in objects : ~IsFinal(i)}
<1> SUFFICES ASSUME S # {} PROVE \E m \in objects : Due(m, w[m])
  OBVIOUS
<1>1. S \in SUBSET Ids BY DEF Whole, IInv, TypeOK
<1>2. PICK m \in S : Needs(m) \cap S = {} BY <1>1 DEF Grounded
<1>3. m \in objects /\ m \in Ids /\ ~IsFinal(m) BY <1>1
<1>4. \A j \in Needs(m) : j \in objects
  BY <1>3, Found DEF Needs
<1>5. \A j \in Needs(m) : IsFinal(j) BY <1>2, <1>4
<1>6. CASE Kind[m] # "mulg"
  <2>1. w[m] < 100 BY <1>3, WorthType
  <2> QED BY <1>3, <1>5, <1>6, <2>1 DEF Due
<1>7. CASE Kind[m] = "mulg"
  <2> DEFINE P == Ref[m]["pairing"]
  <2>1. P \in Ids /\ Kind[P] = "pairing" /\ Ref[P]["GT"] = m
    BY <1>3, <1>7, PairingOfGT
  <2>2. P \in objects BY <1>3, <1>7, Found DEF KeysOf
  <2>3. m \in Needs(P) BY <2>1 DEF Needs, KeysOf
  <2>4. ~IsFinal(P) BY <1>3, <2>2, <2>3 DEF Whole, IInv, FinalClosed
  <2>5. w[P] = Without(P) BY <1>3, <2>1, <2>4 DEF Worth
  <2>6. Ref[m]["base"] \in Needs(m) BY <1>7 DEF Needs, KeysOf
  <2>7. BaseFinal(m) BY <1>5, <2>6 DEF BaseFinal, IsFinal
  <2>8. Due(P, w[P]) BY <2>1, <2>5, <2>7, GTCounts DEF Due
  <2> QED BY <2>2, <2>8
<1> QED BY <1>6, <1>7

LEMMA FirstPassStarts ==
  ASSUME Whole, pc = "construct", ConstructDone
  PROVE  /\ Pace' /\ KeepsFinal /\ objects' = objects
         /\ pc' = "finalize" /\ outcome' = outcome /\ live' = live /\ doc' = doc
<1>1. todo = {} /\ rootId \in objects
  BY DEF ConstructDone, Whole, Registered, Running, Complete
<1>2. StartPass(0) BY <1>1 DEF ConstructDone
<1>3. UNCHANGED graph /\ objects' = objects /\ todo' = objects /\ oldStatus' = 0
      /\ native' = native /\ status' = NativeStatus
  BY <1>2 DEF StartPass, graph
<1>4. PICK w \in Percentages : \A i \in Ids : w[i] = 0
  <2>1. [i \in Ids |-> 0] \in Percentages BY DEF Percentages
  <2> QED BY <2>1
<1>5. objects' \ todo' = {} BY <1>3
<1>6. Tallied(w)'
  <2>1. Cardinality(Parts({}, w)) = 0 BY PartsNone
  <2>2. (NativeStatus + Cardinality(Parts(objects \ todo, w)))' = NativeStatus + 0
    BY <1>3, <1>5, <2>1, Zenon DEF NativeStatus, Parts
  <2>3. NativeStatus + 0 = NativeStatus BY DEF NativeStatus
  <2>4. status' = (NativeStatus + Cardinality(Parts(objects \ todo, w)))'
    BY <1>3, <2>2, <2>3
  <2> QED BY <1>5, <2>4 DEF Tallied
<1>7. Ahead(w, w)'
  <2>1. PICK m \in Ids : m \in objects BY <1>1 DEF Whole, IInv, TypeOK
  <2>2. objects \subseteq Ids BY DEF Whole, IInv, TypeOK
  <2>3. \A j \in Ids : Worth(j)' \in 0 .. 100 BY WorthsHoldNext DEF Worths
  <2>4. m \in objects' /\ m \in todo' /\ Due(m, w[m])'
    BY <1>3, <1>4, <2>1 DEF Due
  <2> QED BY <1>3, <1>4, <2>2, <2>3, <2>4 DEF Ahead
<1>8. KeepsFinal BY <1>3, SameGraph DEF KeepsFinal, Whole
<1> QED BY <1>2, <1>3, <1>6, <1>7, <1>8 DEF Pace, StartPass

(* A pass that leaves something unfinished has reported more than the one  *)
(* before: the assertion of PbcContext.cpp:215 holds.                      *)
LEMMA PassMadeProgress ==
  ASSUME Whole, pc = "finalize", todo = {}, Pace, ~allFinal
  PROVE  oldStatus < status
<1>1. PICK w \in Percentages, r \in Percentages : Tallied(r) /\ Ahead(w, r)
  BY DEF Pace
<1>2. objects \in SUBSET Ids /\ oldStatus \in Nat BY DEF Whole, IInv, TypeOK
<1>3. objects \ todo = objects OBVIOUS
<1>4. status = NativeStatus + Cardinality(Parts(objects, r))
  BY <1>1, <1>3, Zenon DEF Tallied
<1>5. PICK m \in objects : w[m] < r[m] BY <1>1 DEF Ahead
<1>6. \A i \in objects : w[i] <= r[i] BY <1>1 DEF Ahead
<1>7. Cardinality(Parts(objects, w)) < Cardinality(Parts(objects, r))
  BY <1>1, <1>2, <1>5, <1>6, PartsLess
<1>8. /\ Cardinality(Parts(objects, w)) \in Nat
      /\ Cardinality(Parts(objects, r)) \in Nat
  BY <1>2, PartsFinite
<1>9. NativeStatus \in Nat BY DEF NativeStatus
<1>10. oldStatus # 0 => oldStatus <= NativeStatus + Cardinality(Parts(objects, w))
  BY <1>1 DEF Ahead
<1> QED BY <1>2, <1>4, <1>7, <1>8, <1>9, <1>10

LEMMA NextPassStarts ==
  ASSUME Grounded, Whole, pc = "finalize", Pace, EndPassAgain
  PROVE  /\ Pace' /\ KeepsFinal /\ objects' = objects
         /\ pc' = "finalize" /\ outcome' = outcome /\ live' = live /\ doc' = doc
<1>1. todo = {} /\ ~allFinal BY DEF EndPassAgain
<1>2. oldStatus < status BY <1>1, PassMadeProgress
<1>3. oldStatus \in Nat /\ status \in Nat /\ objects \in SUBSET Ids
  BY DEF Whole, IInv, TypeOK
<1>4. StartPass(status)
  <2>1. ~NoProgress BY <1>2, <1>3 DEF NoProgress
  <2> QED BY <2>1 DEF EndPassAgain
<1>5. /\ UNCHANGED graph /\ objects' = objects /\ linked' = linked
      /\ todo' = objects /\ oldStatus' = status
      /\ native' = native /\ status' = NativeStatus /\ allFinal' = TRUE
  BY <1>4 DEF StartPass, graph
<1>6. KeepsFinal BY <1>5, SameGraph DEF KeepsFinal, Whole
<1>7. PICK r \in Percentages : Tallied(r) BY DEF Pace
<1>8. PICK w \in Percentages : \A i \in Ids : w[i] = Worth(i)
  <2>1. [i \in Ids |-> Worth(i)] \in Percentages
    BY WorthsHold DEF Percentages, Worths
  <2> QED BY <2>1
<1>9. objects' \ todo' = {} BY <1>5
<1>10. NativeStatus' = NativeStatus /\ NativeStatus \in Nat
  BY <1>5 DEF NativeStatus
<1>11. Tallied(w)'
  <2>1. Cardinality(Parts({}, w)) = 0 BY PartsNone
  <2>2. Cardinality(Parts(objects \ todo, w))' = 0
    BY <1>9, <2>1, Zenon DEF Parts
  <2>3. status' = (NativeStatus + Cardinality(Parts(objects \ todo, w)))'
    BY <1>5, <1>10, <2>2
  <2> QED BY <1>9, <2>3 DEF Tallied
<1>12. AllMet'
  <2>1. AllMet BY <1>1, <1>7 DEF Tallied, AllMet
  <2> QED BY <1>3, <1>5, <1>6, <2>1, MetKept DEF AllMet, Whole
<1>13. oldStatus' <= (NativeStatus + Cardinality(Parts(objects, w)))'
  <2>1. \A i \in objects : r[i] <= w[i] BY <1>1, <1>3, <1>7, <1>8 DEF Tallied
  <2>2. Cardinality(Parts(objects, r)) <= Cardinality(Parts(objects, w))
    BY <1>3, <2>1, PartsLeq
  <2>3. objects \ todo = objects BY <1>1
  <2>4. status = NativeStatus + Cardinality(Parts(objects, r))
    BY <1>7, <2>3, Zenon DEF Tallied
  <2>5. (NativeStatus + Cardinality(Parts(objects, w)))'
          = NativeStatus + Cardinality(Parts(objects, w))
    BY <1>5, Zenon DEF NativeStatus, Parts
  <2>6. /\ Cardinality(Parts(objects, r)) \in Nat
        /\ Cardinality(Parts(objects, w)) \in Nat
    BY <1>3, PartsFinite
  <2> QED BY <1>5, <1>10, <2>2, <2>4, <2>5, <2>6
<1>14. \A i \in objects' : w[i] <= Worth(i)'
  BY <1>3, <1>5, <1>6, <1>8, WorthGrows DEF Whole
<1>15. \/ \A i \in objects' : IsFinal(i)'
       \/ \E m \in objects' : Due(m, w[m])'
  <2>1. CASE \A i \in objects : IsFinal(i)
    BY <1>5, <1>6, <2>1 DEF KeepsFinal
  <2>2. CASE \E m \in objects : Due(m, w[m])
    <3>1. PICK m \in objects : Due(m, w[m]) BY <2>2
    <3>2. m \in Ids /\ w[m] \in 0 .. 100 BY <1>3, <1>8, WorthsHold DEF Worths
    <3>3. Due(m, w[m])' BY <1>6, <3>1, <3>2, DueKept DEF Whole
    <3> QED BY <1>5, <3>1, <3>3
  <2> QED BY <1>8, <2>1, <2>2, SomeoneIsDue
<1>16. Ahead(w, w)'
  <2>1. oldStatus' # 0 BY <1>2, <1>3, <1>5
  <2> QED BY <1>5, <1>12, <1>13, <1>14, <1>15, <2>1 DEF Ahead
<1> QED BY <1>4, <1>5, <1>6, <1>11, <1>16 DEF Pace, StartPass

LEMMA LastPassReturns ==
  ASSUME Whole, pc = "finalize", Pace, EndPassDone
  PROVE  /\ KeepsFinal /\ objects' = objects
         /\ pc' = "idle" /\ outcome' = "ok" /\ \A i \in objects : IsFinal(i)
<1>1. todo = {} /\ allFinal BY DEF EndPassDone
<1>2. \A i \in objects : IsFinal(i) BY <1>1 DEF Whole, IInv, LoopInv
<1>3. status = NativeStatus + 100 * Cardinality(objects)
  <2>1. PICK r \in Percentages : Tallied(r) BY DEF Pace
  <2>2. objects \ todo = objects BY <1>1
  <2>3. status = NativeStatus + Cardinality(Parts(objects, r))
    BY <2>1, <2>2, Zenon DEF Tallied
  <2>4. \A i \in objects : r[i] = 100 BY <1>1, <2>1 DEF Tallied
  <2>5. Cardinality(Parts(objects, r)) = 100 * Cardinality(objects)
    BY <2>1, <2>4, PartsAll DEF Whole, IInv, TypeOK
  <2> QED BY <2>3, <2>5, Zenon
<1>4. rootId \in objects BY DEF Whole, Registered, Running, Complete
<1>5. Return("ok") /\ UNCHANGED graph BY <1>2, <1>3, <1>4 DEF EndPassDone
<1>6. KeepsFinal BY <1>5, SameGraph DEF KeepsFinal, Whole
<1> QED BY <1>2, <1>5, <1>6 DEF Return, graph

(* One step of the import of a complete document.                          *)
LEMMA WholeStep ==
  ASSUME Grounded, Whole, pc = "finalize" => Pace, Step
  PROVE  /\ ~Repeats => pc' # "aborted"
         /\ outcome' # "error"
         /\ pc' = "finalize" =>
              Pace' /\ objects' = objects /\ live' = live /\ doc' = doc
         /\ pc' # "idle" => doc' = doc /\ Settled'
         /\ pc' = "idle" => \A i \in objects' : IsFinal(i)'
<1>1. ASSUME pc \in {"construct", "finalize"} PROVE outcome = "none"
  BY <1>1 DEF Whole, IInv, LoopInv, Running
<1>2. CASE Construct
  <2>1. PICK i \in Ids :
          ConstructFails(i) \/ ConstructCrashes(i) \/ ConstructObject(i)
    BY <1>2 DEF Construct
  <2>2. pc = "construct" /\ i \in todo
    BY <2>1 DEF ConstructFails, ConstructCrashes, ConstructObject, IsNext
  <2>3. i \in doc.entries BY <2>2 DEF Whole, Registered
  <2>4. ~Unconstructible(i)
    BY <2>3 DEF Unconstructible, Whole, Complete, KeysOf
  <2>5. CASE ConstructCrashes(i)
    <3>1. i \in objects \cap Pairings BY <2>5 DEF ConstructCrashes, Duplicate
    <3>2. i \notin live BY <2>2, <3>1 DEF Whole, Registered
    <3>3. Repeats BY <2>3, <3>1, <3>2 DEF Repeats
    <3>4. /\ pc' = "aborted" /\ outcome' = outcome /\ doc' = doc
          /\ live' = live /\ UNCHANGED graph
      BY <2>5 DEF ConstructCrashes, Abort
    <3>5. Settled' BY <3>4, SameGraph DEF Settled, Whole, graph
    <3> QED BY <1>1, <2>2, <3>3, <3>4, <3>5
  <2>6. CASE ConstructObject(i)
    <3>1. pc' = pc /\ outcome' = outcome /\ doc' = doc
          /\ objects' = objects \cup NewObjects(i)
          /\ live' = live \cup NewObjects(i)
      BY <2>6 DEF ConstructObject
    <3>2. \A j \in objects : IsFinal(j) => IsFinal(j)'
      BY <2>6, ConstructEffect DEF Whole
    <3>3. Settled' BY <3>1, <3>2 DEF Settled, Whole
    <3> QED BY <1>1, <2>2, <3>1, <3>3
  <2> QED BY <2>1, <2>4, <2>5, <2>6 DEF ConstructFails
<1>3. CASE ConstructDone
  <2>1. pc = "construct" BY <1>3 DEF ConstructDone
  <2>2. /\ Pace' /\ KeepsFinal /\ objects' = objects
        /\ pc' = "finalize" /\ outcome' = outcome /\ live' = live /\ doc' = doc
    BY <1>3, <2>1, FirstPassStarts
  <2> QED BY <1>1, <2>1, <2>2 DEF Settled, Whole, KeepsFinal
<1>4. CASE Finalize
  <2>1. pc = "finalize" BY <1>4, CallReports DEF SkipFinal, Effect
  <2>2. /\ Pace' /\ KeepsFinal /\ objects' = objects
        /\ pc' = pc /\ outcome' = outcome /\ live' = live /\ doc' = doc
    BY <1>4, <2>1, FinalizeKeepsPace
  <2> QED BY <1>1, <2>1, <2>2 DEF Settled, Whole, KeepsFinal
<1>5. CASE EndPass
  <2>1. pc = "finalize" /\ objects # {}
    BY <1>5 DEF EndPass, EndPassEmpty, EndPassDone, EndPassAgain,
                Whole, Registered, Running, Complete
  <2>2. CASE EndPassAgain
    <3>1. /\ Pace' /\ KeepsFinal /\ objects' = objects
          /\ pc' = "finalize" /\ outcome' = outcome /\ live' = live /\ doc' = doc
      BY <2>1, <2>2, NextPassStarts
    <3> QED BY <1>1, <2>1, <3>1 DEF Settled, Whole, KeepsFinal
  <2>3. CASE EndPassDone
    <3>1. /\ KeepsFinal /\ objects' = objects
          /\ pc' = "idle" /\ outcome' = "ok" /\ \A i \in objects : IsFinal(i)
      BY <2>1, <2>3, LastPassReturns
    <3> QED BY <3>1 DEF KeepsFinal
  <2> QED BY <1>5, <2>1, <2>2, <2>3 DEF EndPass, EndPassEmpty
<1> QED BY <1>2, <1>3, <1>4, <1>5 DEF Step

LEMMA StutterKeepsPace ==
  ASSUME IInv, UNCHANGED vars, Pace
  PROVE  Pace'
<1>1. PICK w \in Percentages, r \in Percentages : Tallied(r) /\ Ahead(w, r)
  BY DEF Pace
<1>2. /\ UNCHANGED graph /\ objects' = objects /\ linked' = linked
      /\ native' = native /\ todo' = todo /\ status' = status
      /\ oldStatus' = oldStatus /\ allFinal' = allFinal
  BY DEF vars, graph, loop
<1>3. KeepsFinal BY <1>2, SameGraph DEF KeepsFinal
<1>4. objects \subseteq Ids BY DEF IInv, TypeOK
<1>5. \A i \in objects : /\ Worth(i) <= Worth(i)'
                         /\ Worth(i) \in 0 .. 100 /\ Worth(i)' \in 0 .. 100
                         /\ MetBy(i) => MetBy(i)'
                         /\ w[i] \in 0 .. 100 /\ r[i] \in 0 .. 100
  BY <1>2, <1>3, <1>4, WorthGrows, WorthsHold, WorthsHoldNext, MetKept
     DEF Worths, Percentages
<1>6. /\ (NativeStatus + Cardinality(Parts(objects \ todo, r)))'
           = NativeStatus + Cardinality(Parts(objects \ todo, r))
      /\ (NativeStatus + Cardinality(Parts(objects, w)))'
           = NativeStatus + Cardinality(Parts(objects, w))
  BY <1>2, Zenon DEF NativeStatus, Parts
<1>7. Tallied(r)' BY <1>1, <1>2, <1>5, <1>6 DEF Tallied
<1>8. Ahead(w, r)'
  <2>1. \A i \in objects' : w[i] <= IF i \in todo' THEN Worth(i)' ELSE r[i]
    BY <1>1, <1>2, <1>5 DEF Ahead
  <2>2. \A m \in objects : Due(m, w[m]) => Due(m, w[m])'
    BY <1>3, <1>4, <1>5, DueKept
  <2>3. \/ (allFinal /\ \A i \in objects : IsFinal(i))'
        \/ \E m \in objects' : IF m \in todo' THEN Due(m, w[m])' ELSE w[m] < r[m]
    BY <1>1, <1>2, <1>3, <2>2 DEF Ahead, KeepsFinal
  <2>4. AllMet => AllMet' BY <1>2, <1>5 DEF AllMet
  <2> QED BY <1>1, <1>2, <1>6, <2>1, <2>3, <2>4 DEF Ahead
<1> QED BY <1>1, <1>7, <1>8 DEF Pace

(* A step outside of a run starts none of its passes.                      *)
LEMMA IdleStep ==
  ASSUME IInv, Clear \/ ClearCrashes \/ \E d \in Documents : Populate(d)
  PROVE  pc = "idle" /\ pc' \in {"idle", "construct", "aborted"}
BY DEF Clear, ClearCrashes, Abort, Populate

(* An import that found nothing of documents in the context.               *)
Fresh     == Running /\ Complete(doc) /\ objects = live
FreshPace == Fresh /\ pc = "finalize" => Pace

LEMMA FreshStep ==
  ASSUME Grounded, IInv, Registered, FreshPace, Fresh, Step
  PROVE  /\ pc' # "aborted" /\ outcome' # "error"
         /\ pc' = "finalize" => Pace'
<1>1. Whole BY DEF Whole, Fresh, Settled
<1>2. pc = "finalize" => Pace BY DEF FreshPace
<1>3. ~Repeats BY DEF Repeats, Fresh
<1> QED BY <1>1, <1>2, <1>3, WholeStep

LEMMA NextKeepsFreshPace ==
  ASSUME Grounded, IInv, Registered, FreshPace, [Next]_vars
  PROVE  FreshPace'
<1> SUFFICES ASSUME Fresh', pc' = "finalize" PROVE Pace'
  BY DEF FreshPace
<1>1. CASE UNCHANGED vars
  <2>1. Fresh /\ pc = "finalize"
    BY <1>1 DEF vars, graph, Fresh, Running
  <2> QED BY <1>1, <2>1, StutterKeepsPace DEF FreshPace
<1>2. CASE Clear \/ ClearCrashes \/ \E d \in Documents : Populate(d)
  BY <1>2, IdleStep
<1>3. CASE Step
  <2>1. /\ pc \in {"construct", "finalize"} /\ doc' = doc
        /\ objects' = objects /\ live' = live
    <3>1. CASE Construct
      BY <3>1 DEF Construct, ConstructFails, Throw, Return,
                  ConstructCrashes, Abort, ConstructObject
    <3>2. CASE ConstructDone
      BY <3>2 DEF ConstructDone, Abort, StartPass, graph
    <3>3. CASE Finalize
      <4>1. PICK i \in Ids : SkipFinal(i) \/ Effect(i)
        BY <3>3, FinalizeEffect DEF Finalize
      <4> QED BY <4>1 DEF SkipFinal, Effect, Growth, Report, Throw, Return, graph
    <3>4. CASE EndPass
      BY <3>4 DEF EndPass, EndPassEmpty, EndPassDone, EndPassAgain, Return,
                  Abort, StartPass, graph
    <3> QED BY <1>3, <3>1, <3>2, <3>3, <3>4 DEF Step
  <2>2. Fresh BY <2>1 DEF Fresh, Running
  <2> QED BY <1>3, <2>2, FreshStep
<1> QED BY <1>1, <1>2, <1>3 DEF Next

(* Whatever documents are handed over in whatever order, and whatever      *)
(* failed before: the import of a complete one into a context without      *)
(* objects of documents throws no exception and trips no assertion, for    *)
(* every graph that was built bottom up and every order of the uuids.      *)
THEOREM FreshImportsSucceed == Grounded => (Spec => FreshImportSucceeds)
<1> SUFFICES ASSUME Grounded PROVE Spec => FreshImportSucceeds
  OBVIOUS
<1>1. Init => FreshPace BY DEF Init, FreshPace, Fresh, Running
<1>2. IInv /\ Registered /\ FreshPace /\ [Next]_vars => FreshPace'
  BY NextKeepsFreshPace
<1>3. IInv /\ Registered /\ FreshPace /\ [Next]_vars
        => [Running /\ Complete(doc) /\ objects = live
              => pc' # "aborted" /\ outcome' # "error"]_vars
  <2> SUFFICES ASSUME IInv, Registered, FreshPace, Next, Fresh
               PROVE  pc' # "aborted" /\ outcome' # "error"
    BY DEF Fresh
  <2>1. Step BY IdleStep DEF Next, Fresh, Running
  <2> QED BY <2>1, FreshStep
<1> QED
  BY <1>1, <1>2, <1>3, Invariance, RegisteredAlways, PTL
     DEF Spec, FreshImportSucceeds

(* With complete documents only, no import leaves anything unfinished.     *)
WholePace ==
  /\ pc # "aborted" => Settled
  /\ Running => Complete(doc)
  /\ pc = "finalize" => Pace

LEMMA WholePaceStep ==
  ASSUME Grounded, IInv, Registered, WholePace, Running, Step
  PROVE  /\ ~Repeats => pc' # "aborted"
         /\ outcome' # "error"
         /\ WholePace'
<1>1. Whole /\ (pc = "finalize" => Pace) BY DEF Whole, WholePace, Running
<1>2. /\ ~Repeats => pc' # "aborted"
      /\ outcome' # "error"
      /\ pc' = "finalize" => Pace'
      /\ pc' # "idle" => doc' = doc /\ Settled'
      /\ pc' = "idle" => \A i \in objects' : IsFinal(i)'
  BY <1>1, WholeStep
<1>3. Settled' BY <1>2 DEF Settled
<1> QED BY <1>2, <1>3 DEF WholePace, Running

LEMMA NextKeepsWholePace ==
  ASSUME Grounded, AllComplete, IInv, Registered, WholePace, [Next]_vars
  PROVE  WholePace'
<1>1. CASE UNCHANGED vars
  <2>1. Settled => Settled'
    BY <1>1 DEF vars, graph, Settled, IsFinal, QuadFinal
  <2>2. pc' = pc /\ doc' = doc BY <1>1 DEF vars
  <2> QED BY <1>1, <2>1, <2>2, StutterKeepsPace DEF WholePace, Running
<1>2. CASE Clear \/ ClearCrashes
  BY <1>2 DEF Clear, ClearCrashes, Abort, WholePace, Settled, Running
<1>3. CASE \E d \in Documents : Populate(d)
  <2>1. PICK d \in Documents : Populate(d) BY <1>3
  <2>2. pc = "idle" /\ UNCHANGED graph /\ live' = live BY <2>1 DEF Populate
  <2>3. Settled
    BY <2>2 DEF WholePace
  <2>4. Settled' BY <2>2, <2>3, SameGraph DEF Settled, graph
  <2>5. CASE d.wellformed
    BY <2>1, <2>4, <2>5 DEF Populate, AllComplete, WholePace, Running
  <2>6. CASE ~d.wellformed
    BY <2>1, <2>4, <2>6 DEF Populate, WholePace, Running
  <2> QED BY <2>5, <2>6
<1>4. CASE Step
  <2>1. Running
    BY <1>4, FinalizeEffect
       DEF Step, Construct, ConstructFails, ConstructCrashes, ConstructObject,
           ConstructDone,
           Finalize, SkipFinal, Effect, EndPass, EndPassEmpty, EndPassDone,
           EndPassAgain, Running
  <2> QED BY <1>4, <2>1, WholePaceStep
<1> QED BY <1>1, <1>2, <1>3, <1>4 DEF Next

LEMMA WholePaceAlways == Grounded /\ AllComplete => (Spec => []WholePace)
<1> SUFFICES ASSUME Grounded, AllComplete PROVE Spec => []WholePace
  OBVIOUS
<1>1. Init => WholePace BY DEF Init, WholePace, Settled, Running
<1>2. IInv /\ Registered /\ WholePace /\ [Next]_vars => WholePace'
  BY NextKeepsWholePace
<1> QED BY <1>1, <1>2, Invariance, RegisteredAlways, PTL DEF Spec

(* When the documents are complete, an import fails only by describing a   *)
(* pairing that an earlier one has brought: it may meet all other objects  *)
(* of earlier imports, in every order of the uuids.                        *)
THEOREM ImportsNeverFail == Grounded /\ AllComplete => (Spec => NoImportFails)
<1> SUFFICES ASSUME Grounded, AllComplete PROVE Spec => NoImportFails
  OBVIOUS
<1>1. Spec => []WholePace BY WholePaceAlways
<1>2. IInv /\ Registered /\ WholePace /\ [Next]_vars
        => [Running /\ ~Repeats => pc' # "aborted" /\ outcome' # "error"]_vars
  <2> SUFFICES ASSUME IInv, Registered, WholePace, Next, Running, ~Repeats
               PROVE  pc' # "aborted" /\ outcome' # "error"
    OBVIOUS
  <2>1. Step BY IdleStep DEF Next, Running
  <2> QED BY <2>1, WholePaceStep
<1> QED
  BY <1>1, <1>2, Invariance, RegisteredAlways, PTL DEF Spec, NoImportFails

(* And between the calls every object in the context is final: nothing     *)
(* waits for a document that may never come.                               *)
THEOREM NothingLeftUnfinished ==
  Grounded /\ AllComplete =>
    (Spec => [](pc = "idle" => \A i \in objects : IsFinal(i)))
<1> SUFFICES ASSUME Grounded, AllComplete
             PROVE  Spec => [](pc = "idle" => \A i \in objects : IsFinal(i))
  OBVIOUS
<1>1. Spec => []WholePace BY WholePaceAlways
<1>2. IInv /\ WholePace => (pc = "idle" => \A i \in objects : IsFinal(i))
  BY DEF IInv, LoopInv, WholePace, Settled
<1> QED BY <1>1, <1>2, Invariance, PTL

=============================================================================
