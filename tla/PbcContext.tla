------------------------------ MODULE PbcContext ------------------------------
(***************************************************************************)
(* PbcContext::populate: how a context of libe2ee turns a JSON document    *)
(* into live objects.                                                      *)
(*                                                                         *)
(* The document maps uuids to object descriptions that refer to each other *)
(* by uuid.  populate first constructs one object per description, in the  *)
(* order of the uuids, and then passes over all registered objects, again  *)
(* in the order of the uuids, asking each one that is not final to         *)
(* finalize itself, until a pass leaves none behind.  An object becomes    *)
(* final once the objects it refers to are; a pairing and its target group *)
(* GT refer to each other and untie the knot inside Pairing::finalize.     *)
(*                                                                         *)
(* uuids are hashes of memory addresses (PbcObject.cpp:36-47): the order   *)
(* in which a document is processed is arbitrary, but the same in every    *)
(* pass.  It is the variable rank, chosen in Init.                         *)
(*                                                                         *)
(* One action is one construction, or one finalize() call, of the loops of *)
(* PbcContext.cpp: the code is sequential and nothing else runs between.   *)
(*                                                                         *)
(* External: pairing_clear of PBC, which ~Pairing calls, clears the fields *)
(* GT, Eq, Fq and Fq2 of the native pairing through a function pointer in  *)
(* each.  Imported pairings start with zeroed Eq, Fq and Fq2, and have no  *)
(* such pointers until Pairing::finalize copies the final fields there.    *)
(***************************************************************************)
EXTENDS Integers, Sequences, FiniteSets

CONSTANTS
  Ids,        \* the uuids that occur in documents
  Nil,        \* nil_uuid(): what parse_uuid returns for anything else
  Kind,       \* [Ids -> Kinds]: the class an object is constructed as
  Ref,        \* Ref[i][k]: the uuid under key k of the description of i
  Documents,  \* the documents handed to populate
  Ranks,      \* the orders the uuids may have
  Asserts     \* TRUE: built with assertions; FALSE: built with NDEBUG

-----------------------------------------------------------------------------
(* The classes an import constructs, and the keys each reads from its      *)
(* description.  PairingKeys is in the order Pairing::finalize takes them. *)

Kinds == {"element", "montfp", "curve", "fi", "mulg", "pairing"}

PairingKeys == <<"G1", "G2", "Zr", "Eq", "Fq", "Fq2", "GT">>
FieldKeys   == {"G1", "G2", "Zr", "Eq", "Fq", "Fq2"}

(* The fields of a pairing that are kept in its data block.                *)
DataKeys    == {"Eq", "Fq", "Fq2"}

KeysOf(kind) ==
  CASE kind = "element" -> {"field"}
    [] kind = "montfp"  -> {}
    [] kind = "curve"   -> {"a", "b"}
    [] kind = "fi"      -> {"base"}
    [] kind = "mulg"    -> {"base", "pairing"}
    [] kind = "pairing" -> FieldKeys \cup {"GT"}

Keys == {"field", "a", "b", "base", "pairing", "GT"} \cup FieldKeys

Fields     == {i \in Ids : Kind[i] \in {"montfp", "curve", "fi", "mulg"}}
BaseFields == {i \in Ids : Kind[i] \in {"montfp", "curve"}}
Pairings   == {i \in Ids : Kind[i] = "pairing"}

(* The type of the object a key refers to.  fi is built over a base field, *)
(* GT over a field that is not itself a GT, and GT is the GT of its        *)
(* pairing (asserted at MultiplicativeSubgroup.cpp:90).                    *)
WellTyped(i) ==
  /\ Kind[i] = "element" => Ref[i]["field"] \in Fields
  /\ Kind[i] = "curve"   => \A k \in {"a", "b"} : Kind[Ref[i][k]] = "element"
  /\ Kind[i] = "fi"      => Ref[i]["base"] \in BaseFields
  /\ Kind[i] = "mulg"    => /\ Ref[i]["base"] \in Fields
                            /\ Kind[Ref[i]["base"]] # "mulg"
                            /\ Ref[i]["pairing"] \in Pairings
                            /\ Ref[Ref[i]["pairing"]]["GT"] = i
  /\ Kind[i] = "pairing" => /\ \A k \in FieldKeys : /\ Ref[i][k] \in Fields
                                                    /\ Kind[Ref[i][k]] # "mulg"
                            /\ Kind[Ref[i]["GT"]] = "mulg"
                            /\ Ref[Ref[i]["GT"]]["pairing"] = i

ASSUME GraphAssumption ==
  /\ Kind \in [Ids -> Kinds]
  /\ \A i \in Ids : /\ Ref[i] \in [KeysOf(Kind[i]) -> Ids]
                    /\ WellTyped(i)

(* A document: its root, the uuids it describes, those of them whose       *)
(* description construction rejects, the curves that are described without *)
(* a cofactor that can be read, and whether every top-level member is an   *)
(* object.                                                                 *)
ASSUME DocumentAssumption ==
  \A d \in Documents : /\ d.root \in Ids \cup {Nil}
                       /\ d.entries \subseteq Ids
                       /\ d.bad \subseteq d.entries
                       /\ d.nocofac \subseteq d.entries
                       /\ d.wellformed \in BOOLEAN

ASSUME RankAssumption ==
  /\ IsFiniteSet(Ids)
  /\ \A r \in Ranks : /\ r \in [Ids -> Nat]
                      /\ \A i, j \in Ids : r[i] = r[j] => i = j

ASSUME AssertsAssumption == Asserts \in BOOLEAN

ASSUME NilAssumption == Nil \notin Ids

NoDocument == [root |-> Nil, entries |-> {}, bad |-> {}, nocofac |-> {},
               wellformed |-> FALSE]

-----------------------------------------------------------------------------
VARIABLES
  rank,       \* the order of the uuids
  native,     \* the context still holds the objects of its global parameters
  objects,    \* PbcContext::objects, the registered uuids of documents
  rootId,     \* PbcContext::rootId
  flagged,    \* objects whose _isFinal is TRUE
  linked,     \* per object, the keys whose weak pointer is set
  inited,     \* mulgs whose native field, pairings whose native GT, has init
  copied,     \* per pairing, the keys of DataKeys that its data block has
  live,       \* objects whose description (jobj) has not expired
  doc,        \* the document being populated, or NoDocument
  pc,         \* idle | construct | finalize | aborted
  todo,       \* uuids the running loop has not reached
  status,     \* finalizeObjects: status
  oldStatus,  \* finalizeObjects: old_status
  allFinal,   \* finalizeObjects: isFinal
  outcome     \* what the last populate did: none | ok | error

graph == <<objects, flagged, linked, inited, copied>>
loop  == <<todo, status, oldStatus, allFinal>>
vars  == <<rank, native, rootId, live, doc, pc, outcome, graph, loop>>

Running == pc \in {"construct", "finalize"}

-----------------------------------------------------------------------------
(* isFinal(), class by class: the flag for elements, base fields, curves   *)
(* and pairings; a SubField also needs a final super field.                *)

QuadFinal(i) ==
  /\ i \in flagged
  /\ Kind[i] = "fi" => "base" \in linked[i] /\ Ref[i]["base"] \in flagged

IsFinal(i) ==
  /\ QuadFinal(i)
  /\ Kind[i] = "mulg" => "base" \in linked[i] /\ QuadFinal(Ref[i]["base"])

(* fieldFromJson and its siblings find the object under key k: the         *)
(* description is still there and the object it names is registered.       *)
ResolvableMutant(i, k) ==        \* as if only new objects were found
  i \in live /\ Ref[i][k] \in live

Resolvable(i, k) == i \in live /\ Ref[i][k] \in objects

(* The link is not set and cannot be: reading it throws AfghError.         *)
Missing(i, k) == k \notin linked[i] /\ ~Resolvable(i, k)

(* The next uuid of the running loop: loops follow the order of std::map.  *)
IsNext(i) == i \in todo /\ \A j \in todo : rank[i] <= rank[j]

NativeStatus == IF native THEN 100 ELSE 0

-----------------------------------------------------------------------------
(* A fresh context from createInstance: only native objects, which are     *)
(* final and are counted as one object here.                               *)
Init ==
  /\ rank \in Ranks
  /\ native = TRUE
  /\ objects = {} /\ flagged = {} /\ inited = {}
  /\ linked = [i \in Ids |-> {}] /\ copied = [i \in Ids |-> {}]
  /\ rootId = Nil /\ doc = NoDocument /\ live = {}
  /\ pc = "idle" /\ outcome = "none"
  /\ todo = {} /\ status = 0 /\ oldStatus = 0 /\ allFinal = TRUE

(* The map of descriptions dies with parseJson, and with it every jobj.    *)
ExpireMutant == live' = live     \* as if objects kept their descriptions

Expire == live' = {}

Return(result) ==
  /\ pc' = "idle" /\ outcome' = result
  /\ doc' = NoDocument /\ Expire
  /\ todo' = {} /\ status' = 0 /\ oldStatus' = 0 /\ allFinal' = TRUE
  /\ UNCHANGED <<rank, native, rootId>>

(* An exception leaves populate; what was registered stays registered.     *)
Throw == Return("error")

(* A failed assertion, a division by zero, or a call through a null        *)
(* pointer ends the program.                                               *)
Abort ==
  /\ pc' = "aborted"
  /\ UNCHANGED <<rank, native, rootId, live, doc, outcome, graph, loop>>

-----------------------------------------------------------------------------
(* parseJson up to the construction loop.                                  *)
Populate(d) ==
  /\ pc = "idle"
  /\ rootId' = d.root
  /\ IF d.wellformed
     THEN pc' = "construct" /\ doc' = d /\ todo' = d.entries /\ outcome' = "none"
     ELSE pc' = "idle" /\ UNCHANGED <<doc, todo>> /\ outcome' = "error"
  /\ UNCHANGED <<rank, native, live, graph, status, oldStatus, allFinal>>

(* ~Pairing of a registered pairing returns: pairing_clear finds all four  *)
(* fields with their functions.                                            *)
Destructible(i) == copied[i] = DataKeys /\ i \in inited

(* PbcContext::clear, where nobody keeps an object.  rootId keeps its      *)
(* value.                                                                  *)
Clear ==
  /\ pc = "idle"
  /\ \A i \in objects \cap Pairings : Destructible(i)
  /\ native' = FALSE
  /\ objects' = {} /\ flagged' = {} /\ inited' = {}
  /\ linked' = [i \in Ids |-> {}] /\ copied' = [i \in Ids |-> {}]
  /\ outcome' = "none"
  /\ UNCHANGED <<rank, rootId, live, doc, pc, loop>>

(* The destructor of a pairing that a failed import left unfinished.       *)
ClearCrashes ==
  /\ pc = "idle"
  /\ \E i \in objects \cap Pairings : ~Destructible(i)
  /\ Abort

(* constructObject rejects i, or an element's constructor needs its field, *)
(* which is neither registered nor constructible.                          *)
Unconstructible(i) ==
  \/ i \in doc.bad
  \/ /\ Kind[i] = "element"
     /\ Ref[i]["field"] \notin objects
     /\ Ref[i]["field"] \notin doc.entries \ doc.bad

ConstructFails(i) ==
  /\ pc = "construct" /\ IsNext(i)
  /\ Unconstructible(i)
  /\ Throw /\ UNCHANGED graph

(* The objects constructObject(i) registers: i, and for an element its     *)
(* field.  objects.insert keeps an object that is already registered, and  *)
(* the new one is destroyed.                                               *)
NewObjectsMutant(i) ==           \* as if insert replaced what is there
  {i} \cup (IF Kind[i] = "element" THEN {Ref[i]["field"]} ELSE {})

NewObjectsMutant2(i) ==          \* as if fields were not constructed on demand
  {i} \ objects

NewObjects(i) ==
  ({i} \cup (IF Kind[i] = "element" THEN {Ref[i]["field"]} ELSE {})) \ objects

(* New objects are not final.  The constructor of an element links it to   *)
(* its field; that of a pairing generates a native pairing, which has a GT.*)
LinkedAtFirst(j) == IF Kind[j] = "element" THEN {"field"} ELSE {}

InitedAtFirst(i) == NewObjects(i) \cap Pairings

(* A pairing that is registered already: the data block of the new one is  *)
(* all zeros when insert drops it and its destructor runs.                 *)
Duplicate(i) == i \in objects \cap Pairings

ConstructCrashes(i) ==
  /\ pc = "construct" /\ IsNext(i)
  /\ ~Unconstructible(i) /\ Duplicate(i)
  /\ Abort

ConstructObject(i) ==
  /\ pc = "construct" /\ IsNext(i)
  /\ ~Unconstructible(i) /\ ~Duplicate(i)
  /\ objects' = objects \cup NewObjects(i)
  /\ live' = live \cup NewObjects(i)
  /\ flagged' = flagged \ NewObjects(i)
  /\ linked' = [j \in Ids |->
                  IF j \notin NewObjects(i) THEN linked[j] ELSE LinkedAtFirst(j)]
  /\ inited' = (inited \ NewObjects(i)) \cup InitedAtFirst(i)
  /\ copied' = [j \in Ids |-> IF j \in NewObjects(i) THEN {} ELSE copied[j]]
  /\ todo' = todo \ {i}
  /\ UNCHANGED <<rank, native, rootId, doc, pc, outcome,
                 status, oldStatus, allFinal>>

(* The start of a pass of finalizeObjects.                                 *)
StartPass(old) ==
  /\ pc' = "finalize"
  /\ todo' = objects /\ allFinal' = TRUE
  /\ status' = NativeStatus /\ oldStatus' = old
  /\ UNCHANGED <<rank, native, rootId, live, doc, outcome, graph>>

ConstructDone ==
  /\ pc = "construct" /\ todo = {}
  /\ IF Asserts /\ rootId \notin objects THEN Abort ELSE StartPass(0)

-----------------------------------------------------------------------------
(* The finalize pass.  Visit(i) selects the object of the iteration;       *)
(* Report adds what its finalize returned (PbcContext.cpp:203-205).        *)

Visit(i, kind) ==
  /\ pc = "finalize" /\ IsNext(i)
  /\ ~IsFinal(i) /\ Kind[i] = kind

StillAllFinalMutant(i) == IsFinal(i)'      \* = for &=

StillAllFinal(i) == allFinal /\ IsFinal(i)'

Report(i, percent) ==
  /\ pc' = IF Asserts /\ IsFinal(i)' # (percent = 100) THEN "aborted" ELSE pc
  /\ todo' = todo \ {i}
  /\ status' = status + percent
  /\ allFinal' = StillAllFinal(i)
  /\ UNCHANGED <<rank, native, rootId, live, doc, outcome, objects, oldStatus>>

SetFlag(i, b) == flagged' = IF b THEN flagged \cup {i} ELSE flagged \ {i}

SkipFinal(i) ==
  /\ pc = "finalize" /\ IsNext(i)
  /\ IsFinal(i)
  /\ todo' = todo \ {i}
  /\ status' = status + 100
  /\ UNCHANGED <<rank, native, rootId, live, doc, pc, outcome, graph,
                 oldStatus, allFinal>>

(* Element::finalize: wait for the field.                                  *)
FinalizeElement(i) ==
  LET ready == IsFinal(Ref[i]["field"])
  IN
  /\ Visit(i, "element")
  /\ SetFlag(i, ready)
  /\ UNCHANGED <<linked, inited, copied>>
  /\ Report(i, IF ready THEN 100 ELSE 50)

FinalizeMontFP(i) ==
  /\ Visit(i, "montfp")
  /\ SetFlag(i, TRUE)
  /\ UNCHANGED <<linked, inited, copied>>
  /\ Report(i, 100)

(* CurveField::finalize: link a and b, wait for both, then initialize from *)
(* the description.                                                        *)
CurveThrowsMutant(i) ==          \* as if initialization needed no description
  \E k \in {"a", "b"} : Missing(i, k)

CurveThrows(i) ==
  \/ \E k \in {"a", "b"} : Missing(i, k)
  \/ /\ \A k \in {"a", "b"} : Ref[i][k] \in flagged
     /\ i \notin live \/ i \in doc.nocofac

FinalizeCurveFails(i) ==
  /\ Visit(i, "curve")
  /\ CurveThrows(i)
  /\ linked' = [linked EXCEPT ![i] =
                  @ \cup {k \in {"a", "b"} :
                            ~Missing(i, k) /\ (k = "b" => ~Missing(i, "a"))}]
  /\ Throw /\ UNCHANGED <<objects, flagged, inited, copied>>

FinalizeCurve(i) ==
  LET waitA == Ref[i]["a"] \notin flagged
      waitB == Ref[i]["b"] \notin flagged
  IN
  /\ Visit(i, "curve")
  /\ ~CurveThrows(i)
  /\ linked' = [linked EXCEPT ![i] = {"a", "b"}]
  /\ SetFlag(i, ~waitA /\ ~waitB)
  /\ UNCHANGED <<inited, copied>>
  /\ Report(i, IF waitA THEN 40 ELSE IF waitB THEN 50 ELSE 100)

(* SubField::finalize for a quadratic field: it always reads the base from *)
(* the description, and swallows the exception when it cannot.             *)
FinalizeFi(i) ==
  LET found == Resolvable(i, "base")
  IN
  /\ Visit(i, "fi")
  /\ linked' = [linked EXCEPT ![i] = IF found THEN {"base"} ELSE @]
  /\ SetFlag(i, found)
  /\ UNCHANGED <<inited, copied>>
  /\ Report(i, IF ~found THEN 50
               ELSE IF Ref[i]["base"] \in flagged THEN 100 ELSE 99)

(* MultiplicativeSubgroup::finalize: the percentage it returns when its    *)
(* pairing has a GT (hasGT) whose native field is initialized (gtInit), or *)
(* Thrown.  It is called by the pass and by Pairing::finalize.             *)
Thrown == -1

MulgPercentMutant(m, hasGT, gtInit) ==     \* without the check of GT->init
  IF ~Resolvable(m, "base") THEN 25
  ELSE IF ~QuadFinal(Ref[m]["base"]) THEN 49
  ELSE IF Missing(m, "pairing") THEN Thrown
  ELSE IF ~hasGT THEN 60
  ELSE 100

MulgPercent(m, hasGT, gtInit) ==
  IF ~Resolvable(m, "base") THEN 25
  ELSE IF ~QuadFinal(Ref[m]["base"]) THEN 49
  ELSE IF Missing(m, "pairing") THEN Thrown
  ELSE IF ~hasGT THEN 60
  ELSE IF ~gtInit THEN 70
  ELSE 100

(* The links it has set by then.                                           *)
MulgLinks(m, percent) ==
  linked[m] \cup (IF percent = 25 THEN {} ELSE {"base"})
            \cup (IF percent \in {60, 70, 100} THEN {"pairing"} ELSE {})

(* SubField::finalize has set _isFinal before pairingFromJson can throw,   *)
(* and nothing resets it then.                                             *)
MulgFlagMutant(percent) == percent # 25    \* without the resets to false

MulgFlag(percent) == percent \in {Thrown, 100}

(* Success copies the native GT of the pairing into the field.             *)
CopyGT(m, percent) ==
  IF percent = 100 /\ Ref[m]["pairing"] \in inited THEN inited \cup {m} ELSE inited

MulgPercentInPass(m) ==
  LET p == Ref[m]["pairing"]
  IN MulgPercent(m, "GT" \in linked[p], p \in inited)

FinalizeMulgFails(i) ==
  /\ Visit(i, "mulg")
  /\ MulgPercentInPass(i) = Thrown
  /\ linked' = [linked EXCEPT ![i] = MulgLinks(i, Thrown)]
  /\ SetFlag(i, MulgFlag(Thrown))
  /\ Throw /\ UNCHANGED <<objects, inited, copied>>

FinalizeMulg(i) ==
  LET percent == MulgPercentInPass(i)
  IN
  /\ Visit(i, "mulg")
  /\ percent # Thrown
  /\ linked' = [linked EXCEPT ![i] = MulgLinks(i, percent)]
  /\ SetFlag(i, MulgFlag(percent))
  /\ inited' = CopyGT(i, percent)
  /\ UNCHANGED copied
  /\ Report(i, percent)

-----------------------------------------------------------------------------
(* Pairing::finalize links its seven fields in the order of PairingKeys.   *)

KeysBefore(n) == {PairingKeys[m] : m \in 1 .. n - 1}

(* INIT_FIELD copies a field whenever it finds it final, and not only when *)
(* it links it: on its way through the keys ks it fills the data block.    *)
CopiedMutant(i, ks) ==           \* as if only a new link was copied
  copied[i] \cup {k \in DataKeys \cap ks :
                    k \notin linked[i] /\ IsFinal(Ref[i][k])}

Copied(i, ks) == copied[i] \cup {k \in DataKeys \cap ks : IsFinal(Ref[i][k])}

CopyFields(i, ks) == copied' = [copied EXCEPT ![i] = Copied(i, ks)]

FinalizePairingFails(i) ==
  /\ Visit(i, "pairing")
  /\ \E n \in 1 .. 7 :
       /\ Missing(i, PairingKeys[n])
       /\ \A m \in 1 .. n - 1 : ~Missing(i, PairingKeys[m])
       /\ linked' = [linked EXCEPT ![i] = @ \cup KeysBefore(n)]
       /\ CopyFields(i, KeysBefore(n))
  /\ Throw /\ UNCHANGED <<objects, flagged, inited>>

(* The percentage of its 14 checks that succeeded: seven links, six final  *)
(* fields and, when gtFinal, GT.                                           *)
PairingPercentMutant(i, gtFinal) ==        \* as if only the links counted
  ((13 + (IF gtFinal THEN 1 ELSE 0)) * 100) \div 14

PairingPercent(i, gtFinal) ==
  LET finals == Cardinality({k \in FieldKeys : IsFinal(Ref[i][k])})
  IN ((7 + finals + (IF gtFinal THEN 1 ELSE 0)) * 100) \div 14

AllLinked(i) == \A k \in KeysOf("pairing") : ~Missing(i, k)

(* Linking GT copies the native field of the GT object into the pairing.   *)
InitedByLink(i) ==
  IF "GT" \in linked[i] \/ Ref[i]["GT"] \in inited THEN inited
                                                  ELSE inited \ {i}

(* GT is already final.                                                    *)
FinalizePairingGTFinal(i) ==
  LET percent == PairingPercent(i, TRUE)
  IN
  /\ Visit(i, "pairing")
  /\ AllLinked(i) /\ IsFinal(Ref[i]["GT"])
  /\ linked' = [linked EXCEPT ![i] = KeysOf("pairing")]
  /\ CopyFields(i, FieldKeys)
  /\ inited' = InitedByLink(i)
  /\ SetFlag(i, percent = 100)
  /\ Report(i, percent)

(* GT does not know its super field yet: return 20.                        *)
FinalizePairingWait(i) ==
  /\ Visit(i, "pairing")
  /\ AllLinked(i) /\ ~IsFinal(Ref[i]["GT"])
  /\ "base" \notin linked[Ref[i]["GT"]]
  /\ linked' = [linked EXCEPT ![i] = KeysOf("pairing")]
  /\ CopyFields(i, FieldKeys)
  /\ inited' = InitedByLink(i)
  /\ UNCHANGED flagged
  /\ Report(i, 20)

(* GT knows its super field: initialize the native GT and finalize the GT  *)
(* object here.  That call cannot throw: the pairing it looks for is this  *)
(* one, which is registered.                                               *)
FinalizePairingWithGT(i) ==
  LET gt      == Ref[i]["GT"]
      nested  == MulgPercent(gt, TRUE, TRUE)
      percent == PairingPercent(i, nested = 100)
  IN
  /\ Visit(i, "pairing")
  /\ AllLinked(i) /\ ~IsFinal(gt)
  /\ "base" \in linked[gt]
  /\ linked' = [linked EXCEPT ![i] = KeysOf("pairing"),
                              ![gt] = MulgLinks(gt, nested)]
  /\ CopyFields(i, FieldKeys)
  /\ inited' = inited \cup {i} \cup (IF nested = 100 THEN {gt} ELSE {})
  /\ flagged' = (flagged \ {gt}) \cup (IF nested = 100 THEN {gt} ELSE {})
                                 \cup (IF percent = 100 THEN {i} ELSE {})
  /\ Report(i, percent)

-----------------------------------------------------------------------------
(* The end of a pass, PbcContext.cpp:209-217, and of populate.             *)

(* Nothing is registered at all: status / objects.size() divides by zero.  *)
EndPassEmpty ==
  /\ pc = "finalize" /\ todo = {}
  /\ objects = {} /\ ~native
  /\ Abort

(* Every object was final when the pass reached it: check that they all    *)
(* are, and return the root.  at() throws when the root is not registered. *)
EndPassDone ==
  /\ pc = "finalize" /\ todo = {}
  /\ objects # {} \/ native
  /\ allFinal
  /\ IF /\ Asserts
        /\ \/ status # NativeStatus + 100 * Cardinality(objects)
           \/ \E i \in objects : ~IsFinal(i)
     THEN Abort
     ELSE /\ Return(IF rootId \in objects THEN "ok" ELSE "error")
          /\ UNCHANGED graph

NoProgressMutant == status < oldStatus

NoProgress == status <= oldStatus

EndPassAgain ==
  /\ pc = "finalize" /\ todo = {}
  /\ ~allFinal
  /\ IF Asserts /\ NoProgress THEN Abort ELSE StartPass(status)

-----------------------------------------------------------------------------
Construct ==
  \E i \in Ids : ConstructFails(i) \/ ConstructCrashes(i) \/ ConstructObject(i)

Finalize ==
  \E i \in Ids :
    \/ SkipFinal(i)
    \/ FinalizeElement(i)
    \/ FinalizeMontFP(i)
    \/ FinalizeCurveFails(i)
    \/ FinalizeCurve(i)
    \/ FinalizeFi(i)
    \/ FinalizeMulgFails(i)
    \/ FinalizeMulg(i)
    \/ FinalizePairingFails(i)
    \/ FinalizePairingGTFinal(i)
    \/ FinalizePairingWait(i)
    \/ FinalizePairingWithGT(i)

EndPass == EndPassEmpty \/ EndPassDone \/ EndPassAgain

(* The steps populate takes once it was called.                            *)
Step == Construct \/ ConstructDone \/ Finalize \/ EndPass

Next ==
  \/ \E d \in Documents : Populate(d)
  \/ Clear
  \/ ClearCrashes
  \/ Step

Spec == Init /\ [][Next]_vars

(* A call that was made runs: the library is sequential code on the        *)
(* thread of its caller.  Nothing obliges the caller to call.              *)
FairSpec == Spec /\ WF_vars(Step)

-----------------------------------------------------------------------------
(* Properties.                                                             *)

TypeOK ==
  /\ rank \in [Ids -> Nat] /\ native \in BOOLEAN
  /\ objects \subseteq Ids /\ flagged \subseteq objects
  /\ inited \subseteq objects /\ live \subseteq objects
  /\ linked \in [Ids -> SUBSET Keys]
  /\ \A i \in Ids : linked[i] \subseteq KeysOf(Kind[i])
  /\ copied \in [Ids -> SUBSET DataKeys]
  /\ rootId \in Ids \cup {Nil}
  /\ doc \in Documents \cup {NoDocument}
  /\ pc \in {"idle", "construct", "finalize", "aborted"}
  /\ outcome \in {"none", "ok", "error"}
  /\ todo \subseteq Ids
  /\ status \in Nat /\ oldStatus \in Nat /\ allFinal \in BOOLEAN

(* What must be final before i is: all it refers to, but GT does not wait  *)
(* for its pairing, which waits for GT.                                    *)
Needs(i) == {Ref[i][k] : k \in KeysOf(Kind[i]) \ {"pairing"}}

(* A weak pointer that is set points to a registered object: no accessor   *)
(* of PbcObject.hpp:52-59 throws bad_weak_ptr during an import.            *)
NoDanglingLink ==
  \A i \in Ids : \A k \in linked[i] : Ref[i][k] \in objects

(* An object is final only when everything it was built from is registered *)
(* and final, whatever the order of the passes, across failed imports and  *)
(* retries.                                                                *)
FinalClosed ==
  \A i \in objects :
    IsFinal(i) => \A j \in Needs(i) : j \in objects /\ IsFinal(j)

(* The native field of a final GT, and the native GT of a final pairing,   *)
(* are initialized: MultiplicativeSubgroup.cpp:101-103 asserts it, and     *)
(* Pairing::initGT and apply call through it.                              *)
GTReady ==
  \A i \in objects :
    IsFinal(i) /\ Kind[i] \in {"mulg", "pairing"} => i \in inited

(* When populate returns an object, that object and every other object of  *)
(* the context is final.                                                   *)
OkMeansComplete ==
  outcome = "ok" => /\ rootId \in objects
                    /\ \A i \in objects : IsFinal(i)

(* A document that describes everything it refers to, as exportJson makes. *)
Complete(d) ==
  /\ d.wellformed /\ d.bad = {} /\ d.nocofac = {}
  /\ d.root \in d.entries
  /\ \A i \in d.entries : \A k \in KeysOf(Kind[i]) : Ref[i][k] \in d.entries

(* An import that finds no object of documents in the context, and a       *)
(* complete document, neither throws nor trips an assertion (the one of    *)
(* PbcContext.cpp:215 wants every pass to make progress), in every order   *)
(* of the uuids and whatever was imported before the context was cleared.  *)
FreshImportSucceeds ==
  [][Running /\ Complete(doc) /\ objects = live
       => pc' # "aborted" /\ outcome' # "error"]_vars

(* With complete documents only, the context may hold what earlier imports *)
(* brought, too: no import fails that shares objects with them, or starts  *)
(* anew after clear, unless it describes a pairing again that is there.    *)
Repeats == \E i \in doc.entries \cap Pairings : i \in objects \ live

NoImportFails ==
  [][Running /\ ~Repeats => pc' # "aborted" /\ outcome' # "error"]_vars

(* Between imports that left nothing unfinished, clear() returns: every    *)
(* pairing then has its own fields to clear, which Pairing::finalize has   *)
(* copied there in one call or several.                                    *)
CleanClears ==
  [][pc = "idle" /\ (\A i \in objects : IsFinal(i)) => pc' # "aborted"]_vars

(* What the documents have to be for that, and for GTReady: whole, or no   *)
(* document at all; a description of a GT never without its pairing.  And  *)
(* what the graph has to be: nothing is needed, however indirectly, by     *)
(* what it needs itself (exportJson writes what was built bottom up).      *)
AllComplete == \A d \in Documents : d.wellformed => Complete(d)

PairedGTs ==
  \A d \in Documents : \A i \in d.entries :
    Kind[i] = "mulg" => Ref[i]["pairing"] \in d.entries

Grounded ==
  \A S \in SUBSET Ids : S # {} => \E i \in S : Needs(i) \cap S = {}

(* What is final stays final until the context is cleared: a later or a    *)
(* failing import takes nothing away from an earlier one.                  *)
FinalStable ==
  [][\A i \in objects : IsFinal(i) => IsFinal(i)' \/ objects' = {}]_vars

(* A curve, fi or mulg that a failed import left unfinished has lost its   *)
(* description: no later import of whatever document completes it.  Only   *)
(* clearing the context helps, where that does not crash.                  *)
Orphans ==
  {i \in objects \ (live \cup flagged) : Kind[i] \in {"curve", "fi", "mulg"}}

OrphansStay == [][Orphans \subseteq Orphans' \/ objects' = {}]_vars

(* populate comes back, with a result, an exception or a failed assertion. *)
Returns == Running ~> ~Running

(* The import implements the promise of module Import.                     *)
Promise == INSTANCE Import WITH
  Deps   <- [i \in Ids |-> Needs(i)],
  known  <- objects,
  done   <- {i \in objects : IsFinal(i)},
  root   <- rootId,
  phase  <- IF Running THEN "running" ELSE IF pc = "idle" THEN "idle" ELSE "dead",
  result <- outcome

ImplementsImport == Promise!Spec
=============================================================================
