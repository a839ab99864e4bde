-------------------------------- MODULE Export --------------------------------
(***************************************************************************)
(* PbcObject::exportJson and addToJson of every class: the walk that       *)
(* describes an object, and everything it refers to, in one document.      *)
(*                                                                         *)
(* The graph is cyclic (a pairing and its GT, and every field that knows   *)
(* its pairing), so that a description is put into the document, as a      *)
(* stub, before the objects it refers to are described; each addToJson     *)
(* returns at once when the document already has the object.  The running  *)
(* addToJson calls are the variable stack; each keeps a C++ reference,     *)
(* self, to its description inside the document, while the calls below it  *)
(* add further descriptions: rapidjson moves all of them when it runs out  *)
(* of room, and what is written through an older reference is lost.        *)
(*                                                                         *)
(* That an object is final is only asserted.  Without assertions the walk  *)
(* also describes the objects that a failed import left unfinished: links  *)
(* that finalize() has not set, or native data it has not made.            *)
(***************************************************************************)
EXTENDS Conversions, FiniteSets, Functions

CONSTANTS
  Ids,        \* the objects of the context
  Kind,       \* [Ids -> Kinds]: their classes
  Ref,        \* Ref[i][k]: the object that i refers to under key k
  Scenarios,  \* what is exported, and what has happened to the graph before
  Capacity    \* members a document has room for before it grows

Kinds == {"element", "montfp", "curve", "fi", "mulg", "pairing"}

(* The keys under which a class refers to other objects; "native" is the   *)
(* pairing a native field knows, which is written under the key pairing.   *)
KeysOf(kind) ==
  CASE kind = "element" -> {"field"}
    [] kind = "montfp"  -> {}
    [] kind = "curve"   -> {"a", "b", "native"}
    [] kind = "fi"      -> {"base", "native"}
    [] kind = "mulg"    -> {"base", "native", "pairing"}
    [] kind = "pairing" -> {"G1", "G2", "GT", "Zr", "Eq", "Fq", "Fq2"}

(* A GT made from a native field has no link to its pairing (the body of   *)
(* MultiplicativeSubgroup::updateMembers is commented out).                *)
ASSUME ExportGraph ==
  /\ IsFiniteSet(Ids)
  /\ Kind \in [Ids -> Kinds]
  /\ \A i \in Ids : /\ DOMAIN Ref[i] \subseteq KeysOf(Kind[i])
                    /\ KeysOf(Kind[i]) \ {"native", "pairing"} \subseteq DOMAIN Ref[i]
                    /\ \A k \in DOMAIN Ref[i] : Ref[i][k] \in Ids

Valued == {i \in Ids : Kind[i] \in {"element", "montfp"}}

(* Either every object is there; or the context was cleared, and only what *)
(* the caller holds is left (and no native field knows a pairing, which    *)
(* may be gone).  Imports may have left objects that are not final, with   *)
(* links that are not set yet; an element has its field from the start.    *)
(* The values are components of elements, and moduli.                      *)
ASSUME ScenarioAssumption ==
  \A s \in Scenarios :
    /\ s.asserts \in BOOLEAN
    /\ s.alive \subseteq Ids /\ s.root \in s.alive
    /\ s.final \subseteq Ids
    /\ \A l \in s.unset : l[1] \in Ids \ s.final /\ Kind[l[1]] # "element"
    /\ s.known \subseteq {i \in Ids : "native" \in DOMAIN Ref[i]}
    /\ s.alive # Ids => s.known = {}
    /\ DOMAIN s.value = Valued

(* Elements on a curve, and the modulus of the field of its coefficients.  *)
OnACurve(i)   == Kind[i] = "element" /\ Kind[Ref[i]["field"]] = "curve"
PrimeField(i) == Ref[Ref[Ref[i]["field"]]["a"]]["field"]

(* The coefficients of a curve are in a prime field.  The values are ones  *)
(* that PBC can hold: a modulus is prime, an element has one component or  *)
(* two, which are not negative, and one on a curve is the point at         *)
(* infinity or has coordinates that solve its equation.                    *)
ASSUME ValueAssumption ==
  /\ \A i \in Ids : Kind[i] = "curve" =>
       Kind[Ref[i]["a"]] = "element" /\ Kind[Ref[Ref[i]["a"]]["field"]] = "montfp"
  /\ \A s \in Scenarios : \A i \in Valued :
       /\ Kind[i] = "montfp" => IsPrime(s.value[i])
       /\ OnACurve(i) =>
            LET p == s.value[PrimeField(i)]
            IN \/ s.value[i] = Infinity
               \/ \E x, y \in 0 .. p - 1 :
                    s.value[i] = <<x, y>> /\ OnCurve(<<x, y>>, p)
       /\ Kind[i] = "element" /\ ~OnACurve(i) =>
            s.value[i] \in Seq(Nat) /\ Len(s.value[i]) \in {1, 2}

ASSUME CapacityAssumption == Capacity \in Nat \ {0}

-----------------------------------------------------------------------------
VARIABLES
  asserts,    \* the build has assertions (NDEBUG is not defined)
  root,       \* the object that is exported
  known,      \* fields whose native field knows its pairing
  alive,      \* objects that weak pointers still reach
  final,      \* objects whose _isFinal is TRUE
  unset,      \* the links that are not set: <<object, key>>
  value,      \* the values of elements and the primes of montfp fields
  stack,      \* the running addToJson calls, the latest last
  rest,       \* per object, what its addToJson still has to do
  described,  \* objects the document has
  members,    \* per object, the keys of its description
  text,       \* per object, its value as it was written
  capacity,   \* members the document has room for
  taken,      \* per object, the capacity when self was taken
  outcome     \* none | ok | throw | abort

graph == <<asserts, root, known, alive, final, unset, value>>
vars  == <<graph, stack, rest, described, members, text, capacity, taken, outcome>>

-----------------------------------------------------------------------------
(* The weak pointer under key k of i has an object.  The wrapper of the    *)
(* native pairing is not looked up by a weak pointer.                      *)
Reaches(i, k) == Ref[i][k] \in alive /\ <<i, k>> \notin unset

(* has_pairing() of a multiplicative subgroup.                             *)
HasPairingMutant(i) ==  \* as if it never had one
  FALSE

HasPairing(i) == "pairing" \in DOMAIN Ref[i] /\ Reaches(i, "pairing")

(* What addToJson of a class writes, in its order.  AbstractField comes    *)
(* first for every field, SubField before MultiplicativeSubgroup; each of  *)
(* them takes self again with getJsonStub.                                 *)

AbstractField(i) == IF i \in known THEN <<"order", "native">> ELSE <<"order">>
SubField(i)      == AbstractField(i) \o <<"self", "base">>

Element        == <<"field", "value">>
Pairing        == <<"G1", "G2", "GT", "Zr", "Eq", "Fq", "Fq2", "r", "phikonr">>
MontFPField(i) == AbstractField(i) \o <<"self", "modulus", "negpinv", "r", "r3">>
CurveField(i)  == AbstractField(i) \o <<"self", "a", "b", "cofac">>

MultiplicativeSubgroup(i) ==
  IF HasPairing(i) THEN SubField(i) \o <<"self", "pairing">>
  ELSE SubField(i) \o <<"self">>

Program(i) ==
  CASE Kind[i] = "element" -> Element
    [] Kind[i] = "montfp"  -> MontFPField(i)
    [] Kind[i] = "curve"   -> CurveField(i)
    [] Kind[i] = "fi"      -> SubField(i)
    [] Kind[i] = "mulg"    -> MultiplicativeSubgroup(i)
    [] Kind[i] = "pairing" -> Pairing

Steps(i) == Range(Program(i))
Keys(i)  == Steps(i) \ {"self"}

(* What the constructor and finalize() of a class read from a description: *)
(* the constructors of all fields their order, by parse_native; finalize() *)
(* what the object refers to.                                              *)
ReadByField       == {"order"}
ReadByElement     == {"field", "value"}
ReadByMontFPField == ReadByField \cup {"modulus"}
ReadByPairing     == {"r", "phikonr"}

Read(kind) ==
  CASE kind = "element" -> ReadByElement
    [] kind = "montfp"  -> ReadByMontFPField
    [] kind = "curve"   -> ReadByField \cup {"a", "b", "cofac"}
    [] kind = "fi"      -> ReadByField \cup {"base"}
    [] kind = "mulg"    -> ReadByField \cup {"base", "pairing"}
    [] kind = "pairing" -> ReadByPairing \cup
                             {"G1", "G2", "GT", "Zr", "Eq", "Fq", "Fq2"}

(* isFinal(), and isValid() of an element: what addToJson asserts first.   *)
(* A SubField also needs its super field, to any depth.                    *)
QuadFinal(i) ==
  /\ i \in final
  /\ Kind[i] = "fi" => Ref[i]["base"] \in alive \cap final

Ready(i) ==
  /\ QuadFinal(i)
  /\ Kind[i] = "mulg"    => Ref[i]["base"] \in alive /\ QuadFinal(Ref[i]["base"])
  /\ Kind[i] = "element" => Ref[i]["field"] \in alive

(* The prime under the curve an element lies on; 0 for other elements.     *)
Prime(i) == IF OnACurve(i) THEN value[PrimeField(i)] ELSE 0

-----------------------------------------------------------------------------
(* documentContainsThis                                                    *)
ContainsMutant(i) ==  \* as if the stub were added when addToJson returns
  i \in described /\ rest[i] = <<>>

Contains(i) == i \in described

(* The document has its members, the root member among them.               *)
Size == Cardinality(described) + 1

(* GenericValue::AddMember of rapidjson: a full document grows by half.    *)
Grown == IF Size >= capacity THEN capacity + (capacity + 1) \div 2 ELSE capacity

(* addToJson(i) is called and the document does not have i: getJsonStub    *)
(* adds the stub and returns a reference to it.                            *)
Begin(i) ==
  /\ stack' = Append(stack, i)
  /\ described' = described \cup {i}
  /\ capacity' = Grown
  /\ taken' = [taken EXCEPT ![i] = Grown]
  /\ rest' = [rest EXCEPT ![i] = Program(i)]

Running  == outcome = "none" /\ stack # <<>>
Top      == stack[Len(stack)]
NextStep == Head(rest[Top])

(* The running addToJson is about to describe another object, Target.      *)
AtReference == Running /\ rest[Top] # <<>> /\ NextStep \in DOMAIN Ref[Top]
Target      == Ref[Top][NextStep]

(* self still refers to the description of Top.                            *)
Fresh == taken[Top] = capacity

AddMemberMutant(key) ==  \* as if dst were the description of the caller
  /\ rest' = [rest EXCEPT ![Top] = Tail(@)]
  /\ members' = [members EXCEPT ![stack[1]] = @ \cup {key}]
  /\ UNCHANGED <<graph, stack, described, capacity, taken, outcome>>

AddMember(key) ==
  /\ rest' = [rest EXCEPT ![Top] = Tail(@)]
  /\ members' = IF Fresh THEN [members EXCEPT ![Top] = @ \cup {key}] ELSE members
  /\ UNCHANGED <<graph, stack, described, capacity, taken, outcome>>

-----------------------------------------------------------------------------
Init ==
  /\ \E s \in Scenarios : /\ asserts = s.asserts /\ root = s.root /\ known = s.known
                          /\ alive = s.alive /\ final = s.final
                          /\ unset = s.unset /\ value = s.value
  /\ stack = <<>> /\ described = {} /\ outcome = "none"
  /\ rest = [i \in Ids |-> <<>>]
  /\ members = [i \in Ids |-> {}]
  /\ text = [i \in Ids |-> <<>>]
  /\ taken = [i \in Ids |-> 0]
  /\ capacity = Capacity

(* The assertion addToJson begins with, where it is compiled in.           *)
Passes(i) == asserts => Ready(i)

(* exportJson() of the root.                                               *)
ExportJson ==
  /\ outcome = "none" /\ described = {} /\ Passes(root)
  /\ Begin(root)
  /\ UNCHANGED <<graph, members, text, outcome>>

(* addJsonObject: the object is described first, unless it is already.     *)
Descend ==
  /\ AtReference
  /\ Reaches(Top, NextStep) /\ Passes(Target) /\ ~Contains(Target)
  /\ Begin(Target)
  /\ UNCHANGED <<graph, members, text, outcome>>

(* addJsonObject: and then its uuid is added.                              *)
AddReference ==
  /\ AtReference
  /\ Reaches(Top, NextStep) /\ Passes(Target) /\ Contains(Target)
  /\ AddMember(NextStep)
  /\ UNCHANGED text

ValueText(i) ==
  CASE Kind[i] = "element" -> {Described(value[i])}
    [] Kind[i] = "montfp"  -> limbs_to_str(value[i])

(* The native data that the next step reads does not exist before the      *)
(* object is final: the data of a curve, and the whole of an element.      *)
Bare == Top \notin final /\ NextStep \in {"cofac", "value"}

AddField ==
  /\ Running /\ rest[Top] # <<>>
  /\ NextStep \notin DOMAIN Ref[Top] /\ NextStep # "self" /\ ~Bare
  /\ AddMember(NextStep)
  /\ IF Top \in Valued /\ NextStep \in {"value", "modulus"} /\ Fresh
     THEN \E t \in ValueText(Top) : text' = [text EXCEPT ![Top] = t]
     ELSE UNCHANGED text

(* CurveField::addToJson reads through the null pointer.                   *)
CofacCrashes ==
  /\ Running /\ rest[Top] # <<>> /\ NextStep = "cofac" /\ Bare
  /\ outcome' = "abort"
  /\ UNCHANGED <<graph, stack, rest, described, members, text, capacity, taken>>

(* What element_snprint does with an element that is not initialized: it   *)
(* crashes, or it prints what is no number, nothing, or any number.        *)
PrintsGarbage ==
  /\ Running /\ rest[Top] # <<>> /\ NextStep = "value" /\ Bare
  /\ \/ /\ outcome' \in {"abort", "throw"}
        /\ UNCHANGED <<graph, stack, rest, described, members, text, capacity, taken>>
     \/ /\ rest' = [rest EXCEPT ![Top] = Tail(@)]
        /\ UNCHANGED <<graph, stack, described, members, text, capacity, taken, outcome>>
     \/ /\ AddMember(NextStep)
        /\ text' = [text EXCEPT ![Top] = Described(<<0>>)]

(* getJsonStub of an object that the document has.                         *)
TakeAgain ==
  /\ Running /\ rest[Top] # <<>> /\ NextStep = "self"
  /\ rest' = [rest EXCEPT ![Top] = Tail(@)]
  /\ taken' = [taken EXCEPT ![Top] = capacity]
  /\ UNCHANGED <<graph, stack, described, members, text, capacity, outcome>>

(* addToJson returns, and with it, in the end, exportJson.                 *)
Leave ==
  /\ Running /\ rest[Top] = <<>>
  /\ stack' = SubSeq(stack, 1, Len(stack) - 1)
  /\ outcome' = IF Len(stack) = 1 THEN "ok" ELSE "none"
  /\ UNCHANGED <<graph, rest, described, members, text, capacity, taken>>

(* An accessor of PROPERTY throws bad_weak_ptr: its object is gone, or it  *)
(* was never set.                                                          *)
Expired ==
  /\ AtReference /\ ~Reaches(Top, NextStep)
  /\ outcome' = "throw"
  /\ UNCHANGED <<graph, stack, rest, described, members, text, capacity, taken>>

AssertionFails ==
  /\ \/ outcome = "none" /\ described = {} /\ ~Passes(root)
     \/ AtReference /\ Reaches(Top, NextStep) /\ ~Passes(Target)
  /\ outcome' = "abort"
  /\ UNCHANGED <<graph, stack, rest, described, members, text, capacity, taken>>

Next ==
  \/ ExportJson \/ Descend \/ AddReference \/ AddField \/ TakeAgain \/ Leave
  \/ Expired \/ AssertionFails \/ CofacCrashes \/ PrintsGarbage

Spec == Init /\ [][Next]_vars

-----------------------------------------------------------------------------
TypeOK ==
  /\ asserts \in BOOLEAN
  /\ alive \subseteq Ids /\ final \subseteq Ids /\ known \subseteq Ids
  /\ root \in alive /\ \A l \in unset : l[1] \in Ids
  /\ stack \in Seq(Ids)
  /\ described \subseteq Ids
  /\ DOMAIN rest = Ids /\ DOMAIN members = Ids
  /\ \A i \in Ids : rest[i] \in Seq(Steps(i)) /\ members[i] \subseteq Keys(i)
  /\ capacity \in Nat /\ taken \in [Ids -> Nat]
  /\ outcome \in {"none", "ok", "throw", "abort"}

(* The document was never too small: rapidjson has not moved it.           *)
Fits == capacity = Capacity

(* What exportJson returns: the root and everything it leads to over links *)
(* that are set is described, with all that the classes read.  With        *)
(* assertions nothing in it is unfinished; without, no curve is.           *)
(*                                                                         *)
(* Three members may be missing, and no others: those that a document lost *)
(* when it had to grow, which are never what the constructor of a field    *)
(* reads; the pairing of a GT that has no link to a pairing that is still  *)
(* there, because it was not imported or because the pairing has expired   *)
(* (its native field may name it: "native" is written as pairing); and     *)
(* without assertions the value of an unfinished element.                  *)
Sturdy   == {"order", "modulus"}
Names(i) == members[i] \cup (IF "native" \in members[i] THEN {"pairing"} ELSE {})

Linkless(i)  == /\ Kind[i] = "mulg" /\ i \notin known
                /\ "pairing" \in DOMAIN Ref[i] => ~Reaches(i, "pairing")
Unprinted(i) == i \notin final /\ ~asserts
MayLack(i)   == (IF Linkless(i) THEN {"pairing"} ELSE {}) \cup
                (IF Unprinted(i) THEN {"value"} ELSE {})
Leads(i)     == {k \in DOMAIN Ref[i] : /\ k = "native" => i \in known
                                       /\ k = "pairing" => Reaches(i, k)}

ReturnedIsComplete ==
  outcome = "ok" =>
    /\ root \in described
    /\ \A i \in described :
         /\ asserts => Ready(i)
         /\ Kind[i] = "curve" => i \in final
         /\ \A k \in Leads(i) : Reaches(i, k) /\ Ref[i][k] \in described
         /\ \A k \in Read(Kind[i]) :
              Fits \/ k \in Sturdy => k \in Names(i) \cup MayLack(i)

(* An object is being described by one call at a time, however the graph   *)
(* leads back to it: without that, the walk would not end, and keys would  *)
(* be written twice.                                                       *)
OnceEach ==
  \A m, n \in 1 .. Len(stack) : stack[m] = stack[n] => m = n

(* Every step of the walk describes one more object, finishes one more     *)
(* step of one addToJson, or returns: the walk ends.                       *)
Progress ==
  [][ \/ described \subseteq described' /\ described' # described
      \/ described' = described /\ \E i \in Ids : Len(rest'[i]) < Len(rest[i])
      \/ rest' = rest /\ Len(stack') < Len(stack)
      \/ outcome' # outcome ]_vars

(* Conversions: the value of a final element comes back from its           *)
(* description and passes the assertion at Element.cpp:234, but for the    *)
(* point at infinity, and a component 24, whose only digit is O.           *)
OnlyOIsLost ==
  \A i \in described \cap Valued \cap final :
    (Kind[i] = "element" /\ "value" \in members[i]) =>
      \/ value[i] = Infinity
      \/ \E n \in DOMAIN value[i] : value[i][n] = 24
      \/ /\ Imported(Prime(i), text[i]) = {value[i]}
         /\ PrintsAsRead(Prime(i), text[i])

(* The modulus of a field is written digit by digit through the forward    *)
(* map, and read by GMP (the constructor) or through the reverse map       *)
(* (json_to_limbs): all agree, and neither map is read past its end.       *)
ModulusComesBack ==
  \A i \in described \cap Valued :
    (Kind[i] = "montfp" /\ "modulus" \in members[i]) =>
      /\ str_to_mpz(text[i], CONVERSION_BASE) = {value[i]}
      /\ str_to_limbs(text[i]) = {value[i]}

(* The bytes of a point on the curve come back as that point.              *)
BytesComeBack ==
  \A i \in described \cap Valued \cap final :
    (Kind[i] = "element" /\ Prime(i) # 0 /\ value[i] # Infinity) =>
      elementFromBytes(toBytes(value[i], Prime(i)), Prime(i)) = {value[i]}

(* What test_element.cpp:43 requires of every element: that it comes back  *)
(* from its description.                                                   *)
RoundTrip ==
  \A i \in described \cap Valued \cap final :
    (Kind[i] = "element" /\ "value" \in members[i]) =>
      Imported(Prime(i), text[i]) = {value[i]}

=============================================================================
