------------------------------- MODULE Registry -------------------------------
(***************************************************************************)
(* PbcContext as the registry of wrappers for native objects.              *)
(*                                                                         *)
(* PBC keeps a pairing in a struct, with its fields GT and Zr, and in a    *)
(* data block, with the curve Eq (which is G1 and G2) and the fields Fq    *)
(* and Fq2.  A wrapper is found by its id, which is a hash of the address  *)
(* of what it wraps (idOf), or was read from a document; an id is modelled *)
(* by that address.  Fields and elements do not own their native objects;  *)
(* a Pairing does: its destructor calls pairing_clear, which releases the  *)
(* data block, for malloc to use again.  The context owns the wrappers     *)
(* that are registered, and clear() lets go of them; a caller may keep a   *)
(* Pairing longer.                                                         *)
(*                                                                         *)
(* Elements are left out: each is registered under the address of its own  *)
(* storage, which nothing else has, after its field (InitElement).         *)
(***************************************************************************)
EXTENDS Integers, Sequences, FiniteSets, Functions

CONSTANTS
  Pairings,   \* native pairings, in the order of their creation
  Blocks,     \* data blocks of pairings
  Documents,  \* [DocRoles -> addresses or other ids]: the ids of a document
  MaxEpoch,   \* bound: calls of clear()
  MaxImports, \* bound: imported pairings that are in use at a time
  None

StructRoles == {"P", "GT", "Zr"}
BlockRoles  == {"Eq", "Fq", "Fq2"}

(* An imported field has a native field of its own; its pairing has copies *)
(* in its struct and its block, neither of which is ever used again.       *)
DocRoles == {"P", "docEq", "docFq", "docFq2", "docGT", "docZr"}

ASSUME RegistryAssumption ==
  /\ IsFiniteSet(Pairings) /\ Blocks \cap Pairings = {}
  /\ None \notin Pairings \cup Blocks
  /\ MaxEpoch \in Nat /\ MaxImports \in Nat
  /\ \A doc \in Documents :
       DOMAIN doc = DocRoles /\ IsInjective(doc)

(* The struct of p, and its fields in the order of Pairing::initFields, if *)
(* its data block is d: p itself stands for the block of an imported one.  *)
Fields(p, d) ==
  LET G1 == IF d = p THEN <<"docEq", p>> ELSE <<"Eq", d>>
  IN <<G1, <<"GT", p>>, <<"Zr", p>>, <<"Eq", d>>, <<"Fq", d>>, <<"Fq2", d>>>>

Natives(p, d) ==
  {<<"P", p>>} \cup Range(Fields(p, d))
  \cup (IF d = p THEN (DocRoles \ {"P"}) \X {p} ELSE {})

(* The fields that the wrapper of a field refers to, the field first: the  *)
(* super fields, and under a curve the field of its elements a and b.      *)
Chain(f, d) ==
  LET p   == f[2]
      fq  == IF d \in Pairings THEN <<"docFq", d>> ELSE <<"Fq", d>>
      fq2 == IF d \in Pairings THEN <<"docFq2", d>> ELSE <<"Fq2", d>>
  IN CASE f[1] \in {"GT", "docGT"}                   -> <<f, fq2, fq>>
       [] f[1] \in {"Eq", "Fq2", "docEq", "docFq2"}  -> <<f, fq>>
       [] OTHER                                      -> <<f>>

IsCurve(f) == f[1] \in {"Eq", "docEq"}

(* PBC notes the pairing in G1, GT and the field under GT.                 *)
KnowsPairing(f) ==
  f[1] \in {"GT", "docGT", "Fq2", "docFq2"} \/ (f[1] = "Eq" /\ f[2] \in Blocks)

-----------------------------------------------------------------------------
VARIABLES
  block,      \* the data block of a pairing that is in use, or None
  cleared,    \* how often pairing_clear was called on a pairing
  own,        \* addresses whose wrapper is registered under their idOf
  imported,   \* [id -> address]: imported wrappers that are registered
  wrappers,   \* Pairing objects: native, id, and epoch of registration
  held,       \* Pairing objects that a caller keeps
  params,     \* the Pairing objects that GlobalParameters point to
  epoch,      \* how often clear() was called
  shared      \* pairings imported, or ever kept by a caller over a clear()

vars == <<block, cleared, own, imported, wrappers, held, params, epoch, shared>>

Taken(id) == id \in own \cup DOMAIN imported

(* fromNative(field_s ptr) goes down the chain until an id is found, and   *)
(* registers what is not (super fields first: a SubField looks for its     *)
(* super field in its constructor; a curve looks for the fields of a and b *)
(* when it is registered itself).  If the id is that of an object that is  *)
(* not a field, the cast throws.                                           *)
BadCast(f, d) ==
  LET c == Chain(f, d)
  IN \E n \in DOMAIN c : /\ \A m \in 1 .. n - 1 : ~Taken(c[m])
                         /\ c[n] \in DOMAIN imported
                         /\ imported[c[n]][1] = "P"

MissingMutant(f, d) == IF Taken(f) THEN {} ELSE {f}  \* as if links were lazy

Missing(f, d) ==
  LET c == Chain(f, d)
  IN {c[n] : n \in {n \in DOMAIN c : \A m \in 1 .. n : ~Taken(c[m])}}

FromNative(f, d) ==
  IF ~BadCast(f, d) THEN Missing(f, d)
  ELSE IF IsCurve(f) THEN Missing(f, d) \cap {f} ELSE {}

(* Pairing::initFields, which may throw on its way.                        *)
Throws(p, d) == \E f \in Range(Fields(p, d)) : BadCast(f, d)

InitFields(p, d) ==
  LET F == Fields(p, d)
  IN UNION {FromNative(F[n], d) :
              n \in {n \in DOMAIN F : \A m \in 1 .. n - 1 : ~BadCast(F[m], d)}}

(* pairing_clear on the pairings of the wrappers ws.                       *)
PairingClear(ws) ==
  /\ cleared' = [p \in Pairings |->
                   cleared[p] + Cardinality({w \in ws : w.native = p})]
  /\ block' = [p \in Pairings |->
                 IF \E w \in ws : w.native = p THEN None ELSE block[p]]

(* What two calls of pairing_clear do is undefined: the model stops.       *)
Defined == \A p \in Pairings : cleared[p] <= 1

Unused(p) == block[p] = None /\ cleared[p] = 0

-----------------------------------------------------------------------------
(* createPairing of the native pairing p, in block d: the constructor, and *)
(* then addObject.  If a field's id is that of something else, the         *)
(* constructor throws, and there is no object whose destructor would run;  *)
(* if the pairing's id is taken, addObject throws, and the object dies.    *)
idOf(p) == <<"P", p>>

New(p) == [native |-> p, id |-> idOf(p), epoch |-> epoch]

ConstructorThrows(p, d) ==
  /\ Throws(p, d)
  /\ own' = own \cup InitFields(p, d)
  /\ block' = [block EXCEPT ![p] = d]
  /\ UNCHANGED <<cleared, wrappers>>

AddObjectThrows(p, d) ==
  /\ ~Throws(p, d) /\ Taken(<<"P", p>>)
  /\ own' = own \cup InitFields(p, d)
  /\ PairingClear({New(p)})
  /\ UNCHANGED wrappers

AddObject(p, d) ==
  /\ ~Throws(p, d) /\ ~Taken(<<"P", p>>)
  /\ own' = own \cup InitFields(p, d) \cup {<<"P", p>>}
  /\ block' = [block EXCEPT ![p] = d]
  /\ wrappers' = wrappers \cup {New(p)}
  /\ UNCHANGED cleared

CreatePairing(p, d) ==
  ConstructorThrows(p, d) \/ AddObjectThrows(p, d) \/ AddObject(p, d)

Init ==
  /\ block = [p \in Pairings |-> None] /\ cleared = [p \in Pairings |-> 0]
  /\ own = {} /\ imported = [id \in {} |-> None]
  /\ wrappers = {} /\ held = {} /\ params = {} /\ shared = {} /\ epoch = 0

(* The constructor of GlobalParameters; the elements g and Z that it makes *)
(* are in fields that are registered by then.                              *)
CreateGlobal(p, d) ==
  /\ Defined /\ Unused(p) /\ d \in Blocks /\ \A q \in Pairings : block[q] # d
  /\ CreatePairing(p, d)
  /\ params' = params \cup (wrappers' \ wrappers)
  /\ UNCHANGED <<imported, held, epoch, shared>>

(* The wrapper of an element of a native field registers that field first. *)
CreateElement(p, f) == own' = own \cup FromNative(f, block[p])

(* emptyElement and randomElement of an imported field: its native field   *)
(* has no wrapper under its own id.                                        *)
EmptyElement(p, f) ==
  f \in Range(imported) /\ f \in Natives(p, block[p]) \ {<<"P", p>>}

(* initG1, initG2, initGT and initZr of a Pairing (a caller may also have  *)
(* kept elements of these fields).                                         *)
InitOf(p, f) ==
  /\ \E w \in wrappers : w.native = p
  /\ \E n \in 1 .. 3 : f = Fields(p, block[p])[n]

InitElement(p, f) ==
  /\ Defined /\ block[p] # None
  /\ EmptyElement(p, f) \/ InitOf(p, f)
  /\ CreateElement(p, f)
  /\ UNCHANGED <<block, cleared, imported, wrappers, held, params, epoch, shared>>

FindMutant(id) == FALSE  \* as if fromNative did not look the id up

Find(id) == Taken(id)

(* AbstractField::addToJson asks the context for the pairing of its native *)
(* field.  If its id is not found, a wrapper for it is made: for a pairing *)
(* that was imported, or that the caller kept, that is a second one.       *)
DescribeField(p, f) ==
  /\ Defined /\ block[p] # None /\ f \in Natives(p, block[p])
  /\ f \in own \cup Range(imported) /\ KnowsPairing(f)
  /\ ~Find(<<"P", p>>)
  /\ CreatePairing(p, block[p])
  /\ UNCHANGED <<imported, held, params, epoch, shared>>

(* populate() of a document none of whose ids is taken (PbcContext models  *)
(* what it does, and documents that overlap).                              *)
Populate(q, doc) ==
  /\ Cardinality({p \in Pairings : block[p] = p}) < MaxImports
  /\ Defined /\ Unused(q) /\ \A r \in DocRoles : ~Taken(doc[r])
  /\ imported' = [id \in DOMAIN imported \cup Range(doc) |->
                    IF id \in DOMAIN imported THEN imported[id]
                    ELSE LET r == CHOOSE r \in DocRoles : doc[r] = id
                         IN <<r, q>>]
  /\ block' = [block EXCEPT ![q] = q]
  /\ wrappers' = wrappers \cup {[native |-> q, id |-> doc["P"], epoch |-> epoch]}
  /\ shared' = shared \cup {q}
  /\ UNCHANGED <<cleared, own, held, params, epoch>>

Hold(w) ==
  /\ Defined /\ w \in wrappers \ held
  /\ held' = held \cup {w}
  /\ UNCHANGED <<block, cleared, own, imported, wrappers, params, epoch, shared>>

(* The context still owns a wrapper that is registered; another one is     *)
(* destroyed.                                                              *)
Registered(w) == w.epoch = epoch

Drop(w) ==
  /\ Defined /\ w \in held
  /\ held' = held \ {w}
  /\ IF Registered(w) THEN UNCHANGED <<block, cleared, wrappers>>
     ELSE wrappers' = wrappers \ {w} /\ PairingClear({w})
  /\ UNCHANGED <<own, imported, params, epoch, shared>>

ClearMutant ==  \* as if it destroyed what callers keep, too
  /\ Defined /\ epoch < MaxEpoch
  /\ epoch' = epoch + 1
  /\ own' = {} /\ imported' = [id \in {} |-> None]
  /\ wrappers' = {}
  /\ PairingClear(wrappers)
  /\ shared' = shared \cup {w.native : w \in held}
  /\ UNCHANGED <<held, params>>

Clear ==
  /\ Defined /\ epoch < MaxEpoch
  /\ epoch' = epoch + 1
  /\ own' = {} /\ imported' = [id \in {} |-> None]
  /\ wrappers' = held
  /\ PairingClear(wrappers \ held)
  /\ shared' = shared \cup {w.native : w \in held}
  /\ UNCHANGED <<held, params>>

Next ==
  \/ \E p \in Pairings, d \in Blocks : CreateGlobal(p, d)
  \/ \E p \in Pairings : \E f \in Natives(p, block[p]) :
       InitElement(p, f) \/ DescribeField(p, f)
  \/ \E q \in Pairings, doc \in Documents : Populate(q, doc)
  \/ \E w \in wrappers : Hold(w) \/ Drop(w)
  \/ Clear

Spec == Init /\ [][Next]_vars

-----------------------------------------------------------------------------
Ids == (StructRoles \cup BlockRoles \cup DocRoles) \X (Pairings \cup Blocks)

TypeOK ==
  /\ block \in [Pairings -> Pairings \cup Blocks \cup {None}]
  /\ cleared \in [Pairings -> Nat]
  /\ own \subseteq Ids
  /\ Range(imported) \subseteq DocRoles \X Pairings
  /\ held \subseteq wrappers
  /\ \A w \in wrappers \cup params :
       w.native \in Pairings /\ w.epoch \in 0 .. epoch
  /\ shared \subseteq Pairings
  /\ epoch \in 0 .. MaxEpoch

Live(a) == \E p \in Pairings : block[p] # None /\ a \in Natives(p, block[p])

Dangling == {a \in own \cup Range(imported) : ~Live(a)}

(* PbcContext::clear, ~Pairing: of the native pairings that were not       *)
(* imported, and that no caller kept over a clear(), none is cleared twice,*)
(* and none is used by a Pairing after it was cleared: the wrapper that    *)
(* fromNative makes when it cannot find the id is never a second one.      *)
ClearedOnce ==
  \A p \in Pairings \ shared :
    cleared[p] > 0 => cleared[p] = 1 /\ \A w \in wrappers : w.native # p

(* GlobalParameters: until clear() is called, their weak pointer leads to  *)
(* a pairing that is in use, that no other Pairing owns, and that has a    *)
(* wrapper for each of its fields.                                         *)
ParamsUsable ==
  \A w \in params :
    Registered(w) =>
      /\ w \in wrappers /\ block[w.native] # None
      /\ \A v \in wrappers : v.native = w.native => v = w
      /\ \A f \in Natives(w.native, block[w.native]) : Taken(f)

(* fromNative: a wrapper of a native field that is in use is never         *)
(* registered without what it refers to (under whose id there may be an    *)
(* imported object).                                                       *)
Follows(f, d) == Len(Chain(f, d)) > 1 => Taken(Chain(f, d)[2])

LinksFollow ==
  \A p \in Pairings : block[p] # None =>
    \A f \in own \cap Natives(p, block[p]) : Follows(f, block[p])

(* ~Pairing: registered wrappers are left with native objects that are     *)
(* gone only when a Pairing dies that is not registered: one that a caller *)
(* kept over a clear(), or one that addObject refused because a document   *)
(* had its id.                                                             *)
Kills(p) == cleared'[p] > cleared[p]

DanglesByOrphans ==
  [][ Dangling' \subseteq Dangling
      \/ \E p \in Pairings :
           /\ Kills(p)
           /\ \/ \E w \in wrappers \ wrappers' : w.native = p /\ ~Registered(w)
              \/ <<"P", p>> \in DOMAIN imported ]_vars

=============================================================================
