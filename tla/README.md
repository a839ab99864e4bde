# A verification project for libe2ee

libe2ee is a proxy re-encryption library on top of PBC and GMP. It wraps the
native pairings, fields and elements in C++ objects that live in a context
(`PbcContext`), exports graphs of them as JSON, and imports such documents.
This directory holds TLA+ models of its parts, configurations that
check them with TLC, and proofs checked with TLAPS. Paths below are relative to
the sources in `src/e2ee`; `objects/` is left out of the names of classes.

## Inventory

| Component | State it keeps | Operations | Talks to | What is hard | What makes it correct |
|---|---|---|---|---|---|
| Context import (`PbcContext.cpp`) | registered objects by uuid, `rootId` | `populate`, `constructObject`, `getObjectFromJson`, `finalizeObjects`, `clear` | every object class | arbitrary order of uuids, exceptions half way, retries, destructors of what it drops, termination of the loop | what it returns is complete; a failure harms nothing that was complete; it comes back |
| Object classes (`Element`, `MontFPField`, `CurveField`, `QuadraticField`, `MultiplicativeSubgroup`, `Pairing`) | final flag, weak links, weak pointer to the description, native object | `finalize`, `isFinal` | context (to resolve links), each other | a pairing and its GT refer to each other | final only after everything they are built from; a final GT has a native field |
| Registry and identity (`PbcContext`, `PbcObject`) | `objects`, `nativeObjects`, ids | `addObject`, `fromNative`, `createPairing`, `createElement`, `at`, `operator[]`, `idOf`, `setId` | native objects, global parameters | ids are hashes of addresses, and addresses are used again; imported ids are other hashes; `clear`; a wrapper owns its native pairing, and there may be two | a native pairing is released once, and by its last user; a wrapper is not left without what it wraps or refers to |
| Export (`PbcObject::exportJson`, `addToJson` of all classes) | the document being built | `exportJson`, `getJsonStub`, `addJsonObject` | object graph, registry | a cyclic graph; references into a document that grows; objects that are gone or unfinished | the walk ends; what it returns has everything an import reads; values come back |
| Global parameters (`GlobalParameters`) | weak pointers to pairing, g, Z | constructor, accessors | registry, allocator | `clear` takes the objects away | parameters stay usable |
| Re-encryption (`KeyPair`, `Tuple`, `e2ee.cpp`) | keys, ciphertexts and their level | key generation, encryption on two levels, re-encryption, decryption | global parameters, element arithmetic | levels share one class | decryption inverts encryption, on each level, and only with the right key |
| Allocator (`memory.cpp`) | `used_addresses` | `e2ee_malloc`, `e2ee_realloc`, `e2ee_free` | GMP, PBC, the C allocator | blocks move, shrink, are older than the allocator, or pass it by | no block is lost or released twice; released memory is wiped; no other block is touched |
| Conversions (`conversions.cpp`) | none | digits, limbs and numbers to text and back | JSON descriptions | range checks, zero, signed `char` | round trip |
| Errors, JSON helpers, uuid parsing, field factory, facade, Java binding | none or a table | | | | part of the guards of the operations above, where they decide something |
| `PbcRepository` | | | | not used by anything | not modelled |

The library is single-threaded: nothing in it creates a thread or takes a lock.
What makes it hard is order (uuids), partial failure (exceptions), stale
references (weak pointers, expired descriptions), and loops that end only
because every class keeps its side of a protocol. The continuous integration
builds with assertions; a release build defines NDEBUG and has none. Both are
modelled, of the import (the constant `Asserts`) and of the export (the variable
`asserts`).

## Modules

| Module | What it models |
|---|---|
| `Import` | What a context promises about importing: the abstract specification of `populate` and `clear`. |
| `PbcContext` | `parseJson`, `constructObject`, `getObjectFromJson`, `finalizeObjects`, `clear`, and `finalize`/`isFinal` of the six classes. |
| `MCPbcContext` | The object graph of an exported type A pairing, documents over it, orders of uuids. |
| `PbcContextProofs` | Inductive invariant of `PbcContext`, its properties and the refinement of `Import`, proved. |
| `PbcContextProgress` | That complete documents import, in every order, and that final fields are initialized, proved. |
| `Memory` | The allocator in front of the C allocator, and its clients: GMP, PBC and the library. |
| `MCMemory` | Instance of `Memory`. |
| `MemoryProofs` | Inductive invariant of `Memory` and its properties, proved. |
| `Conversions` | Digits, limbs and numbers to text and back (`conversions.cpp`); values and bytes of elements. |
| `ConversionsProofs` | What `Conversions` writes it reads back, for every number, element and point, proved. |
| `Export` | `exportJson` and the walk of `addToJson` over the object graph; uses `Conversions` for what it writes. |
| `MCExport` | The objects of a context, those of one that imported a message, what may have happened to them, and values. |
| `ExportProofs` | Inductive invariant of `Export`, its properties, and when an export fits into its document, proved. |
| `Registry` | Wrappers of native pairings and fields, their ids and owners, `clear` and the global parameters. |
| `MCRegistry` | Two pairings, two data blocks, two documents. |
| `RegistryProofs` | Inductive invariant of `Registry` and its properties, proved. |
| `ReEncryption` | `KeyPair`, `Tuple` and the facade over the exponents of the group. |
| `MCReEncryption` | Exponents modulo 5, three people, two sets of parameters. |
| `ReEncryptionProofs` | Its properties over every field of exponents, proved. |

`PbcContext` and `Export` are the two ends of one document: `ReturnedIsComplete`
says what an export has, member by member, and which members it may lack; an
export that lacks none of them is what `PbcContext` calls `Complete` and imports
in every order (`FreshImportSucceeds`, `NoImportFails`). `Registry` has the imports of `PbcContext` as one
action, for documents that do not overlap with what is registered.

### PbcContext and the code

The constants describe the world of documents: `Ids` the uuids, `Kind` the class
each is constructed as, `Ref` the uuid under each key of its description.
A document is a record: its root, the uuids it describes (`entries`), those
whose description construction rejects (`bad`), the curves described without a
cofactor, which is read only when the curve is finalized (`nocofac`), and
whether its top-level members are all objects (`wellformed`). `GraphAssumption` says that references
have the types the code casts them to.

| Variable | Code |
|---|---|
| `rank` | the order of uuids in the `std::map`s; arbitrary, since uuids are hashes of addresses (`PbcObject.cpp:36-47`) |
| `objects`, `rootId` | `PbcContext::objects` (imported ones), `PbcContext::rootId` |
| `native` | the objects of the global parameters are registered; all final, counted as one object |
| `flagged` | `PbcObject::_isFinal` |
| `linked` | per object, the keys whose weak pointer (`PROPERTY`, `PbcObject.hpp:52-59`) is set |
| `inited` | `get()->init` of a GT, `get()->GT->init` of a pairing |
| `copied` | the fields Eq, Fq and Fq2 that `INIT_FIELD` has copied into the data block of a pairing (`Pairing.cpp:112, 156-158`) |
| `live` | `jobj` has not expired (`PbcObject.hpp:154-174`) |
| `doc`, `todo`, `pc` | the running `parseJson`, the rest of its loop, and where it is |
| `status`, `oldStatus`, `allFinal` | the locals of `finalizeObjects` |
| `outcome` | what the last `populate` did |

One action is one iteration of a loop: `ConstructObject`, `ConstructFails` and
`ConstructCrashes` for `PbcContext.cpp:128-134`, one `Finalize...` action per class and branch for
`188-207`, `EndPass...` for the end of a pass. `SkipFinal` is the branch for
objects that are already final. A `Finalize...` action is the whole `finalize`
of the class with the links it sets, the percentage it returns and what the
loop does with it (`Report`); `FinalizePairingWithGT` contains the nested
`finalize` of GT. An exception ends the import (`Throw`) and leaves everything
it has done so far. A failed assertion, the division by zero of
`PbcContext.cpp:209`, or a crash ends the program (`Abort`).

The destructor of a pairing is part of the actions that drop one. `~Pairing`
calls `pairing_clear`, which clears GT, Eq, Fq and Fq2 through the functions of
these fields. The constructor from JSON replaces the data block by zeros
(`Pairing.cpp:112`), and only `finalize` copies the fields there. So the
destructor of a pairing that `insert` did not keep crashes (`Duplicate`,
`ConstructCrashes`), and `clear` returns (`Clear`) or crashes (`ClearCrashes`)
depending on whether all imported pairings are `Destructible`.

Abstractions, and why they are sound:
- An id always names the same object. That ids of native objects and of
  documents may collide is in `Registry`.
- A document without a root member is rejected before anything changes; it is
  not among the documents.
- `uuid` references are syntactically valid; `getIdFromJson` throws another
  exception class for others.
- Numbers and strings are left out: PBC initialization from a valid description
  succeeds, an invalid one is `bad`. The assertion that an element prints as the
  value it was given (`Element.cpp:234`) is in `Conversions` (`PrintsAsRead`).
- No object is constructed during finalization: every uuid the document
  describes is registered by then, so the `values` lookup of
  `getObjectFromJson` finds nothing new.
- A curve without an order is `bad`: its constructor reads it first
  (`AbstractField.cpp:58`), so that `CurveField.cpp:111` finds it.
- Destructors of other objects than pairings free memory and return. When
  `clear` drops a pairing, nobody keeps objects of its fields: a caller who does
  is in `Registry`.

### Memory and the code

Cells are bytes; `size` is what the C allocator has lent, `used_addresses` what
the map of that name records, `data` the cells with a client's data, `held` the
blocks a client has a pointer to, `raw` those among the lent blocks that the
library took from `std::malloc`. `Malloc`, `ReallocRefused`, `ReallocInPlace`,
`ReallocMoved`, `Free` and `FreeIgnored` are the branches of `memory.cpp`;
before `Install` (`GlobalParameters.cpp:27-28`) the same calls reach the C
allocator. `UnmanagedMalloc` and `PlainFree` are the two places where the library
passes the allocator by. Where a block lies and whether it moves is
nondeterministic. What clients do is chosen once, in `clients`, so that one run
covers every combination; the properties name the kinds they cannot bear:

| Client | What it does | In the code |
|---|---|---|
| `early` | allocates before the allocator is installed | conversion functions called before the first context |
| `grow`, `shrink` | resize blocks | GMP: `mpz_set` of larger numbers, `mpz_get_str` trims its result |
| `plain` | gives a block of `e2ee_malloc` back with `free()` | `Element.cpp:319-321`: the string that `mpz_get_str(NULL, ...)` allocated |
| `unmanaged` | hands a block of `std::malloc` to `e2ee_free` | `Pairing.cpp:112`: the data of an imported pairing, which `pairing_clear` frees |

Requests for zero bytes and exhaustion are left out.

### Export, Conversions and the code

| Variable | Code |
|---|---|
| `asserts`, `root`, `alive`, `unset`, `final`, `known`, `value` | whether the build has assertions; what is exported; which objects weak pointers still reach; the links an unfinished object has not set; `_isFinal`; which native fields have `pairing` set; the values of elements and moduli |
| `stack`, `rest` | the running `addToJson` calls, and what each still has to do (`Program`, the body of the function, class by class) |
| `described`, `members`, `text` | the document: descriptions, their keys, and the text of values |
| `capacity`, `taken` | members the document has room for, and the room when a call took its reference `self` |
| `outcome` | returned, `bad_weak_ptr` or another exception, a failed assertion or a crash |

`Descend` and `AddReference` are the two halves of `addJsonObject`,
`AddField` an `AddMember` of a value, `TakeAgain` a `getJsonStub` for an object
that is already described (fields do that after `AbstractField::addToJson`),
`Leave` a return, `Expired` an accessor that throws `bad_weak_ptr`,
`AssertionFails` the assertion each `addToJson` begins with (`Passes`: nothing
without assertions). `HasPairing` is the test of `MultiplicativeSubgroup.cpp:53`,
which skips a pairing that has expired. Only a release build comes to
`CofacCrashes` (the data of a curve that `finalize` has not initialized is a null
pointer) and `PrintsGarbage` (PBC prints an element that is not initialized: a
crash, an exception, no value, or any value). `AddMember`
through a reference that was taken before the document grew is undefined; the
model loses the member.

`Conversions` works on character codes, because its properties are about digits:
every operator that can throw, or read past the end of a table, yields a set of
results. The algebra of the curve and the printing of PBC are external. Brackets
and blanks of printed values are left out (both directions drop and restore
them), and so is `quotient_cmp` of curves, which a type A pairing does not have.

### Registry and the code

An id is modelled by what it is a hash of: the address of a native object, here
its role and the struct or data block it lies in. Imported objects are registered
under ids of their own, which may be addresses of this process (`Documents`).

| Variable | Code |
|---|---|
| `block` | the data block of a native pairing in use (`pairing->data`) |
| `cleared` | calls of `pairing_clear` |
| `own`, `imported` | `PbcContext::objects`: wrappers under the id of their native object, and under the id of a document |
| `wrappers`, `held`, `params` | `Pairing` objects, those a caller keeps a `shared_ptr` to, those a `GlobalParameters` points to weakly |
| `epoch` | calls of `clear()`; a wrapper of an older epoch is no longer registered |
| `shared` | history: pairings that were imported, or kept by a caller over a `clear()` |

`CreatePairing` has three outcomes: the constructor throws on its way through
`initFields` (a field's id belongs to another class), `addObject` refuses the
pairing and it dies, or it is registered. `FromNative` goes down the chain of
super fields. `DescribeField` is the one place where the library asks for the
pairing of a native field (`AbstractField.cpp:46`). After a pairing was cleared
twice the model stops: what `pairing_clear` does then is undefined.

Elements are left out: each has storage of its own, so its id collides with
nothing; its field is registered first, and that is `InitElement`. The weak
pointers of `GlobalParameters` to g and Z, of key pairs and of tuples expire with
that of the pairing.

### ReEncryption and the code

Elements are modelled by their logarithms to the bases g and Z = e(g, g), members
of a field `Exp`: `operator^` and `apply` multiply, `operator*` and `operator/`
add and subtract, `operator!` inverts. What PBC makes of elements of two pairings
is any element (`Result`). Each ciphertext remembers (as history) the message, the
random k and the people it went through (`path`); re-encryption keys remember
their maker and their receiver. `EncryptFirstLevel` is the facade, which takes the
parameters of the context whatever the key was made with.

## Runs

| Run | Question | Properties | Result |
| --- | --- | --- | --- |
| `orders` | Do complete exports import in every order of their uuids, one after the other and again after a clear, and can the context be cleared? | `TypeOK`, `GTReady`, `NoImportFails`, `CleanClears` | Yes, all 10080 orders of a pairing's 8 objects, but for a document with a pairing that is registered already. |
| `retry` | What do damaged documents, failures, retries and clears leave behind, and does every import come back, with assertions? | `NoDanglingLink`, `FinalClosed`, `FinalStable`, `OrphansStay`, `FreshImportSucceeds`, `ImplementsImport`, `Returns` | Nothing that was final suffers; a failed import is repaired only by `clear`, where that does not crash; the import implements `Import`; it comes back, trips the assertion on progress or crashes over a pairing it drops. |
| `release` | And without assertions: is what it returns complete? | `OkMeansComplete`, `ImplementsImport` | Yes. |
| `endless` | And does it come back without assertions? | `Returns` | **No**, see below. |
| `stranded_gt` | Does a final GT always have its native field? | `GTReady` | **No** after a document that lost its pairing. |
| `memory` | Books, wiping and isolation of the allocator. | `TypeOK`, `NoStaleEntry`, `Exact`, `NoResidue`, `FreeIsLocal` | Hold, each for the clients it names. |
| `free_wipes`, `realloc_wipes` | The guarantees in the comments of `memory.hpp`. | `FreeWipes`, `ReallocWipes` | **Do not hold** for blocks that are resized. |
| `export` | With and without assertions: does the export walk end, is what it returns complete, do numbers, points and bytes come back? | `TypeOK`, `ReturnedIsComplete`, `OnceEach`, `OnlyOIsLost`, `ModulusComesBack`, `BytesComeBack`, `Progress` | It ends. Complete while the document has room, and what constructors of fields read also after it grew, but for the pairing of a GT whose link has expired and, without assertions, values of unfinished elements. All come back but the digit O. |
| `round_trip` | Does every element come back from its description? | `RoundTrip` | **No**: not one with a component 24, nor the point at infinity. |
| `registry` | Are native pairings released once, do the global parameters stay usable until `clear`, are wrappers left dangling? | `TypeOK`, `ClearedOnce`, `ParamsUsable`, `LinksFollow`, `DanglesByOrphans` | Yes for pairings that were neither imported nor kept over a `clear`; only the death of an unregistered pairing leaves any. |
| `reencrypt` | Who can decrypt what, on which level, after which re-encryption? | `TypeOK`, `Delivered`, `OnlyReceiver`, `NoDetour` | The receiver, and nobody else, for keys of one set of parameters other than 0. |

Each property of a passing run has a mutant in `PROJECT.json`: a plausible bug
(the operators named `...Mutant`) that makes TLC find it violated.

What the code gets wrong:
1. `MultiplicativeSubgroup.cpp:69-72`: when the pairing of a GT cannot be
   resolved, the exception leaves the GT flagged as final by
   `SubField::finalize`, although its native field was never set; the assertion
   at 101-103 states the opposite. Later imports skip it as final.
2. `PbcContext.cpp:212-215`: "prevent endless loops" is an assertion only; a
   release build loops for ever on a document from which the field under a GT
   is missing.
3. `memory.cpp:58-63`: a moved block is released unwiped, and its record becomes
   the constant `true`, a size of 1; a block grown in place keeps its old
   record. `e2ee_free` then wipes too little. Both contradict
   `memory.hpp:57-63`. (A block that shrinks in place keeps a record that is too
   large; `FreeIsLocal` is stated for clients that do not shrink.)
4. `conversions.cpp:109`: the text `O` is read as 0, because PBC prints the point
   at infinity so; but `O` is the digit 24 of base 62. An element with a component
   24 is exported as `O` and comes back as 0; the point at infinity is exported as
   `0` and does not come back as itself. `tests/test_element.cpp:43` requires that
   elements come back.

What the properties do not promise, because the code does not provide it (see the
hazards in `PROJECT.json`). The first two contradict a comment or the intent of a
test, which no run states as a property of its own:
- every import of an element releases a string of `e2ee_malloc` with `free()`
  (`Element.cpp:319-321`, client `plain`), against `memory.hpp:54` and
  `memory.cpp:36`. The entry stays in `used_addresses` until `e2ee_malloc` lends
  that address again, which is why `NoStaleEntry` is stated for the other clients.
  If `std::malloc` lends it before (the data of an imported pairing,
  `Pairing.cpp:112`), `e2ee_free` takes its block for its own and wipes the size
  of the old one, which is why `FreeIsLocal` leaves out clients that do both;
- the reference `self` of `getJsonStub` (`Element.cpp:144` and every class) does
  not survive the growth of the document. An export that outgrows the sixteen
  members a rapidjson document starts with loses members, so that it would not
  come back as `test_element.cpp:36-43` expects of a small one; an imported
  message that is exported again is that large. `ReturnedIsComplete` promises
  then only what cannot be lost (`Sturdy`);
- importing a document with a pairing that is registered already crashes, and so
  does clearing a context after a failed import left a pairing unfinished: both
  run `~Pairing` over a data block without fields (`Pairing.cpp:112, 119-122`);
- the data block of an imported pairing leaks, because `e2ee_free` does not know
  it;
- an imported GT that outlives its pairing is exported without it
  (`MultiplicativeSubgroup.cpp:53`), and in a release build unfinished objects are
  exported as they are;
- a second wrapper of an imported pairing, or of one kept over a `clear`, releases
  it twice (`AbstractField.cpp:46`);
- after `clear` the global parameters, and with them the facade, are unusable; a
  secret key 0 is possible.

### Bounds

- `PairingGraph` is the graph PBC's type A pairing exports: eight objects of
  all six classes, G1 and G2 shared with Eq, GT over Fq2 over Fq. `Graph` adds
  a message in GT. Every branch of every `finalize` occurs on it. A larger
  document repeats these classes.
- `orders` uses every order of seven objects, with Zr first or last: Zr is final
  when it is first visited and only the pairing looks at it. `retry` uses every
  order of P, GT, Fq2 and Fq, among which links wait for each other, with the
  others before and after; `release` and the violations use three orders, bottom
  up, top down and mixed.
- Documents: the exports, each export of the pairing with one description
  missing, GT exported without its pairing (and Zr, and Fq2), unparsable descriptions,
  a curve without its cofactor, a document that is not one; `release` adds one that describes nothing. One
  missing description reaches every exception.
- Nothing bounds the number of imports; the state space is finite because
  the number of objects is.
- `memory`: four cells and blocks of up to two hold two blocks and a gap, so
  that blocks grow, shrink, move and are followed by another, and a block of one
  cell lies under the entry of a larger one. The violations use blocks of up to
  three.
- `export` and `round_trip`: every object of a context as the root, with five
  choices of the fields that know their pairing, every subset of eight objects
  that may outlive a `clear`, imported ones among them, one or two unfinished
  objects, and the second generation of wrappers that an import leads to.
  Without assertions, imported objects of which one or two are unfinished, the
  first with none of its links set, all but one, or all. Values: all numbers up to 140
  and around the ends of two and three digits, every point of a curve over F59,
  pairs in a quadratic extension, every prime modulus below 400. `Capacity = 16`
  is rapidjson's; the exports of a fresh context fit, those of imported messages
  do not, so that both cases occur.
- `registry`: two pairings and two blocks let a block be used again by the second
  pairing; `MaxEpoch = 2` clears, so that what was kept over one meets another;
  `MaxImports = 1` imported pairing in use at a time. One document was written by
  this process (its ids are addresses here), the other has a pairing under the
  address of a field.
- `reencrypt`: a group of order 5 has keys that are equal, inverse, 0 and
  unrelated. One ciphertext and one re-encryption key at a time are enough,
  because the properties are about one ciphertext and its history (a
  re-encrypted one is added to the one it came from); three people, so that
  there is somebody else. People are interchangeable, hence the symmetry.

### Fairness

`FairSpec` has weak fairness on `Step`, the steps of an import that was
called: the code is sequential and runs on the thread of its caller. Nothing
obliges the caller to call, so `Populate` and `Clear` have no fairness.
`Memory`, `Registry` and `ReEncryption` have no liveness: all their steps are
calls. That the export walk ends needs no fairness: `Progress` says that every
step describes one more object, shortens what a call has to do, or returns.

Deadlock is not checked in the import runs, where a failed assertion, the
division by zero or a crash ends the program, nor in those of the allocator,
where a client that was given NULL does. The export runs stop when the walk is over, `registry` when a bound is reached or behaviour is
undefined, `reencrypt` when its bounds are reached.

## Proofs

For every graph, set of documents, order and both builds (`GraphAssumption`,
`DocumentAssumption`, `RankAssumption`, `AssertsAssumption`, `NilAssumption`):

`PbcContextProofs` proves an inductive invariant `IInv`: `TypeOK`,
`NoDanglingLink`, `FinalClosed` and `OkMeansComplete`, strengthened by
- `LoopInv`: what the loop has already passed is final as long as `allFinal`
  holds. Without it nothing connects the local variable `isFinal` with the
  objects, and `OkMeansComplete` is not inductive (a release build does not
  check again);
- `ElementsLinked`: a registered element has its field, which its constructor
  sets; without it an element could be final with a field that was never
  registered.

The central argument is that each `finalize` adds links only to registered
objects and raises a flag only when what the object needs is final
(`Effect`, one lemma per action), and that no step lowers the flag of a final
object. From it: `TypeCorrect`, `LinksNeverDangle`, `FinalityIsClosed`,
`ReturnedMeansComplete`, the action properties `FinalityIsStable` and
`OrphansAreStuck`, and `Implementation`: the import implements `Import`.

`PbcContextProgress` proves what an import achieves, under hypotheses on the
documents that TLC evaluates on the instances (`BuiltBottomUp`, `WholeExports`):
- `PairedGTs`, no document describes a GT without its pairing, gives
  `FinalFieldsAreInitialized`: `GTReady`, also for damaged documents of any
  other kind, after failures and retries. The run `stranded_gt` shows that the
  hypothesis is needed.
- `Grounded`, no object needs itself, however indirectly, gives
  `FreshImportsSucceed`: a complete document that meets an empty context is
  imported in every order of its uuids. It holds of every graph that PBC makes:
  a field is built on one that is there, an element in a field that is there
  (the links between a pairing and GT are no needs: GT does not wait for its
  pairing to be final).
- If besides all documents are complete (`AllComplete`), as those are that
  `exportJson` returns in a build with assertions and of which it loses nothing
  (`ExportIsComplete`, `SmallExportsFit`), no import fails that does not describe
  a registered pairing again (`ImportsNeverFail`), between imports everything is
  final (`NothingLeftUnfinished`), and the context can be cleared.
- The latter, `CleanContextsClear`, needs only `PairedGTs`: whenever all objects
  are final, `clear` returns. A pairing is final only when the six fields it
  counts were final, and `INIT_FIELD` copied each as it counted it; that a GT has
  its native field is `FinalFieldsAreInitialized`.

Only an assertion (`PbcContext.cpp:212-215`) says that each pass makes progress;
the proof has to say why. Each object has a `Worth`: no less than what it last
reported, no more than what it will report once all objects have the links that
others look for (`MetBy`, which the first pass sees to),
and never less when others become final. The invariant
`Pace` compares a pass with the one before: no object falls behind, and unless
all are final one is ahead or will be (`Due`), because all it needs is final
(there is such an object, since the graph is grounded), or because it is the
pairing and will find its GT final. It holds from iteration to iteration
(`IterationKeepsPace`) and from one pass to the next (`NextPassStarts`); at the
end of a pass it is what the assertion compares. The sum is written as the
cardinality of a set (`Parts`), for which the library has theorems.

`ConversionsProofs` proves that what is written is read back, for every number
and every base (`DigitsComeBack`), for numbers and for the words of a prime field
(`MpzComesBack`, `LimbsComeBack`), for elements through their description
(`ElementComesBack`: all without a component 24) and for points through their
compressed bytes (`PointComesBack`). The library's induction theorems take an
operator, which the provers cannot instantiate; here the property is a set
(`Induct`), and induction follows from the theorem that the finite subsets of a
set are well founded (`Least`). A recursive function is first shown to exist
(`TableExists`, `NumberTable`), and to have the same entries however far it
goes (`TablesAgree`), before its equations can be used (`DigitsOf`, `NumberOf`).
That the bytes of a point determine it needs that two roots of the same square
modulo a prime add up to it (`SameSquare`), hence Euclid's lemma (`Euclid`).

`MemoryProofs` proves `TypeCorrect`, `OwnsWhatItFrees`, `MapIsExact`,
`WipingIsLocal` and `NothingRemains`, for every heap and every largest request,
from an invariant that adds the layout of the C allocator's blocks (`Layout`:
disjoint, inside the heap), that the map is empty until it is installed
(`Unused`), that no record exceeds its block unless clients shrink blocks
(`Within`), and that blocks of `std::malloc` have no entry unless `free()` left
one (`Raws`). `MapIsExact` holds with both of the library's own shortcuts: a stale
entry is overwritten when `e2ee_malloc` is lent its address again.

`ExportProofs` proves, for every graph, history (`Scenarios`) and capacity
(`ExportGraph`, `ScenarioAssumption`, `CapacityAssumption`), an invariant `IInv`
of `TypeOK`, `OnceEach`, `ReturnedIsComplete`'s ingredients and:
- `Walk`: only running calls have something left to do, and what runs is
  described and, with assertions, was ready (final, with what it needs);
- `Room`: references are no older than the document, so that a document that
  never grew lost nothing;
- `Accounted`: each key of a description is still to be written by its call, or
  was, and then what it refers to is described. When the stack is empty nothing
  is left to be written;
- `Lossless`: the order of a field and the modulus of a prime field are written
  through a reference that was taken just before, with nothing described in
  between (`Prompt`), so that they are never lost, however often the document
  grows.
Together they give `ExportIsComplete`, for both builds.
`WalkProgresses` (`Progress`) follows step by step: the walk ends.
`SmallExportsFit` adds that a context with fewer objects than the document has
room for never grows it (by cardinality). `ElementsComeBack`, `ModuliComeBack` and
`PointsComeBack` need besides that what a description says of a value was written
from that value (`Values`), and then the theorems of `ConversionsProofs`.
`ValueAssumption` says what values PBC can hold: moduli are primes, points solve
the equation of their curve, components are not negative.

`RegistryProofs` proves, for every number of pairings, blocks, documents and
both bounds (`RegistryAssumption`), an invariant of `TypeOK` and, for each kind
of thing, what ties it to the others: the block of a pairing is a data block, or
the pairing itself if it was imported (`InBlock`), a registered address of a
pairing in use is one of its natives and has its super field registered
(`OfUsed`, `OwnLinked`), a wrapper is the only one of its pairing unless that is
`shared` (`Only`), no other pairing was cleared more than once
(`ClearedAtMostOnce`), and the global parameters are usable until `clear`
(`Usable`). The step that needs all of them is `CreatePairing`, whose three
outcomes have a lemma each; `DescribeField` reduces to it because the id of a
pairing that is neither imported nor kept is found while the pairing is in use.

`ReEncryptionProofs` proves, over every field of exponents (`FieldAssumption`:
commutative, associative, distributive, inverses except of zero), that each
re-encryption key and each ciphertext is what its history says (`KeysMade`,
`Made`), and from it, by cancellation in the field, the three properties. The
secret of one person is never equal to that of another except by chance, so
that they speak of equal secrets, not of equal people.

Only model-checked: `Returns`, which is liveness under fairness, out of the
prover's reach. Its safety part is proved where it matters: the end of a pass
neither throws nor trips the assertion on progress while complete documents are
imported (`ImportsNeverFail`). Properties that the runs refute are not proved.

## Not modelled

- PBC and GMP (arithmetic, initialization of native objects), rapidjson and
  hashing, except where a module says what they do (external in the map).
- `operator[]` of a context inserts a null pointer for an unknown id. Nothing in
  the library calls it, and a map with null pointers is not a state of the model.
- `equals` and `operator==` of the classes, `compareField`: pure comparisons of
  native values. `addNativeObject`, `nativeObjects` and `nativeId` are written or
  searched, but decide nothing the library does.
- The string overloads of `e2ee.cpp` return constants; `kdf256` hashes bytes;
  `generateDataEncryptionKey` draws a random element.
- `PbcRepository` is compiled and used by nothing; the Java binding is generated;
  logging, tests and examples.
- Failure of the C allocator: `std::malloc` returning NULL.
- Objects that a caller keeps over a `clear` and uses afterwards: their native
  fields point into a pairing that was released. `Registry` says when that
  happens (`DanglesByOrphans`), no module what follows.

Worth adding: one theorem over `Export` and `PbcContext` together, that the
document of an export that lacks nothing is `Complete` (the two modules name the keys of a
class differently, so that it takes a mapping), and a bound on the number of
passes of an import.
