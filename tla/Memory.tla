-------------------------------- MODULE Memory --------------------------------
(***************************************************************************)
(* memory.cpp: the allocator that GMP and PBC use once a context exists.   *)
(*                                                                         *)
(* e2ee_malloc, e2ee_realloc and e2ee_free stand in front of the C         *)
(* allocator.  The map used_addresses records which blocks they handed     *)
(* out, and how many bytes e2ee_free must wipe.  Bytes are cells that hold *)
(* a client's data or do not; where a block lies is the choice of the C    *)
(* allocator, and so is whether std::realloc moves it.                     *)
(*                                                                         *)
(* The clients are GMP, PBC and the library.  What they ask for depends on *)
(* the program and is the variable clients, chosen in Init:                *)
(*   "early"      they allocate before the first context is created, which *)
(*                is what installs the allocator (GlobalParameters.cpp:27) *)
(*   "grow"       they enlarge blocks                                      *)
(*   "shrink"     they make blocks smaller                                 *)
(*   "plain"      they give blocks of e2ee_malloc back with free(), as the *)
(*                text of an element's value is (Element.cpp:319-321)      *)
(*   "unmanaged"  they hand blocks of std::malloc to e2ee_free, as the     *)
(*                data of an imported pairing is (Pairing.cpp:112 and 120) *)
(* Out of memory, and requests for no bytes at all, are left out.          *)
(***************************************************************************)
EXTENDS Integers

CONSTANTS
  HeapSize,   \* the number of cells
  MaxRequest  \* the largest block a client asks for

ASSUME SizeAssumption == HeapSize \in Nat \ {0} /\ MaxRequest \in Nat \ {0}

Clients  == {"early", "grow", "shrink", "plain", "unmanaged"}
Cells    == 0 .. HeapSize - 1
Requests == 1 .. MaxRequest

VARIABLES
  clients,         \* see above
  installed,       \* the C allocator has been replaced
  size,            \* size[p]: of the block at p that the C allocator lent, or 0
  used_addresses,  \* used_addresses[p]: the recorded size, 0 without an entry
  data,            \* the cells that hold data of a client
  held,            \* the blocks a client has a pointer to
  raw,             \* the blocks lent by a std::malloc of the library
  broken           \* a client was given NULL

vars == <<clients, installed, size, used_addresses, data, held, raw, broken>>

Bytes(p, n) == p .. p + n - 1

Lent == UNION {Bytes(p, size[p]) : p \in Cells}

(* The C allocator may place n cells at p, or extend the block at p to n.  *)
Vacant(p, n)     == p + n <= HeapSize /\ Bytes(p, n) \cap Lent = {}
Extensible(p, n) == /\ p + n <= HeapSize
                    /\ (Bytes(p, n) \ Bytes(p, size[p])) \cap Lent = {}

Init ==
  /\ clients \in SUBSET Clients
  /\ installed = FALSE /\ broken = FALSE
  /\ size = [p \in Cells |-> 0] /\ used_addresses = [p \in Cells |-> 0]
  /\ data = {} /\ held = {} /\ raw = {}

(* The first GlobalParameters object replaces the allocator.               *)
Install ==
  /\ ~installed /\ installed' = TRUE
  /\ UNCHANGED <<clients, size, used_addresses, data, held, raw, broken>>

Active == ~broken /\ (installed \/ "early" \in clients)

(* A client fills its block.                                               *)
Write(p) ==
  /\ Active /\ p \in held
  /\ data' = data \cup Bytes(p, size[p])
  /\ UNCHANGED <<clients, installed, size, used_addresses, held, raw, broken>>

RecordOfMutant(n) == n + 1       \* as if malloc recorded one byte too many

RecordOfMutant2(n) == n - 2      \* as if a header of two bytes were left out

RecordOf(n) == n

Malloc(p, n) ==
  /\ Active /\ Vacant(p, n)
  /\ size' = [size EXCEPT ![p] = n]
  /\ held' = held \cup {p}
  /\ IF installed
     THEN /\ data' = data \ Bytes(p, n)
          /\ used_addresses' = [used_addresses EXCEPT ![p] = RecordOf(n)]
     ELSE UNCHANGED <<data, used_addresses>>
  /\ UNCHANGED <<clients, installed, raw, broken>>

(* allocate_unmanaged: std::malloc and bzero, which the map does not see.  *)
UnmanagedMalloc(p, n) ==
  /\ Active /\ installed /\ "unmanaged" \in clients /\ Vacant(p, n)
  /\ size' = [size EXCEPT ![p] = n]
  /\ held' = held \cup {p} /\ raw' = raw \cup {p}
  /\ data' = data \ Bytes(p, n)
  /\ UNCHANGED <<clients, installed, used_addresses, broken>>

Resizes(p, n) ==
  /\ Active /\ p \in held \ raw
  /\ \/ n > size[p] /\ "grow" \in clients
     \/ n < size[p] /\ "shrink" \in clients

Foreign(p) == installed /\ used_addresses[p] = 0

(* A block that e2ee_malloc did not hand out: NULL is returned, and GMP    *)
(* and PBC do not expect it.                                               *)
ReallocRefused(p, n) ==
  /\ Resizes(p, n) /\ Foreign(p)
  /\ broken' = TRUE
  /\ UNCHANGED <<clients, installed, size, used_addresses, data, held, raw>>

(* In place: the record is left as it is.                                  *)
ReallocInPlace(p, n) ==
  /\ Resizes(p, n) /\ ~Foreign(p) /\ Extensible(p, n)
  /\ size' = [size EXCEPT ![p] = n]
  /\ UNCHANGED <<clients, installed, used_addresses, data, held, raw, broken>>

(* Moved from p to q: the data is copied, the old block is not wiped, and  *)
(* the new record is the constant true.                                    *)
MoveRecordMutant(p, q) ==        \* without the erase
  [used_addresses EXCEPT ![q] = 1]

MoveRecordMutant2(p, q) ==       \* without the new entry
  [used_addresses EXCEPT ![p] = 0]

MoveRecord(p, q) == [used_addresses EXCEPT ![p] = 0, ![q] = 1]

ReallocMoved(p, q, n) ==
  LET kept  == IF n < size[p] THEN n ELSE size[p]
      moved == {q + (c - p) : c \in data \cap Bytes(p, kept)}
  IN
  /\ Resizes(p, n) /\ ~Foreign(p) /\ Vacant(q, n)
  /\ size' = [size EXCEPT ![p] = 0, ![q] = n]
  /\ held' = (held \ {p}) \cup {q}
  /\ data' = (data \ Bytes(q, kept)) \cup moved
  /\ used_addresses' = IF installed THEN MoveRecord(p, q) ELSE used_addresses
  /\ UNCHANGED <<clients, installed, raw, broken>>

(* e2ee_free wipes as many cells as are recorded; a block it does not know *)
(* is neither wiped nor released.                                          *)
WipedMutant(p) == {}             \* without the memset

Wiped(p) == Bytes(p, used_addresses[p])

FreeIgnored(p) ==
  /\ Active /\ p \in held /\ Foreign(p)
  /\ held' = held \ {p}
  /\ UNCHANGED <<clients, installed, size, used_addresses, data, raw, broken>>

Free(p) ==
  /\ Active /\ p \in held /\ ~Foreign(p)
  /\ held' = held \ {p} /\ raw' = raw \ {p}
  /\ size' = [size EXCEPT ![p] = 0]
  /\ data' = IF installed THEN data \ Wiped(p) ELSE data
  /\ used_addresses' = [used_addresses EXCEPT ![p] = 0]
  /\ UNCHANGED <<clients, installed, broken>>

(* free() on a block of e2ee_malloc: the entry stays, nothing is wiped.    *)
PlainFree(p) ==
  /\ Active /\ installed /\ "plain" \in clients
  /\ p \in held \ raw /\ used_addresses[p] > 0
  /\ held' = held \ {p}
  /\ size' = [size EXCEPT ![p] = 0]
  /\ UNCHANGED <<clients, installed, used_addresses, data, raw, broken>>

Next ==
  \/ Install
  \/ \E p \in Cells :
       \/ Write(p) \/ FreeIgnored(p) \/ Free(p) \/ PlainFree(p)
       \/ \E n \in Requests :
            \/ Malloc(p, n) \/ UnmanagedMalloc(p, n)
            \/ ReallocRefused(p, n) \/ ReallocInPlace(p, n)
            \/ \E q \in Cells : ReallocMoved(p, q, n)

Spec == Init /\ [][Next]_vars

-----------------------------------------------------------------------------
TypeOK ==
  /\ clients \subseteq Clients
  /\ installed \in BOOLEAN /\ broken \in BOOLEAN
  /\ size \in [Cells -> Nat] /\ used_addresses \in [Cells -> Nat]
  /\ data \subseteq Cells /\ held \subseteq Cells /\ raw \subseteq Cells

(* Unless a client gives blocks back with free(), every entry of           *)
(* used_addresses is of a block that e2ee_malloc lent and a client still   *)
(* has: e2ee_free never wipes or releases memory that is not its own,      *)
(* wherever blocks are moved, and whatever it is handed.                   *)
NoStaleEntry ==
  "plain" \notin clients =>
    \A p \in Cells : used_addresses[p] > 0 => p \in held \ raw /\ size[p] > 0

(* When nothing is allocated before the first context, no client is given  *)
(* NULL, and the map knows every block of e2ee_malloc or e2ee_realloc,     *)
(* also where stale entries were overwritten: of the blocks clients give   *)
(* back, those of std::malloc, which e2ee_free ignores, are all that leak. *)
Exact ==
  "early" \notin clients =>
    /\ ~broken
    /\ \A p \in Cells \ raw : size[p] > 0 => p \in held /\ used_addresses[p] > 0

(* Wiping a block leaves the data of all others alone.  This needs clients *)
(* that never shrink a block: the record would stay too large.  It needs   *)
(* also that std::malloc does not place a block under the entry of one     *)
(* given back with free(): its wipe would have the size of the old block.  *)
FreeIsLocal ==
  [][\A p \in held \ held' : \A q \in held \cap held' :
       /\ held' \subseteq held
       /\ "shrink" \notin clients /\ ~({"plain", "unmanaged"} \subseteq clients)
       => data' \cap Bytes(q, size[q]) = data \cap Bytes(q, size[q])]_vars

(* With clients that neither resize a block nor bypass e2ee_free, the heap *)
(* outside of the lent blocks holds no data: what is given back is clean.  *)
NoResidue == clients \subseteq {"unmanaged"} => data \subseteq Lent

(* memory.hpp:63: "e2ee_free guarantees zeroing out the memory".           *)
FreeWipes ==
  [][\A p \in held \ held' :
       ("plain" \notin clients /\ installed /\ held' \subseteq held /\ size'[p] = 0)
         => data' \cap Bytes(p, size[p]) = {}]_vars

(* memory.hpp:57: "e2ee_realloc guarantees zeroing out the memory before   *)
(* moving old memory".                                                     *)
ReallocWipes ==
  [][\A p \in held \ held' :
       (installed /\ ~(held' \subseteq held))
         => data' \cap Bytes(p, size[p]) = {}]_vars
=============================================================================
