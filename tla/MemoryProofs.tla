----------------------------- MODULE MemoryProofs -----------------------------
(***************************************************************************)
(* What holds of the allocator of module Memory for every heap and every   *)
(* largest request.                                                        *)
(*                                                                         *)
(* None of the results is inductive.  That e2ee_free releases only what it *)
(* owns needs that the map is empty until it is installed, and that blocks *)
(* of std::malloc have no entries; that wiping is local needs that no      *)
(* record of a held block is larger than the block unless a client shrank  *)
(* it, and that the blocks of the C allocator are disjoint; that nothing   *)
(* is left behind needs that records are exact when nobody resizes a block *)
(* and nobody bypasses e2ee_free.                                          *)
(***************************************************************************)
EXTENDS Memory, TLAPS

Layout ==
  /\ \A p \in Cells : p + size[p] <= HeapSize
  /\ \A p, q \in Cells : p < q /\ size[q] > 0 => p + size[p] <= q
  /\ \A p \in held : size[p] > 0

Unused == ~installed => \A p \in Cells : used_addresses[p] = 0

Within ==
  "shrink" \notin clients =>
    \A p \in held \ raw : used_addresses[p] <= size[p]

Raws ==
  /\ "unmanaged" \notin clients => raw = {}
  /\ \A p \in raw : size[p] > 0
  /\ "plain" \notin clients => \A p \in raw : used_addresses[p] = 0

IInv == TypeOK /\ Layout /\ Unused /\ Within /\ Raws /\ NoStaleEntry /\ Exact

-----------------------------------------------------------------------------
LEMMA LentCells ==
  ASSUME NEW q \in Cells, NEW c \in Bytes(q, size[q]) PROVE c \in Lent
BY DEF Lent

(* Where the C allocator places a block it meets no other.                 *)
LEMMA VacantIsApart ==
  ASSUME TypeOK, NEW p \in Cells, NEW n \in Requests, Vacant(p, n),
         NEW q \in Cells, size[q] > 0
  PROVE  q + size[q] <= p \/ p + n <= q
<1>1. size[q] \in Nat /\ p \in Int /\ q \in Int /\ n \in Nat /\ n > 0
  BY SizeAssumption DEF TypeOK, Cells, Requests
<1>2. q \in Bytes(q, size[q]) /\ p \in Bytes(p, n) BY <1>1 DEF Bytes
<1>3. q \notin Bytes(p, n) BY <1>2, LentCells DEF Vacant
<1>4. p \notin Bytes(q, size[q]) BY <1>2, LentCells DEF Vacant
<1> QED BY <1>1, <1>3, <1>4 DEF Bytes

LEMMA ExtensibleIsApart ==
  ASSUME TypeOK, Layout, NEW p \in Cells, NEW n \in Requests, Extensible(p, n),
         NEW q \in Cells, size[q] > 0, p < q
  PROVE  p + n <= q
<1>1. size[q] \in Nat /\ size[p] \in Nat /\ p \in Int /\ q \in Int /\ n \in Nat
  BY SizeAssumption DEF TypeOK, Cells, Requests
<1>2. p + size[p] <= q BY DEF Layout
<1>3. q \notin Bytes(p, size[p]) BY <1>1, <1>2 DEF Bytes
<1>4. q \in Bytes(q, size[q]) BY <1>1 DEF Bytes
<1>5. q \notin Bytes(p, n) BY <1>3, <1>4, LentCells DEF Extensible
<1> QED BY <1>1, <1>5 DEF Bytes

(* A step keeps the layout when it changes blocks to ones that fit.        *)
LEMMA LayoutKept ==
  ASSUME TypeOK, Layout, held' \subseteq Cells,
         \A r \in Cells : size'[r] \in Nat,
         \A r \in Cells : size'[r] > size[r] => r + size'[r] <= HeapSize,
         \A r, s \in Cells :
           r < s /\ size'[s] > 0 /\ ~(size'[r] <= size[r] /\ size[s] > 0)
             => r + size'[r] <= s,
         \A r \in held' : size'[r] > 0
  PROVE  Layout'
<1>1. HeapSize \in Nat /\ \A r \in Cells : r \in Int /\ size[r] \in Nat
  BY SizeAssumption DEF TypeOK, Cells
<1>2. Cells' = Cells BY DEF Cells
<1>3. \A r \in Cells : r + size'[r] <= HeapSize
  <2> TAKE r \in Cells
  <2>1. r + size[r] <= HeapSize BY DEF Layout
  <2> QED BY <1>1, <2>1
<1>4. \A r, s \in Cells : r < s /\ size'[s] > 0 => r + size'[r] <= s
  <2> SUFFICES ASSUME NEW r \in Cells, NEW s \in Cells, r < s, size'[s] > 0,
                      size'[r] <= size[r], size[s] > 0
               PROVE  r + size'[r] <= s
    OBVIOUS
  <2>1. r + size[r] <= s BY DEF Layout
  <2> QED BY <1>1, <2>1
<1> QED BY <1>2, <1>3, <1>4 DEF Layout

-----------------------------------------------------------------------------
LEMMA InitIInv == Init => IInv
<1> SUFFICES ASSUME Init PROVE IInv
  OBVIOUS
<1>1. \A p \in Cells : p \in Int /\ p <= HeapSize /\ size[p] = 0 /\ used_addresses[p] = 0
  BY SizeAssumption DEF Init, Cells
<1>2. TypeOK BY <1>1 DEF Init, TypeOK
<1>3. Layout BY <1>1, SizeAssumption DEF Init, Layout
<1>4. Unused /\ Within /\ Raws /\ NoStaleEntry /\ Exact
  BY <1>1 DEF Init, Unused, Within, Raws, NoStaleEntry, Exact
<1> QED BY <1>2, <1>3, <1>4 DEF IInv

(* A new block at p, whoever asked for it, keeps the layout.               *)
LEMMA NewBlockLayout ==
  ASSUME TypeOK, Layout, NEW p \in Cells, NEW n \in Requests, Vacant(p, n),
         size' = [size EXCEPT ![p] = n], held' = held \cup {p}
  PROVE  Layout' /\ size[p] = 0
<1>1. n \in Nat /\ n > 0 /\ p \in Int /\ p + n <= HeapSize /\ HeapSize \in Nat
  BY SizeAssumption DEF Vacant, Cells, Requests
<1>2. \A q \in Cells : size[q] > 0 => q + size[q] <= p \/ p + n <= q
  BY VacantIsApart
<1>3. Layout'
  <2>1. \A q \in Cells : size[q] > 0 => q + size[q] <= p \/ p + n <= q
    BY <1>2
  <2>2. \A r \in Cells : /\ r \in Int /\ size[r] \in Nat
                         /\ size'[r] = IF r = p THEN n ELSE size[r]
    BY DEF TypeOK, Cells
  <2>3. \A r, s \in Cells :
          r < s /\ size'[s] > 0 /\ ~(size'[r] <= size[r] /\ size[s] > 0)
            => r + size'[r] <= s
    <3> SUFFICES ASSUME NEW r \in Cells, NEW s \in Cells, r < s, size'[s] > 0,
                        ~(size'[r] <= size[r] /\ size[s] > 0)
                 PROVE  r + size'[r] <= s
      OBVIOUS
    <3>1. CASE r = p BY <1>1, <2>1, <2>2, <3>1
    <3>2. CASE s = p
      <4>1. size[r] > 0 => r + size[r] <= p BY <1>1, <2>1, <2>2, <3>2
      <4> QED BY <1>1, <2>2, <3>2, <4>1
    <3> QED BY <2>2, <3>1, <3>2
  <2>4. held' \subseteq Cells /\ \A r \in held' : size'[r] > 0
    BY <1>1, <2>2 DEF TypeOK, Layout
  <2> QED BY <1>1, <2>2, <2>3, <2>4, LayoutKept
<1>4. size[p] \in Nat BY DEF TypeOK
<1> QED BY <1>1, <1>2, <1>3, <1>4

LEMMA MallocIInv ==
  ASSUME IInv, NEW p \in Cells, NEW n \in Requests, Malloc(p, n) PROVE IInv'
<1>1. n \in Nat /\ n > 0 /\ p \in Int /\ p + n <= HeapSize /\ HeapSize \in Nat
  BY SizeAssumption DEF Malloc, Vacant, Cells, Requests
<1>2. TypeOK'
  BY <1>1, SizeAssumption DEF IInv, TypeOK, Malloc, RecordOf, Cells, Bytes
<1>3. Layout' /\ size[p] = 0 BY NewBlockLayout DEF IInv, Malloc
<1>4. p \notin raw BY <1>3 DEF IInv, Raws
<1>5. Unused' /\ Within' /\ Raws' /\ NoStaleEntry'
  BY <1>1, <1>4 DEF IInv, TypeOK, Unused, Within, Raws, NoStaleEntry, Malloc,
                    RecordOf, Cells
<1>6. Exact'
  BY <1>1 DEF IInv, TypeOK, Exact, Malloc, RecordOf, Active, Cells
<1> QED BY <1>2, <1>3, <1>5, <1>6 DEF IInv

LEMMA UnmanagedIInv ==
  ASSUME IInv, NEW p \in Cells, NEW n \in Requests, UnmanagedMalloc(p, n)
  PROVE  IInv'
<1>1. n \in Nat /\ n > 0 BY DEF Requests
<1>2. TypeOK' BY <1>1 DEF IInv, TypeOK, UnmanagedMalloc
<1>3. Layout' /\ size[p] = 0 BY NewBlockLayout DEF IInv, UnmanagedMalloc
<1>4. "plain" \notin clients => used_addresses[p] = 0
  BY <1>3 DEF IInv, TypeOK, NoStaleEntry
<1>5. Unused' /\ Within' /\ Raws' /\ NoStaleEntry' /\ Exact'
  BY <1>1, <1>3, <1>4
     DEF IInv, TypeOK, Unused, Within, Raws, NoStaleEntry, Exact, UnmanagedMalloc
<1> QED BY <1>2, <1>3, <1>5 DEF IInv

LEMMA InPlaceIInv ==
  ASSUME IInv, NEW p \in Cells, NEW n \in Requests, ReallocInPlace(p, n)
  PROVE  IInv'
<1>1. n \in Nat /\ n > 0 /\ p \in Int /\ p + n <= HeapSize /\ HeapSize \in Nat
  BY SizeAssumption DEF ReallocInPlace, Extensible, Cells, Requests
<1>2. TypeOK' BY <1>1 DEF IInv, TypeOK, ReallocInPlace, Cells
<1>3. Layout'
  <2>1. \A q \in Cells : size[q] > 0 /\ p < q => p + n <= q
    BY ExtensibleIsApart DEF IInv, ReallocInPlace
  <2>2. size[p] > 0 BY DEF IInv, Layout, ReallocInPlace, Resizes
  <2> QED BY <1>1, <2>1, <2>2 DEF IInv, TypeOK, Layout, ReallocInPlace, Cells
<1>4. Unused' /\ Raws' /\ NoStaleEntry' /\ Exact'
  BY <1>1 DEF IInv, TypeOK, Layout, Unused, Raws, NoStaleEntry, Exact,
              ReallocInPlace, Resizes
<1>5. Within'
  BY <1>1 DEF IInv, TypeOK, Within, ReallocInPlace, Resizes, Cells
<1> QED BY <1>2, <1>3, <1>4, <1>5 DEF IInv

LEMMA MovedIInv ==
  ASSUME IInv, NEW p \in Cells, NEW q \in Cells, NEW n \in Requests,
         ReallocMoved(p, q, n)
  PROVE  IInv'
<1> DEFINE kept  == IF n < size[p] THEN n ELSE size[p]
           moved == {q + (c - p) : c \in data \cap Bytes(p, kept)}
<1>1. /\ n \in Nat /\ n > 0 /\ p \in Int /\ q \in Int /\ HeapSize \in Nat
      /\ q + n <= HeapSize
  BY SizeAssumption DEF ReallocMoved, Vacant, Cells, Requests
<1>2. p \in held /\ size[p] \in Nat /\ size[p] > 0
  BY DEF IInv, TypeOK, Layout, ReallocMoved, Resizes
<1>3. \A r \in Cells : size[r] > 0 => r + size[r] <= q \/ q + n <= r
  BY VacantIsApart DEF IInv, ReallocMoved
<1>4. p # q BY <1>1, <1>2, <1>3
<1>5. moved \subseteq Cells
  <2>1. kept \in Nat /\ kept <= n BY <1>1, <1>2
  <2> HIDE DEF kept
  <2> QED BY <1>1, <2>1 DEF Bytes, Cells
<1>6. TypeOK'
  <2>1. data' \subseteq Cells BY <1>5 DEF IInv, TypeOK, ReallocMoved
  <2> QED BY <1>1, <2>1 DEF IInv, TypeOK, ReallocMoved, MoveRecord
<1>7. Layout'
  <2>1. \A r \in Cells :
          /\ r \in Int /\ size[r] \in Nat
          /\ size'[r] = IF r = q THEN n ELSE IF r = p THEN 0 ELSE size[r]
    BY <1>4 DEF IInv, TypeOK, ReallocMoved, Cells
  <2>2. \A r, s \in Cells :
          r < s /\ size'[s] > 0 /\ ~(size'[r] <= size[r] /\ size[s] > 0)
            => r + size'[r] <= s
    <3> SUFFICES ASSUME NEW r \in Cells, NEW s \in Cells, r < s, size'[s] > 0,
                        ~(size'[r] <= size[r] /\ size[s] > 0)
                 PROVE  r + size'[r] <= s
      OBVIOUS
    <3>1. CASE r = q BY <1>1, <1>3, <2>1, <3>1
    <3>2. CASE s = q
      <4>1. size[r] > 0 => r + size[r] <= q BY <1>1, <1>3, <2>1, <3>2
      <4> QED BY <1>1, <2>1, <3>2, <4>1
    <3> QED BY <2>1, <3>1, <3>2
  <2>3. held' \subseteq Cells /\ \A r \in held' : size'[r] > 0
    BY <1>1, <2>1 DEF IInv, TypeOK, Layout, ReallocMoved
  <2> QED BY <1>1, <2>1, <2>2, <2>3, LayoutKept DEF IInv
<1>8. q \notin raw BY <1>1, <1>3 DEF IInv, TypeOK, Raws
<1>9. Unused' /\ Within' /\ Raws' /\ NoStaleEntry'
  BY <1>1, <1>2, <1>4, <1>8
     DEF IInv, TypeOK, Unused, Within, Raws, NoStaleEntry, ReallocMoved, Resizes,
         MoveRecord
<1>10. Exact'
  BY <1>1, <1>2, <1>4
     DEF IInv, TypeOK, Exact, ReallocMoved, MoveRecord, Resizes, Active
<1> QED BY <1>6, <1>7, <1>9, <1>10 DEF IInv

LEMMA FreeIInv == ASSUME IInv, NEW p \in Cells, Free(p) PROVE IInv'
<1>1. TypeOK' BY DEF IInv, TypeOK, Free
<1>2. Layout'
  <2>1. \A r \in Cells : /\ size[r] \in Nat
                         /\ size'[r] = IF r = p THEN 0 ELSE size[r]
    BY DEF IInv, TypeOK, Free
  <2>2. held' \subseteq Cells /\ \A r \in held' : size'[r] > 0
    BY <2>1 DEF IInv, TypeOK, Layout, Free
  <2>3. \A r, s \in Cells :
          r < s /\ size'[s] > 0 => size'[r] <= size[r] /\ size[s] > 0
    BY <2>1
  <2> QED BY <2>1, <2>2, <2>3, LayoutKept DEF IInv
<1>3. Unused' /\ Within' /\ Raws' /\ NoStaleEntry' /\ Exact'
  BY DEF IInv, TypeOK, Unused, Within, Raws, NoStaleEntry, Exact, Free
<1> QED BY <1>1, <1>2, <1>3 DEF IInv

LEMMA PlainFreeIInv == ASSUME IInv, NEW p \in Cells, PlainFree(p) PROVE IInv'
<1>1. TypeOK' BY DEF IInv, TypeOK, PlainFree
<1>2. Layout'
  <2>1. \A r \in Cells : /\ size[r] \in Nat
                         /\ size'[r] = IF r = p THEN 0 ELSE size[r]
    BY DEF IInv, TypeOK, PlainFree
  <2>2. held' \subseteq Cells /\ \A r \in held' : size'[r] > 0
    BY <2>1 DEF IInv, TypeOK, Layout, PlainFree
  <2>3. \A r, s \in Cells :
          r < s /\ size'[s] > 0 => size'[r] <= size[r] /\ size[s] > 0
    BY <2>1
  <2> QED BY <2>1, <2>2, <2>3, LayoutKept DEF IInv
<1>3. Unused' /\ Within' /\ Raws' /\ NoStaleEntry' /\ Exact'
  BY DEF IInv, TypeOK, Unused, Within, Raws, NoStaleEntry, Exact, PlainFree
<1> QED BY <1>1, <1>2, <1>3 DEF IInv

(* A client is refused only a block of std::malloc or from before the      *)
(* first context.                                                          *)
LEMMA ForeignIsEarly ==
  ASSUME IInv, NEW p \in held \ raw, Foreign(p) PROVE "early" \in clients
BY DEF IInv, TypeOK, Layout, Exact, Foreign

LEMMA NextIInv == IInv /\ [Next]_vars => IInv'
<1> SUFFICES ASSUME IInv, [Next]_vars PROVE IInv'
  OBVIOUS
<1> USE DEF IInv, TypeOK, Layout, Unused, Within, Raws, NoStaleEntry, Exact
<1>1. CASE Install BY <1>1 DEF Install
<1>2. CASE \E p \in Cells : Write(p)
  <2>1. PICK p \in Cells : Write(p) BY <1>2
  <2>2. Bytes(p, size[p]) \subseteq Cells
    BY SizeAssumption DEF Bytes, Cells
  <2> QED BY <2>1, <2>2 DEF Write
<1>3. CASE \E p \in Cells : FreeIgnored(p)
  <2>1. PICK p \in Cells : FreeIgnored(p) BY <1>3
  <2>2. p \in raw \/ "early" \in clients
    BY <2>1, ForeignIsEarly DEF FreeIgnored
  <2> QED BY <2>1, <2>2 DEF FreeIgnored, Foreign
<1>4. CASE \E p \in Cells : Free(p) BY <1>4, FreeIInv
<1>5. CASE \E p \in Cells, n \in Requests : Malloc(p, n) BY <1>5, MallocIInv
<1>6. CASE \E p \in Cells, n \in Requests : ReallocRefused(p, n)
  <2>1. PICK p \in Cells, n \in Requests : ReallocRefused(p, n) BY <1>6
  <2>2. "early" \in clients BY <2>1, ForeignIsEarly DEF ReallocRefused, Resizes
  <2> QED BY <2>1, <2>2 DEF ReallocRefused
<1>7. CASE \E p \in Cells, n \in Requests : ReallocInPlace(p, n)
  BY <1>7, InPlaceIInv
<1>8. CASE \E p, q \in Cells, n \in Requests : ReallocMoved(p, q, n)
  BY <1>8, MovedIInv
<1>9. CASE UNCHANGED vars BY <1>9 DEF vars
<1>10. CASE \E p \in Cells : PlainFree(p) BY <1>10, PlainFreeIInv
<1>11. CASE \E p \in Cells, n \in Requests : UnmanagedMalloc(p, n)
  BY <1>11, UnmanagedIInv
<1> QED
  BY <1>1, <1>2, <1>3, <1>4, <1>5, <1>6, <1>7, <1>8, <1>9, <1>10, <1>11 DEF Next

(* The inductive invariant holds in every reachable state.                 *)
THEOREM Invariance == Spec => []IInv
BY InitIInv, NextIInv, PTL DEF Spec

(* Every variable keeps its type: in particular no record is negative.     *)
THEOREM TypeCorrect == Spec => []TypeOK
BY Invariance, PTL DEF IInv

(* Without clients that use free(), the map holds only blocks of           *)
(* e2ee_malloc that a client still has.                                    *)
THEOREM OwnsWhatItFrees == Spec => []NoStaleEntry
BY Invariance, PTL DEF IInv

(* Without early clients no client is given NULL, and every lent block but *)
(* those of std::malloc is held and recorded, whatever else clients do.    *)
THEOREM MapIsExact == Spec => []Exact
BY Invariance, PTL DEF IInv

-----------------------------------------------------------------------------
(* Wiping the block at p does not touch the block at q.                    *)
LEMMA WipeIsLocal ==
  ASSUME IInv, "shrink" \notin clients,
         ~({"plain", "unmanaged"} \subseteq clients),
         NEW p \in held, NEW q \in held, p # q
  PROVE  Wiped(p) \cap Bytes(q, size[q]) = {}
<1>1. /\ p \in Cells /\ q \in Cells /\ p \in Int /\ q \in Int
      /\ size[p] \in Nat /\ size[q] \in Nat /\ used_addresses[p] \in Nat
  BY DEF IInv, TypeOK, Cells
<1>2. size[p] > 0 /\ size[q] > 0 BY DEF IInv, Layout
<1>3. used_addresses[p] <= size[p] BY <1>1, <1>2 DEF IInv, Within, Raws
<1>4. p + size[p] <= q \/ q + size[q] <= p
  BY <1>1, <1>2 DEF IInv, Layout
<1> QED BY <1>1, <1>3, <1>4 DEF Wiped, Bytes

(* Releasing a block leaves the data of every other block as it is.        *)
THEOREM WipingIsLocal == Spec => FreeIsLocal
<1> DEFINE A == \A p \in held \ held' : \A q \in held \cap held' :
                  /\ held' \subseteq held
                  /\ "shrink" \notin clients /\ ~({"plain", "unmanaged"} \subseteq clients)
                  => data' \cap Bytes(q, size[q]) = data \cap Bytes(q, size[q])
<1>1. ASSUME IInv, [Next]_vars PROVE [A]_vars
  <2> SUFFICES ASSUME NEW p \in held \ held', NEW q \in held \cap held',
                      held' \subseteq held, "shrink" \notin clients,
                      ~({"plain", "unmanaged"} \subseteq clients)
               PROVE  data' \cap Bytes(q, size[q]) = data \cap Bytes(q, size[q])
    OBVIOUS
  <2>1. CASE \E r \in Cells : Free(r)
    <3>1. Free(p) BY <2>1 DEF Free
    <3>2. Wiped(p) \cap Bytes(q, size[q]) = {} BY <1>1, WipeIsLocal
    <3> QED BY <3>1, <3>2 DEF Free
  <2>2. CASE \E r \in Cells : FreeIgnored(r) BY <2>2 DEF FreeIgnored
  <2>3. CASE \E r, s \in Cells, n \in Requests : ReallocMoved(r, s, n)
    <3>1. PICK r \in Cells, s \in Cells, n \in Requests : ReallocMoved(r, s, n)
      BY <2>3
    <3>2. s \notin held
      <4>1. n \in Nat /\ n > 0 /\ s \in Int /\ HeapSize \in Nat
        BY SizeAssumption DEF Cells, Requests
      <4>2. size[s] > 0 => s + size[s] <= s \/ s + n <= s
        BY <1>1, <3>1, VacantIsApart DEF IInv, ReallocMoved
      <4>3. size[s] \in Nat BY <1>1 DEF IInv, TypeOK
      <4> QED BY <1>1, <4>1, <4>2, <4>3 DEF IInv, Layout
    <3> QED BY <3>1, <3>2 DEF ReallocMoved
  <2>4. CASE \/ Install \/ \E r \in Cells : Write(r)
             \/ \E r \in Cells, n \in Requests :
                  \/ Malloc(r, n) \/ UnmanagedMalloc(r, n)
                  \/ ReallocRefused(r, n) \/ ReallocInPlace(r, n)
             \/ UNCHANGED vars
    BY <2>4 DEF Install, Write, Malloc, UnmanagedMalloc, ReallocRefused, ReallocInPlace, vars
  <2>5. CASE \E r \in Cells : PlainFree(r) BY <2>5 DEF PlainFree
  <2> QED BY <1>1, <2>1, <2>2, <2>3, <2>4, <2>5 DEF Next
<1> QED BY <1>1, Invariance, PTL DEF Spec, FreeIsLocal

-----------------------------------------------------------------------------
(* Where nobody resizes a block or bypasses e2ee_free, records are exact   *)
(* and wiping is complete.                                                 *)
Clean ==
  clients \subseteq {"unmanaged"} =>
    /\ data \subseteq Lent
    /\ \A p \in Cells \ raw : used_addresses[p] = size[p]

LEMMA NextClean == IInv /\ Clean /\ [Next]_vars => Clean'
<1> SUFFICES ASSUME IInv, Clean, [Next]_vars, clients' \subseteq {"unmanaged"}
             PROVE  /\ data' \subseteq Lent'
                    /\ \A p \in Cells \ raw' : used_addresses'[p] = size'[p]
  BY DEF Clean, Cells
<1>1. clients \subseteq {"unmanaged"}
  BY DEF Next, vars, Install, Write, FreeIgnored, Free, PlainFree, Malloc,
         UnmanagedMalloc, ReallocRefused, ReallocInPlace, ReallocMoved
<1>2. data \subseteq Lent /\ \A p \in Cells \ raw : used_addresses[p] = size[p]
  BY <1>1 DEF Clean
<1>t. size \in [Cells -> Nat] /\ used_addresses \in [Cells -> Nat]
  BY DEF IInv, TypeOK
<1>3. CASE Install \/ UNCHANGED vars BY <1>2, <1>3 DEF Install, vars, Lent
<1>4. CASE \E p \in Cells : Write(p)
  <2>1. PICK p \in Cells : Write(p) BY <1>4
  <2>2. Bytes(p, size[p]) \subseteq Lent BY LentCells
  <2> QED BY <1>2, <2>1, <2>2 DEF Write, Lent
<1>5. CASE \E p \in Cells : FreeIgnored(p)
  <2>1. PICK p \in Cells : FreeIgnored(p) BY <1>5
  <2> QED BY <1>2, <2>1 DEF FreeIgnored, Lent
<1>6. CASE \E p \in Cells : Free(p)
  <2>1. PICK p \in Cells : Free(p) BY <1>6
  <2>2. installed BY <1>1, <2>1 DEF Free, Active
  <2>6. p \notin raw BY <1>1, <2>1, <2>2 DEF Free, Foreign, IInv, Raws
  <2>3. data' = data \ Bytes(p, size[p])
    BY <1>2, <2>1, <2>2, <2>6 DEF Free, Wiped
  <2>4. data' \subseteq Lent'
    <3> SUFFICES ASSUME NEW c \in data' PROVE c \in Lent'
      OBVIOUS
    <3>1. PICK q \in Cells : c \in Bytes(q, size[q]) BY <1>2, <2>3 DEF Lent
    <3>2. q # p BY <2>3, <3>1
    <3>3. size'[q] = size[q] BY <1>t, <2>1, <3>2 DEF Free
    <3> QED BY <3>1, <3>3 DEF Lent, Cells
  <2>5. \A q \in Cells \ raw' : used_addresses'[q] = size'[q]
    BY <1>2, <1>t, <2>1 DEF Free
  <2> QED BY <2>4, <2>5
<1>7. CASE \E p \in Cells, n \in Requests :
             Malloc(p, n) \/ UnmanagedMalloc(p, n)
  <2>1. PICK p \in Cells, n \in Requests :
          Malloc(p, n) \/ UnmanagedMalloc(p, n)
    BY <1>7
  <2>2. installed BY <1>1, <2>1 DEF Malloc, UnmanagedMalloc, Active
  <2>5. size' = [size EXCEPT ![p] = n] /\ Vacant(p, n)
    BY <2>1 DEF Malloc, UnmanagedMalloc
  <2>3. data' \subseteq Lent'
    <3> SUFFICES ASSUME NEW c \in data' PROVE c \in Lent'
      OBVIOUS
    <3>1. c \in data /\ c \notin Bytes(p, n)
      BY <2>1, <2>2 DEF Malloc, UnmanagedMalloc
    <3>2. PICK q \in Cells : c \in Bytes(q, size[q]) BY <1>2, <3>1 DEF Lent
    <3>3. CASE q # p
      <4>1. size'[q] = size[q] BY <1>t, <2>5, <3>3
      <4> QED BY <3>2, <4>1 DEF Lent, Cells
    <3>4. CASE q = p
      <4>1. size[p] \in Nat /\ n \in Nat /\ n > 0 /\ p \in Int
        BY <1>t, SizeAssumption DEF Requests, Cells
      <4>2. size[p] > 0 BY <3>2, <3>4, <4>1 DEF Bytes
      <4> QED BY <2>5, <4>1, <4>2, VacantIsApart DEF IInv
    <3> QED BY <3>3, <3>4
  <2>4. \A q \in Cells \ raw' : used_addresses'[q] = size'[q]
    BY <1>2, <1>t, <2>1, <2>2 DEF Malloc, UnmanagedMalloc, RecordOf
  <2> QED BY <2>3, <2>4
<1>8. ~ \E p \in Cells, n \in Requests :
          \/ ReallocRefused(p, n) \/ ReallocInPlace(p, n)
          \/ \E q \in Cells : ReallocMoved(p, q, n)
  BY <1>1 DEF ReallocRefused, ReallocInPlace, ReallocMoved, Resizes
<1>9. ~ \E p \in Cells : PlainFree(p) BY <1>1 DEF PlainFree
<1> QED BY <1>3, <1>4, <1>5, <1>6, <1>7, <1>8, <1>9 DEF Next

(* Clients that neither resize nor use free() leave no data in the heap.   *)
THEOREM NothingRemains == Spec => []NoResidue
<1>1. Init => Clean BY DEF Init, Clean
<1> QED BY <1>1, NextClean, Invariance, PTL DEF Spec, Clean, NoResidue
=============================================================================
