------------------------------- MODULE MCExport -------------------------------
(***************************************************************************)
(* Instances of Export for TLC: the objects of a context with a type A     *)
(* pairing, a secret key, a public key and a message; and those of a       *)
(* context that imported a message, where a field that knows its pairing   *)
(* leads to a second wrapper of the native pairing, and of everything in   *)
(* it, because imported objects are not registered under the ids of their  *)
(* native objects.                                                         *)
(***************************************************************************)
EXTENDS Export, TLC

Native ==
  [P   |-> [G1 |-> "Eq", G2 |-> "Eq", GT |-> "GT", Zr |-> "Zr", Eq |-> "Eq",
            Fq |-> "Fq", Fq2 |-> "Fq2"],
   GT  |-> [base |-> "Fq2", native |-> "P"],
   Fq2 |-> [base |-> "Fq", native |-> "P"],
   Eq  |-> [a |-> "a", b |-> "b", native |-> "P"],
   a   |-> [field |-> "Fq"],
   b   |-> [field |-> "Fq"],
   Fq  |-> <<>>,
   Zr  |-> <<>>,
   sk  |-> [field |-> "Zr"],
   pk  |-> [field |-> "Eq"],
   msg |-> [field |-> "GT"]]

(* The wrappers of the second generation: the curve under G1 and G2, and   *)
(* the native copy of it in the data of the pairing; the same for Fq2.     *)
Second ==
  [P2   |-> [G1 |-> "G1", G2 |-> "G1", GT |-> "GT2", Zr |-> "Zr2", Eq |-> "Eq2",
             Fq |-> "Fq3", Fq2 |-> "Fq22"],
   GT2  |-> [base |-> "Fq23", native |-> "P2"],
   Fq22 |-> [base |-> "Fq4", native |-> "P2"],
   Fq23 |-> [base |-> "Fq4", native |-> "P2"],
   G1   |-> [a |-> "a2", b |-> "b2", native |-> "P2"],
   Eq2  |-> [a |-> "a3", b |-> "b3", native |-> "P2"],
   a2   |-> [field |-> "Fq4"], b2 |-> [field |-> "Fq4"],
   a3   |-> [field |-> "Fq4"], b3 |-> [field |-> "Fq4"],
   Fq3  |-> <<>>, Fq4 |-> <<>>, Zr2 |-> <<>>]

ImportedObjects ==
  [i \in DOMAIN Native |->
     IF i = "GT" THEN [base |-> "Fq2", native |-> "P2", pairing |-> "P"]
     ELSE IF "native" \in DOMAIN Native[i]
          THEN [Native[i] EXCEPT !["native"] = "P2"] ELSE Native[i]] @@ Second

KindOf(r) ==
  CASE DOMAIN r = {"field"}             -> "element"
    [] DOMAIN r = {"a", "b", "native"}  -> "curve"
    [] "G1" \in DOMAIN r                -> "pairing"
    [] "pairing" \in DOMAIN r           -> "mulg"
    [] DOMAIN r = {"base", "native"}    -> "fi"
    [] OTHER                            -> "montfp"

NativeIds   == {<<"n", i>> : i \in DOMAIN Native}
ImportedIds == {<<"i", i>> : i \in DOMAIN ImportedObjects}
AllIds      == NativeIds \cup ImportedIds

AllRefs ==
  [id \in AllIds |->
     LET r == IF id[1] = "n" THEN Native[id[2]] ELSE ImportedObjects[id[2]]
     IN [k \in DOMAIN r |-> <<id[1], r[k]>>]]

AllKinds ==
  [id \in AllIds |->
     IF id[2] \in {"GT", "GT2"} THEN "mulg"
     ELSE KindOf(IF id[1] = "n" THEN Native[id[2]] ELSE ImportedObjects[id[2]])]

N(names) == {<<"n", i>> : i \in names}

-----------------------------------------------------------------------------
AllValued == {i \in AllIds : AllKinds[i] \in {"element", "montfp"}}

(* A pairing over F59, whose points are in a group of order 5; every       *)
(* element has some value.                                                 *)
P59 == 59

Usual ==
  [i \in AllValued |->
     IF AllKinds[i] = "montfp" THEN (IF i[2] = "Zr" THEN 5 ELSE P59)
     ELSE CASE i[2] = "pk"                -> <<25, 30>>
            [] i[2] = "msg"               -> <<3, 61>>
            [] i[2] \in {"a", "a2", "a3"} -> <<1>>
            [] OTHER                      -> <<0>>]

Points == {Infinity} \cup
          {pt \in (0 .. P59 - 1) \X (0 .. P59 - 1) : OnCurve(pt, P59)}

(* Numbers of one to three digits, around the ends of the digit ranges.    *)
Numbers == 0 .. 140 \cup {24 * 62 + 24, 61 * 62 + 61, 62 * 62 - 1, 62 * 62,
                          24 * 62 * 62}

SomeNumbers == {0, 1, 9, 10, 24, 35, 36, 61, 62, 86, 1512, 3844}

Varied ==
  {<<"sk", [Usual EXCEPT ![<<"n", "sk">>] = <<n>>]>> : n \in Numbers}
  \cup {<<"pk", [Usual EXCEPT ![<<"n", "pk">>] = p]>> : p \in Points}
  \cup {<<"msg", [Usual EXCEPT ![<<"n", "msg">>] = p]>> :
          p \in SomeNumbers \X SomeNumbers}
  \cup {<<"Zr", [Usual EXCEPT ![<<"n", "Zr">>] = p]>> :
          p \in {p \in 2 .. 400 : IsPrime(p)}}

Damaged(r, k, here, done, links, v) ==
  [asserts |-> TRUE, root |-> r, known |-> k, alive |-> here, final |-> done, unset |-> links,
   value |-> v]

Scenario(r, k, here, done, v) == Damaged(r, k, here, done, {}, v)

Backs == {{}, {"Eq", "GT"}, {"Eq", "GT", "Fq2"}, {"Fq2"}, {"GT"}}

(* A clear() dropped what the caller does not hold of an imported context. *)
Kept ==
  {Scenario(<<"i", r>>, {}, {<<"i", n>> : n \in h \cup {r}}, AllIds, Usual) :
     r \in {"GT", "msg"},
     h \in SUBSET {"GT", "Fq2", "Fq", "P"}}

(* Values, each in its element; every root with each choice of the fields  *)
(* that know their pairing; what a caller may hold after a clear(), and    *)
(* among it an imported GT; one or two unfinished objects; and the export  *)
(* of an imported message.                                                 *)
CheckedScenarios ==
  {Scenario(<<"n", v[1]>>, {}, AllIds, AllIds, v[2]) : v \in Varied}
  \cup {Scenario(r, N(k), AllIds, AllIds, Usual) :
          r \in NativeIds, k \in Backs}
  \cup {Scenario(r, {}, N(h) \cup {r}, AllIds, Usual) :
          r \in NativeIds,
          h \in SUBSET {"Fq", "Zr", "Fq2", "GT", "Eq", "a", "b", "P"}}
  \cup {Scenario(r, {}, AllIds, AllIds \ {i, j}, Usual) :
          r \in N({"P", "msg", "pk", "GT"}), i \in NativeIds, j \in N({"GT", "Fq"})}
  \cup {Scenario(<<"i", r>>,
                 {<<"i", i>> : i \in k \cup {"G1", "GT2", "Eq2", "Fq23"}},
                 AllIds, AllIds, Usual) :
          r \in {"msg", "P", "Fq2"}, k \in Backs}
  \cup Kept

(* Without assertions: roots, and what a caller may hold, as above; and up *)
(* to two objects that a failed import left unfinished, the first with     *)
(* none of its links set, one of them, or all.                             *)
LinksOf(i) ==
  IF AllKinds[i] = "element" THEN {}
  ELSE {<<i, k>> : k \in DOMAIN AllRefs[i] \ {"native"}}

UnsetOf(i) == {{}, LinksOf(i)} \cup {LinksOf(i) \ {l} : l \in LinksOf(i)}

DamagedScenarios ==
  {Scenario(r, N(k), AllIds, AllIds, Usual) : r \in NativeIds, k \in Backs}
  \cup Kept
  \cup UNION {{Damaged(r, {}, AllIds, AllIds \ {i, j}, u, Usual) : u \in UnsetOf(i)} :
                r \in {<<"i", "msg">>, <<"i", "P">>, <<"i", "pk">>},
                i \in {<<"i", n>> : n \in DOMAIN Native},
                j \in {<<"i", n>> : n \in {"a", "Eq", "GT", "Fq"}}}

ReleaseScenarios ==
  {[s EXCEPT !.asserts = FALSE] : s \in DamagedScenarios}

AllScenarios == CheckedScenarios \cup ReleaseScenarios

=============================================================================
