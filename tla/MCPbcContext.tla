----------------------------- MODULE MCPbcContext -----------------------------
(***************************************************************************)
(* Instances of PbcContext for TLC.  The graph is the one that exporting a *)
(* type A pairing of PBC produces: G1 and G2 are both the curve Eq over    *)
(* Fq, GT lies in the quadratic extension Fq2 of Fq.                       *)
(***************************************************************************)
EXTENDS PbcContext, SequencesExt, TLC

PairingGraph ==
  [P   |-> [G1 |-> "Eq", G2 |-> "Eq", Zr |-> "Zr", Eq |-> "Eq", Fq |-> "Fq",
            Fq2 |-> "Fq2", GT |-> "GT"],
   GT  |-> [base |-> "Fq2", pairing |-> "P"],
   Fq2 |-> [base |-> "Fq"],
   Eq  |-> [a |-> "a", b |-> "b"],
   a   |-> [field |-> "Fq"],
   b   |-> [field |-> "Fq"],
   Fq  |-> <<>>,
   Zr  |-> <<>>]

PairingIds == DOMAIN PairingGraph

(* A message: an element of GT.                                            *)
Graph == PairingGraph @@ [msg |-> [field |-> "GT"]]

GraphIds == DOMAIN Graph

GraphKind ==
  [P |-> "pairing", GT |-> "mulg", Fq2 |-> "fi", Eq |-> "curve",
   a |-> "element", b |-> "element", Fq |-> "montfp", Zr |-> "montfp",
   msg |-> "element"]

PairingKind == [i \in PairingIds |-> GraphKind[i]]

(* What exportJson makes of a root: it describes everything that leads to. *)
Entries(root) ==
  CASE root = "msg"             -> GraphIds
    [] root \in {"P", "GT"}     -> PairingIds
    [] root = "Eq"              -> {"Eq", "a", "b", "Fq"}
    [] root \in {"a", "b", "Fq2"} -> {root, "Fq"}
    [] OTHER                    -> {root}

Export(root) ==
  [root |-> root, bad |-> {}, nocofac |-> {}, wellformed |-> TRUE,
   entries |-> Entries(root)]

(* An export of root from which the descriptions of S are gone; one whose  *)
(* description of i cannot be parsed, or of the curve lacks the cofactor;  *)
(* no description at all.                                                  *)
Truncated(root, S) == [Export(root) EXCEPT !.entries = @ \ S]
Garbled(i)         == [Export("P") EXCEPT !.bad = {i}]
NoCofactor         == [Export("P") EXCEPT !.nocofac = {"Eq"}]
Malformed          == [Export("P") EXCEPT !.wellformed = FALSE]
Hollow             == [Export("P") EXCEPT !.entries = {}]

(* The pairing, and the curve that another document may have brought.      *)
FullExports == {Export("P"), Export("Eq")}

(* The rank of every uuid when a document lists them in the order s.       *)
RankIn(s) == [i \in Range(s) |-> CHOOSE n \in 1 .. Len(s) : s[n] = i]

(* Every order the uuids of a document can have: each uuid is inserted at  *)
(* every place of every order of those before it.                          *)
Orders(S) ==
  LET Insert(i, orders) ==
        UNION {{InsertAt(s, n, i) : n \in 1 .. Len(s) + 1} : s \in orders}
  IN FoldSet(Insert, {<<>>}, S)

(* Only the pairing looks at Zr, which is final as soon as it is visited,  *)
(* so that its place matters only relative to the pairing: first and last  *)
(* stand for all.                                                          *)
AllRanks ==
  LET others == Orders(PairingIds \ {"Zr"})
  IN {RankIn(Append(s, "Zr")) : s \in others}
     \cup {RankIn(<<"Zr">> \o s) : s \in others}

(* Every order of the objects between which the knot of the pairing is     *)
(* tied, the others before and after.                                      *)
KnotRanks ==
  {RankIn(<<"b", "msg">> \o s \o <<"Eq", "Zr", "a">>) :
     s \in Orders({"P", "GT", "Fq2", "Fq"})}

(* Bottom up, top down, and mixed.                                         *)
FewRanks ==
  {RankIn(s) : s \in {
     <<"Fq", "Zr", "a", "b", "Eq", "Fq2", "GT", "P", "msg">>,
     <<"msg", "P", "GT", "Fq2", "Eq", "b", "a", "Zr", "Fq">>,
     <<"GT", "a", "Eq", "P", "msg", "Fq2", "Fq", "b", "Zr">>}}

(* Exports, and exports that lost some of their descriptions.              *)
DamagedExports ==
  {Export("P"), Export("msg"), Malformed, NoCofactor, Garbled("Fq"), Garbled("Zr")}
    \cup {Truncated("P", {i}) : i \in PairingIds}
    \cup {Truncated("GT", {"P"}), Truncated("GT", {"P", "Zr"}),
          Truncated("GT", {"P", "Fq2"})}

(* A GT without the field it is an extension of.                           *)
BaselessGT == {Export("P"), Truncated("GT", {"P", "Fq2"})}

HollowExports == DamagedExports \cup {Hollow}

(* The hypotheses of the theorems of PbcContextProgress are true of these  *)
(* graphs, which are built bottom up, and of what exportJson writes.       *)
ASSUME BuiltBottomUp == Grounded
ASSUME WholeExports == Documents = FullExports => AllComplete /\ PairedGTs

=============================================================================
