------------------------------ MODULE MCRegistry ------------------------------
(***************************************************************************)
(* Instances of Registry for TLC.  The documents: one that this process    *)
(* wrote when it had p1 in the block d1; and one from another process, with*)
(* ids that mean nothing here, except that a pairing had the address that  *)
(* a field in d1 has in this process.                                      *)
(***************************************************************************)
EXTENDS Registry

CONSTANTS p1, p2, d1, d2

Elsewhere ==
  [r \in DocRoles |-> IF r = "P" THEN <<"Fq", d1>> ELSE <<"elsewhere", r>>]

Exported ==
  [r \in DocRoles |->
     CASE r = "P"      -> <<"P", p1>>  [] r = "docGT"  -> <<"GT", p1>>
       [] r = "docZr"  -> <<"Zr", p1>> [] r = "docEq"  -> <<"Eq", d1>>
       [] r = "docFq"  -> <<"Fq", d1>> [] r = "docFq2" -> <<"Fq2", d1>>]

AllDocuments == {Exported, Elsewhere}

=============================================================================
