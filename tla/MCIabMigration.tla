--------------------------- MODULE MCIabMigration ---------------------------
(***************************************************************************)
(* Small instances of IabMigration: an IAB-MT with two descendants, one of *)
(* them an IAB node itself, one flow each.                                 *)
(***************************************************************************)
EXTENDS IabMigration, TLC

\* Allocation of AddUe: the first donor had served another UE before.
MCRntiOf == [d \in 1 .. NumDonors |-> IF d = 1 THEN 2 ELSE 1]
MCOwner  == (1 :> "iab2") @@ (2 :> "ue1")
=============================================================================
