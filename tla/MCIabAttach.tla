----------------------------- MODULE MCIabAttach -----------------------------
(***************************************************************************)
(* A small instance of IabAttach: two IAB nodes in a row behind the first  *)
(* donor, each with a UE.  No tunnel may lead to the second donor.         *)
(***************************************************************************)
EXTENDS IabAttach, TLC

MCParent ==
  ("iab1" :> "sat1") @@ ("iab2" :> "iab1") @@ ("ue1" :> "iab1") @@ ("ue2" :> "iab2")
=============================================================================
