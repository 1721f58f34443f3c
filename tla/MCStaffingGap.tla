---------------------------- MODULE MCStaffingGap ----------------------------
(***************************************************************************)
(* StaffingGap for TLC: three plans over two paths, and a path that is not *)
(* in the catalogue.                                                       *)
(***************************************************************************)
EXTENDS StaffingGap, TLC

MCPlans == {"pick" :> 1 @@ "pack" :> 1, "pick" :> 2, "pick" :> 1 @@ "pack" :> 0}

=============================================================================
