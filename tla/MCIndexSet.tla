----------------------------- MODULE MCIndexSet -----------------------------
(***************************************************************************)
(* Message numbers start at 1 and have 32 bits.  A range with an end ends  *)
(* below UINT32_MAX: removing all up to UINT32_MAX from a set without end  *)
(* would leave a range whose first number has more.  The numbers left, 1   *)
(* to 7, make sets of four ranges, with room for an insertion before,      *)
(* between, over and after them.                                           *)
(***************************************************************************)
EXTENDS IndexSet

Numbers == {r \in Ranges : /\ r.location > 0 /\ r.location <= UINT32_MAX
                          /\ \/ r.length = UINT64_MAX
                             \/ r.location + r.length < UINT32_MAX}
=============================================================================
