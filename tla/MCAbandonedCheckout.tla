------------------------ MODULE MCAbandonedCheckout -------------------------
(***************************************************************************)
(* Small instances of AbandonedCheckout for TLC: clocks of two and three   *)
(* ticks, a run that rotates at its second signal.                         *)
(***************************************************************************)
EXTENDS AbandonedCheckout
=============================================================================
