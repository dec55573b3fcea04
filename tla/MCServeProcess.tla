--------------------------- MODULE MCServeProcess ---------------------------
(* A tick is the detached write's timeout; the windows lie below the last   *)
(* possible write, between it and the check, and above the check.           *)
EXTENDS ServeProcess

MCWindows == {2, 5, 13}
=============================================================================
