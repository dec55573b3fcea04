----------------------------- MODULE SessionFSM -----------------------------
(***************************************************************************)
(* The checkout session's state vocabulary and its transition table.  Pure *)
(* data: every module that writes a session's status takes it from here.   *)
(***************************************************************************)

Working == {"open", "address_set", "shipping_set", "ready"}

\* Status.Terminal: the statuses a session never leaves.
Terminal == {"completed", "cancelled", "expired"}

\* ActiveStatuses: the statuses the one-active-session index spans.
Active == Working \cup {"confirming"}

Status == Active \cup Terminal

transitions ==
    [ open         |-> {"address_set", "cancelled", "expired"},
      address_set  |-> {"address_set", "shipping_set", "cancelled", "expired"},
      shipping_set |-> {"address_set", "shipping_set", "ready",
                        "cancelled", "expired"},
      ready        |-> {"address_set", "shipping_set", "ready", "confirming",
                        "cancelled", "expired"},
      confirming   |-> {"completed", "shipping_set", "ready"},
      completed    |-> {},
      cancelled    |-> {},
      expired      |-> {} ]

CanTransition(from, to) == to \in transitions[from]
=============================================================================
