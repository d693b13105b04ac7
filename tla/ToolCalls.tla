------------------------------ MODULE ToolCalls ------------------------------
(***************************************************************************)
(* What the voice model is promised about the tools it calls: a result     *)
(* stays pending until the application reports one, each call gets one     *)
(* result and in the end gets it, and "Accepted" is said of an action that *)
(* the page has carried out.                                               *)
(***************************************************************************)
CONSTANT ToolCall  \* calls the model may make

VARIABLE status

Statuses == {"idle", "open", "done", "accepted", "refused"}

\* `done` is carried out and not answered.
Follows(s) ==
  CASE s = "idle" -> {"idle", "open", "done"}
    [] s = "open" -> {"open", "done", "refused"}
    [] s = "done" -> {"done", "accepted", "refused"}
    [] OTHER      -> {s}

Init == status = [c \in ToolCall |-> "idle"]

\* One event of the page may open or end several calls.
Next == status' \in [ToolCall -> Statuses] /\ \A c \in ToolCall : status'[c] \in Follows(status[c])

IsOpen(c) == status[c] \in {"open", "done"}

\* A call is open once: again and again there is none left that is.
Answered == []<>(\A c \in ToolCall : ~IsOpen(c))

Spec == Init /\ [][Next]_status /\ Answered
=============================================================================
