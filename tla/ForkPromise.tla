----------------------------- MODULE ForkPromise -----------------------------
(***************************************************************************)
(* What double_fork promises its caller (host/start-vmm/fork.c): one       *)
(* answer, which is the truth about the helper for ever.  Only a signal    *)
(* that interrupts a read or a write excuses it from that.                 *)
(***************************************************************************)
VARIABLES
  born,      \* the helper was forked
  answer,    \* what start-vmm goes by: "pid", "error", or "zero" (it takes
             \* itself for the helper); "none" until double_fork returns
  excused    \* a call was interrupted

vars == <<born, answer, excused>>

Init == born = FALSE /\ answer = "none" /\ excused = FALSE

Bear ==
  /\ ~born /\ answer = "none"
  /\ born' = TRUE
  /\ UNCHANGED <<answer, excused>>

Tell ==
  /\ answer = "none"
  /\ \/ answer' = IF born THEN "pid" ELSE "error"
     \/ excused /\ answer' \in {"pid", "error", "zero"}
  /\ UNCHANGED <<born, excused>>

Excuse ==
  /\ answer = "none"
  /\ excused' = TRUE
  /\ UNCHANGED <<born, answer>>

Next == Bear \/ Tell \/ Excuse

Spec == Init /\ [][Next]_vars

=============================================================================
