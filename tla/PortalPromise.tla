----------------------------- MODULE PortalPromise -----------------------------
(***************************************************************************)
(* What the two portal programs promise the guest's bus: a helper that was *)
(* started to provide the portal ends once, and it ends well only after    *)
(* the host was granted the portal's name for it, unless its connection    *)
(* was cut before the host answered.  The name passes from one host        *)
(* connection to the next only through being free.                         *)
(***************************************************************************)
CONSTANTS Helper, None

VARIABLES
  outcome,   \* outcome[h]: how the helper ended, "pending" until it does
  granted,   \* the helpers for which the host has owned the name
  cut,       \* the helpers the host does not answer: their connection ended
             \* before, or their bus has no address to give to the host
  owner      \* the helper for which the host owns the name now

vars == <<outcome, granted, cut, owner>>

Init ==
  /\ outcome = [h \in Helper |-> "pending"]
  /\ granted = {} /\ owner = None
  /\ cut \in {{}, Helper}

Grant(h) ==
  /\ owner = None /\ h \notin granted /\ h \notin cut
  /\ owner' = h /\ granted' = granted \cup {h}
  /\ UNCHANGED <<outcome, cut>>

(* The name is given up, and connections are cut: any number at once, when *)
(* the host portal dies.  A cut helper does not keep the name.             *)
Release(H) ==
  /\ owner' \in {owner, None} /\ owner' \notin H
  /\ cut' = cut \cup H
  /\ UNCHANGED <<outcome, granted>>

Succeed(h) ==
  /\ outcome[h] = "pending" /\ h \in granted \cup cut
  /\ outcome' = [outcome EXCEPT ![h] = "ok"]
  /\ UNCHANGED <<granted, cut, owner>>

Fail(h) ==
  /\ outcome[h] = "pending"
  /\ outcome' = [outcome EXCEPT ![h] = "failed"]
  /\ UNCHANGED <<granted, cut, owner>>

Next ==
  \/ \E h \in Helper : Grant(h) \/ Succeed(h) \/ Fail(h)
  \/ \E H \in SUBSET Helper : Release(H)

Spec == Init /\ [][Next]_vars

=============================================================================
