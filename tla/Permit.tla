------------------------------- MODULE Permit -------------------------------
(***************************************************************************)
(* What action approvals promise the operator: a request is decided once,  *)
(* by the operator in time or else by its deadline, against the action;    *)
(* the decision reaches the process at most once; and the gate opens by    *)
(* nothing but an approval that reaches it.                                *)
(*                                                                         *)
(* Left out: how requests and decisions travel, what is lost on the way,   *)
(* which events, timers and restarts shut the gate and when.               *)
(***************************************************************************)
EXTENDS Integers

CONSTANT Asks \* the requests

VARIABLES verdict,  \* "none", "pending", "approved" or "rejected"
          kept,     \* the verdicts on disk
          approved, \* the requests the operator has ever approved
          reached,  \* the requests whose decision has reached the process
          gate,     \* TRUE while the gate is open
          passed,   \* actions let through
          saving    \* "missed" once the verdicts could not be written

pvars == <<verdict, kept, approved, reached, gate, passed, saving>>

Init ==
    /\ verdict = [n \in Asks |-> "none"]
    /\ kept = verdict
    /\ approved = {}
    /\ reached = {}
    /\ gate = FALSE
    /\ passed = 0
    /\ saving = "ok"

Written ==
    \/ kept' = verdict' /\ UNCHANGED saving
    \/ kept' = kept /\ saving' = "missed"

Becomes(n, old, new) ==
    /\ verdict[n] = old
    /\ verdict' = [verdict EXCEPT ![n] = new]
    /\ Written
    /\ UNCHANGED <<reached, gate, passed>>

Ask(n) == Becomes(n, "none", "pending") /\ UNCHANGED approved

Approve(n) ==
    Becomes(n, "pending", "approved") /\ approved' = approved \cup {n}

Reject(n) == Becomes(n, "pending", "rejected") /\ UNCHANGED approved

\* The deadline needs no writing: it is part of the request.
Lapse(n) ==
    /\ verdict[n] = "pending"
    /\ verdict' = [verdict EXCEPT ![n] = "rejected"]
    /\ kept' = [kept EXCEPT ![n] = IF @ = "pending" THEN "rejected" ELSE @]
    /\ UNCHANGED <<approved, reached, gate, passed, saving>>

Write == Written /\ UNCHANGED <<verdict, approved, reached, gate, passed>>

\* The decision v of a request reaches the process.
Reach(n, v) ==
    /\ saving = "ok" => verdict[n] = v /\ n \notin reached
    /\ v = "approved" => n \in approved
    /\ reached' = reached \cup {n}
    /\ gate' = (gate \/ v = "approved")
    /\ UNCHANGED <<verdict, kept, approved, passed, saving>>

Pass ==
    /\ gate
    /\ passed' = passed + 1
    /\ UNCHANGED <<verdict, kept, approved, reached, gate, saving>>

Shut ==
    /\ gate' = FALSE
    /\ UNCHANGED <<verdict, kept, approved, reached, passed, saving>>

Restart ==
    /\ verdict' = kept
    /\ UNCHANGED <<kept, approved, reached, gate, passed, saving>>

Next ==
    \/ \E n \in Asks :
          \/ Ask(n) \/ Approve(n) \/ Reject(n) \/ Lapse(n)
          \/ \E v \in {"approved", "rejected"} : Reach(n, v)
    \/ Write \/ Pass \/ Shut \/ Restart

Spec == Init /\ [][Next]_pvars
=============================================================================
