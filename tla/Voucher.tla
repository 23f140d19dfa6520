------------------------------ MODULE Voucher ------------------------------
(***************************************************************************)
(* What the grants of internal/cell/store.go promise the operator: each    *)
(* grant is a voucher that is redeemed in one step, for one value and one   *)
(* receipt, or not at all.  The table of vouchers is kept on disk; once     *)
(* writing it has failed, a restart may bring an older table back.          *)
(*                                                                          *)
(* Tokens, expiry, the reads of the broker and the calls that race for a    *)
(* voucher are left out: none of them may show in the table.                *)
(***************************************************************************)
EXTENDS Integers

CONSTANT Requests  \* the vouchers

VARIABLES voucher,  \* "none", "pending", "approved" or "spent"
          kept,     \* the table on disk
          values,   \* values handed out for each voucher
          receipts, \* receipts written for each voucher
          saving    \* "missed" once a table could not be written

vvars == <<voucher, kept, values, receipts, saving>>

Init ==
    /\ voucher = [r \in Requests |-> "none"]
    /\ kept = voucher
    /\ values = [r \in Requests |-> 0]
    /\ receipts = [r \in Requests |-> 0]
    /\ saving = "ok"

\* The voucher goes from one state to another, and the table is written.
Becomes(r, old, new) ==
    /\ voucher[r] = old
    /\ voucher' = [voucher EXCEPT ![r] = new]
    /\ \/ kept' = voucher' /\ UNCHANGED saving
       \/ kept' = kept /\ saving' = "missed"

Ask(r) == Becomes(r, "none", "pending") /\ UNCHANGED <<values, receipts>>
Approve(r) == Becomes(r, "pending", "approved") /\ UNCHANGED <<values, receipts>>
TakeBack(r) == Becomes(r, "approved", "pending") /\ UNCHANGED <<values, receipts>>

Redeem(r) ==
    /\ Becomes(r, "approved", "spent")
    /\ values' = [values EXCEPT ![r] = @ + 1]
    /\ receipts' = [receipts EXCEPT ![r] = @ + 1]

Write == kept' = voucher /\ UNCHANGED <<voucher, values, receipts, saving>>

Restart == voucher' = kept /\ UNCHANGED <<kept, values, receipts, saving>>

Next ==
    \/ \E r \in Requests : Ask(r) \/ Approve(r) \/ TakeBack(r) \/ Redeem(r)
    \/ Write
    \/ Restart

Spec == Init /\ [][Next]_vvars
=============================================================================
