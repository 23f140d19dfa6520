------------------------- MODULE SecretGrantProofs -------------------------
(***************************************************************************)
(* Proofs about SecretGrant, for any number of requests and of concurrent  *)
(* consume calls, any TTL and any number of restarts; the last theorem is    *)
(* that the grants implement Voucher.                                        *)
(***************************************************************************)
EXTENDS SecretGrant, TLAPS

-----------------------------------------------------------------------------
(* Type correctness.                                                       *)

\* A checkpoint keeps the types.
LEMMA CheckpointType ==
    ASSUME NEW st \in [Requests -> Status], NEW ex \in [Requests -> Nat],
           TypeOK, Checkpoint(st, ex)
    PROVE  /\ status' \in [Requests -> Status]
           /\ expiresAt' \in [Requests -> Nat]
           /\ disk' \in [Requests -> [status : Status, expiresAt : Nat]]
           /\ checkpoints' \in {"ok", "missed"}
  BY DEF Checkpoint, Saved, TypeOK

\* The code's request table, its checkpoint, its tokens and the calls in
\* progress always hold values of their types.
THEOREM TypeCorrect == Spec => []TypeOK
<1>1. Init => TypeOK
  BY GrantAssumption DEF Init, TypeOK, Status, Token, Idle
<1>2. TypeOK /\ [Next]_vars => TypeOK'
  <2> SUFFICES ASSUME TypeOK, [Next]_vars PROVE TypeOK'
    OBVIOUS
  <2> USE GrantAssumption
  <2>1. ASSUME NEW r \in Requests, RequestSecretGrant(r) PROVE TypeOK'
    <3>1. [status EXCEPT ![r] = "pending"] \in [Requests -> Status]
      BY DEF TypeOK, Status
    <3> QED
      BY <2>1, <3>1, CheckpointType DEF RequestSecretGrant, TypeOK
  <2>2. ASSUME NEW r \in Requests, ApproveSecretGrant(r) PROVE TypeOK'
    <3>1. /\ [status EXCEPT ![r] = "approved"] \in [Requests -> Status]
          /\ [expiresAt EXCEPT ![r] = clock + TTL] \in [Requests -> Nat]
      BY DEF TypeOK, Status
    <3>2. minted' \subseteq Token
      BY <2>2 DEF ApproveSecretGrant, TypeOK, Token
    <3> QED
      BY <2>2, <3>1, <3>2, CheckpointType DEF ApproveSecretGrant, TypeOK
  <2>3. ASSUME NEW t \in minted, DeliverTier2Grant(t) PROVE TypeOK'
    BY <2>3 DEF DeliverTier2Grant, TypeOK
  <2>4. ASSUME NEW t \in minted, FailSecretGrantDelivery(t) PROVE TypeOK'
    <3>1. t.req \in Requests
      BY DEF TypeOK, Token
    <3>2. /\ [status EXCEPT ![t.req] = "pending"] \in [Requests -> Status]
          /\ [expiresAt EXCEPT ![t.req] = 0] \in [Requests -> Nat]
      BY <3>1 DEF TypeOK, Status
    <3>3. /\ status' \in [Requests -> Status]
          /\ expiresAt' \in [Requests -> Nat]
          /\ disk' \in [Requests -> [status : Status, expiresAt : Nat]]
          /\ checkpoints' \in {"ok", "missed"}
      BY <2>4, <3>2, CheckpointType DEF FailSecretGrantDelivery, TypeOK
    <3> QED
      BY <2>4, <3>3 DEF FailSecretGrantDelivery, TypeOK
  <2>5. ASSUME NEW c \in Consumers, NEW t \in held, BeginConsume(c, t)
        PROVE  TypeOK'
    <3>1. t.req \in Requests
      BY DEF TypeOK, Token
    <3> QED
      BY <2>5, <3>1 DEF BeginConsume, TypeOK, Status
  <2>6. ASSUME NEW c \in Consumers, BrokerGet(c) PROVE TypeOK'
    BY <2>6 DEF BrokerGet, TypeOK
  <2>7. ASSUME NEW c \in Consumers, RollBackConsume(c) PROVE TypeOK'
    BY <2>7 DEF RollBackConsume, TypeOK, Status, Idle
  <2>8. ASSUME NEW c \in Consumers, RefuseConsume(c) PROVE TypeOK'
    BY <2>8 DEF RefuseConsume, TypeOK, Status, Idle
  <2>9. ASSUME NEW c \in Consumers, FinishConsume(c) PROVE TypeOK'
    <3>1. call[c].req \in Requests
      BY <2>9 DEF FinishConsume, TypeOK
    <3>2. [status EXCEPT ![call[c].req] = "consumed"] \in [Requests -> Status]
      BY <3>1 DEF TypeOK, Status
    <3>3. /\ status' \in [Requests -> Status]
          /\ expiresAt' \in [Requests -> Nat]
          /\ disk' \in [Requests -> [status : Status, expiresAt : Nat]]
          /\ checkpoints' \in {"ok", "missed"}
      BY <2>9, <3>2, CheckpointType DEF FinishConsume, TypeOK
    <3>4. call' \in [Consumers -> [pc : {"idle", "get", "failed", "record"},
                                   req : Requests \cup {NoRequest}]]
      BY <2>9 DEF FinishConsume, TypeOK, Idle
    <3>5. \A d \in Consumers : call[d]'.pc # "idle" => call[d]'.req \in Requests
      BY <2>9 DEF FinishConsume, TypeOK, Idle
    <3>6. receipts' \in [Requests -> Nat] /\ released' \in [Requests -> Nat]
      BY <2>9, <3>1 DEF FinishConsume, TypeOK
    <3> QED
      BY <2>9, <3>3, <3>4, <3>5, <3>6 DEF FinishConsume, TypeOK
  <2>10. CASE OtherCheckpoint
    BY <2>10 DEF OtherCheckpoint, Saved, TypeOK
  <2>11. CASE Restart
    BY <2>11 DEF Restart, TypeOK, Idle
  <2>12. CASE Tick
    BY <2>12 DEF Tick, TypeOK
  <2>13. CASE UNCHANGED vars
    BY <2>13 DEF vars, TypeOK
  <2> QED
    BY <2>1, <2>2, <2>3, <2>4, <2>5, <2>6, <2>7, <2>8, <2>9, <2>10, <2>11,
       <2>12, <2>13 DEF Next
<1> QED
  BY <1>1, <1>2, PTL DEF Spec

-----------------------------------------------------------------------------
(* One call at a time works on a grant, and it holds it "consuming".       *)

\* What ConsumingIsOwned says of the calls, in the form the steps preserve.
Exclusive ==
    \A c \in Consumers : call[c].pc # "idle" =>
        /\ status[call[c].req] = "consuming"
        /\ \A d \in Consumers :
              call[d].pc # "idle" /\ call[d].req = call[c].req => c = d

\* Only a restart can leave a request "consuming" without a call.
Owned ==
    \A r \in Requests : status[r] = "consuming" =>
        \/ restarts > 0
        \/ \E c \in Consumers : call[c].pc # "idle" /\ call[c].req = r

OwnInv == TypeOK /\ Exclusive /\ Owned

\* No step gives a request to a second call.
LEMMA OwnInvStep == OwnInv /\ TypeOK' /\ [Next]_vars => OwnInv'
<1> SUFFICES ASSUME OwnInv, TypeOK', [Next]_vars PROVE Exclusive' /\ Owned'
  BY DEF OwnInv
<1> USE GrantAssumption DEF OwnInv, Exclusive, Owned
<1>1. ASSUME NEW r \in Requests, RequestSecretGrant(r)
      PROVE  Exclusive' /\ Owned'
  BY <1>1 DEF RequestSecretGrant, Checkpoint, TypeOK
<1>2. ASSUME NEW r \in Requests, ApproveSecretGrant(r)
      PROVE  Exclusive' /\ Owned'
  BY <1>2 DEF ApproveSecretGrant, Checkpoint, TypeOK
<1>3. ASSUME NEW t \in minted, DeliverTier2Grant(t)
      PROVE  Exclusive' /\ Owned'
  BY <1>3 DEF DeliverTier2Grant
<1>4. ASSUME NEW t \in minted, FailSecretGrantDelivery(t)
      PROVE  Exclusive' /\ Owned'
  <2>1. t.req \in Requests
    BY DEF TypeOK, Token
  <2> QED
    BY <1>4, <2>1 DEF FailSecretGrantDelivery, Checkpoint, TypeOK
<1>5. ASSUME NEW c \in Consumers, NEW t \in held, BeginConsume(c, t)
      PROVE  Exclusive' /\ Owned'
  <2>1. t.req \in Requests
    BY DEF TypeOK, Token
  <2>2. Exclusive'
    BY <1>5, <2>1 DEF BeginConsume, TypeOK
  <2>3. Owned'
    BY <1>5, <2>1 DEF BeginConsume, TypeOK
  <2> QED
    BY <2>2, <2>3
<1>6. ASSUME NEW c \in Consumers, BrokerGet(c) PROVE Exclusive' /\ Owned'
  BY <1>6 DEF BrokerGet, TypeOK
<1>7. ASSUME NEW c \in Consumers, RollBackConsume(c) \/ RefuseConsume(c)
      PROVE  Exclusive' /\ Owned'
  <2>1. /\ call[c].req \in Requests
        /\ call[c].pc # "idle"
        /\ status[call[c].req] = "consuming"
    BY <1>7 DEF RollBackConsume, RefuseConsume, TypeOK
  <2>2. /\ status' = [status EXCEPT ![call[c].req] = "approved"]
        /\ call' = [call EXCEPT ![c] = Idle]
        /\ UNCHANGED restarts
    BY <1>7, <2>1 DEF RollBackConsume, RefuseConsume
  <2>3. Exclusive'
    BY <2>1, <2>2 DEF TypeOK, Idle
  <2>4. Owned'
    BY <2>1, <2>2 DEF TypeOK, Idle
  <2> QED
    BY <2>3, <2>4
<1>8. ASSUME NEW c \in Consumers, FinishConsume(c) PROVE Exclusive' /\ Owned'
  <2>1. call[c].req \in Requests
    BY <1>8 DEF FinishConsume, TypeOK
  <2>2. /\ status' = [status EXCEPT ![call[c].req] = "consumed"]
        /\ call' = [call EXCEPT ![c] = Idle]
        /\ UNCHANGED restarts
    BY <1>8 DEF FinishConsume, Checkpoint
  <2>3. Exclusive'
    BY <1>8, <2>1, <2>2 DEF TypeOK, Idle, FinishConsume
  <2>4. Owned'
    BY <2>1, <2>2 DEF TypeOK, Idle
  <2> QED
    BY <2>3, <2>4
<1>9. CASE OtherCheckpoint
  BY <1>9 DEF OtherCheckpoint
<1>10. CASE Restart
  BY <1>10 DEF Restart, TypeOK, Idle
<1>11. CASE Tick
  BY <1>11 DEF Tick
<1>12. CASE UNCHANGED vars
  BY <1>12 DEF vars
<1> QED
  BY <1>1, <1>2, <1>3, <1>4, <1>5, <1>6, <1>7, <1>8, <1>9, <1>10, <1>11,
     <1>12 DEF Next

\* ConsumeSecretGrant's claim on a grant is exclusive, and every way out of it
\* gives the claim up: for any number of racing calls and restarts.
THEOREM ConsumingOwned == Spec => []ConsumingIsOwned
<1>1. Init => OwnInv
  <2>1. Init => TypeOK
    BY GrantAssumption DEF Init, TypeOK, Status, Token, Idle
  <2> QED
    BY <2>1 DEF Init, OwnInv, Exclusive, Owned, Idle
<1>2. OwnInv => ConsumingIsOwned
  <2> SUFFICES ASSUME OwnInv, NEW r \in Requests
               PROVE  /\ \A c, d \in Owners(r) : c = d
                      /\ Owners(r) # {} => status[r] = "consuming"
                      /\ status[r] = "consuming" =>
                            Owners(r) # {} \/ restarts > 0
    BY DEF ConsumingIsOwned
  <2>1. \A c, d \in Owners(r) : c = d
    BY DEF OwnInv, Exclusive, Owners
  <2>2. Owners(r) # {} => status[r] = "consuming"
    BY DEF OwnInv, Exclusive, Owners
  <2>3. status[r] = "consuming" => Owners(r) # {} \/ restarts > 0
    BY DEF OwnInv, Owned, Owners
  <2> QED
    BY <2>1, <2>2, <2>3
<1> QED
  BY <1>1, <1>2, TypeCorrect, OwnInvStep, PTL DEF Spec

-----------------------------------------------------------------------------
(* Single use, for as long as every checkpoint succeeds.                   *)

\* A value was handed out at most once, only for a request that is "consumed",
\* and the checkpoint knows it: no restart brings the grant back.
UsedUp ==
    \A r \in Requests :
        \/ released[r] = 0
        \/ released[r] = 1 /\ status[r] = "consumed" /\ disk[r].status = "consumed"

SavedInv == checkpoints = "ok" => UsedUp

\* What was released stays consumed, on disk too.
LEMMA UsedUpStep ==
    ASSUME OwnInv, SavedInv, TypeOK', [Next]_vars
    PROVE  SavedInv'
<1> SUFFICES ASSUME checkpoints' = "ok" PROVE UsedUp'
  BY DEF SavedInv
<1>0. checkpoints = "ok"
  BY DEF Next, vars, RequestSecretGrant, ApproveSecretGrant, DeliverTier2Grant,
         FailSecretGrantDelivery, BeginConsume, BrokerGet, RollBackConsume,
         RefuseConsume, FinishConsume, OtherCheckpoint, Restart, Tick, Checkpoint
<1> UsedUp
  BY <1>0 DEF SavedInv
<1> USE GrantAssumption DEF OwnInv, UsedUp
<1>1. ASSUME NEW r \in Requests, RequestSecretGrant(r) PROVE UsedUp'
  BY <1>1 DEF RequestSecretGrant, Checkpoint, Saved, TypeOK
<1>2. ASSUME NEW r \in Requests, ApproveSecretGrant(r) PROVE UsedUp'
  BY <1>2 DEF ApproveSecretGrant, Checkpoint, Saved, TypeOK
<1>3. ASSUME NEW t \in minted, DeliverTier2Grant(t) PROVE UsedUp'
  BY <1>3 DEF DeliverTier2Grant
<1>4. ASSUME NEW t \in minted, FailSecretGrantDelivery(t) PROVE UsedUp'
  <2>1. t.req \in Requests
    BY DEF TypeOK, Token
  <2> QED
    BY <1>4, <2>1 DEF FailSecretGrantDelivery, Checkpoint, Saved, TypeOK
<1>5. ASSUME NEW c \in Consumers, NEW t \in held, BeginConsume(c, t)
      PROVE  UsedUp'
  <2>1. t.req \in Requests
    BY DEF TypeOK, Token
  <2> QED
    BY <1>5, <2>1 DEF BeginConsume, TypeOK
<1>6. ASSUME NEW c \in Consumers, BrokerGet(c) PROVE UsedUp'
  BY <1>6 DEF BrokerGet
<1>7. ASSUME NEW c \in Consumers, RollBackConsume(c) \/ RefuseConsume(c)
      PROVE  UsedUp'
  <2>1. /\ status' = status \/
           /\ status[call[c].req] = "consuming"
           /\ status' = [status EXCEPT ![call[c].req] = "approved"]
        /\ UNCHANGED <<released, disk>>
    BY <1>7 DEF RollBackConsume, RefuseConsume
  <2> QED
    BY <2>1 DEF TypeOK
<1>8. ASSUME NEW c \in Consumers, FinishConsume(c) PROVE UsedUp'
  <2>1. call[c].req \in Requests /\ status[call[c].req] = "consuming"
    BY <1>8 DEF FinishConsume, TypeOK
  <2>2. /\ status' = [status EXCEPT ![call[c].req] = "consumed"]
        /\ released' = [released EXCEPT ![call[c].req] = @ + 1]
        /\ disk' = Saved(status', expiresAt')
    BY <1>8 DEF FinishConsume, Checkpoint
  <2> QED
    BY <2>1, <2>2 DEF TypeOK, Saved
<1>9. CASE OtherCheckpoint
  BY <1>9 DEF OtherCheckpoint, Saved
<1>10. CASE Restart
  BY <1>10 DEF Restart, TypeOK
<1>11. CASE Tick
  BY <1>11 DEF Tick
<1>12. CASE UNCHANGED vars
  BY <1>12 DEF vars
<1> QED
  BY <1>1, <1>2, <1>3, <1>4, <1>5, <1>6, <1>7, <1>8, <1>9, <1>10, <1>11,
     <1>12 DEF Next

\* While persistLocked succeeds, no race of consume calls, failed broker read,
\* failed receipt or restart hands the value of a grant out twice
\* (SingleUseWhileSaved).
THEOREM SingleUseHolds == Spec => []SingleUseWhileSaved
<1>1. Init => OwnInv /\ SavedInv
  <2>1. Init => TypeOK
    BY GrantAssumption DEF Init, TypeOK, Status, Token, Idle
  <2> QED
    BY <2>1 DEF Init, OwnInv, Exclusive, Owned, Idle, SavedInv, UsedUp
<1>2. SavedInv => SingleUseWhileSaved
  <2> SUFFICES ASSUME UsedUp, NEW r \in Requests PROVE released[r] <= 1
    BY DEF SavedInv, SingleUseWhileSaved
  <2>1. released[r] = 0 \/ released[r] = 1
    BY DEF UsedUp
  <2> QED
    BY <2>1
<1>3. OwnInv /\ SavedInv /\ TypeOK' /\ [Next]_vars => OwnInv' /\ SavedInv'
  BY OwnInvStep, UsedUpStep
<1> QED
  BY <1>1, <1>2, <1>3, TypeCorrect, PTL DEF Spec

-----------------------------------------------------------------------------
(* Every released value has its receipt.                                   *)

\* Every step that releases a value writes its receipt.
LEMMA ReceiptStep == TypeOK /\ ReceiptPerRelease /\ [Next]_vars => ReceiptPerRelease'
<1> SUFFICES ASSUME TypeOK, ReceiptPerRelease, [Next]_vars
             PROVE  ReceiptPerRelease'
  OBVIOUS
<1> USE DEF ReceiptPerRelease
<1>1. ASSUME NEW c \in Consumers, FinishConsume(c)
      PROVE  ReceiptPerRelease'
  <2>1. call[c].req \in Requests
    BY <1>1 DEF FinishConsume, TypeOK
  <2> QED BY <1>1, <2>1 DEF FinishConsume, TypeOK
<1>2. CASE UNCHANGED <<receipts, released>>
  BY <1>2
<1>3. (\E c \in Consumers : FinishConsume(c)) \/ UNCHANGED <<receipts, released>>
  BY DEF Next, vars, RequestSecretGrant, ApproveSecretGrant, DeliverTier2Grant,
         FailSecretGrantDelivery, BeginConsume, BrokerGet, RollBackConsume,
         RefuseConsume, OtherCheckpoint, Restart, Tick
<1> QED BY <1>1, <1>2, <1>3

\* No value is handed out without its own receipt in the ledger, for any calls,
\* failures and restarts (ReceiptPerRelease).
THEOREM ReleaseHasReceipt == Spec => []ReceiptPerRelease
<1>1. Init => ReceiptPerRelease
  <2> SUFFICES ASSUME Init, NEW r \in Requests
               PROVE  released[r] <= receipts[r]
    BY DEF ReceiptPerRelease
  <2>1. released[r] = 0 /\ receipts[r] = 0
    BY DEF Init
  <2> QED BY <2>1
<1> QED BY <1>1, TypeCorrect, ReceiptStep, PTL DEF Spec

-----------------------------------------------------------------------------
(* The grants are vouchers: every step is one of Voucher, or leaves the      *)
(* table as it shows it.                                                     *)

Shown == [r \in Requests |-> VoucherOf(status[r])]
ShownDisk == [r \in Requests |-> VoucherOf(disk[r].status)]

\* The writing of the table, as Voucher sees it.
Writing ==
    \/ ShownDisk' = Shown' /\ UNCHANGED checkpoints
    \/ ShownDisk' = ShownDisk /\ checkpoints' = "missed"

\* appendEventLocked changes one voucher and writes the table, or notes that it
\* could not.
LEMMA CheckpointShown ==
    ASSUME TypeOK, NEW r \in Requests, NEW st \in Status,
           NEW ex \in [Requests -> Nat],
           Checkpoint([status EXCEPT ![r] = st], ex)
    PROVE  Shown' = [Shown EXCEPT ![r] = VoucherOf(st)] /\ Writing
<1>1. status' = [status EXCEPT ![r] = st]
  BY DEF Checkpoint
<1>2. Shown' = [Shown EXCEPT ![r] = VoucherOf(st)]
  BY <1>1 DEF Shown, TypeOK
<1>3. CASE disk' = Saved(status', expiresAt') /\ UNCHANGED checkpoints
  <2>1. \A q \in Requests : disk'[q].status = status'[q]
    BY <1>3 DEF Saved
  <2>2. ShownDisk' = Shown'
    BY <2>1 DEF ShownDisk, Shown
  <2> QED
    BY <1>2, <1>3, <2>2 DEF Writing
<1>4. CASE disk' = disk /\ checkpoints' = "missed"
  <2>1. ShownDisk' = ShownDisk
    BY <1>4 DEF ShownDisk
  <2> QED
    BY <1>2, <1>4, <2>1 DEF Writing
<1> QED
  BY <1>3, <1>4 DEF Checkpoint

\* A critical section that moves a request between "approved" and "consuming"
\* and writes nothing does not show.
LEMMA ConsumingNotShown ==
    ASSUME TypeOK, NEW r \in Requests, NEW st \in {"approved", "consuming"},
           status[r] \in {"approved", "consuming"},
           status' \in {status, [status EXCEPT ![r] = st]}, UNCHANGED disk
    PROVE  Shown' = Shown /\ ShownDisk' = ShownDisk
<1>1. VoucherOf(st) = "approved" /\ VoucherOf(status[r]) = "approved"
  BY DEF VoucherOf
<1>2. \A q \in Requests : VoucherOf(status'[q]) = VoucherOf(status[q])
  BY <1>1 DEF TypeOK
<1>3. Shown' = Shown
  BY <1>2 DEF Shown
<1> QED
  BY <1>3 DEF ShownDisk

\* The variables of Voucher, as the grants have them.
shown == <<Shown, ShownDisk, released, receipts, checkpoints>>

\* Each step of the grants is one step of the table of vouchers or none.
LEMMA VoucherStep ==
    ASSUME TypeOK, [Next]_vars
    PROVE  Grants!Next \/ UNCHANGED shown
<1> USE GrantAssumption DEF shown
<1>1. ASSUME NEW r \in Requests, RequestSecretGrant(r) PROVE Grants!Ask(r)
  <2>1. Shown' = [Shown EXCEPT ![r] = VoucherOf("pending")] /\ Writing
    BY <1>1, CheckpointShown DEF RequestSecretGrant, TypeOK, Status
  <2>2. VoucherOf(status[r]) = "none" /\ VoucherOf("pending") = "pending"
    BY <1>1 DEF RequestSecretGrant, VoucherOf
  <2> QED
    BY <1>1, <2>1, <2>2
    DEF RequestSecretGrant, Writing, Shown, ShownDisk, Grants!Ask,
        Grants!Becomes
<1>2. ASSUME NEW r \in Requests, ApproveSecretGrant(r)
      PROVE  Grants!Approve(r)
  <2>1. [expiresAt EXCEPT ![r] = clock + TTL] \in [Requests -> Nat]
    BY DEF TypeOK
  <2>2. Shown' = [Shown EXCEPT ![r] = VoucherOf("approved")] /\ Writing
    BY <1>2, <2>1, CheckpointShown DEF ApproveSecretGrant, Status
  <2>3. VoucherOf(status[r]) = "pending" /\ VoucherOf("approved") = "approved"
    BY <1>2 DEF ApproveSecretGrant, VoucherOf
  <2> QED
    BY <1>2, <2>2, <2>3
    DEF ApproveSecretGrant, Writing, Shown, ShownDisk, Grants!Approve,
        Grants!Becomes
<1>3. ASSUME NEW t \in minted, FailSecretGrantDelivery(t)
      PROVE  Grants!TakeBack(t.req) \/ UNCHANGED shown
  <2>1. t.req \in Requests
    BY DEF TypeOK, Token
  <2>2. CASE status[t.req] = "approved"
    <3>1. [expiresAt EXCEPT ![t.req] = 0] \in [Requests -> Nat]
      BY DEF TypeOK
    <3>2. Shown' = [Shown EXCEPT ![t.req] = VoucherOf("pending")] /\ Writing
      BY <1>3, <2>1, <2>2, <3>1, CheckpointShown
      DEF FailSecretGrantDelivery, Status
    <3>3. /\ VoucherOf(status[t.req]) = "approved"
          /\ VoucherOf("pending") = "pending"
      BY <2>2 DEF VoucherOf
    <3> QED
      BY <1>3, <2>1, <3>2, <3>3
      DEF FailSecretGrantDelivery, Writing, Shown, ShownDisk,
          Grants!TakeBack, Grants!Becomes
  <2>3. CASE status[t.req] # "approved"
    BY <1>3, <2>3 DEF FailSecretGrantDelivery, Shown, ShownDisk
  <2> QED
    BY <2>2, <2>3
<1>4. ASSUME NEW c \in Consumers, FinishConsume(c)
      PROVE  Grants!Redeem(call[c].req)
  <2>1. call[c].req \in Requests
    BY <1>4 DEF FinishConsume, TypeOK
  <2>2. Shown' = [Shown EXCEPT ![call[c].req] = VoucherOf("consumed")] /\ Writing
    BY <1>4, <2>1, CheckpointShown DEF FinishConsume, TypeOK, Status
  <2>3. /\ VoucherOf(status[call[c].req]) = "approved"
        /\ VoucherOf("consumed") = "spent"
    BY <1>4 DEF FinishConsume, VoucherOf
  <2> QED
    BY <1>4, <2>1, <2>2, <2>3
    DEF FinishConsume, Writing, Shown, ShownDisk, Grants!Redeem,
        Grants!Becomes
<1>5. ASSUME NEW c \in Consumers, NEW t \in held, BeginConsume(c, t)
      PROVE  UNCHANGED shown
  <2>1. t.req \in Requests
    BY DEF TypeOK, Token
  <2>2. Shown' = Shown /\ ShownDisk' = ShownDisk
    BY <1>5, <2>1, ConsumingNotShown DEF BeginConsume
  <2> QED
    BY <1>5, <2>2 DEF BeginConsume
<1>6. ASSUME NEW c \in Consumers, RollBackConsume(c) \/ RefuseConsume(c)
      PROVE  UNCHANGED shown
  <2>1. call[c].req \in Requests
    BY <1>6 DEF RollBackConsume, RefuseConsume, TypeOK
  <2>2. \/ UNCHANGED status
        \/ /\ status[call[c].req] = "consuming"
           /\ status' = [status EXCEPT ![call[c].req] = "approved"]
    BY <1>6 DEF RollBackConsume, RefuseConsume
  <2>3. UNCHANGED <<disk, released, receipts, checkpoints>>
    BY <1>6 DEF RollBackConsume, RefuseConsume
  <2>4. CASE UNCHANGED status
    BY <2>3, <2>4 DEF Shown, ShownDisk
  <2>5. CASE ~UNCHANGED status
    BY <2>1, <2>2, <2>3, <2>5, ConsumingNotShown
  <2> QED
    BY <2>4, <2>5
<1>7. CASE OtherCheckpoint
  <2>1. \A q \in Requests : disk'[q].status = status[q]
    BY <1>7 DEF OtherCheckpoint, Saved
  <2>2. ShownDisk' = Shown /\ Shown' = Shown
    BY <1>7, <2>1 DEF OtherCheckpoint, ShownDisk, Shown
  <2>3. Grants!Write
    BY <1>7, <2>2 DEF OtherCheckpoint, Grants!Write, Shown, ShownDisk
  <2> QED
    BY <2>3 DEF Grants!Next
<1>8. CASE Restart
  <2>1. Shown' = ShownDisk /\ ShownDisk' = ShownDisk
    BY <1>8 DEF Restart, Shown, ShownDisk
  <2>2. Grants!Restart
    BY <1>8, <2>1 DEF Restart, Grants!Restart, Shown, ShownDisk
  <2> QED
    BY <2>2 DEF Grants!Next
<1>9. ASSUME \/ \E t \in minted : DeliverTier2Grant(t)
             \/ \E c \in Consumers : BrokerGet(c)
             \/ Tick \/ UNCHANGED vars
      PROVE  UNCHANGED shown
  BY <1>9 DEF DeliverTier2Grant, BrokerGet, Tick, vars, Shown, ShownDisk
<1>10. ASSUME NEW r \in Requests,
              \/ Grants!Ask(r) \/ Grants!Approve(r)
              \/ Grants!TakeBack(r) \/ Grants!Redeem(r)
       PROVE  Grants!Next
  BY <1>10 DEF Grants!Next
<1>11. \A t \in minted : t.req \in Requests
  BY DEF TypeOK, Token
<1>12. \A c \in Consumers : FinishConsume(c) => call[c].req \in Requests
  BY DEF FinishConsume, TypeOK
<1> QED
  BY <1>1, <1>2, <1>3, <1>4, <1>5, <1>6, <1>7, <1>8, <1>9, <1>10, <1>11,
     <1>12 DEF Next

\* RequestSecretGrant, ApproveSecretGrant, FailSecretGrantDelivery and
\* ConsumeSecretGrant implement the vouchers, for any number of requests, of
\* racing calls and of restarts.
THEOREM GrantsAreVouchers == Spec => ImplementsVoucher
<1>1. Init => Grants!Init
  BY DEF Init, Grants!Init, VoucherOf
<1>2. TypeOK /\ [Next]_vars => [Grants!Next]_(Grants!vvars)
  BY VoucherStep DEF shown, Shown, ShownDisk, Grants!vvars
<1> QED
  BY <1>1, <1>2, TypeCorrect, PTL DEF Spec, Grants!Spec, ImplementsVoucher
=============================================================================
