---------------------------- MODULE SecretGrant ----------------------------
(***************************************************************************)
(* Tier-2 secret grants of one cell (internal/cell/store.go): the agent    *)
(* asks for a brokered credential, the operator approves, the control      *)
(* plane mints a capability token and hands it to the attach sidecar, and  *)
(* the sidecar trades the token for the value, once.                       *)
(*                                                                         *)
(* ConsumeSecretGrant releases the store lock while it reads the broker,   *)
(* so it is three actions here: Begin, the broker read, and the final      *)
(* critical section.  Every handler that records an event also checkpoints *)
(* the whole store; a checkpoint that fails is only noted in memory.       *)
(***************************************************************************)
EXTENDS Integers

CONSTANTS Requests,        \* IDs of the grant requests of the cell
          NoRequest,       \* not one of them
          Consumers,       \* concurrent /api/internal/tier2/consume calls
          TTL,             \* lifetime of an approved grant, in clock ticks
          MaxClock,        \* bound: the clock stops here
          MaxRestarts      \* bound: control-plane restarts

ASSUME GrantAssumption ==
    /\ NoRequest \notin Requests
    /\ TTL \in Nat \ {0}
    /\ MaxClock \in Nat
    /\ MaxRestarts \in Nat

VARIABLES
    status,      \* SecretGrantRequest.Status, "none" before it is requested
    expiresAt,   \* SecretGrantRequest.ExpiresAt
    disk,        \* the same two fields in the last checkpoint
    minted,      \* tokens minted and not yet offered to the sidecar
    held,        \* tokens the attach sidecar has received
    call,        \* progress of each consume call
    receipts,    \* evidence ledger: "secret-receipt" records per request
    released,    \* values handed out per request
    checkpoints, \* history: "missed" once a checkpoint has failed
    clock, restarts

vars == <<status, expiresAt, disk, minted, held, call, receipts, released,
          checkpoints, clock, restarts>>

Status == {"none", "pending", "approved", "consuming", "consumed"}

Token == [req : Requests, exp : Nat]

Idle == [pc |-> "idle", req |-> NoRequest]

TypeOK ==
    /\ status \in [Requests -> Status]
    /\ expiresAt \in [Requests -> Nat]
    /\ disk \in [Requests -> [status : Status, expiresAt : Nat]]
    /\ minted \subseteq Token
    /\ held \subseteq Token
    /\ call \in [Consumers -> [pc : {"idle", "get", "failed", "record"},
                               req : Requests \cup {NoRequest}]]
    /\ \A c \in Consumers : call[c].pc # "idle" => call[c].req \in Requests
    /\ receipts \in [Requests -> Nat]
    /\ released \in [Requests -> Nat]
    /\ checkpoints \in {"ok", "missed"}
    /\ clock \in Nat
    /\ restarts \in Nat

Init ==
    /\ status = [r \in Requests |-> "none"]
    /\ expiresAt = [r \in Requests |-> 0]
    /\ disk = [r \in Requests |-> [status |-> "none", expiresAt |-> 0]]
    /\ minted = {}
    /\ held = {}
    /\ call = [c \in Consumers |-> Idle]
    /\ receipts = [r \in Requests |-> 0]
    /\ released = [r \in Requests |-> 0]
    /\ checkpoints = "ok"
    /\ clock = 0
    /\ restarts = 0

-----------------------------------------------------------------------------
(* Checkpoints: persistLocked writes every record of the store.            *)

\* What persistLocked writes of the requests.
Saved(st, ex) == [r \in Requests |-> [status |-> st[r], expiresAt |-> ex[r]]]

\* appendEventLocked: the request table changes to (st, ex) and is
\* checkpointed; the caller does not learn of a failed checkpoint.
Checkpoint(st, ex) ==
    /\ status' = st
    /\ expiresAt' = ex
    /\ \/ disk' = Saved(st, ex) /\ UNCHANGED checkpoints
       \/ disk' = disk /\ checkpoints' = "missed"

-----------------------------------------------------------------------------
(* Operations.                                                             *)

RequestSecretGrant(r) ==
    /\ status[r] = "none"
    /\ Checkpoint([status EXCEPT ![r] = "pending"], expiresAt)
    /\ UNCHANGED <<minted, held, call, receipts, released, clock, restarts>>

\* Mint a token and approve the request; both expire after the TTL.
ApproveSecretGrant(r) ==
    /\ status[r] = "pending"
    /\ Checkpoint([status EXCEPT ![r] = "approved"],
                  [expiresAt EXCEPT ![r] = clock + TTL])
    /\ minted' = minted \cup {[req |-> r, exp |-> clock + TTL]}
    /\ UNCHANGED <<held, call, receipts, released, clock, restarts>>

\* The HTTP handler offers the token to the attach sidecar's client.
DeliverTier2Grant(t) ==
    /\ t \in minted
    /\ minted' = minted \ {t}
    /\ held' = held \cup {t}
    /\ UNCHANGED <<status, expiresAt, disk, call, receipts, released, clock,
                   checkpoints, restarts>>

\* Mutant: the handler parks the request in a status nobody handles.
FailSecretGrantDeliveryParks(t) ==
    /\ t \in minted
    /\ minted' = minted \ {t}
    /\ Checkpoint([status EXCEPT ![t.req] = "failed"],
                  [expiresAt EXCEPT ![t.req] = 0])
    /\ UNCHANGED <<held, call, receipts, released, clock, restarts>>

\* Mutant: the handler takes back whatever the request has become meanwhile.
FailSecretGrantDeliveryAlways(t) ==
    /\ t \in minted
    /\ minted' = minted \ {t}
    /\ Checkpoint([status EXCEPT ![t.req] = "pending"],
                  [expiresAt EXCEPT ![t.req] = 0])
    /\ UNCHANGED <<held, call, receipts, released, clock, restarts>>

\* There is no authorised client: the handler takes the approval back.  A
\* request that is no longer "approved" is left alone.
FailSecretGrantDelivery(t) ==
    /\ t \in minted
    /\ minted' = minted \ {t}
    /\ IF status[t.req] = "approved"
         THEN Checkpoint([status EXCEPT ![t.req] = "pending"],
                         [expiresAt EXCEPT ![t.req] = 0])
         ELSE UNCHANGED <<status, expiresAt, disk, checkpoints>>
    /\ UNCHANGED <<held, call, receipts, released, clock, restarts>>

\* First critical section of ConsumeSecretGrant: Verify accepts the token and
\* the request is approved and not expired.
BeginConsume(c, t) ==
    /\ call[c].pc = "idle"
    /\ t \in held
    /\ t.exp > clock
    /\ status[t.req] = "approved"
    /\ clock <= expiresAt[t.req]
    /\ status' = [status EXCEPT ![t.req] = "consuming"]
    /\ call' = [call EXCEPT ![c] = [pc |-> "get", req |-> t.req]]
    /\ UNCHANGED <<expiresAt, disk, minted, held, receipts, released, clock,
                   checkpoints, restarts>>

\* secretBroker.Get, outside the store lock, finds the value or fails.
BrokerGet(c) ==
    /\ call[c].pc = "get"
    /\ \E pc \in {"failed", "record"} : call' = [call EXCEPT ![c].pc = pc]
    /\ UNCHANGED <<status, expiresAt, disk, minted, held, receipts, released,
                   clock, checkpoints, restarts>>

\* Mutant: the failure path forgets the rollback.
RollBackConsumeForgets(c) ==
    /\ call[c].pc = "failed"
    /\ call' = [call EXCEPT ![c] = Idle]
    /\ UNCHANGED <<status, expiresAt, disk, minted, held, receipts, released,
                   clock, checkpoints, restarts>>

\* The read failed: a request still "consuming" becomes "approved" again.
RollBackConsume(c) ==
    /\ call[c].pc = "failed"
    /\ status' = IF status[call[c].req] = "consuming"
                   THEN [status EXCEPT ![call[c].req] = "approved"]
                   ELSE status
    /\ call' = [call EXCEPT ![c] = Idle]
    /\ UNCHANGED <<expiresAt, disk, minted, held, receipts, released, clock,
                   checkpoints, restarts>>

\* Mutant: the append error is ignored and the value is returned.
RefuseConsumeIgnored(c) ==
    LET r == call[c].req IN
    /\ call[c].pc = "record"
    /\ status[r] = "consuming"
    /\ Checkpoint([status EXCEPT ![r] = "consumed"], expiresAt)
    /\ released' = [released EXCEPT ![r] = @ + 1]
    /\ call' = [call EXCEPT ![c] = Idle]
    /\ UNCHANGED <<minted, held, receipts, clock, restarts>>

\* Last critical section, nothing released: the receipt cannot be appended to
\* the ledger and the request becomes "approved" again, or the request is no
\* longer "consuming" and is left alone.
RefuseConsume(c) ==
    LET r == call[c].req IN
    /\ call[c].pc = "record"
    /\ status' = IF status[r] = "consuming"
                   THEN [status EXCEPT ![r] = "approved"]
                   ELSE status
    /\ call' = [call EXCEPT ![c] = Idle]
    /\ UNCHANGED <<expiresAt, disk, minted, held, receipts, released, clock,
                   checkpoints, restarts>>

\* Mutant: the value is returned before the request is checkpointed.
FinishConsumeUnsaved(c) ==
    LET r == call[c].req IN
    /\ call[c].pc = "record"
    /\ status[r] = "consuming"
    /\ receipts' = [receipts EXCEPT ![r] = @ + 1]
    /\ status' = [status EXCEPT ![r] = "consumed"]
    /\ released' = [released EXCEPT ![r] = @ + 1]
    /\ call' = [call EXCEPT ![c] = Idle]
    /\ UNCHANGED <<expiresAt, disk, minted, held, clock, checkpoints, restarts>>

\* Last critical section: the receipt is appended, the request is "consumed" and the value returned.
FinishConsume(c) ==
    LET r == call[c].req IN
    /\ call[c].pc = "record"
    /\ status[r] = "consuming"
    /\ receipts' = [receipts EXCEPT ![r] = @ + 1]
    /\ Checkpoint([status EXCEPT ![r] = "consumed"], expiresAt)
    /\ released' = [released EXCEPT ![r] = @ + 1]
    /\ call' = [call EXCEPT ![c] = Idle]
    /\ UNCHANGED <<minted, held, clock, restarts>>

-----------------------------------------------------------------------------
(* Environment.                                                            *)

\* Some other operation of the store (an edit, a heartbeat, telemetry)
\* checkpoints the whole state, requests in "consuming" included.
OtherCheckpoint ==
    /\ disk # Saved(status, expiresAt)
    /\ disk' = Saved(status, expiresAt)
    /\ UNCHANGED <<status, expiresAt, minted, held, call, receipts, released,
                   clock, checkpoints, restarts>>

\* The control plane stops and loadState reads the last checkpoint: calls in
\* progress and tokens not yet sent are gone, sent tokens stay valid (the
\* capability key outlives the process).
Restart ==
    /\ restarts < MaxRestarts
    /\ restarts' = restarts + 1
    /\ status' = [r \in Requests |-> disk[r].status]
    /\ expiresAt' = [r \in Requests |-> disk[r].expiresAt]
    /\ minted' = {}
    /\ call' = [c \in Consumers |-> Idle]
    /\ UNCHANGED <<disk, held, receipts, released, checkpoints, clock>>

Tick ==
    /\ clock < MaxClock
    /\ clock' = clock + 1
    /\ UNCHANGED <<status, expiresAt, disk, minted, held, call, receipts,
                   released, checkpoints, restarts>>

Next ==
    \/ \E r \in Requests : RequestSecretGrant(r) \/ ApproveSecretGrant(r)
    \/ \E t \in minted : DeliverTier2Grant(t) \/ FailSecretGrantDelivery(t)
    \/ \E c \in Consumers, t \in held : BeginConsume(c, t)
    \/ \E c \in Consumers : \/ BrokerGet(c)
                            \/ RollBackConsume(c)
                            \/ RefuseConsume(c)
                            \/ FinishConsume(c)
    \/ OtherCheckpoint
    \/ Restart
    \/ Tick

Spec == Init /\ [][Next]_vars

-----------------------------------------------------------------------------
(* Properties.                                                             *)

\* A grant is single use: whatever calls race, whatever reads fail and
\* whenever the control plane restarts, the value of a request is handed out
\* at most once for as long as every checkpoint has succeeded, since consuming
\* a grant and checkpointing it is one critical section of ConsumeSecretGrant.
\* (TestTier2GrantIsAskHumanBoundedAndSingleUse.)
SingleUseWhileSaved ==
    checkpoints = "ok" => \A r \in Requests : released[r] <= 1

\* No value leaves the control plane without its own durable receipt in the
\* evidence ledger, even when a receipt append failed before or the process
\* restarted.  (TestSecretPlaintextIsNotReleasedWhenReceiptAppendFails.)
ReceiptPerRelease == \A r \in Requests : released[r] <= receipts[r]

Owners(r) == {c \in Consumers : call[c].pc # "idle" /\ call[c].req = r}

\* A request is "consuming" only while exactly one call works on it, unless a
\* restart lost that call: no failure path of ConsumeSecretGrant leaves the
\* grant locked, and no two calls ever read the broker for the same grant.
ConsumingIsOwned ==
    \A r \in Requests :
        /\ \A c, d \in Owners(r) : c = d
        /\ Owners(r) # {} => status[r] = "consuming"
        /\ status[r] = "consuming" => Owners(r) # {} \/ restarts > 0

\* To whoever looks at the table a request that a call is working on is still
\* an approved voucher: the call may yet give it back.
VoucherOf(st) ==
    CASE st = "consuming" -> "approved"
      [] st = "consumed" -> "spent"
      [] OTHER -> st

Grants == INSTANCE Voucher WITH
    voucher <- [r \in Requests |-> VoucherOf(status[r])],
    kept <- [r \in Requests |-> VoucherOf(disk[r].status)],
    values <- released,
    saving <- checkpoints

\* ConsumeSecretGrant spends a grant in three critical sections, one of them
\* outside the lock, while other calls, failed deliveries, checkpoints of
\* other operations and restarts come in between: together they are one
\* redemption, with its value and its receipt, or none.
ImplementsVoucher == Grants!Spec
=============================================================================
