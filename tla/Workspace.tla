----------------------------- MODULE Workspace -----------------------------
(***************************************************************************)
(* The shared buffers of one cell (internal/cell/store.go): humans edit in *)
(* the browser, the agent edits through its sidecar, and a write that may  *)
(* not go live becomes a Shadow Revision that an operator adopts, merges   *)
(* or discards.  Entity reviews compare the buffers with the BASE of the   *)
(* last commit; once all are accepted the pod is asked to commit.          *)
(*                                                                         *)
(* Every handler runs under the store lock and is one action, except       *)
(* ApproveReview, which drops the lock while the pod commits.  Texts are   *)
(* opaque; the CRDT library, the structural merge and the entity diff are  *)
(* reduced to what they may return.  "saved" is the last checkpoint that   *)
(* was written: most handlers record their event, which checkpoints,       *)
(* BEFORE they regenerate the reviews, and a checkpoint that fails is      *)
(* passed over in silence, so it is not always the state in memory.        *)
(***************************************************************************)
EXTENDS Integers, FiniteSets

CONSTANTS Paths,        \* file names of the cell
          Edited,       \* bound: the paths operations name
          Texts,        \* contents a file may have
          Written,      \* bound: the contents that edits and merges give
          Named,        \* bound: the contents a sidecar names as a base
          Empty,        \* the empty content
          Absent,       \* the path has no file
          Start,        \* the content every file starts from
          Humans,       \* browser actors
          Agent,        \* the cell's agent
          Nobody,       \* the path has no writer
          MaxEdits,     \* bound: edits, deletions and undos
          MaxShadows,   \* bound: Shadow Revisions created
          MaxCommits,   \* bound: commits in flight at once
          MaxFailures,  \* bound: handlers that fail to write the worktree or a
                        \* checkpoint, counting with them earlier restarts
          MaxRestarts   \* bound: restarts of the control plane, counting with
                        \* them earlier failures to write the worktree

Ids == 1..MaxShadows \* Shadow Revisions

ASSUME WorkspaceAssumption ==
    /\ Empty \in Texts /\ Start \in Texts /\ Absent \notin Texts
    /\ Agent \notin Humans /\ Nobody \notin Humans \cup {Agent}
    /\ MaxEdits \in Nat /\ MaxShadows \in Nat /\ MaxCommits \in Nat
    /\ MaxFailures \in Nat /\ MaxRestarts \in Nat
    /\ Written \subseteq Texts /\ Named \subseteq Texts
    /\ Edited \subseteq Paths /\ Paths \cap Ids = {}

VARIABLES
    cell,      \* the durable part of the record, see Cell
    saved,     \* the same in the checkpoint on disk
    unsaved,   \* the last checkpoint of this process failed
    misses,    \* handlers of which a checkpoint failed
    disk,      \* the store's worktree
    writer,    \* record.writers: who wrote each path in the last 90 seconds
    focus,     \* record.openWriters: humans whose cursor is in the path
    refresh,   \* a review refresh is due that no later revision has overtaken
    commits,   \* commits the pod has been asked for and has not answered
    edits, restarts, faults

\* What a handler without a checkpoint leaves alone.
durable == <<saved, unsaved, misses>>

vars == <<cell, durable, disk, writer, focus, refresh, commits, edits,
          restarts, faults>>

Content == Texts \cup {Absent}
Actors == Humans \cup {Agent}

NoShadow == [path |-> Nobody, base |-> Empty, before |-> Empty,
             after |-> Empty, disk |-> FALSE, status |-> "none",
             stale |-> FALSE]

Shadow == [path : Paths \cup {Nobody},
           base : Texts, before : Texts, after : Texts,
           disk : BOOLEAN, \* the base came from the sidecar, not from BASE
           status : {"none", "open", "blocked", "adopted", "merged",
                     "discarded", "collected"},
           stale : BOOLEAN]

ReviewStatus == {"none", "pending", "blocked", "accepted", "committing",
                 "approved", "rejected"}

\* A path has at most one entity, so a review is named by its path; the review
\* of what a shadow would change is named by the shadow, and carries the same
\* review ID as its path's.
Cell == [files : [Paths -> Content],       \* Cell.Files
         docs : [Paths -> Content],        \* record.docs, as text
         baseline : [Paths -> Content],    \* record.baseline
         shadows : [Ids -> Shadow],        \* Cell.Shadows
         made : 0..MaxShadows,             \* shadows created
         reviews : [Paths \cup Ids -> ReviewStatus],
         degraded : BOOLEAN]               \* Cell.EvidenceHealth

NoWriter == [who |-> Nobody, before |-> Empty]

TypeOK ==
    /\ cell \in Cell
    /\ saved \in Cell
    /\ unsaved \in BOOLEAN
    /\ misses \in Nat
    /\ disk \in [Paths -> Content]
    /\ writer \in [Paths -> [who : Actors \cup {Nobody}, before : Texts]]
    /\ focus \in [Paths -> SUBSET Humans]
    /\ refresh \in BOOLEAN
    /\ commits \in 0..MaxCommits
    /\ edits \in 0..MaxEdits
    /\ restarts \in Nat
    /\ faults \in Nat

Init ==
    /\ cell = [files |-> [p \in Paths |-> Start],
               docs |-> [p \in Paths |-> Start],
               baseline |-> [p \in Paths |-> Start],
               shadows |-> [s \in Ids |-> NoShadow],
               made |-> 0,
               reviews |-> [i \in Paths \cup Ids |-> "none"],
               degraded |-> FALSE]
    /\ saved = cell
    /\ unsaved = FALSE
    /\ misses = 0
    /\ disk = cell.files
    /\ writer = [p \in Paths |-> NoWriter]
    /\ focus = [p \in Paths |-> {}]
    /\ refresh = FALSE
    /\ commits = 0
    /\ edits = 0
    /\ restarts = 0
    /\ faults = 0

Counted == edits < MaxEdits /\ edits' = edits + 1

MayFail == restarts + faults + misses < MaxFailures

-----------------------------------------------------------------------------
(* The record and what handlers do to it.                                  *)

\* Mutant: the caller's files have the path.
TextOfPresent(files, p) == files[p]

TextOf(files, p) == IF files[p] = Absent THEN Empty ELSE files[p]

\* The buffer: the file entry and its CRDT document.
Put(c, p, t) == [c EXCEPT !.files[p] = t, !.docs[p] = t]

Create(c, p) == IF c.files[p] = Absent THEN Put(c, p, Empty) ELSE c

AddShadow(c, p, base, before, after, status, fromDisk) ==
    [c EXCEPT !.made = @ + 1,
              !.shadows[c.made + 1] =
                  [path |-> p, base |-> base, before |-> before,
                   after |-> after, disk |-> fromDisk, status |-> status,
                   stale |-> FALSE]]

Room(c) == c.made < MaxShadows

\* Review of a path: pending when it differs from BASE, blocked by a shadow or
\* by degraded evidence.
PathReview(c, p) ==
    IF c.files[p] = c.baseline[p] THEN "none"
    ELSE IF \/ c.degraded
            \/ \E s \in Ids : /\ c.shadows[s].status = "open"
                             /\ c.shadows[s].path = p
         THEN "blocked"
         ELSE "pending"

\* Review of what an open shadow would change in the live buffer.
ShadowReview(c, s) ==
    IF /\ c.shadows[s].status = "open"
       /\ c.files[c.shadows[s].path] \notin {Absent, c.shadows[s].after}
    THEN "blocked"
    ELSE "none"

\* generateReviews: every decision taken on the old list is forgotten.
Reviewed(c) ==
    [c EXCEPT !.reviews = [i \in Paths \cup Ids |->
        IF i \in Paths THEN PathReview(c, i) ELSE ShadowReview(c, i)]]

\* A handler whose checkpoints all succeed (ok) or do not.
Attempt(ok) ==
    /\ ok \/ MayFail
    /\ misses' = IF ok THEN misses ELSE misses + 1

\* persistLocked: the record, written beside the old state file and renamed.
Persist(c, ok) ==
    /\ Attempt(ok)
    /\ saved' = IF ok THEN c ELSE saved
    /\ unsaved' = ~ok

\* appendEventLocked: an error of its checkpoint degrades the evidence, and the
\* handler goes on and succeeds.
Noted(c, ok) == IF ok THEN c ELSE [c EXCEPT !.degraded = TRUE]

\* An event is recorded with the record c.
Logged(c) == \E ok \in BOOLEAN : Persist(c, ok) /\ cell' = Noted(c, ok)

\* ... and the reviews are regenerated after that.
Reported(c) ==
    /\ \E ok \in BOOLEAN : Persist(c, ok) /\ cell' = Reviewed(Noted(c, ok))
    /\ refresh' = FALSE

Base(c, p) == TextOf(c.baseline, p)

AgentWriting(p) == writer[p].who = Agent

HumanHolds(p) ==
    /\ writer[p].who \in Humans
    /\ writer[p].who \in focus[p]

Writes(who, before) == [who |-> who, before |-> before]

-----------------------------------------------------------------------------
(* Humans take over from the agent.                                        *)

Displaced(c, p) == c.files[p] # writer[p].before

Preserved(c, p) ==
    AddShadow(c, p, Base(c, p), writer[p].before, c.files[p], "open", FALSE)

\* Mutant: only the document goes back; the file entry follows "later".
RestoredDocument(c, p) == [Preserved(c, p) EXCEPT !.docs[p] = writer[p].before]

\* Mutant: the agent's text is not preserved.
RestoredOnly(c, p) == Put(c, p, writer[p].before)

\* The agent's text leaves the buffer as an open shadow; the record is
\* checkpointed here, before its reviews are regenerated.
Restored(c, p) == Put(Preserved(c, p), p, writer[p].before)

TakenOver(c, p, ok) ==
    IF Displaced(c, p) THEN Reviewed(Noted(Restored(c, p), ok)) ELSE c

\* The worktree write of a takeover failed: the shadow and the document are
\* changed, the file entry is not, and the agent is still the writer.
HalfRestored(c, p) ==
    [Preserved(c, p) EXCEPT !.docs[p] = writer[p].before]

\* SetWriterActive: a cursor enters the path.
FocusFile(h, p) ==
    /\ focus' = [focus EXCEPT ![p] = @ \cup {h}]
    /\ IF AgentWriting(p)
       THEN /\ cell.files[p] # Absent
            /\ Displaced(cell, p) => Room(cell)
            /\ writer' = [writer EXCEPT ![p] = NoWriter]
            /\ IF Displaced(cell, p)
               THEN /\ Reported(Restored(cell, p))
                    /\ disk' = [disk EXCEPT ![p] = writer[p].before]
               ELSE UNCHANGED <<cell, durable, disk, refresh>>
       ELSE /\ h \notin focus[p]
            /\ UNCHANGED <<cell, durable, disk, writer, refresh>>
    /\ UNCHANGED <<commits, edits, restarts, faults>>

FocusFails(p) ==
    /\ AgentWriting(p)
    /\ cell.files[p] # Absent
    /\ Displaced(cell, p)
    /\ Room(cell)
    /\ MayFail
    /\ cell' = HalfRestored(cell, p)
    /\ faults' = faults + 1
    /\ UNCHANGED <<durable, disk, writer, focus, refresh, commits,
                   edits, restarts>>

Blur(h, p) ==
    /\ h \in focus[p]
    /\ focus' = [focus EXCEPT ![p] = @ \ {h}]
    /\ UNCHANGED <<cell, durable, disk, writer, refresh, commits,
                   edits, restarts, faults>>

\* Ninety seconds without a write: an expired writer is no writer.
LeaseExpires(p) ==
    /\ writer[p] # NoWriter
    /\ writer' = [writer EXCEPT ![p] = NoWriter]
    /\ UNCHANGED <<cell, durable, disk, focus, refresh, commits,
                   edits, restarts, faults>>

-----------------------------------------------------------------------------
(* Edits.                                                                  *)

\* A human edit takes an agent's live buffer over unless it changes nothing.
Takes(c, p, t) == AgentWriting(p) /\ c.files[p] # t

\* handleBrowserSplice: each splice restarts the timer of RefreshReviews; any
\* other edit has moved the revision on by the time it fires.
Scheduled(splice) == refresh' = splice

\* The checkpoints of one edit.
Checkpoints == {"takeover", "event", "reviews"}

\* The end of applyEditLocked: its event is checkpointed and, after a whole
\* edit, the reviews are regenerated and checkpointed too.  "failed" names the
\* checkpoints of the handler that fail, "was" is what an earlier one has left.
EditRecorded(c, whole, failed, was) ==
    LET noted == Noted(c, "event" \notin failed)
    IN  /\ "reviews" \in failed => whole
        /\ Attempt(failed = {})
        /\ cell' = IF whole THEN Reviewed(noted) ELSE noted
        /\ saved' = IF whole /\ "reviews" \notin failed THEN cell'
                    ELSE IF "event" \notin failed THEN c
                    ELSE was
        /\ unsaved' = ((IF whole THEN "reviews" ELSE "event") \in failed)

\* ApplyEdit (whole) and ApplySplice by a human; a splice is refused unless its
\* base is the live text, and leaves the reviews to RefreshReviews.
HumanEdit(h, p, t, whole, failed) ==
    LET c0 == Create(cell, p)
        undone == Takes(c0, p, t) /\ Displaced(c0, p)
        kept == undone /\ "takeover" \notin failed
        c1 == IF undone THEN TakenOver(c0, p, kept) ELSE c0
    IN  /\ Counted
        /\ "takeover" \in failed => undone
        /\ undone => Room(cell)
        /\ EditRecorded(Put(c1, p, t), whole, failed,
                        IF kept THEN Restored(c0, p) ELSE saved)
        /\ disk' = [disk EXCEPT ![p] = t]
        /\ writer' = [writer EXCEPT ![p] = Writes(h, Empty)]
        /\ Scheduled(~whole)
        /\ UNCHANGED <<focus, commits, restarts, faults>>

\* The worktree write of the edit itself fails: no event, no checkpoint of it.
HumanEditFails(p, t) ==
    LET c0 == Create(cell, p)
        undone == Takes(c0, p, t) /\ Displaced(c0, p)
    IN  /\ Counted
        /\ MayFail
        /\ IF undone
           THEN /\ Room(cell)
                /\ \E ok \in BOOLEAN :
                      /\ Persist(Restored(c0, p), ok)
                      /\ cell' = Put(TakenOver(c0, p, ok), p, t)
                /\ disk' = [disk EXCEPT ![p] = writer[p].before]
                /\ refresh' = FALSE
           ELSE cell' = Put(c0, p, t) /\ UNCHANGED <<durable, disk, refresh>>
        /\ writer' = IF Takes(c0, p, t) THEN [writer EXCEPT ![p] = NoWriter]
                     ELSE writer
        /\ faults' = faults + 1
        /\ UNCHANGED <<focus, commits, restarts>>

\* Mutant: the event is checkpointed before the shadow is added.
AgentEditShadowedLate(p, t) ==
    LET c0 == Create(cell, p)
        c == AddShadow(c0, p, Base(cell, p), TextOf(cell.files, p), t, "open",
                       FALSE)
    IN  /\ Counted
        /\ HumanHolds(p)
        /\ Room(cell)
        /\ cell' = Reviewed(c)
        /\ Persist(c0, TRUE)
        /\ refresh' = FALSE
        /\ UNCHANGED <<disk, writer, focus, commits, restarts, faults>>

\* ApplyEdit by the agent while a human holds the path: a shadow.  A file the
\* agent creates has been entered, empty, by then.
AgentEditShadowed(p, t) ==
    LET c == AddShadow(Create(cell, p), p, Base(cell, p),
                       TextOf(cell.files, p), t, "open", FALSE)
    IN  /\ Counted
        /\ HumanHolds(p)
        /\ Room(cell)
        /\ Reported(c)
        /\ UNCHANGED <<disk, writer, focus, commits, restarts, faults>>

\* Otherwise it goes live; "before" is the text before the agent's lease.
AgentEditLive(p, t, failed) ==
    /\ Counted
    /\ ~HumanHolds(p)
    /\ EditRecorded(Put(cell, p, t), TRUE, failed, saved)
    /\ disk' = [disk EXCEPT ![p] = t]
    /\ writer' = [writer EXCEPT ![p] =
           Writes(Agent, IF AgentWriting(p) THEN @.before
                         ELSE TextOf(cell.files, p))]
    /\ refresh' = FALSE
    /\ UNCHANGED <<focus, commits, restarts, faults>>

AgentEditFails(p, t) ==
    /\ Counted
    /\ ~HumanHolds(p)
    /\ MayFail
    /\ cell' = Put(cell, p, t)
    /\ faults' = faults + 1
    /\ UNCHANGED <<durable, disk, writer, focus, refresh, commits, restarts>>

\* An agent edit with secret-shaped text: a shadow nobody can resolve keeps the
\* redacted text, which is not modelled.
SecretEdit(p) ==
    LET c == AddShadow(cell, p, Base(cell, p), TextOf(cell.files, p), Empty,
                       "blocked", FALSE)
    IN  /\ Counted
        /\ Room(cell)
        /\ Reported(c)
        /\ UNCHANGED <<disk, writer, focus, commits, restarts, faults>>

\* ApplyDiskEdit and ApplyDiskDelete (t = Empty) from a base that is unknown
\* (Empty) or not the live text.  From the live text they are AgentEdit or
\* DiskDelete.
UncertainDisk(p, base, t) ==
    LET c == AddShadow(cell, p, base, TextOf(cell.files, p), t, "open", TRUE)
    IN  /\ Counted
        /\ base = Empty \/ base # TextOf(cell.files, p)
        /\ Room(cell)
        /\ Reported(c)
        /\ UNCHANGED <<disk, writer, focus, commits, restarts, faults>>

Removable(p) ==
    /\ cell.files[p] # Absent
    /\ \E q \in Paths \ {p} : cell.files[q] # Absent

\* deleteFileLocked: the path keeps its writer and its history.
RemoveFile(p) ==
    LET c == Put(cell, p, Absent)
    IN  /\ Counted
        /\ Removable(p)
        /\ Reported(c)
        /\ UNCHANGED <<writer, focus, commits, restarts, faults>>

DeleteFile(p) == RemoveFile(p) /\ disk' = [disk EXCEPT ![p] = Absent]

\* The sidecar saw the exact live text unlinked; the store's copy stays.
DiskDelete(p) == cell.files[p] # Empty /\ RemoveFile(p) /\ UNCHANGED disk

\* A handler sets the buffer to t and has the record c to show for it.
Overwrite(p, t, c) ==
    /\ Reported(c)
    /\ disk' = [disk EXCEPT ![p] = t]
    /\ UNCHANGED <<writer, focus, commits, restarts, faults>>

\* ... but writing the worktree fails, and only the buffer has changed.
OverwriteFails(p, t) ==
    /\ MayFail
    /\ cell' = Put(cell, p, t)
    /\ faults' = faults + 1
    /\ UNCHANGED <<durable, disk, writer, focus, refresh, commits, restarts>>

\* undoEdit: the inverse of the actor's latest operations leaves some text t.
\* (Who has an operation to revert is not kept.)
Undoable(p) == cell.docs[p] # Absent

UndoEdit(p, t) == Counted /\ Undoable(p) /\ Overwrite(p, t, Put(cell, p, t))

UndoFails(p, t) == Counted /\ Undoable(p) /\ OverwriteFails(p, t)

-----------------------------------------------------------------------------
(* Shadow Revisions.                                                       *)

Open(s) == cell.shadows[s].status = "open"

\* The statuses of shadows that becoming stale still matters to.
Unsettled == {"open", "blocked", "discarded"}

\* The text of a shadow is not read again once it is resolved, and its base
\* only while it is a discarded one that may become stale.
Resolve(c, s, status) ==
    [c EXCEPT !.shadows[s] =
        [NoShadow EXCEPT !.path = c.shadows[s].path, !.status = status]]

Adoptable(s) ==
    /\ Open(s)
    /\ ~cell.shadows[s].stale
    /\ cell.docs[cell.shadows[s].path] # Absent
    /\ UNCHANGED edits

\* What is preserved is the text of the buffer when the shadow was made.
AdoptShadow(s) ==
    LET w == cell.shadows[s]
        c == Resolve(Put(cell, w.path, w.after), s, "adopted")
    IN  /\ Adoptable(s)
        /\ Room(cell)
        /\ Overwrite(w.path, w.after,
              AddShadow(c, w.path, w.base, w.after, w.before, "open", w.disk))

AdoptFails(s) ==
    /\ Adoptable(s)
    /\ OverwriteFails(cell.shadows[s].path, cell.shadows[s].after)

MayConflict(base, human, agent) == human # base /\ agent \notin {base, human}

\* (Without a document a clean merge dereferences nil.)
Mergeable(s) ==
    /\ Open(s)
    /\ cell.docs[cell.shadows[s].path] # Absent
    /\ UNCHANGED edits

\* A clean merge returns some text t of the entities or the lines of both; where
\* the agent changed nothing that is the human's, but the merge by lines adds a
\* final newline even then.
MergeShadow(s, t) ==
    LET p == cell.shadows[s].path
    IN  /\ Mergeable(s)
        /\ Overwrite(p, t, Resolve(Put(cell, p, t), s, "merged"))

MergeFails(s, t) == Mergeable(s) /\ OverwriteFails(cell.shadows[s].path, t)

\* A handler changes only the record, to c, and regenerates the reviews.
Record(c) ==
    /\ Reported(c)
    /\ UNCHANGED <<disk, writer, focus, commits, edits, restarts, faults>>

MergeConflicts(s) ==
    /\ Open(s)
    /\ MayConflict(cell.shadows[s].base,
                   TextOf(cell.files, cell.shadows[s].path),
                   cell.shadows[s].after)
    /\ Record(cell)

DiscardShadow(s) ==
    /\ Open(s)
    /\ Record([Resolve(cell, s, "discarded") EXCEPT
                  !.shadows[s].base = cell.shadows[s].base,
                  !.shadows[s].stale = cell.shadows[s].stale])

Resolved(s) ==
    LET w == cell.shadows[s]
    IN  \/ w.status \in {"adopted", "merged"}
        \/ w.status = "discarded" /\ w.stale

\* CollectShadowGarbage, one shadow of a pass whose receipt could be written:
\* resolved, or else fourteen days old.  The reviews are left alone.
CollectShadowGarbage(s, aged) ==
    /\ cell.shadows[s].status \notin {"none", "collected"}
    /\ aged = ~Resolved(s)
    /\ cell' = Resolve(cell, s, "collected")
    /\ \E ok \in BOOLEAN : Persist(cell', ok)
    /\ UNCHANGED <<disk, writer, focus, refresh, commits,
                   edits, restarts, faults>>

-----------------------------------------------------------------------------
(* Entity reviews and the commit.                                          *)

\* The reviews that carry the review ID of path p; a handler takes the first:
\* the path's own, then the shadows' in the order they were made.
ReviewsOf(p) ==
    {i \in {p} \cup {s \in Ids : cell.shadows[s].path = p} :
        cell.reviews[i] # "none"}

IsFirst(i, p) ==
    /\ i \in ReviewsOf(p)
    /\ i # p => /\ p \notin ReviewsOf(p)
                /\ \A j \in ReviewsOf(p) : i <= j

Decide(c, i, status) == [c EXCEPT !.reviews[i] = status]

\* A decision is checkpointed with the event that records it.
Decided(c) ==
    /\ Logged(c)
    /\ refresh' = FALSE
    /\ UNCHANGED <<disk, writer, focus, edits, restarts, faults>>

AllAccepted(c) ==
    \A i \in Paths \cup Ids : c.reviews[i] \in {"none", "accepted"}

Turn(c, from, to) ==
    [c EXCEPT !.reviews = [i \in Paths \cup Ids |->
        IF @[i] = from THEN to ELSE @[i]]]

\* ApproveReview: one of several,
ApproveEntity(i, p) ==
    LET c == Decide(cell, i, "accepted")
    IN  /\ IsFirst(i, p)
        /\ cell.reviews[i] = "pending"
        /\ ~AllAccepted(c)
        /\ Decided(c)
        /\ UNCHANGED commits

\* or the last one: the pod is asked to commit, and the lock is released
\* before anything is checkpointed.
StartCommit(i, p) ==
    LET c == Decide(cell, i, "accepted")
    IN  /\ IsFirst(i, p)
        /\ cell.reviews[i] = "pending"
        /\ AllAccepted(c)
        /\ commits < MaxCommits
        /\ commits' = commits + 1
        /\ cell' = Turn(c, "accepted", "committing")
        /\ refresh' = FALSE
        /\ UNCHANGED <<durable, disk, writer, focus, edits, restarts, faults>>

\* RequestAgentCommit returns: the pod's receipt or error, or a disconnection.
Answered == commits > 0 /\ commits' = commits - 1

\* Shadows of another BASE than these files become stale.
Outdated(files) ==
    [s \in Ids |->
        IF /\ cell.shadows[s].status \in Unsettled
           /\ cell.shadows[s].base # TextOf(files, cell.shadows[s].path)
        THEN [cell.shadows[s] EXCEPT !.stale = TRUE]
        ELSE cell.shadows[s]]

\* Mutant: shadows are compared with the BASE that is being replaced.
CommitSucceedsOldBase ==
    /\ Answered
    /\ Decided([Turn(cell, "committing", "approved") EXCEPT
                   !.baseline = cell.files,
                   !.shadows = Outdated(cell.baseline)])

\* Mutant: the event is checkpointed before BASE moves.
CommitSucceedsEarly ==
    LET c == Turn(cell, "committing", "approved")
    IN  /\ Answered
        /\ cell' = [c EXCEPT !.baseline = cell.files,
                             !.shadows = Outdated(cell.files)]
        /\ Persist(c, TRUE)
        /\ refresh' = FALSE
        /\ UNCHANGED <<disk, writer, focus, edits, restarts, faults>>

\* The buffers of this moment become BASE, and shadows of another BASE stale.
CommitSucceeds ==
    /\ Answered
    /\ Decided([Turn(cell, "committing", "approved") EXCEPT
                   !.baseline = cell.files,
                   !.shadows = Outdated(cell.files)])

\* Mutant: only an error of the pod takes the reviews back, a timeout does not.
CommitFailsSilently ==
    /\ Answered
    /\ UNCHANGED <<cell, durable, disk, writer, focus, refresh,
                   edits, restarts, faults>>

\* The pod reports an error, disconnects, or takes two minutes.
CommitFails ==
    /\ Answered
    /\ Logged(Turn(cell, "committing", "pending"))
    /\ UNCHANGED <<disk, writer, focus, refresh, edits, restarts, faults>>

\* AcknowledgeReview (degraded evidence is acknowledged, no secret finding):
\* commit-ready again, whatever had blocked it.
AcknowledgeReview(i, p) ==
    /\ IsFirst(i, p)
    /\ Decided(Decide(cell, i, "pending"))
    /\ UNCHANGED commits

RejectReview(i, p) ==
    /\ IsFirst(i, p)
    /\ Decided(Decide(cell, i, "rejected"))
    /\ UNCHANGED commits

\* The timer of the last splice, unless the revision has moved on.
RefreshReviews ==
    /\ refresh
    /\ refresh' = FALSE
    /\ cell' = Reviewed(cell)
    /\ IF cell' = cell THEN UNCHANGED durable
       ELSE \E ok \in BOOLEAN : Persist(cell', ok)
    /\ UNCHANGED <<disk, writer, focus, commits, edits, restarts, faults>>

\* A heartbeat, a kernel event, a prompt checkpoints and moves the revision on.
RecordEvent ==
    /\ Logged(cell)
    /\ refresh' = FALSE
    /\ UNCHANGED <<disk, writer, focus, commits,
                   edits, restarts, faults>>

\* The control plane crashes and loads its checkpoint.
Restart ==
    /\ restarts + faults < MaxRestarts
    /\ restarts' = restarts + 1
    /\ cell' = saved
    /\ unsaved' = FALSE
    /\ disk' = [p \in Paths |-> IF saved.files[p] = Absent THEN disk[p]
                                ELSE saved.files[p]]
    /\ writer' = [p \in Paths |-> NoWriter]
    /\ focus' = [p \in Paths |-> {}]
    /\ refresh' = FALSE
    /\ commits' = 0
    /\ UNCHANGED <<saved, misses, edits, faults>>

-----------------------------------------------------------------------------
\* What changes the text of a path or is kept from doing so.
Edit(p) ==
    \/ \E h \in Humans, t \in Written, whole \in BOOLEAN,
          failed \in SUBSET Checkpoints :
          HumanEdit(h, p, t, whole, failed)
    \/ DeleteFile(p)
    \/ DiskDelete(p)
    \/ SecretEdit(p)
    \/ \E base \in Named, t \in Written \cup {Empty} :
          UncertainDisk(p, base, t)
    \/ \E t \in Written :
          \/ HumanEditFails(p, t)
          \/ AgentEditShadowed(p, t)
          \/ \E failed \in SUBSET {"event", "reviews"} :
                AgentEditLive(p, t, failed)
          \/ AgentEditFails(p, t)
          \/ UndoEdit(p, t)
          \/ UndoFails(p, t)

Cursor(p) ==
    \/ \E h \in Humans : FocusFile(h, p) \/ Blur(h, p)
    \/ FocusFails(p)
    \/ LeaseExpires(p)

Review(i, p) ==
    \/ ApproveEntity(i, p)
    \/ StartCommit(i, p)
    \/ AcknowledgeReview(i, p)
    \/ RejectReview(i, p)

ShadowDecision(s) ==
    \/ AdoptShadow(s)
    \/ AdoptFails(s)
    \/ \E t \in Written : MergeShadow(s, t) \/ MergeFails(s, t)
    \/ MergeConflicts(s)
    \/ DiscardShadow(s)

Next ==
    \/ \E p \in Edited :
          \/ Edit(p)
          \/ Cursor(p)
          \/ \E i \in Paths \cup Ids : Review(i, p)
    \/ \E s \in Ids :
          \/ ShadowDecision(s)
          \/ \E aged \in BOOLEAN : CollectShadowGarbage(s, aged)
    \/ CommitSucceeds
    \/ CommitFails
    \/ RefreshReviews
    \/ RecordEvent
    \/ Restart

Spec == Init /\ [][Next]_vars

-----------------------------------------------------------------------------
(* Properties.                                                             *)

\* Until a worktree write fails, the CRDT document, the file entry and the
\* worktree of a buffer hold the same text, across takeovers, undo, adoption,
\* merges and restarts (convergence_test.go).  An empty file may be missing
\* from the worktree: AgentEditShadowed enters it without writing it.
Converged ==
    faults = 0 => \A p \in Paths :
        /\ cell.docs[p] = cell.files[p]
        /\ cell.files[p] \notin {Absent, Empty} => disk[p] = cell.files[p]

\* A crash before any checkpoint has made good for the last one, which failed:
\* what that one was to save is lost.
Unlucky == unsaved /\ Restart

\* When the agent stops being the writer of text it put into a buffer
\* (takeOverAgentWriteLocked), that text is still live, or an open shadow keeps
\* it together with the text it had replaced; only an unlucky crash loses it.
TakeoverKeepsAgentText ==
    [][faults = 0 /\ ~Unlucky => \A p \in Paths :
          (/\ AgentWriting(p)
           /\ cell.files[p] \notin {Absent, writer[p].before}
           /\ writer'[p].who # Agent)
          => \/ cell'.files[p] = cell.files[p]
             \/ \E s \in Ids :
                   /\ cell'.shadows[s].status = "open"
                   /\ cell'.shadows[s].path = p
                   /\ cell'.shadows[s].after = cell.files[p]
                   /\ cell'.shadows[s].before = writer[p].before]_vars

\* An open shadow keeps its text until an operator resolves it or it has aged
\* fourteen days (CollectShadowGarbage): no other step takes it away, and of
\* the crashes only an unlucky one.
OpenShadowKept ==
    [][faults = 0 /\ ~Unlucky => \A s \in Ids : Open(s) =>
          \/ cell'.shadows[s].status \in {"adopted", "merged", "discarded"}
          \/ cell'.shadows[s] \in {cell.shadows[s],
                                   [cell.shadows[s] EXCEPT !.stale = TRUE]}
          \/ CollectShadowGarbage(s, TRUE)]_vars

\* Adoption needs no rebase only while BASE is the one the shadow was made
\* from: a shadow of another BASE is stale, however ApproveReview's commit
\* interleaved with the edit that made it.  (A base the sidecar supplied is
\* compared at the next commit.)
StaleMarked ==
    faults = 0 => \A s \in Ids :
        (Open(s) /\ ~cell.shadows[s].disk /\ ~cell.shadows[s].stale)
        => cell.shadows[s].base = Base(cell, cell.shadows[s].path)

\* Handlers checkpoint in the middle of their work, and StartCommit not at all;
\* yet a crash costs decisions on reviews at most, unless the last checkpoint
\* failed, which its handler passed over in silence (appendEventLocked), or a
\* worktree write has failed, whose event is never recorded.  A checkpoint that
\* succeeds makes good for all that failed before it, for persistLocked has
\* every text, BASE and every shadow of the record.
CrashKeepsWork ==
    faults = 0 /\ ~unsaved =>
        /\ saved.files = cell.files
        /\ saved.docs = cell.docs
        /\ saved.baseline = cell.baseline
        /\ saved.shadows = cell.shadows
        /\ saved.made = cell.made

\* Until a restart loses the call, a review is "committing" only while the pod
\* has a commit to answer, however edits and decisions overlap with it.
CommittingHasCommit ==
    restarts = 0 =>
        ((\E i \in Paths \cup Ids : cell.reviews[i] = "committing")
         => commits > 0)

\* "Adoption never destroys the human's live work" (store.go:478): the text in
\* the buffer before an adoption stays live or in an open shadow.
AdoptionKeepsLiveText ==
    [][\A s \in Ids : AdoptShadow(s) =>
          LET p == cell.shadows[s].path
          IN  \/ cell'.files[p] = cell.files[p]
              \/ \E n \in Ids : /\ cell'.shadows[n].status = "open"
                                /\ cell'.shadows[n].after = cell.files[p]]_vars
=============================================================================
