-------------------------- MODULE WorkspaceProofs --------------------------
(***************************************************************************)
(* Theorems about Workspace: the copies of a buffer agree, shadows of an   *)
(* older BASE are stale, what the agent wrote is kept when a human takes   *)
(* over, and an open shadow stays until it is resolved.                    *)
(***************************************************************************)
EXTENDS Workspace, TLAPS

\* An open shadow names a path, and if it is not stale its base is BASE;
\* shadows are made in order.
ShadowsOk(shadows, baseline, made) ==
    \A s \in Ids :
        /\ shadows[s].status # "none" => s <= made
        /\ shadows[s].status = "open" =>
              /\ shadows[s].path \in Paths
              /\ ~shadows[s].disk /\ ~shadows[s].stale
                     => shadows[s].base = TextOf(baseline, shadows[s].path)

\* A record of the right type whose shadows are in order.
WellFormed(c) == c \in Cell /\ ShadowsOk(c.shadows, c.baseline, c.made)

\* The CRDT documents and the file entries hold the same texts.
Aligned(c) == c.docs = c.files

\* The worktree has every file, but for empty ones.
Matches(c, d) == \A p \in Paths : c.files[p] \notin {Absent, Empty} => d[p] = c.files[p]

\* ... and if p is left out.
MatchesBut(c, d, p) ==
    \A q \in Paths \ {p} : c.files[q] \notin {Absent, Empty} => d[q] = c.files[q]

\* No review waits for the pod's commit.
NoneCommitting(c) == \A i \in Paths \cup Ids : c.reviews[i] # "committing"

\* The statuses a shadow is made with.
Unresolved == {"open", "blocked"}

\* A name for BOOLEAN: the provers keep its members apart from formulas.
Flag == BOOLEAN

\* A shadow as it is made.
Made(p, base, before, after, status, fromDisk) ==
    [path |-> p, base |-> base, before |-> before, after |-> after,
     disk |-> fromDisk, status |-> status, stale |-> FALSE]

\* Its base is BASE, unless it is the sidecar's or the shadow is not open.
Based(c, p, base, status, fromDisk) ==
    status = "open" /\ ~fromDisk => base = TextOf(c.baseline, p)

\* What a resolved shadow is reduced to.
Settled(c, s, status) ==
    [NoShadow EXCEPT !.path = c.shadows[s].path, !.status = status]

\* c2 differs from c in its reviews and its evidence only.
SameWork(c, c2) ==
    /\ c2.files = c.files /\ c2.docs = c.docs /\ c2.baseline = c.baseline
    /\ c2.shadows = c.shadows /\ c2.made = c.made

-----------------------------------------------------------------------------
(* What handlers do to a record.                                           *)

\* The types of the fields of a record.
LEMMA CellFields ==
    ASSUME NEW c \in Cell
    PROVE  /\ c.files \in [Paths -> Content] /\ c.docs \in [Paths -> Content]
           /\ c.baseline \in [Paths -> Content] /\ c.shadows \in [Ids -> Shadow]
           /\ c.made \in 0..MaxShadows
           /\ c.reviews \in [Paths \cup Ids -> ReviewStatus]
           /\ c.degraded \in Flag
BY DEF Cell, Flag

\* The text of a path is a text.
LEMMA TextOfType ==
    ASSUME NEW files \in [Paths -> Content], NEW p \in Paths
    PROVE  TextOf(files, p) \in Texts
BY WorkspaceAssumption DEF TextOf, Content

\* Writing a buffer changes its two copies.
LEMMA PutFields ==
    ASSUME NEW c \in Cell, NEW p \in Paths, NEW t \in Content
    PROVE  /\ Put(c, p, t) \in Cell
           /\ Put(c, p, t).files = [c.files EXCEPT ![p] = t]
           /\ Put(c, p, t).docs = [c.docs EXCEPT ![p] = t]
           /\ Put(c, p, t).baseline = c.baseline /\ Put(c, p, t).shadows = c.shadows
           /\ Put(c, p, t).made = c.made /\ Put(c, p, t).reviews = c.reviews
BY DEF Put, Cell

\* A shadow is the next one, and the rest stays.
LEMMA AddShadowFields ==
    ASSUME NEW c \in Cell, Room(c), NEW p \in Paths, NEW base \in Texts,
           NEW before \in Texts, NEW after \in Texts, NEW status \in Unresolved,
           NEW fromDisk \in Flag,
           NEW w, w = Made(p, base, before, after, status, fromDisk),
           NEW c2, c2 = AddShadow(c, p, base, before, after, status, fromDisk)
    PROVE  /\ c2 \in Cell
           /\ c2.shadows = [c.shadows EXCEPT ![c.made + 1] = w]
           /\ c2.made = c.made + 1 /\ c2.made \in Ids
           /\ c2.files = c.files /\ c2.docs = c.docs /\ c2.baseline = c.baseline
           /\ c2.reviews = c.reviews
<1>1. w \in Shadow
  BY DEF Shadow, Made, Unresolved, Flag
<1>2. c.made \in 0..MaxShadows /\ c.made + 1 \in 0..MaxShadows /\ c.made + 1 \in Ids
  BY WorkspaceAssumption DEF Cell, Room, Ids
<1>3. c2 = [c EXCEPT !.made = @ + 1, !.shadows[c.made + 1] = w]
  BY DEF AddShadow, Made
<1>4. [c.shadows EXCEPT ![c.made + 1] = w] \in [Ids -> Shadow]
  BY <1>1, CellFields
<1>5. c2 = [files |-> c.files, docs |-> c.docs, baseline |-> c.baseline,
            shadows |-> [c.shadows EXCEPT ![c.made + 1] = w],
            made |-> c.made + 1, reviews |-> c.reviews, degraded |-> c.degraded]
  BY <1>3 DEF Cell
<1>6. c2 \in Cell
  BY <1>2, <1>4, <1>5, CellFields DEF Cell, Flag
<1> QED BY <1>2, <1>5, <1>6

\* Reviews of paths and shadows say nothing of a commit.
LEMMA ReviewedFields ==
    ASSUME NEW c \in Cell
    PROVE  Reviewed(c) \in Cell /\ SameWork(c, Reviewed(c)) /\ NoneCommitting(Reviewed(c))
<1> DEFINE r == [i \in Paths \cup Ids |->
                    IF i \in Paths THEN PathReview(c, i) ELSE ShadowReview(c, i)]
<1>1. \A i : PathReview(c, i) \in {"none", "blocked", "pending"}
  BY DEF PathReview
<1>2. \A i : ShadowReview(c, i) \in {"none", "blocked"}
  BY DEF ShadowReview
<1>3. \A i \in Paths \cup Ids : r[i] \in {"none", "blocked", "pending"}
  BY <1>1, <1>2
<1>4. r \in [Paths \cup Ids -> ReviewStatus]
  BY <1>3 DEF ReviewStatus
<1>5. Reviewed(c) = [files |-> c.files, docs |-> c.docs, baseline |-> c.baseline,
                     shadows |-> c.shadows, made |-> c.made, reviews |-> r,
                     degraded |-> c.degraded]
  BY DEF Reviewed, Cell
<1> HIDE DEF r
<1> QED BY <1>3, <1>4, <1>5, CellFields DEF Cell, SameWork, NoneCommitting, Flag

\* A failed checkpoint leaves a mark in the record.
LEMMA NotedFields ==
    ASSUME NEW c \in Cell, NEW ok \in BOOLEAN
    PROVE  /\ Noted(c, ok) \in Cell /\ SameWork(c, Noted(c, ok))
           /\ Noted(c, ok).reviews = c.reviews
BY DEF Noted, Cell, SameWork

\* Resolving a shadow changes that shadow.
LEMMA ResolveFields ==
    ASSUME NEW c \in Cell, NEW s \in Ids,
           NEW status \in {"adopted", "merged", "discarded", "collected"}
    PROVE  /\ Resolve(c, s, status) \in Cell
           /\ Resolve(c, s, status).shadows
                  = [c.shadows EXCEPT ![s] = Settled(c, s, status)]
           /\ Resolve(c, s, status).files = c.files
           /\ Resolve(c, s, status).docs = c.docs
           /\ Resolve(c, s, status).baseline = c.baseline
           /\ Resolve(c, s, status).made = c.made
           /\ Resolve(c, s, status).reviews = c.reviews
<1> DEFINE w == Settled(c, s, status)
<1>1. w \in Shadow
  BY WorkspaceAssumption, CellFields DEF Shadow, NoShadow, Settled
<1>2. Resolve(c, s, status) =
          [files |-> c.files, docs |-> c.docs, baseline |-> c.baseline,
           shadows |-> [c.shadows EXCEPT ![s] = w], made |-> c.made, reviews |-> c.reviews,
           degraded |-> c.degraded]
  BY DEF Resolve, Cell, Settled
<1> HIDE DEF w
<1>3. [c.shadows EXCEPT ![s] = w] \in [Ids -> Shadow]
  BY <1>1, CellFields
<1> QED BY <1>2, <1>3, CellFields DEF Cell, w, Flag

\* Decisions change the reviews.
LEMMA DecideFields ==
    ASSUME NEW c \in Cell, NEW i \in Paths \cup Ids, NEW status \in ReviewStatus
    PROVE  /\ Decide(c, i, status) \in Cell /\ SameWork(c, Decide(c, i, status))
           /\ Decide(c, i, status).reviews = [c.reviews EXCEPT ![i] = status]
BY DEF Decide, Cell, SameWork

\* Turning reviews changes the reviews, and none is left that was turned.
LEMMA TurnFields ==
    ASSUME NEW c \in Cell, NEW from, NEW to \in ReviewStatus
    PROVE  /\ Turn(c, from, to) \in Cell /\ SameWork(c, Turn(c, from, to))
           /\ from = "committing" /\ to # from => NoneCommitting(Turn(c, from, to))
<1> DEFINE r == [i \in Paths \cup Ids |-> IF c.reviews[i] = from THEN to ELSE c.reviews[i]]
<1>1. Turn(c, from, to) = [files |-> c.files, docs |-> c.docs, baseline |-> c.baseline,
                           shadows |-> c.shadows, made |-> c.made, reviews |-> r,
                           degraded |-> c.degraded]
  BY DEF Turn, Cell
<1>2. r \in [Paths \cup Ids -> ReviewStatus]
  BY CellFields
<1>3. from = "committing" /\ to # from => \A i \in Paths \cup Ids : r[i] # "committing"
  OBVIOUS
<1> HIDE DEF r
<1> QED BY <1>1, <1>2, <1>3, CellFields DEF Cell, SameWork, NoneCommitting, Flag

-----------------------------------------------------------------------------
(* What they keep.                                                         *)

\* Records that differ in no work are as good as each other.
LEMMA SameWellFormed ==
    ASSUME NEW c, NEW c2 \in Cell, WellFormed(c), SameWork(c, c2)
    PROVE  /\ WellFormed(c2)
           /\ Aligned(c) => Aligned(c2)
           /\ \A d : Matches(c, d) => Matches(c2, d)
BY DEF WellFormed, SameWork, Aligned, Matches

\* Writing a buffer keeps its copies together; the worktree has to follow.
LEMMA PutKeeps ==
    ASSUME NEW c, WellFormed(c), NEW p \in Paths, NEW t \in Content
    PROVE  /\ WellFormed(Put(c, p, t))
           /\ Aligned(c) => Aligned(Put(c, p, t))
           /\ \A d : Matches(c, d) /\ d[p] = t => Matches(Put(c, p, t), d)
           /\ \A d \in [Paths -> Content] : MatchesBut(c, d, p) =>
                 Matches(Put(c, p, t), [d EXCEPT ![p] = t])
           /\ \A d : Matches(c, d) /\ t \in {Absent, Empty} => Matches(Put(c, p, t), d)
<1> DEFINE c2 == Put(c, p, t)
<1>1. /\ c2 \in Cell /\ c2.files = [c.files EXCEPT ![p] = t]
      /\ c2.docs = [c.docs EXCEPT ![p] = t]
      /\ c2.baseline = c.baseline /\ c2.shadows = c.shadows /\ c2.made = c.made
  BY PutFields DEF WellFormed
<1>2. c.files \in [Paths -> Content]
  BY CellFields DEF WellFormed
<1> HIDE DEF c2
<1>3. WellFormed(c2)
  BY <1>1 DEF WellFormed
<1>4. Aligned(c) => Aligned(c2)
  BY <1>1 DEF Aligned
<1>5. \A q \in Paths : c2.files[q] = IF q = p THEN t ELSE c.files[q]
  BY <1>1, <1>2
<1>6. \A d : Matches(c, d) /\ (d[p] = t \/ t \in {Absent, Empty}) => Matches(c2, d)
  BY <1>5 DEF Matches
<1>7. ASSUME NEW d \in [Paths -> Content], MatchesBut(c, d, p)
      PROVE  Matches(c2, [d EXCEPT ![p] = t])
  BY <1>5, <1>7 DEF Matches, MatchesBut
<1> QED BY <1>3, <1>4, <1>6, <1>7 DEF c2

\* Creating a file enters it empty, which the worktree need not show.
LEMMA CreateKeeps ==
    ASSUME NEW c, WellFormed(c), NEW p \in Paths
    PROVE  LET c2 == Create(c, p)
           IN  /\ WellFormed(c2) /\ c2.baseline = c.baseline /\ c2.shadows = c.shadows
               /\ c2.made = c.made /\ c2.files[p] \in Texts
               /\ Aligned(c) => Aligned(c2)
               /\ \A d : Matches(c, d) => Matches(c2, d)
<1>1. CASE c.files[p] = Absent
  <2>1. Create(c, p) = Put(c, p, Empty) /\ Empty \in Content
    BY <1>1, WorkspaceAssumption DEF Create, Content
  <2>2. c \in Cell /\ c.files \in [Paths -> Content]
    BY CellFields DEF WellFormed
  <2>3. Put(c, p, Empty).files[p] = Empty
    <3>1. Put(c, p, Empty).files = [c.files EXCEPT ![p] = Empty]
      BY <2>1, <2>2, PutFields
    <3> QED BY <2>2, <3>1
  <2>4. /\ WellFormed(Put(c, p, Empty))
        /\ Aligned(c) => Aligned(Put(c, p, Empty))
        /\ \A d : Matches(c, d) => Matches(Put(c, p, Empty), d)
    BY <2>1, PutKeeps
  <2>5. /\ Put(c, p, Empty).baseline = c.baseline /\ Put(c, p, Empty).shadows = c.shadows
        /\ Put(c, p, Empty).made = c.made
    BY <2>1, <2>2, PutFields
  <2> QED BY <2>1, <2>3, <2>4, <2>5, WorkspaceAssumption
<1>2. CASE c.files[p] # Absent
  <2>1. c.files[p] \in Texts
    BY <1>2, CellFields DEF WellFormed, Content
  <2> QED BY <1>2, <2>1 DEF Create
<1> QED BY <1>1, <1>2

\* A new shadow keeps the record well formed if its base is BASE.
LEMMA AddShadowKeeps ==
    ASSUME NEW c, WellFormed(c), Room(c), NEW p \in Paths, NEW base \in Texts,
           NEW before \in Texts, NEW after \in Texts, NEW status \in Unresolved,
           NEW fromDisk \in Flag, Based(c, p, base, status, fromDisk)
    PROVE  LET c2 == AddShadow(c, p, base, before, after, status, fromDisk)
           IN  /\ WellFormed(c2)
               /\ Aligned(c) => Aligned(c2)
               /\ \A d : Matches(c, d) => Matches(c2, d)
               /\ c2.files = c.files /\ c2.docs = c.docs /\ c2.baseline = c.baseline
               /\ c2.reviews = c.reviews /\ c.made + 1 \in Ids
               /\ c2.shadows = [c.shadows EXCEPT ![c.made + 1] =
                                    Made(p, base, before, after, status, fromDisk)]
<1>1. c \in Cell /\ c.shadows \in [Ids -> Shadow]
  BY CellFields DEF WellFormed
<1>2. PICK c2 : c2 = AddShadow(c, p, base, before, after, status, fromDisk)
  OBVIOUS
<1>3. PICK w : w = Made(p, base, before, after, status, fromDisk)
  OBVIOUS
<1>4. /\ c2 \in Cell /\ c2.shadows = [c.shadows EXCEPT ![c.made + 1] = w]
      /\ c2.files = c.files /\ c2.docs = c.docs /\ c2.baseline = c.baseline
      /\ c2.reviews = c.reviews /\ c2.made = c.made + 1 /\ c2.made \in Ids
  BY <1>1, <1>2, <1>3, AddShadowFields
<1>5. /\ w.status = status /\ w.path = p /\ w.base = base /\ w.disk = fromDisk
  BY <1>3 DEF Made
<1>6. \A s \in Ids : c2.shadows[s] = IF s = c.made + 1 THEN w ELSE c.shadows[s]
  BY <1>1, <1>4
<1>7. ShadowsOk(c2.shadows, c2.baseline, c2.made)
  <2>1. \A s \in Ids : s \in Int /\ c.made \in Int
    BY <1>1, CellFields DEF Ids
  <2>2. \A s \in Ids : c2.shadows[s].status # "none" => s <= c2.made
    BY <1>4, <1>6, <2>1 DEF ShadowsOk, WellFormed
  <2> QED BY <1>4, <1>5, <1>6, <2>2 DEF ShadowsOk, WellFormed, Based
<1>8. WellFormed(c2) /\ (Aligned(c) => Aligned(c2))
      /\ \A d : Matches(c, d) => Matches(c2, d)
  BY <1>4, <1>7 DEF WellFormed, Aligned, Matches
<1> QED BY <1>2, <1>3, <1>4, <1>8

\* A shadow that was made may be resolved.
LEMMA ResolveKeeps ==
    ASSUME NEW c, WellFormed(c), NEW s \in Ids, c.shadows[s].status # "none",
           NEW status \in {"adopted", "merged", "discarded", "collected"}
    PROVE  LET c2 == Resolve(c, s, status)
           IN  /\ WellFormed(c2)
               /\ Aligned(c) => Aligned(c2)
               /\ \A d : Matches(c, d) => Matches(c2, d)
<1>1. c \in Cell /\ c.shadows \in [Ids -> Shadow]
  BY CellFields DEF WellFormed
<1>2. PICK c2 : c2 = Resolve(c, s, status)
  OBVIOUS
<1>3. PICK w : w = Settled(c, s, status)
  OBVIOUS
<1>4. /\ c2 \in Cell /\ c2.shadows = [c.shadows EXCEPT ![s] = w]
      /\ c2.files = c.files /\ c2.docs = c.docs /\ c2.baseline = c.baseline
      /\ c2.made = c.made
  <2>1. Resolve(c, s, status) \in Cell
    BY <1>1, ResolveFields
  <2>2. Resolve(c, s, status).shadows = [c.shadows EXCEPT ![s] = Settled(c, s, status)]
    BY <1>1, ResolveFields
  <2>3. /\ Resolve(c, s, status).files = c.files /\ Resolve(c, s, status).docs = c.docs
        /\ Resolve(c, s, status).baseline = c.baseline
        /\ Resolve(c, s, status).made = c.made
    BY <1>1 DEF Resolve, Cell
  <2> QED BY <1>2, <1>3, <2>1, <2>2, <2>3
<1>5. w.status # "open"
  BY <1>3 DEF NoShadow, Settled
<1>6. \A r \in Ids : c2.shadows[r] = IF r = s THEN w ELSE c.shadows[r]
  BY <1>1, <1>4
<1>7. ShadowsOk(c2.shadows, c2.baseline, c2.made)
  BY <1>4, <1>5, <1>6 DEF ShadowsOk, WellFormed
<1>8. /\ WellFormed(c2)
      /\ Aligned(c) => Aligned(c2)
      /\ \A d : Matches(c, d) => Matches(c2, d)
  BY <1>4, <1>7 DEF WellFormed, Aligned, Matches
<1> QED BY <1>2, <1>8, Zenon

\* Regenerating reviews changes nothing else.
LEMMA ReviewedKeeps ==
    ASSUME NEW c, WellFormed(c)
    PROVE  /\ WellFormed(Reviewed(c)) /\ SameWork(c, Reviewed(c))
           /\ NoneCommitting(Reviewed(c))
           /\ Aligned(c) => Aligned(Reviewed(c))
           /\ \A d : Matches(c, d) => Matches(Reviewed(c), d)
<1>1. Reviewed(c) \in Cell /\ SameWork(c, Reviewed(c)) /\ NoneCommitting(Reviewed(c))
  BY ReviewedFields DEF WellFormed
<1> QED BY <1>1, SameWellFormed

\* Nor does what comes of recording an event.
LEMMA NotedKeeps ==
    ASSUME NEW c, WellFormed(c), NEW ok \in BOOLEAN
    PROVE  /\ WellFormed(Noted(c, ok)) /\ SameWork(c, Noted(c, ok))
           /\ Noted(c, ok).reviews = c.reviews
           /\ WellFormed(Reviewed(Noted(c, ok)))
           /\ SameWork(c, Reviewed(Noted(c, ok)))
           /\ NoneCommitting(Reviewed(Noted(c, ok)))
<1>1. PICK c2 : c2 = Noted(c, ok)
  OBVIOUS
<1>2. c2 \in Cell /\ SameWork(c, c2) /\ c2.reviews = c.reviews
  BY <1>1, NotedFields DEF WellFormed
<1>3. WellFormed(c2)
  BY <1>2, SameWellFormed
<1>4. WellFormed(Reviewed(c2)) /\ SameWork(c2, Reviewed(c2)) /\ NoneCommitting(Reviewed(c2))
  BY <1>3, ReviewedKeeps
<1>5. SameWork(c, Reviewed(c2))
  BY <1>2, <1>4 DEF SameWork
<1> QED BY <1>1, <1>2, <1>3, <1>4, <1>5

-----------------------------------------------------------------------------
(* Taking over.                                                            *)

\* The map of writers.
WriterType == [Paths -> [who : Actors \cup {Nobody}, before : Texts]]

\* The agent's text becomes an open shadow whose base is BASE.
LEMMA PreservedKeeps ==
    ASSUME writer \in WriterType, NEW c, WellFormed(c), Room(c),
           NEW p \in Paths, c.files[p] \in Texts
    PROVE  /\ WellFormed(Preserved(c, p))
           /\ Preserved(c, p).files = c.files /\ Preserved(c, p).docs = c.docs
           /\ Preserved(c, p).reviews = c.reviews
           /\ c.made + 1 \in Ids
           /\ Preserved(c, p).shadows =
                 [c.shadows EXCEPT ![c.made + 1] =
                     Made(p, Base(c, p), writer[p].before, c.files[p], "open", FALSE)]
<1>1. c \in Cell /\ c.baseline \in [Paths -> Content]
  BY CellFields DEF WellFormed
<1>2. Base(c, p) \in Texts /\ Base(c, p) = TextOf(c.baseline, p)
  BY <1>1, TextOfType DEF Base
<1>3. writer[p].before \in Texts
  BY DEF WriterType
<1>4. PICK base \in Texts : base = Base(c, p)
  BY <1>2
<1>5. PICK before \in Texts : before = writer[p].before
  BY <1>3
<1>6. PICK after \in Texts : after = c.files[p]
  OBVIOUS
<1>7. PICK c2 : c2 = AddShadow(c, p, base, before, after, "open", FALSE)
  OBVIOUS
<1>8. PICK w : w = Made(p, base, before, after, "open", FALSE)
  OBVIOUS
<1>9. /\ WellFormed(c2) /\ c2.files = c.files /\ c2.docs = c.docs
      /\ c2.reviews = c.reviews /\ c.made + 1 \in Ids
      /\ c2.shadows = [c.shadows EXCEPT ![c.made + 1] = w]
  <2>1. "open" \in Unresolved
    BY DEF Unresolved
  <2>2. FALSE \in BOOLEAN /\ base = TextOf(c.baseline, p)
    BY <1>2, <1>4
  <2>3. PICK status \in Unresolved : status = "open"
    BY <2>1
  <2>4. PICK fromDisk \in Flag : fromDisk = FALSE
    BY DEF Flag
  <2>5. /\ c2 = AddShadow(c, p, base, before, after, status, fromDisk)
        /\ w = Made(p, base, before, after, status, fromDisk)
    BY <1>7, <1>8, <2>3, <2>4
  <2>6. Based(c, p, base, status, fromDisk)
    BY <2>2 DEF Based
  <2> QED BY <2>5, <2>6, AddShadowKeeps
<1>10. Preserved(c, p) = c2
  BY <1>4, <1>5, <1>6, <1>7 DEF Preserved
<1>11. w = Made(p, Base(c, p), writer[p].before, c.files[p], "open", FALSE)
  BY <1>4, <1>5, <1>6, <1>8
<1> QED BY <1>9, <1>10, <1>11

\* ... and the buffer goes back to the text before the agent's lease.
LEMMA RestoredKeeps ==
    ASSUME writer \in WriterType, NEW c, WellFormed(c), Room(c),
           NEW p \in Paths, c.files[p] \in Texts
    PROVE  /\ WellFormed(Restored(c, p))
           /\ Aligned(c) => Aligned(Restored(c, p))
           /\ \A d \in [Paths -> Content] : MatchesBut(c, d, p) =>
                 Matches(Restored(c, p), [d EXCEPT ![p] = writer[p].before])
           /\ \A d : MatchesBut(c, d, p) => MatchesBut(Restored(c, p), d, p)
           /\ Restored(c, p).reviews = c.reviews
           /\ Restored(c, p).files = [c.files EXCEPT ![p] = writer[p].before]
           /\ Restored(c, p).shadows = Preserved(c, p).shadows
<1>1. PICK t \in Texts : t = writer[p].before
  BY DEF WriterType
<1>2. PICK c1 : c1 = Preserved(c, p)
  OBVIOUS
<1>3. Restored(c, p) = Put(c1, p, t) /\ t \in Content
  BY <1>1, <1>2 DEF Restored, Content
<1>4. /\ WellFormed(c1) /\ c1.files = c.files /\ c1.docs = c.docs
      /\ c1.reviews = c.reviews
  BY <1>2, PreservedKeeps
<1>5. /\ WellFormed(Put(c1, p, t))
      /\ Aligned(c1) => Aligned(Put(c1, p, t))
      /\ \A d \in [Paths -> Content] : MatchesBut(c1, d, p) =>
            Matches(Put(c1, p, t), [d EXCEPT ![p] = t])
  BY <1>3, <1>4, PutKeeps
<1>6. /\ Put(c1, p, t).files = [c1.files EXCEPT ![p] = t]
      /\ Put(c1, p, t).shadows = c1.shadows /\ Put(c1, p, t).reviews = c1.reviews
  <2>1. c1 \in Cell
    BY <1>4 DEF WellFormed
  <2> QED BY <1>3, <2>1, PutFields, Zenon
<1>7. c.files \in [Paths -> Content]
  BY CellFields DEF WellFormed
<1>8. ASSUME NEW d, MatchesBut(c, d, p)
      PROVE  MatchesBut(Put(c1, p, t), d, p)
  BY <1>4, <1>6, <1>7, <1>8 DEF MatchesBut
<1>9. Aligned(c) => Aligned(c1)
  BY <1>4 DEF Aligned
<1>10. ASSUME NEW d \in [Paths -> Content], MatchesBut(c, d, p)
       PROVE  Matches(Put(c1, p, t), [d EXCEPT ![p] = t])
  BY <1>4, <1>5, <1>10 DEF MatchesBut
<1> QED BY <1>1, <1>2, <1>3, <1>4, <1>5, <1>6, <1>8, <1>9, <1>10

\* The takeover of a buffer, or nothing if the agent changed nothing.
LEMMA TakenOverKeeps ==
    ASSUME writer \in WriterType, NEW c, WellFormed(c), NEW p \in Paths,
           Displaced(c, p) => Room(c), c.files[p] \in Texts, NEW ok \in BOOLEAN
    PROVE  /\ WellFormed(TakenOver(c, p, ok))
           /\ Aligned(c) => Aligned(TakenOver(c, p, ok))
           /\ \A d : Matches(c, d) => MatchesBut(TakenOver(c, p, ok), d, p)
<1>1. \A d : Matches(c, d) => MatchesBut(c, d, p)
  BY DEF Matches, MatchesBut
<1>2. CASE ~Displaced(c, p)
  BY <1>1, <1>2 DEF TakenOver
<1>3. CASE Displaced(c, p)
  <2>1. PICK c1 : c1 = Restored(c, p)
    OBVIOUS
  <2>2. WellFormed(c1) /\ (Aligned(c) => Aligned(c1))
        /\ \A d : MatchesBut(c, d, p) => MatchesBut(c1, d, p)
    BY <1>3, <2>1, RestoredKeeps
  <2>3. PICK c2 : c2 = Reviewed(Noted(c1, ok))
    OBVIOUS
  <2>4. WellFormed(c2) /\ SameWork(c1, c2)
    BY <2>2, <2>3, NotedKeeps
  <2>5. /\ Aligned(c1) => Aligned(c2)
        /\ \A d : MatchesBut(c1, d, p) => MatchesBut(c2, d, p)
    BY <2>4 DEF SameWork, Aligned, MatchesBut
  <2>6. TakenOver(c, p, ok) = c2
    BY <1>3, <2>1, <2>3 DEF TakenOver
  <2> QED BY <1>1, <2>2, <2>4, <2>5, <2>6
<1> QED BY <1>2, <1>3

-----------------------------------------------------------------------------
(* The invariant, and what an action has to show.                          *)

\* The types of everything but the record and its checkpoint.
RestType ==
    /\ unsaved \in BOOLEAN
    /\ misses \in Nat
    /\ disk \in [Paths -> Content]
    /\ writer \in WriterType
    /\ focus \in [Paths -> SUBSET Humans]
    /\ refresh \in BOOLEAN
    /\ commits \in 0..MaxCommits
    /\ edits \in 0..MaxEdits
    /\ restarts \in Nat
    /\ faults \in Nat

\* A checkpoint is whole, though it may be an old one; the last one, if it did
\* not fail, lacks at most the reviews.
WorkInv ==
    /\ WellFormed(cell) /\ WellFormed(saved)
    /\ faults = 0 => Aligned(cell) /\ Matches(cell, disk) /\ Aligned(saved)
    /\ faults = 0 /\ ~unsaved => SameWork(saved, cell)

\* The inductive invariant.
WorkspaceInv == RestType /\ WorkInv /\ CommittingHasCommit

\* Why a step leaves no review "committing" without a commit.
CommitsKept ==
    \/ restarts' > 0
    \/ commits' > 0
    \/ NoneCommitting(cell')
    \/ /\ commits' = commits /\ restarts' = restarts
       /\ \A i \in Paths \cup Ids :
             cell'.reviews[i] = "committing" => cell.reviews[i] = "committing"

\* What each action has to show.
Good == RestType' /\ WorkInv' /\ CommitsKept

\* The types that the invariant gives.
LEMMA InvTypes ==
    ASSUME RestType, WorkInv
    PROVE  /\ cell \in Cell /\ saved \in Cell
           /\ WellFormed(cell) /\ WellFormed(saved)
           /\ cell.files \in [Paths -> Content] /\ cell.docs \in [Paths -> Content]
           /\ cell.baseline \in [Paths -> Content] /\ cell.shadows \in [Ids -> Shadow]
           /\ cell.reviews \in [Paths \cup Ids -> ReviewStatus]
           /\ disk \in [Paths -> Content] /\ writer \in WriterType
           /\ restarts \in Nat /\ faults \in Nat /\ commits \in Nat /\ edits \in Nat
<1>1. cell \in Cell /\ saved \in Cell /\ WellFormed(cell) /\ WellFormed(saved)
  BY DEF WorkInv, WellFormed
<1>2. /\ cell.files \in [Paths -> Content] /\ cell.docs \in [Paths -> Content]
      /\ cell.baseline \in [Paths -> Content] /\ cell.shadows \in [Ids -> Shadow]
      /\ cell.reviews \in [Paths \cup Ids -> ReviewStatus]
  BY <1>1, CellFields
<1>3. commits \in Nat /\ edits \in Nat
  BY WorkspaceAssumption DEF RestType
<1> QED BY <1>1, <1>2, <1>3 DEF RestType

\* What the checkpoints of a handler leave on disk: the work of c, or, if the
\* last of them failed, that of an earlier record.
Checkpointed(c) ==
    \/ saved' \in Cell /\ SameWork(c, saved')
    \/ /\ WellFormed(saved') /\ unsaved' = TRUE
       /\ faults = 0 => Aligned(saved')

\* The types of what a checkpoint leaves in memory.
CountType == unsaved' \in BOOLEAN /\ misses' \in Nat

\* What a handler that records c has done to the record.
Passed(c) == cell' \in Cell /\ SameWork(c, cell') /\ Checkpointed(c) /\ CountType

\* A checkpoint is written or is not.
LEMMA PersistKeeps ==
    ASSUME RestType, WorkInv, NEW c, WellFormed(c), NEW ok \in BOOLEAN, Persist(c, ok)
    PROVE  Checkpointed(c) /\ CountType
<1>1. misses' \in Nat /\ unsaved' = ~ok
  BY DEF Persist, Attempt, RestType
<1>2. CASE ok
  BY <1>1, <1>2 DEF Persist, Checkpointed, CountType, SameWork, WellFormed
<1>3. CASE ~ok
  BY <1>1, <1>3 DEF Persist, Checkpointed, CountType, WorkInv
<1> QED BY <1>2, <1>3

\* An event is recorded, and reviews may be regenerated after it.
LEMMA LoggedKeeps ==
    ASSUME RestType, WorkInv, NEW c, WellFormed(c), Logged(c) \/ Reported(c)
    PROVE  /\ Passed(c)
           /\ Logged(c) => cell'.reviews = c.reviews
           /\ Reported(c) => NoneCommitting(cell') /\ refresh' = FALSE
<1>1. ASSUME Logged(c)
      PROVE  Passed(c) /\ cell'.reviews = c.reviews
  <2>1. PICK ok \in BOOLEAN : Persist(c, ok) /\ cell' = Noted(c, ok)
    BY <1>1 DEF Logged
  <2>2. WellFormed(cell') /\ SameWork(c, cell') /\ cell'.reviews = c.reviews
    BY <2>1, NotedKeeps
  <2> QED BY <2>1, <2>2, PersistKeeps DEF Passed, WellFormed
<1>2. ASSUME Reported(c)
      PROVE  Passed(c) /\ NoneCommitting(cell') /\ refresh' = FALSE
  <2>1. PICK ok \in BOOLEAN : Persist(c, ok) /\ cell' = Reviewed(Noted(c, ok))
    BY <1>2 DEF Reported
  <2>2. WellFormed(cell') /\ SameWork(c, cell') /\ NoneCommitting(cell')
    BY <2>1, NotedKeeps
  <2>3. refresh' = FALSE
    BY <1>2 DEF Reported
  <2> QED BY <2>1, <2>2, <2>3, PersistKeeps DEF Passed, WellFormed
<1> QED BY <1>1, <1>2

\* The checkpoints of one edit.
LEMMA EditRecordedKeeps ==
    ASSUME RestType, WorkInv, NEW c, WellFormed(c), NEW was, WellFormed(was),
           faults = 0 => Aligned(was), NEW whole \in BOOLEAN, NEW failed,
           EditRecorded(c, whole, failed, was)
    PROVE  /\ Passed(c)
           /\ NoneCommitting(cell') \/ cell'.reviews = c.reviews
<1>1. PICK ok \in BOOLEAN : ok = ("event" \notin failed)
  OBVIOUS
<1>2. PICK c2 : c2 = Noted(c, ok)
  OBVIOUS
<1>3. /\ cell' = IF whole THEN Reviewed(c2) ELSE c2
      /\ saved' = IF whole /\ "reviews" \notin failed THEN cell'
                  ELSE IF ok THEN c ELSE was
      /\ unsaved' = ((IF whole THEN "reviews" ELSE "event") \in failed)
      /\ Attempt(failed = {})
  <2>1. CASE "event" \in failed
    BY <1>1, <1>2, <2>1 DEF EditRecorded, Noted
  <2>2. CASE "event" \notin failed
    BY <1>1, <1>2, <2>2 DEF EditRecorded, Noted
  <2> QED BY <2>1, <2>2
<1>4. /\ WellFormed(cell') /\ SameWork(c, cell')
      /\ NoneCommitting(cell') \/ cell'.reviews = c.reviews
  BY <1>2, <1>3, NotedKeeps
<1>5. CountType
  BY <1>3 DEF CountType, Attempt, RestType
<1>6. Checkpointed(c)
  <2>1. CASE saved' = cell' \/ saved' = c
    BY <1>4, <2>1 DEF Checkpointed, WellFormed, SameWork
  <2>2. CASE ~(saved' = cell' \/ saved' = c)
    <3>1. saved' = was /\ "event" \in failed /\ (whole => "reviews" \in failed)
      BY <1>1, <1>3, <2>2
    <3>2. unsaved' = TRUE
      BY <1>3, <3>1
    <3> QED BY <3>1, <3>2 DEF Checkpointed
  <2> QED BY <2>1, <2>2
<1> QED BY <1>4, <1>5, <1>6 DEF Passed, WellFormed

\* A handler that records c keeps the invariant.
LEMMA Recorded ==
    ASSUME faults' = faults, NEW c, WellFormed(c),
           faults = 0 => Aligned(c) /\ Matches(c, disk'), Passed(c)
    PROVE  WorkInv'
<1>1. /\ WellFormed(cell') /\ (Aligned(c) => Aligned(cell'))
      /\ Matches(c, disk') => Matches(cell', disk')
  BY SameWellFormed DEF Passed
<1>2. CASE saved' \in Cell /\ SameWork(c, saved')
  <2>1. WellFormed(saved') /\ (Aligned(c) => Aligned(saved'))
    BY <1>2, SameWellFormed
  <2>2. SameWork(saved', cell')
    BY <1>2 DEF Passed, SameWork
  <2> QED BY <1>1, <2>1, <2>2 DEF WorkInv
<1>3. CASE ~(saved' \in Cell /\ SameWork(c, saved'))
  BY <1>1, <1>3 DEF Passed, Checkpointed, WorkInv
<1> QED BY <1>2, <1>3

\* A handler whose write of the worktree failed.
LEMMA Failed ==
    ASSUME faults \in Nat, faults' = faults + 1, WellFormed(cell'), WellFormed(saved')
    PROVE  WorkInv'
<1>1. faults' # 0
  OBVIOUS
<1> QED BY <1>1 DEF WorkInv

\* A handler that leaves the record alone.
LEMMA Untouched ==
    ASSUME WorkInv, UNCHANGED <<cell, durable, disk, faults>>
    PROVE  WorkInv'
BY DEF WorkInv, durable

-----------------------------------------------------------------------------
(* Cursors.                                                                *)

\* A cursor that enters the path may take it over.
LEMMA FocusGood ==
    ASSUME RestType, WorkInv, NEW h \in Humans, NEW p \in Paths, FocusFile(h, p)
    PROVE  Good
<1>1. /\ WellFormed(cell) /\ disk \in [Paths -> Content] /\ writer \in WriterType
      /\ cell.files \in [Paths -> Content]
  BY InvTypes
<1>2. /\ focus' \in [Paths -> SUBSET Humans]
      /\ UNCHANGED <<commits, edits, restarts, faults>>
  BY DEF FocusFile, RestType
<1>3. CASE AgentWriting(p) /\ Displaced(cell, p)
  <2>1. /\ Reported(Restored(cell, p))
        /\ disk' = [disk EXCEPT ![p] = writer[p].before]
        /\ writer' = [writer EXCEPT ![p] = NoWriter]
        /\ Room(cell) /\ cell.files[p] \in Texts
    BY <1>1, <1>3 DEF FocusFile, Content
  <2>2. PICK c : c = Restored(cell, p)
    OBVIOUS
  <2>3. /\ WellFormed(c) /\ (Aligned(cell) => Aligned(c))
        /\ MatchesBut(cell, disk, p) => Matches(c, disk')
    BY <1>1, <2>1, <2>2, RestoredKeeps
  <2>4. Matches(cell, disk) => MatchesBut(cell, disk, p)
    BY DEF Matches, MatchesBut
  <2>5. WorkInv' /\ CountType
    <3>1. Passed(c)
      BY <2>1, <2>2, <2>3, LoggedKeeps
    <3>2. faults = 0 => Aligned(c) /\ Matches(c, disk')
      BY <2>3, <2>4 DEF WorkInv
    <3> QED BY <1>2, <2>3, <3>1, <3>2, Recorded DEF Passed
  <2>6. NoneCommitting(cell') /\ refresh' = FALSE
    BY <2>1, <2>2, <2>3, LoggedKeeps
  <2>7. writer[p].before \in Texts /\ NoWriter \in [who : Actors \cup {Nobody}, before : Texts]
    BY <1>1, WorkspaceAssumption DEF WriterType, NoWriter
  <2>8. disk' \in [Paths -> Content] /\ writer' \in WriterType
    BY <1>1, <2>1, <2>7 DEF WriterType, Content
  <2>9. RestType'
    BY <1>2, <2>5, <2>6, <2>8 DEF RestType, CountType
  <2> QED BY <2>5, <2>6, <2>9 DEF Good, CommitsKept
<1>4. CASE ~(AgentWriting(p) /\ Displaced(cell, p))
  <2>1. /\ UNCHANGED <<cell, durable, disk, refresh>>
        /\ writer' \in {writer, [writer EXCEPT ![p] = NoWriter]}
    BY <1>4 DEF FocusFile
  <2>2. NoWriter \in [who : Actors \cup {Nobody}, before : Texts]
    BY WorkspaceAssumption DEF NoWriter
  <2>3. writer' \in WriterType
    BY <1>1, <2>1, <2>2 DEF WriterType
  <2>4. RestType'
    BY <1>2, <2>1, <2>3 DEF RestType, durable
  <2>5. WorkInv'
    BY <1>2, <2>1, Untouched
  <2> QED BY <1>2, <2>1, <2>4, <2>5 DEF Good, CommitsKept
<1> QED BY <1>3, <1>4

\* The shadow and the document are changed, and the file is not.
LEMMA FocusFailsGood ==
    ASSUME RestType, WorkInv, NEW p \in Paths, FocusFails(p)
    PROVE  Good
<1>1. /\ WellFormed(cell) /\ writer \in WriterType /\ cell.files \in [Paths -> Content]
      /\ WellFormed(saved) /\ faults \in Nat
  BY InvTypes
<1>2. /\ Room(cell) /\ cell.files[p] \in Texts /\ cell' = HalfRestored(cell, p)
      /\ faults' = faults + 1
      /\ UNCHANGED <<durable, disk, writer, focus, refresh, commits, edits, restarts>>
  BY <1>1 DEF FocusFails, Content
<1>3. PICK c : c = Preserved(cell, p)
  OBVIOUS
<1>4. WellFormed(c) /\ c.reviews = cell.reviews
  BY <1>1, <1>2, <1>3, PreservedKeeps
<1>5. PICK t \in Content : t = writer[p].before
  BY <1>1 DEF WriterType, Content
<1>6. cell' = [c EXCEPT !.docs[p] = t]
  BY <1>2, <1>3, <1>5 DEF HalfRestored
<1>7. cell' \in Cell /\ cell'.shadows = c.shadows /\ cell'.baseline = c.baseline
      /\ cell'.reviews = c.reviews /\ cell'.made = c.made
  BY <1>4, <1>6 DEF WellFormed, Cell
<1>8. WellFormed(cell')
  BY <1>4, <1>7 DEF WellFormed
<1>9. WorkInv'
  BY <1>1, <1>2, <1>8, Failed DEF durable
<1>10. RestType'
  BY <1>1, <1>2 DEF RestType, durable
<1> QED BY <1>2, <1>4, <1>7, <1>9, <1>10 DEF Good, CommitsKept

\* Every action about cursors and leases.
LEMMA CursorGood ==
    ASSUME RestType, WorkInv, NEW p \in Paths, Cursor(p)
    PROVE  Good
<1>1. ASSUME NEW h \in Humans, Blur(h, p)
      PROVE  Good
  <2>1. /\ focus' \in [Paths -> SUBSET Humans]
        /\ UNCHANGED <<cell, durable, disk, writer, refresh, commits, edits, restarts, faults>>
    BY <1>1 DEF Blur, RestType
  <2>2. RestType' /\ WorkInv'
    BY <2>1, Untouched DEF RestType, durable
  <2> QED BY <2>1, <2>2 DEF Good, CommitsKept
<1>2. CASE LeaseExpires(p)
  <2>1. /\ writer' = [writer EXCEPT ![p] = NoWriter]
        /\ UNCHANGED <<cell, durable, disk, focus, refresh, commits, edits, restarts, faults>>
    BY <1>2 DEF LeaseExpires
  <2>2. NoWriter \in [who : Actors \cup {Nobody}, before : Texts]
    BY WorkspaceAssumption DEF NoWriter
  <2>3. writer' \in WriterType
    BY <2>1, <2>2 DEF RestType, WriterType
  <2>4. RestType' /\ WorkInv'
    BY <2>1, <2>3, Untouched DEF RestType, durable
  <2> QED BY <2>1, <2>4 DEF Good, CommitsKept
<1> QED BY <1>1, <1>2, FocusGood, FocusFailsGood DEF Cursor

-----------------------------------------------------------------------------
(* Edits.                                                                  *)

\* The count of edits stays within its bound.
LEMMA CountedType == edits \in 0..MaxEdits /\ Counted => edits' \in 0..MaxEdits
BY WorkspaceAssumption DEF Counted

\* What Writes leaves in the map of writers.
LEMMA WriterPut ==
    ASSUME writer \in WriterType, NEW p \in Paths, NEW who \in Actors \cup {Nobody},
           NEW before \in Texts
    PROVE  [writer EXCEPT ![p] = Writes(who, before)] \in WriterType
BY DEF WriterType, Writes

\* A handler that writes t and records c.
LEMMA OverwriteGood ==
    ASSUME RestType, WorkInv, NEW p \in Paths, NEW t \in Content, NEW c, WellFormed(c),
           faults = 0 => Aligned(c) /\ Matches(c, [disk EXCEPT ![p] = t]),
           Overwrite(p, t, c), edits' \in 0..MaxEdits
    PROVE  Good
<1>1. /\ Reported(c) /\ disk' = [disk EXCEPT ![p] = t]
      /\ UNCHANGED <<writer, focus, commits, restarts, faults>>
  BY DEF Overwrite
<1>2. Passed(c) /\ NoneCommitting(cell') /\ refresh' = FALSE
  BY <1>1, LoggedKeeps
<1>3. WorkInv'
  BY <1>1, <1>2, Recorded
<1>4. disk' \in [Paths -> Content]
  BY <1>1 DEF RestType
<1>5. RestType'
  BY <1>1, <1>2, <1>4 DEF RestType, Passed, CountType
<1> QED BY <1>2, <1>3, <1>5 DEF Good, CommitsKept

\* ... and one whose write of the worktree failed.
LEMMA OverwriteFailsGood ==
    ASSUME RestType, WorkInv, NEW p \in Paths, NEW t \in Content,
           OverwriteFails(p, t), edits' \in 0..MaxEdits
    PROVE  Good
<1>1. WellFormed(cell) /\ WellFormed(saved) /\ faults \in Nat /\ cell \in Cell
  BY InvTypes
<1>2. /\ cell' = Put(cell, p, t) /\ faults' = faults + 1
      /\ UNCHANGED <<durable, disk, writer, focus, refresh, commits, restarts>>
  BY DEF OverwriteFails
<1>3. WellFormed(cell') /\ cell'.reviews = cell.reviews
  <2>1. PICK c : c = Put(cell, p, t)
    OBVIOUS
  <2>2. WellFormed(c)
    BY <1>1, <2>1, PutKeeps
  <2>3. c.reviews = cell.reviews
    BY <1>1, <2>1, PutFields
  <2> QED BY <1>2, <2>1, <2>2, <2>3
<1>4. WorkInv'
  BY <1>1, <1>2, <1>3, Failed DEF durable
<1>5. RestType'
  BY <1>1, <1>2 DEF RestType, durable
<1> QED BY <1>2, <1>3, <1>4, <1>5 DEF Good, CommitsKept

\* A handler that only records c.
LEMMA RecordGood ==
    ASSUME RestType, WorkInv, NEW c, WellFormed(c),
           Aligned(cell) => Aligned(c),
           Matches(cell, disk) => Matches(c, disk),
           Reported(c), edits' \in 0..MaxEdits,
           UNCHANGED <<disk, writer, focus, commits, restarts, faults>>
    PROVE  Good
<1>1. Passed(c) /\ NoneCommitting(cell') /\ refresh' = FALSE
  BY LoggedKeeps
<1>2. WorkInv'
  BY <1>1, Recorded DEF WorkInv
<1>3. RestType'
  BY <1>1 DEF RestType, Passed, CountType
<1> QED BY <1>1, <1>2, <1>3 DEF Good, CommitsKept

\* A handler that keeps a text in a new shadow.
LEMMA ShadowGood ==
    ASSUME RestType, WorkInv, NEW c0, WellFormed(c0), Room(c0),
           Aligned(cell) => Aligned(c0), Matches(cell, disk) => Matches(c0, disk),
           NEW p \in Paths, NEW base \in Texts, NEW before \in Texts, NEW after \in Texts,
           NEW status \in Unresolved, NEW fromDisk \in Flag,
           Based(c0, p, base, status, fromDisk),
           Reported(AddShadow(c0, p, base, before, after, status, fromDisk)),
           edits' \in 0..MaxEdits,
           UNCHANGED <<disk, writer, focus, commits, restarts, faults>>
    PROVE  Good
<1>1. PICK c : c = AddShadow(c0, p, base, before, after, status, fromDisk)
  OBVIOUS
<1>2. /\ WellFormed(c) /\ (Aligned(c0) => Aligned(c))
      /\ \A d : Matches(c0, d) => Matches(c, d)
  BY <1>1, AddShadowKeeps
<1> QED BY <1>1, <1>2, RecordGood

\* A buffer as a human edit finds it: taken over if the edit does so.
Entered(c, p, t, ok) ==
    IF Takes(c, p, t) /\ Displaced(c, p) THEN TakenOver(c, p, ok) ELSE c

\* It is as good as it was, but for the worktree.
LEMMA EnteredKeeps ==
    ASSUME RestType, WorkInv, NEW p \in Paths, NEW t \in Texts, NEW ok \in BOOLEAN,
           NEW c0, c0 = Create(cell, p), NEW c1, c1 = Entered(c0, p, t, ok),
           Takes(c0, p, t) /\ Displaced(c0, p) => Room(cell)
    PROVE  /\ WellFormed(c1) /\ (Aligned(cell) => Aligned(c1))
           /\ Matches(cell, disk) => MatchesBut(c1, disk, p)
           /\ NoneCommitting(c1) \/ c1.reviews = cell.reviews
           /\ Takes(c0, p, t) /\ Displaced(c0, p) =>
                 /\ WellFormed(Restored(c0, p))
                 /\ Aligned(cell) => Aligned(Restored(c0, p))
<1>1. WellFormed(cell) /\ writer \in WriterType /\ cell \in Cell
  BY InvTypes
<1>2. /\ WellFormed(c0) /\ c0.made = cell.made /\ c0.files[p] \in Texts
      /\ Aligned(cell) => Aligned(c0)
      /\ Matches(cell, disk) => Matches(c0, disk)
  BY <1>1, CreateKeeps
<1>3. c0.reviews = cell.reviews
  <2>1. Empty \in Content
    BY WorkspaceAssumption DEF Content
  <2> QED BY <1>1, <2>1, PutFields DEF Create
<1>4. CASE Takes(c0, p, t) /\ Displaced(c0, p)
  <2>1. Room(c0)
    BY <1>2, <1>4 DEF Room
  <2>2. c1 = TakenOver(c0, p, ok)
    BY <1>4 DEF Entered
  <2>3. /\ WellFormed(c1) /\ (Aligned(c0) => Aligned(c1))
        /\ Matches(c0, disk) => MatchesBut(c1, disk, p)
    BY <1>1, <1>2, <2>1, <2>2, TakenOverKeeps
  <2>4. PICK c : c = Restored(c0, p)
    OBVIOUS
  <2>5. WellFormed(c) /\ (Aligned(c0) => Aligned(c))
    BY <1>1, <1>2, <2>1, <2>4, RestoredKeeps
  <2>6. c1 = Reviewed(Noted(c, ok))
    BY <1>4, <2>2, <2>4 DEF TakenOver
  <2>7. NoneCommitting(c1)
    BY <2>5, <2>6, NotedKeeps
  <2> QED BY <1>2, <2>3, <2>4, <2>5, <2>7
<1>5. CASE ~(Takes(c0, p, t) /\ Displaced(c0, p))
  BY <1>2, <1>3, <1>5 DEF Entered, Matches, MatchesBut
<1> QED BY <1>4, <1>5

\* What a human edit does to the record.
LEMMA HumanEditSteps ==
    ASSUME NEW h, NEW p, NEW t, NEW whole, NEW failed, HumanEdit(h, p, t, whole, failed),
           NEW c0, c0 = Create(cell, p)
    PROVE  /\ Takes(c0, p, t) /\ Displaced(c0, p) => Room(cell)
           /\ \E ok \in BOOLEAN, was \in {saved, Restored(c0, p)} :
                 /\ EditRecorded(Put(Entered(c0, p, t, ok), p, t), whole, failed, was)
                 /\ was # saved => Takes(c0, p, t) /\ Displaced(c0, p)
<1>1. Takes(c0, p, t) /\ Displaced(c0, p) => Room(cell)
  BY DEF HumanEdit
<1>2. CASE ~(Takes(c0, p, t) /\ Displaced(c0, p))
  <2>1. EditRecorded(Put(c0, p, t), whole, failed, saved)
    BY <1>2 DEF HumanEdit
  <2>2. Entered(c0, p, t, TRUE) = c0
    BY <1>2 DEF Entered
  <2> QED BY <1>1, <2>1, <2>2
<1>3. CASE Takes(c0, p, t) /\ Displaced(c0, p) /\ "takeover" \in failed
  <2>1. EditRecorded(Put(TakenOver(c0, p, FALSE), p, t), whole, failed, saved)
    BY <1>3 DEF HumanEdit, TakenOver, Noted
  <2>2. Entered(c0, p, t, FALSE) = TakenOver(c0, p, FALSE)
    BY <1>3 DEF Entered
  <2> QED BY <1>1, <2>1, <2>2
<1>4. CASE Takes(c0, p, t) /\ Displaced(c0, p) /\ "takeover" \notin failed
  <2>1. EditRecorded(Put(TakenOver(c0, p, TRUE), p, t), whole, failed, Restored(c0, p))
    BY <1>4 DEF HumanEdit, TakenOver, Noted
  <2>2. Entered(c0, p, t, TRUE) = TakenOver(c0, p, TRUE)
    BY <1>4 DEF Entered
  <2> QED BY <1>1, <1>4, <2>1, <2>2
<1> QED BY <1>2, <1>3, <1>4

\* A human edit creates the file, takes it over and writes it.
LEMMA HumanEditGood ==
    ASSUME RestType, WorkInv, NEW h \in Humans, NEW p \in Paths, NEW t \in Texts,
           NEW whole \in BOOLEAN, NEW failed, HumanEdit(h, p, t, whole, failed)
    PROVE  Good
<1>1. /\ disk \in [Paths -> Content] /\ writer \in WriterType /\ t \in Content
      /\ WellFormed(saved)
  BY InvTypes DEF Content
<1>2. PICK c0 : c0 = Create(cell, p)
  OBVIOUS
<1>3. Takes(c0, p, t) /\ Displaced(c0, p) => Room(cell)
  BY <1>2, HumanEditSteps
<1>4. PICK ok \in BOOLEAN, was \in {saved, Restored(c0, p)} :
          /\ EditRecorded(Put(Entered(c0, p, t, ok), p, t), whole, failed, was)
          /\ was # saved => Takes(c0, p, t) /\ Displaced(c0, p)
  BY <1>2, HumanEditSteps
<1>5. PICK c1 : c1 = Entered(c0, p, t, ok)
  OBVIOUS
<1>6. PICK c2 : c2 = Put(c1, p, t)
  OBVIOUS
<1>7. /\ disk' = [disk EXCEPT ![p] = t] /\ writer' = [writer EXCEPT ![p] = Writes(h, Empty)]
      /\ refresh' = ~whole /\ Counted
      /\ UNCHANGED <<focus, commits, restarts, faults>>
  BY DEF HumanEdit, Scheduled
<1>8. /\ WellFormed(c1) /\ (Aligned(cell) => Aligned(c1))
      /\ Matches(cell, disk) => MatchesBut(c1, disk, p)
      /\ NoneCommitting(c1) \/ c1.reviews = cell.reviews
      /\ Takes(c0, p, t) /\ Displaced(c0, p) =>
            /\ WellFormed(Restored(c0, p))
            /\ Aligned(cell) => Aligned(Restored(c0, p))
  BY <1>2, <1>3, <1>5, EnteredKeeps
<1>9. WellFormed(was) /\ (faults = 0 => Aligned(was))
  BY <1>1, <1>4, <1>8 DEF WorkInv
<1>10. /\ WellFormed(c2) /\ (Aligned(c1) => Aligned(c2))
       /\ MatchesBut(c1, disk, p) => Matches(c2, disk')
  BY <1>1, <1>6, <1>7, <1>8, PutKeeps
<1>11. Passed(c2) /\ (NoneCommitting(cell') \/ cell'.reviews = c2.reviews)
  <2>1. EditRecorded(c2, whole, failed, was)
    BY <1>4, <1>5, <1>6
  <2> QED BY <1>9, <1>10, <2>1, EditRecordedKeeps
<1>12. faults = 0 => Aligned(c2) /\ Matches(c2, disk')
  BY <1>8, <1>10 DEF WorkInv
<1>13. WorkInv'
  BY <1>7, <1>10, <1>11, <1>12, Recorded
<1>14. disk' \in [Paths -> Content] /\ edits' \in 0..MaxEdits
  BY <1>1, <1>7, CountedType DEF RestType
<1>15. writer' \in WriterType
  BY <1>1, <1>7, WriterPut, WorkspaceAssumption DEF Actors
<1>16. RestType'
  BY <1>7, <1>11, <1>14, <1>15 DEF RestType, Passed, CountType
<1>17. c2.reviews = c1.reviews
  BY <1>1, <1>6, <1>8, PutFields DEF WellFormed
<1>18. CommitsKept
  BY <1>7, <1>8, <1>11, <1>17 DEF CommitsKept, NoneCommitting
<1> QED BY <1>13, <1>16, <1>18 DEF Good

\* What an edit that fails to write the worktree does to the record.
LEMMA HumanEditFailsSteps ==
    ASSUME NEW p, NEW t, HumanEditFails(p, t), NEW c0, c0 = Create(cell, p)
    PROVE  /\ Takes(c0, p, t) /\ Displaced(c0, p) => Room(cell)
           /\ \E ok \in BOOLEAN :
                 /\ cell' = Put(Entered(c0, p, t, ok), p, t)
                 /\ IF Takes(c0, p, t) /\ Displaced(c0, p)
                    THEN /\ Persist(Restored(c0, p), ok) /\ refresh' = FALSE
                         /\ disk' = [disk EXCEPT ![p] = writer[p].before]
                    ELSE UNCHANGED <<durable, disk, refresh>>
<1>1. CASE Takes(c0, p, t) /\ Displaced(c0, p)
  BY <1>1 DEF HumanEditFails, Entered
<1>2. CASE ~(Takes(c0, p, t) /\ Displaced(c0, p))
  <2>1. cell' = Put(c0, p, t) /\ UNCHANGED <<durable, disk, refresh>>
    BY <1>2 DEF HumanEditFails
  <2>2. Entered(c0, p, t, TRUE) = c0
    BY <1>2 DEF Entered
  <2> QED BY <1>2, <2>1, <2>2
<1> QED BY <1>1, <1>2

\* The write of a human edit fails after the agent's text has been preserved.
LEMMA HumanEditFailsGood ==
    ASSUME RestType, WorkInv, NEW p \in Paths, NEW t \in Texts, HumanEditFails(p, t)
    PROVE  Good
<1>1. /\ WellFormed(saved) /\ disk \in [Paths -> Content] /\ writer \in WriterType
      /\ faults \in Nat /\ t \in Content
  BY InvTypes DEF Content
<1>2. PICK c0 : c0 = Create(cell, p)
  OBVIOUS
<1>3. Takes(c0, p, t) /\ Displaced(c0, p) => Room(cell)
  BY <1>2, HumanEditFailsSteps
<1>4. PICK ok \in BOOLEAN :
          /\ cell' = Put(Entered(c0, p, t, ok), p, t)
          /\ IF Takes(c0, p, t) /\ Displaced(c0, p)
             THEN /\ Persist(Restored(c0, p), ok) /\ refresh' = FALSE
                  /\ disk' = [disk EXCEPT ![p] = writer[p].before]
             ELSE UNCHANGED <<durable, disk, refresh>>
  BY <1>2, HumanEditFailsSteps
<1>5. PICK c1 : c1 = Entered(c0, p, t, ok)
  OBVIOUS
<1>6. /\ faults' = faults + 1 /\ Counted
      /\ writer' \in {writer, [writer EXCEPT ![p] = NoWriter]}
      /\ UNCHANGED <<focus, commits, restarts>>
  BY DEF HumanEditFails
<1>7. /\ WellFormed(c1) /\ (NoneCommitting(c1) \/ c1.reviews = cell.reviews)
      /\ Takes(c0, p, t) /\ Displaced(c0, p) => WellFormed(Restored(c0, p))
  BY <1>2, <1>3, <1>5, EnteredKeeps
<1>8. WellFormed(cell') /\ cell'.reviews = c1.reviews
  <2>1. WellFormed(Put(c1, p, t))
    BY <1>1, <1>7, PutKeeps
  <2>2. Put(c1, p, t).reviews = c1.reviews
    BY <1>1, <1>7, PutFields DEF WellFormed
  <2> QED BY <1>4, <1>5, <2>1, <2>2
<1>9. WellFormed(saved') /\ CountType
  <2>1. CASE Takes(c0, p, t) /\ Displaced(c0, p)
    <3>1. PICK c : c = Restored(c0, p)
      OBVIOUS
    <3>2. WellFormed(c) /\ Persist(c, ok)
      BY <1>4, <1>7, <2>1, <3>1
    <3>3. Checkpointed(c) /\ CountType
      BY <3>2, PersistKeeps
    <3> QED BY <3>2, <3>3, SameWellFormed DEF Checkpointed
  <2>2. CASE ~(Takes(c0, p, t) /\ Displaced(c0, p))
    BY <1>1, <1>4, <2>2 DEF durable, CountType, RestType
  <2> QED BY <2>1, <2>2
<1>10. WorkInv'
  BY <1>1, <1>6, <1>8, <1>9, Failed
<1>11. /\ disk' \in [Paths -> Content] /\ writer' \in WriterType /\ edits' \in 0..MaxEdits
       /\ refresh' \in BOOLEAN
  <2>1. /\ writer[p].before \in Content
        /\ NoWriter \in [who : Actors \cup {Nobody}, before : Texts]
    BY <1>1, WorkspaceAssumption DEF WriterType, NoWriter, Content
  <2>2. disk' \in [Paths -> Content] /\ refresh' \in BOOLEAN
    BY <1>1, <1>4, <2>1 DEF RestType
  <2>3. writer' \in WriterType
    BY <1>1, <1>6, <2>1 DEF WriterType
  <2> QED BY <1>6, <2>2, <2>3, CountedType DEF RestType
<1>12. RestType'
  <2>1. faults' \in Nat
    BY <1>1, <1>6
  <2> QED BY <1>6, <1>9, <1>11, <2>1 DEF RestType, CountType
<1>13. CommitsKept
  BY <1>6, <1>7, <1>8 DEF CommitsKept, NoneCommitting
<1> QED BY <1>10, <1>12, <1>13 DEF Good

\* A text that may not go live becomes a shadow.
LEMMA AgentEditShadowedGood ==
    ASSUME RestType, WorkInv, NEW p \in Paths, NEW t \in Texts, AgentEditShadowed(p, t)
    PROVE  Good
<1>1. /\ WellFormed(cell) /\ cell.files \in [Paths -> Content]
      /\ cell.baseline \in [Paths -> Content]
  BY InvTypes
<1>2. PICK c0 : c0 = Create(cell, p)
  OBVIOUS
<1>3. /\ WellFormed(c0) /\ c0.baseline = cell.baseline /\ c0.made = cell.made
      /\ Aligned(cell) => Aligned(c0)
      /\ Matches(cell, disk) => Matches(c0, disk)
  BY <1>1, <1>2, CreateKeeps
<1>4. PICK base \in Texts : base = Base(cell, p) /\ base = TextOf(c0.baseline, p)
  BY <1>1, <1>3, TextOfType DEF Base
<1>5. PICK before \in Texts : before = TextOf(cell.files, p)
  BY <1>1, TextOfType
<1>6. PICK status \in Unresolved : status = "open"
  BY DEF Unresolved
<1>7. PICK fromDisk \in Flag : fromDisk = FALSE
  BY DEF Flag
<1>8. /\ Room(cell) /\ Counted
      /\ Reported(AddShadow(c0, p, base, before, t, status, fromDisk))
      /\ UNCHANGED <<disk, writer, focus, commits, restarts, faults>>
  BY <1>2, <1>4, <1>5, <1>6, <1>7 DEF AgentEditShadowed
<1>9. Room(c0) /\ Based(c0, p, base, status, fromDisk) /\ edits' \in 0..MaxEdits
  BY <1>3, <1>4, <1>8, CountedType DEF Room, Based, RestType
<1> QED BY <1>3, <1>8, <1>9, ShadowGood

\* A shadow that keeps a redacted text.
LEMMA SecretEditGood ==
    ASSUME RestType, WorkInv, NEW p \in Paths, SecretEdit(p)
    PROVE  Good
<1>1. /\ WellFormed(cell) /\ cell.files \in [Paths -> Content]
      /\ cell.baseline \in [Paths -> Content]
  BY InvTypes
<1>2. PICK base \in Texts : base = Base(cell, p)
  BY <1>1, TextOfType DEF Base
<1>3. PICK before \in Texts : before = TextOf(cell.files, p)
  BY <1>1, TextOfType
<1>4. PICK status \in Unresolved : status = "blocked"
  BY DEF Unresolved
<1>5. PICK fromDisk \in Flag : fromDisk = FALSE
  BY DEF Flag
<1>6. /\ Room(cell) /\ Counted
      /\ Reported(AddShadow(cell, p, base, before, Empty, status, fromDisk))
      /\ UNCHANGED <<disk, writer, focus, commits, restarts, faults>>
  BY <1>2, <1>3, <1>4, <1>5 DEF SecretEdit
<1>7. Based(cell, p, base, status, fromDisk) /\ edits' \in 0..MaxEdits /\ Empty \in Texts
  BY <1>4, <1>6, CountedType, WorkspaceAssumption DEF Based, RestType
<1> QED BY <1>1, <1>6, <1>7, ShadowGood

\* A shadow whose base is the sidecar's.
LEMMA UncertainDiskGood ==
    ASSUME RestType, WorkInv, NEW p \in Paths, NEW base \in Texts, NEW t \in Texts,
           UncertainDisk(p, base, t)
    PROVE  Good
<1>1. WellFormed(cell) /\ cell.files \in [Paths -> Content]
  BY InvTypes
<1>2. PICK before \in Texts : before = TextOf(cell.files, p)
  BY <1>1, TextOfType
<1>3. PICK status \in Unresolved : status = "open"
  BY DEF Unresolved
<1>4. PICK fromDisk \in Flag : fromDisk = TRUE
  BY DEF Flag
<1>5. /\ Room(cell) /\ Counted
      /\ Reported(AddShadow(cell, p, base, before, t, status, fromDisk))
      /\ UNCHANGED <<disk, writer, focus, commits, restarts, faults>>
  BY <1>2, <1>3, <1>4 DEF UncertainDisk
<1>6. Based(cell, p, base, status, fromDisk) /\ edits' \in 0..MaxEdits
  BY <1>4, <1>5, CountedType DEF Based, RestType
<1> QED BY <1>1, <1>5, <1>6, ShadowGood

\* A file goes; the worktree's copy may stay.
LEMMA RemoveFileGood ==
    ASSUME RestType, WorkInv, NEW p \in Paths, RemoveFile(p),
           disk' \in {disk, [disk EXCEPT ![p] = Absent]}
    PROVE  Good
<1>1. WellFormed(cell) /\ disk \in [Paths -> Content] /\ Absent \in Content
  BY InvTypes DEF Content
<1>2. PICK c : c = Put(cell, p, Absent)
  OBVIOUS
<1>3. /\ Reported(c) /\ Counted
      /\ UNCHANGED <<writer, focus, commits, restarts, faults>>
  BY <1>2 DEF RemoveFile
<1>4. /\ WellFormed(c) /\ (Aligned(cell) => Aligned(c))
      /\ Matches(cell, disk) => Matches(c, disk)
      /\ MatchesBut(cell, disk, p) => Matches(c, [disk EXCEPT ![p] = Absent])
  BY <1>1, <1>2, PutKeeps
<1>5. Matches(cell, disk) => MatchesBut(cell, disk, p)
  BY DEF Matches, MatchesBut
<1>6. faults = 0 => Aligned(c) /\ Matches(c, disk')
  BY <1>4, <1>5 DEF WorkInv
<1>7. Passed(c) /\ NoneCommitting(cell') /\ refresh' = FALSE
  BY <1>3, <1>4, LoggedKeeps
<1>8. WorkInv'
  BY <1>3, <1>4, <1>6, <1>7, Recorded
<1>9. disk' \in [Paths -> Content] /\ edits' \in 0..MaxEdits
  BY <1>1, <1>3, CountedType DEF RestType
<1>10. RestType'
  BY <1>3, <1>7, <1>9 DEF RestType, Passed, CountType
<1> QED BY <1>7, <1>8, <1>10 DEF Good, CommitsKept

\* An agent's edit goes live.
LEMMA AgentEditLiveGood ==
    ASSUME RestType, WorkInv, NEW p \in Paths, NEW t \in Texts, NEW failed,
           AgentEditLive(p, t, failed)
    PROVE  Good
<1>1. /\ WellFormed(cell) /\ disk \in [Paths -> Content] /\ writer \in WriterType
      /\ cell.files \in [Paths -> Content] /\ t \in Content
  BY InvTypes DEF Content
<1>2. PICK c : c = Put(cell, p, t)
  OBVIOUS
<1>3. PICK before \in Texts :
          before = IF AgentWriting(p) THEN writer[p].before ELSE TextOf(cell.files, p)
  <2>1. writer[p].before \in Texts /\ TextOf(cell.files, p) \in Texts
    BY <1>1, TextOfType DEF WriterType
  <2> QED BY <2>1
<1>4. /\ EditRecorded(c, TRUE, failed, saved) /\ disk' = [disk EXCEPT ![p] = t]
      /\ writer' = [writer EXCEPT ![p] = Writes(Agent, before)]
      /\ refresh' = FALSE /\ Counted
      /\ UNCHANGED <<focus, commits, restarts, faults>>
  BY <1>2, <1>3 DEF AgentEditLive
<1>5. /\ WellFormed(c) /\ (Aligned(cell) => Aligned(c))
      /\ MatchesBut(cell, disk, p) => Matches(c, disk')
  BY <1>1, <1>2, <1>4, PutKeeps
<1>6. faults = 0 => Aligned(c) /\ Matches(c, disk')
  BY <1>5 DEF WorkInv, Matches, MatchesBut
<1>7. Passed(c) /\ (NoneCommitting(cell') \/ cell'.reviews = cell.reviews)
  <2>1. WellFormed(saved) /\ (faults = 0 => Aligned(saved))
    BY DEF WorkInv
  <2>2. c.reviews = cell.reviews
    BY <1>1, <1>2, PutFields DEF WellFormed
  <2>3. PICK whole \in BOOLEAN : whole = TRUE
    OBVIOUS
  <2>4. EditRecorded(c, whole, failed, saved)
    BY <1>4, <2>3
  <2> QED BY <1>5, <2>1, <2>2, <2>4, EditRecordedKeeps
<1>8. WorkInv'
  BY <1>4, <1>5, <1>6, <1>7, Recorded
<1>9. disk' \in [Paths -> Content] /\ edits' \in 0..MaxEdits
  BY <1>1, <1>4, CountedType DEF RestType
<1>10. writer' \in WriterType
  BY <1>1, <1>4, WriterPut DEF Actors
<1>11. RestType'
  BY <1>4, <1>7, <1>9, <1>10 DEF RestType, Passed, CountType
<1> QED BY <1>4, <1>7, <1>8, <1>11 DEF Good, CommitsKept

\* ... or only into the buffer, when the worktree cannot be written.
LEMMA AgentEditFailsGood ==
    ASSUME RestType, WorkInv, NEW p \in Paths, NEW t \in Texts, AgentEditFails(p, t)
    PROVE  Good
<1>1. OverwriteFails(p, t) /\ Counted /\ t \in Content
  BY DEF AgentEditFails, OverwriteFails, Content
<1> QED BY <1>1, CountedType, OverwriteFailsGood DEF RestType

\* The inverse of some operations is a text like any other.
LEMMA UndoGood ==
    ASSUME RestType, WorkInv, NEW p \in Paths, NEW t \in Texts,
           UndoEdit(p, t) \/ UndoFails(p, t)
    PROVE  Good
<1>1. edits' \in 0..MaxEdits /\ t \in Content
  BY CountedType DEF RestType, UndoEdit, UndoFails, Content
<1>2. CASE UndoFails(p, t)
  BY <1>1, <1>2, OverwriteFailsGood DEF UndoFails
<1>3. CASE UndoEdit(p, t)
  <2>1. WellFormed(cell) /\ disk \in [Paths -> Content]
    BY InvTypes
  <2>2. PICK c : c = Put(cell, p, t)
    OBVIOUS
  <2>3. /\ WellFormed(c) /\ (Aligned(cell) => Aligned(c))
        /\ MatchesBut(cell, disk, p) => Matches(c, [disk EXCEPT ![p] = t])
    BY <1>1, <2>1, <2>2, PutKeeps
  <2>4. faults = 0 => Aligned(c) /\ Matches(c, [disk EXCEPT ![p] = t])
    BY <2>3 DEF WorkInv, Matches, MatchesBut
  <2>5. Overwrite(p, t, c)
    BY <1>3, <2>2 DEF UndoEdit
  <2> QED BY <1>1, <2>3, <2>4, <2>5, OverwriteGood
<1> QED BY <1>2, <1>3

\* Every action that edits.
LEMMA EditGood ==
    ASSUME RestType, WorkInv, NEW p \in Paths, Edit(p)
    PROVE  Good
<1>1. Written \subseteq Texts /\ Named \subseteq Texts /\ Empty \in Texts
  BY WorkspaceAssumption
<1>2. ASSUME NEW h \in Humans, NEW t \in Written, NEW whole \in BOOLEAN,
             NEW failed \in SUBSET Checkpoints, HumanEdit(h, p, t, whole, failed)
      PROVE  Good
  BY <1>1, <1>2, HumanEditGood
<1>3. CASE DeleteFile(p) \/ DiskDelete(p)
  BY <1>3, RemoveFileGood DEF DeleteFile, DiskDelete
<1>4. CASE SecretEdit(p)
  BY <1>4, SecretEditGood
<1>5. ASSUME NEW base \in Named, NEW t \in Written \cup {Empty}, UncertainDisk(p, base, t)
      PROVE  Good
  BY <1>1, <1>5, UncertainDiskGood
<1>6. ASSUME NEW t \in Written,
             \/ HumanEditFails(p, t) \/ AgentEditShadowed(p, t)
             \/ \E failed \in SUBSET {"event", "reviews"} : AgentEditLive(p, t, failed)
             \/ AgentEditFails(p, t) \/ UndoEdit(p, t) \/ UndoFails(p, t)
      PROVE  Good
  <2>1. t \in Texts
    BY <1>1
  <2> QED BY <1>6, <2>1, HumanEditFailsGood, AgentEditShadowedGood, AgentEditLiveGood,
             AgentEditFailsGood, UndoGood
<1> QED BY <1>2, <1>3, <1>4, <1>5, <1>6 DEF Edit

-----------------------------------------------------------------------------
(* Shadow Revisions.                                                       *)

\* The types of an open shadow, and its base.
LEMMA OpenShadow ==
    ASSUME WellFormed(cell), NEW s \in Ids, Open(s)
    PROVE  LET w == cell.shadows[s]
           IN  /\ w.path \in Paths /\ w.base \in Texts /\ w.before \in Texts
               /\ w.after \in Texts /\ w.disk \in Flag
               /\ ~w.disk /\ ~w.stale => w.base = TextOf(cell.baseline, w.path)
<1>1. cell.shadows[s] \in Shadow
  BY CellFields DEF WellFormed
<1>2. ShadowsOk(cell.shadows, cell.baseline, cell.made)
  BY DEF WellFormed
<1> QED BY <1>1, <1>2 DEF Shadow, ShadowsOk, Open, Flag

\* The adopted text goes live and the text it replaces becomes a shadow.
LEMMA AdoptShadowGood ==
    ASSUME RestType, WorkInv, NEW s \in Ids, AdoptShadow(s)
    PROVE  Good
<1>1. WellFormed(cell) /\ disk \in [Paths -> Content] /\ Open(s) /\ Room(cell)
      /\ ~cell.shadows[s].stale /\ edits' = edits
  BY InvTypes DEF AdoptShadow, Adoptable
<1>2. PICK p \in Paths : p = cell.shadows[s].path
  BY <1>1, OpenShadow
<1>3. PICK base \in Texts : base = cell.shadows[s].base
  BY <1>1, OpenShadow
<1>4. PICK before \in Texts : before = cell.shadows[s].before
  BY <1>1, OpenShadow
<1>5. PICK after \in Texts : after = cell.shadows[s].after
  BY <1>1, OpenShadow
<1>6. PICK fromDisk \in Flag : fromDisk = cell.shadows[s].disk
  BY <1>1, OpenShadow
<1>7. PICK status \in Unresolved : status = "open"
  BY DEF Unresolved
<1>8. PICK c1 : c1 = Put(cell, p, after)
  OBVIOUS
<1>9. PICK c2 : c2 = Resolve(c1, s, "adopted")
  OBVIOUS
<1>10. PICK c : c = AddShadow(c2, p, base, after, before, status, fromDisk)
  OBVIOUS
<1>11. after \in Content /\ cell \in Cell
  BY <1>1 DEF Content, WellFormed
<1>12. /\ WellFormed(c1) /\ (Aligned(cell) => Aligned(c1))
       /\ MatchesBut(cell, disk, p) => Matches(c1, [disk EXCEPT ![p] = after])
  BY <1>1, <1>8, <1>11, PutKeeps
<1>13. c1.baseline = cell.baseline /\ c1.made = cell.made /\ c1.shadows = cell.shadows
  BY <1>8, <1>11, PutFields
<1>14. /\ WellFormed(c2) /\ (Aligned(c1) => Aligned(c2))
       /\ \A d : Matches(c1, d) => Matches(c2, d)
  BY <1>1, <1>9, <1>12, <1>13, ResolveKeeps DEF Open
<1>15. c2.baseline = cell.baseline /\ c2.made = cell.made
  BY <1>9, <1>12, <1>13 DEF Resolve, WellFormed, Cell
<1>16. Room(c2) /\ Based(c2, p, base, status, fromDisk)
  <2>1. ~cell.shadows[s].disk => base = TextOf(cell.baseline, p)
    BY <1>1, <1>2, <1>3, OpenShadow
  <2> QED BY <1>1, <1>6, <1>15, <2>1 DEF Room, Based
<1>17. /\ WellFormed(c) /\ (Aligned(c2) => Aligned(c))
       /\ \A d : Matches(c2, d) => Matches(c, d)
  BY <1>10, <1>14, <1>16, AddShadowKeeps
<1>18. faults = 0 => Aligned(c) /\ Matches(c, [disk EXCEPT ![p] = after])
  <2>1. Matches(cell, disk) => MatchesBut(cell, disk, p)
    BY DEF Matches, MatchesBut
  <2> QED BY <1>12, <1>14, <1>17, <2>1 DEF WorkInv
<1>19. Overwrite(p, after, c)
  BY <1>2, <1>3, <1>4, <1>5, <1>6, <1>7, <1>8, <1>9, <1>10 DEF AdoptShadow
<1>20. edits' \in 0..MaxEdits
  BY <1>1 DEF RestType
<1> QED BY <1>11, <1>17, <1>18, <1>19, <1>20, OverwriteGood

\* The merged text goes live and the shadow is resolved.
LEMMA MergeShadowGood ==
    ASSUME RestType, WorkInv, NEW s \in Ids, NEW t \in Texts, MergeShadow(s, t)
    PROVE  Good
<1>1. WellFormed(cell) /\ disk \in [Paths -> Content] /\ Open(s) /\ edits' = edits
      /\ t \in Content
  BY InvTypes DEF MergeShadow, Mergeable, Content
<1>2. PICK p \in Paths : p = cell.shadows[s].path
  BY <1>1, OpenShadow
<1>3. PICK c1 : c1 = Put(cell, p, t)
  OBVIOUS
<1>4. PICK c : c = Resolve(c1, s, "merged")
  OBVIOUS
<1>5. /\ WellFormed(c1) /\ (Aligned(cell) => Aligned(c1))
      /\ MatchesBut(cell, disk, p) => Matches(c1, [disk EXCEPT ![p] = t])
  BY <1>1, <1>3, PutKeeps
<1>6. /\ WellFormed(c) /\ (Aligned(c1) => Aligned(c))
      /\ \A d : Matches(c1, d) => Matches(c, d)
  <2>1. cell \in Cell /\ c1.shadows = cell.shadows
    BY <1>1, <1>3, PutFields DEF WellFormed
  <2> QED BY <1>1, <1>4, <1>5, <2>1, ResolveKeeps DEF Open
<1>7. faults = 0 => Aligned(c) /\ Matches(c, [disk EXCEPT ![p] = t])
  <2>1. Matches(cell, disk) => MatchesBut(cell, disk, p)
    BY DEF Matches, MatchesBut
  <2> QED BY <1>5, <1>6, <2>1 DEF WorkInv
<1>8. Overwrite(p, t, c)
  BY <1>2, <1>3, <1>4 DEF MergeShadow
<1>9. edits' \in 0..MaxEdits
  BY <1>1 DEF RestType
<1> QED BY <1>1, <1>6, <1>7, <1>8, <1>9, OverwriteGood

\* An adoption or a merge whose write of the worktree failed.
LEMMA ShadowFailsGood ==
    ASSUME RestType, WorkInv, NEW s \in Ids,
           AdoptFails(s) \/ \E t \in Texts : MergeFails(s, t)
    PROVE  Good
<1>1. WellFormed(cell) /\ Open(s) /\ edits' = edits
  BY InvTypes DEF AdoptFails, Adoptable, MergeFails, Mergeable
<1>2. PICK p \in Paths : p = cell.shadows[s].path
  BY <1>1, OpenShadow
<1>3. cell.shadows[s].after \in Texts
  BY <1>1, OpenShadow
<1>4. PICK t \in Texts : OverwriteFails(p, t)
  BY <1>2, <1>3 DEF AdoptFails, MergeFails
<1>5. t \in Content /\ edits' \in 0..MaxEdits
  BY <1>1 DEF Content, RestType
<1> QED BY <1>4, <1>5, OverwriteFailsGood

\* A discarded shadow keeps its base and its staleness.
LEMMA DiscardShadowGood ==
    ASSUME RestType, WorkInv, NEW s \in Ids, DiscardShadow(s)
    PROVE  Good
<1>1. WellFormed(cell) /\ Open(s) /\ cell.shadows \in [Ids -> Shadow] /\ cell \in Cell
  BY InvTypes DEF DiscardShadow
<1>2. PICK base \in Texts : base = cell.shadows[s].base
  BY <1>1, OpenShadow
<1>3. PICK stale \in Flag : stale = cell.shadows[s].stale
  BY <1>1 DEF Shadow, Flag
<1>4. PICK c1 : c1 = Resolve(cell, s, "discarded")
  OBVIOUS
<1>5. PICK c : c = [c1 EXCEPT !.shadows[s].base = base, !.shadows[s].stale = stale]
  OBVIOUS
<1>6. /\ WellFormed(c1) /\ (Aligned(cell) => Aligned(c1))
      /\ \A d : Matches(cell, d) => Matches(c1, d)
  BY <1>1, <1>4, ResolveKeeps DEF Open
<1>7. c1 \in Cell /\ c1.shadows \in [Ids -> Shadow] /\ c1.shadows[s].status = "discarded"
  <2>1. c1 \in Cell /\ c1.shadows \in [Ids -> Shadow]
    BY <1>6, CellFields DEF WellFormed
  <2>2. c1.shadows = [cell.shadows EXCEPT ![s] = Settled(cell, s, "discarded")]
    BY <1>1, <1>4 DEF Resolve, Settled, Cell
  <2>3. Settled(cell, s, "discarded").status = "discarded"
    BY DEF Settled, NoShadow
  <2> QED BY <1>1, <2>1, <2>2, <2>3
<1>8. PICK w \in Shadow : w = [c1.shadows[s] EXCEPT !.base = base, !.stale = stale]
  BY <1>7 DEF Shadow, Flag
<1>9. w.status = "discarded"
  BY <1>7, <1>8 DEF Shadow
<1>10. c = [c1 EXCEPT !.shadows = [c1.shadows EXCEPT ![s] = w]]
  BY <1>5, <1>7, <1>8 DEF Cell, Shadow
<1>11. /\ c \in Cell /\ c.shadows = [c1.shadows EXCEPT ![s] = w] /\ c.made = c1.made
       /\ c.files = c1.files /\ c.docs = c1.docs /\ c.baseline = c1.baseline
  BY <1>7, <1>10 DEF Cell
<1>12. \A r \in Ids : c.shadows[r] = IF r = s THEN w ELSE c1.shadows[r]
  BY <1>7, <1>11
<1>13. ShadowsOk(c.shadows, c.baseline, c.made)
  BY <1>6, <1>7, <1>9, <1>11, <1>12 DEF WellFormed, ShadowsOk
<1>14. /\ WellFormed(c) /\ (Aligned(cell) => Aligned(c))
       /\ Matches(cell, disk) => Matches(c, disk)
  BY <1>6, <1>11, <1>13 DEF WellFormed, Aligned, Matches
<1>15. Record(c)
  BY <1>2, <1>3, <1>4, <1>5 DEF DiscardShadow
<1>16. edits' \in 0..MaxEdits
  BY <1>15 DEF RestType, Record
<1> QED BY <1>14, <1>15, <1>16, RecordGood DEF Record

\* Every decision about a shadow.
LEMMA ShadowDecisionGood ==
    ASSUME RestType, WorkInv, NEW s \in Ids, ShadowDecision(s)
    PROVE  Good
<1>1. CASE MergeConflicts(s)
  <2>1. WellFormed(cell) /\ Record(cell) /\ edits' \in 0..MaxEdits
    BY <1>1, InvTypes DEF MergeConflicts, Record, RestType
  <2> QED BY <2>1, RecordGood DEF Record
<1>2. Written \subseteq Texts
  BY WorkspaceAssumption
<1> QED BY <1>1, <1>2, AdoptShadowGood, MergeShadowGood, ShadowFailsGood, DiscardShadowGood
        DEF ShadowDecision

\* A collected shadow is settled like a resolved one.
LEMMA CollectGood ==
    ASSUME RestType, WorkInv, NEW s \in Ids, NEW aged \in BOOLEAN,
           CollectShadowGarbage(s, aged)
    PROVE  Good
<1>1. WellFormed(cell) /\ cell \in Cell
  BY InvTypes
<1>2. PICK c : c = Resolve(cell, s, "collected")
  OBVIOUS
<1>3. PICK ok \in BOOLEAN :
          /\ cell' = c /\ Persist(c, ok)
          /\ UNCHANGED <<disk, writer, focus, refresh, commits, edits, restarts, faults>>
  BY <1>2 DEF CollectShadowGarbage
<1>4. /\ WellFormed(c) /\ (Aligned(cell) => Aligned(c))
      /\ \A d : Matches(cell, d) => Matches(c, d)
  <2>1. cell.shadows[s].status # "none"
    BY DEF CollectShadowGarbage
  <2> QED BY <1>1, <1>2, <2>1, ResolveKeeps
<1>5. c.reviews = cell.reviews
  BY <1>1, <1>2 DEF Resolve, Cell
<1>6. Passed(c)
  BY <1>3, <1>4, PersistKeeps DEF Passed, WellFormed, SameWork
<1>7. WorkInv'
  BY <1>3, <1>4, <1>6, Recorded DEF WorkInv
<1>8. RestType'
  BY <1>3, <1>6 DEF RestType, Passed, CountType
<1> QED BY <1>3, <1>5, <1>7, <1>8 DEF Good, CommitsKept

-----------------------------------------------------------------------------
(* Reviews, commits and restarts.                                          *)

\* A decision on a review.
LEMMA DecidedGood ==
    ASSUME RestType, WorkInv, NEW i \in Paths \cup Ids,
           NEW status \in ReviewStatus \ {"committing"}, Decided(Decide(cell, i, status)),
           UNCHANGED commits
    PROVE  Good
<1>1. WellFormed(cell) /\ cell \in Cell /\ cell.reviews \in [Paths \cup Ids -> ReviewStatus]
  BY InvTypes
<1>2. PICK c : c = Decide(cell, i, status)
  OBVIOUS
<1>3. /\ Logged(c) /\ refresh' = FALSE
      /\ UNCHANGED <<disk, writer, focus, commits, edits, restarts, faults>>
  BY <1>2 DEF Decided
<1>4. c \in Cell /\ SameWork(cell, c) /\ c.reviews = [cell.reviews EXCEPT ![i] = status]
  BY <1>1, <1>2, DecideFields
<1>5. /\ WellFormed(c) /\ (Aligned(cell) => Aligned(c))
      /\ \A d : Matches(cell, d) => Matches(c, d)
  BY <1>1, <1>4, SameWellFormed
<1>6. Passed(c) /\ cell'.reviews = c.reviews
  BY <1>3, <1>5, LoggedKeeps
<1>7. WorkInv'
  BY <1>3, <1>5, <1>6, Recorded DEF WorkInv
<1>8. RestType'
  BY <1>3, <1>6 DEF RestType, Passed, CountType
<1>9. \A j \in Paths \cup Ids : c.reviews[j] = "committing" => cell.reviews[j] = "committing"
  BY <1>1, <1>4
<1> QED BY <1>3, <1>6, <1>7, <1>8, <1>9 DEF Good, CommitsKept

\* The last decision turns the accepted reviews and starts a commit.
LEMMA StartCommitGood ==
    ASSUME RestType, WorkInv, NEW i \in Paths \cup Ids, NEW p, StartCommit(i, p)
    PROVE  Good
<1>1. WellFormed(cell) /\ WellFormed(saved) /\ cell \in Cell
  BY InvTypes
<1>2. PICK c1 : c1 = Decide(cell, i, "accepted")
  OBVIOUS
<1>3. PICK c : c = Turn(c1, "accepted", "committing")
  OBVIOUS
<1>4. /\ cell' = c /\ commits < MaxCommits /\ commits' = commits + 1 /\ refresh' = FALSE
      /\ UNCHANGED <<durable, disk, writer, focus, edits, restarts, faults>>
  BY <1>2, <1>3 DEF StartCommit
<1>5. c1 \in Cell /\ SameWork(cell, c1)
  BY <1>1, <1>2, DecideFields DEF ReviewStatus
<1>6. c \in Cell /\ SameWork(c1, c)
  BY <1>3, <1>5, TurnFields DEF ReviewStatus
<1>7. SameWork(cell, c)
  BY <1>5, <1>6 DEF SameWork
<1>8. /\ WellFormed(c) /\ (Aligned(cell) => Aligned(c))
      /\ \A d : Matches(cell, d) => Matches(c, d)
  BY <1>1, <1>6, <1>7, SameWellFormed
<1>9. WorkInv'
  BY <1>1, <1>4, <1>7, <1>8 DEF WorkInv, SameWork, durable
<1>10. commits' \in 0..MaxCommits /\ commits' > 0
  BY <1>4, WorkspaceAssumption DEF RestType
<1>11. RestType'
  BY <1>4, <1>10 DEF RestType, durable
<1> QED BY <1>9, <1>10, <1>11 DEF Good, CommitsKept

\* The buffers become BASE and the shadows of another BASE stale.
LEMMA CommitSucceedsGood ==
    ASSUME RestType, WorkInv, CommitSucceeds
    PROVE  Good
<1>1. /\ WellFormed(cell) /\ cell \in Cell /\ cell.files \in [Paths -> Content]
      /\ cell.shadows \in [Ids -> Shadow] /\ commits \in Nat
  BY InvTypes
<1>2. PICK c1 : c1 = Turn(cell, "committing", "approved")
  OBVIOUS
<1>3. c1 \in Cell /\ SameWork(cell, c1) /\ NoneCommitting(c1)
  BY <1>1, <1>2, TurnFields DEF ReviewStatus
<1>4. PICK sh : sh = Outdated(cell.files)
  OBVIOUS
<1>5. PICK c : c = [c1 EXCEPT !.baseline = cell.files, !.shadows = sh]
  OBVIOUS
<1>6. /\ Logged(c) /\ refresh' = FALSE
      /\ commits > 0 /\ commits' = commits - 1
      /\ UNCHANGED <<disk, writer, focus, edits, restarts, faults>>
  BY <1>2, <1>4, <1>5 DEF CommitSucceeds, Decided, Answered
<1>7. \A s \in Ids : [cell.shadows[s] EXCEPT !.stale = TRUE] \in Shadow
  <2> SUFFICES ASSUME NEW s \in Ids PROVE [cell.shadows[s] EXCEPT !.stale = TRUE] \in Shadow
    OBVIOUS
  <2>1. cell.shadows[s] \in Shadow
    BY <1>1
  <2> QED BY <2>1 DEF Shadow
<1>8. sh \in [Ids -> Shadow]
  BY <1>1, <1>4, <1>7 DEF Outdated
<1>9. c \in Cell /\ c.baseline = cell.files /\ c.shadows = sh
      /\ c.files = cell.files /\ c.docs = cell.docs /\ c.reviews = c1.reviews
      /\ c.made = cell.made
  BY <1>1, <1>3, <1>5, <1>8 DEF Cell, SameWork
<1>10. ASSUME NEW s \in Ids, sh[s].status = "open"
       PROVE  /\ sh[s].path \in Paths
              /\ ~sh[s].stale => sh[s].base = TextOf(cell.files, sh[s].path)
  <2>1. cell.shadows[s] \in Shadow
    BY <1>1
  <2>2. sh[s].status = cell.shadows[s].status /\ sh[s].path = cell.shadows[s].path
        /\ sh[s].base = cell.shadows[s].base
    BY <1>4, <2>1 DEF Shadow, Outdated
  <2>3. cell.shadows[s].status = "open" /\ cell.shadows[s].path \in Paths
    BY <1>1, <1>10, <2>2 DEF WellFormed, ShadowsOk
  <2>4. cell.shadows[s].base # TextOf(cell.files, cell.shadows[s].path) => sh[s].stale
    BY <1>4, <2>1, <2>3 DEF Shadow, Unsettled, Outdated
  <2> QED BY <2>2, <2>3, <2>4
<1>11. WellFormed(c)
  <2>1. \A s \in Ids : cell.shadows[s] \in Shadow
    BY <1>1
  <2>2. \A s \in Ids : sh[s].status = cell.shadows[s].status
    BY <1>4, <2>1 DEF Shadow, Outdated
  <2>3. \A s \in Ids : sh[s].status # "none" => s <= cell.made
    BY <1>1, <2>2 DEF WellFormed, ShadowsOk
  <2> QED BY <1>9, <1>10, <2>3 DEF WellFormed, ShadowsOk
<1>12. /\ Aligned(cell) => Aligned(c)
       /\ Matches(cell, disk) => Matches(c, disk)
  BY <1>9 DEF Aligned, Matches
<1>13. Passed(c) /\ cell'.reviews = c.reviews
  BY <1>6, <1>11, LoggedKeeps
<1>14. WorkInv'
  BY <1>6, <1>11, <1>12, <1>13, Recorded DEF WorkInv
<1>15. NoneCommitting(cell')
  BY <1>3, <1>9, <1>13 DEF NoneCommitting
<1>16. commits' \in 0..MaxCommits
  BY <1>6, WorkspaceAssumption DEF RestType
<1>17. RestType'
  BY <1>6, <1>13, <1>16 DEF RestType, Passed, CountType
<1> QED BY <1>14, <1>15, <1>17 DEF Good, CommitsKept

\* A commit that fails takes the reviews back.
LEMMA CommitFailsGood ==
    ASSUME RestType, WorkInv, CommitFails
    PROVE  Good
<1>1. WellFormed(cell) /\ cell \in Cell
  BY InvTypes
<1>2. PICK c : c = Turn(cell, "committing", "pending")
  OBVIOUS
<1>3. /\ Logged(c) /\ commits > 0 /\ commits' = commits - 1
      /\ UNCHANGED <<disk, writer, focus, refresh, edits, restarts, faults>>
  BY <1>2 DEF CommitFails, Answered
<1>4. c \in Cell /\ SameWork(cell, c) /\ NoneCommitting(c)
  BY <1>1, <1>2, TurnFields DEF ReviewStatus
<1>5. /\ WellFormed(c) /\ (Aligned(cell) => Aligned(c))
      /\ \A d : Matches(cell, d) => Matches(c, d)
  BY <1>1, <1>4, SameWellFormed
<1>6. Passed(c) /\ cell'.reviews = c.reviews
  BY <1>3, <1>5, LoggedKeeps
<1>7. WorkInv'
  BY <1>3, <1>5, <1>6, Recorded DEF WorkInv
<1>8. commits' \in 0..MaxCommits
  BY <1>3, WorkspaceAssumption DEF RestType
<1>9. RestType'
  BY <1>3, <1>6, <1>8 DEF RestType, Passed, CountType
<1> QED BY <1>4, <1>6, <1>7, <1>9 DEF Good, CommitsKept, NoneCommitting

\* Reviews regenerated late, and events that only checkpoint.
LEMMA CaughtUpGood ==
    ASSUME RestType, WorkInv, RefreshReviews \/ RecordEvent
    PROVE  Good
<1>1. /\ WellFormed(cell) /\ WellFormed(saved) /\ refresh' = FALSE
      /\ UNCHANGED <<disk, writer, focus, commits, edits, restarts, faults>>
  BY InvTypes DEF RefreshReviews, RecordEvent
<1>2. CASE RecordEvent
  <2>1. Passed(cell) /\ cell'.reviews = cell.reviews
    BY <1>1, <1>2, LoggedKeeps DEF RecordEvent
  <2>2. WorkInv'
    BY <1>1, <2>1, Recorded DEF WorkInv
  <2>3. RestType'
    BY <1>1, <2>1 DEF RestType, Passed, CountType
  <2> QED BY <1>1, <2>1, <2>2, <2>3 DEF Good, CommitsKept
<1>3. CASE RefreshReviews /\ cell' # cell
  <2>1. PICK c : c = Reviewed(cell)
    OBVIOUS
  <2>2. PICK ok \in BOOLEAN : cell' = c /\ Persist(c, ok)
    BY <1>3, <2>1 DEF RefreshReviews
  <2>3. /\ WellFormed(c) /\ NoneCommitting(c) /\ (Aligned(cell) => Aligned(c))
        /\ Matches(cell, disk) => Matches(c, disk)
    BY <1>1, <2>1, ReviewedKeeps
  <2>4. Passed(c)
    BY <2>2, <2>3, PersistKeeps DEF Passed, WellFormed, SameWork
  <2>5. WorkInv'
    BY <1>1, <2>3, <2>4, Recorded DEF WorkInv
  <2>6. RestType'
    BY <1>1, <2>4 DEF RestType, Passed, CountType
  <2> QED BY <2>2, <2>3, <2>5, <2>6 DEF Good, CommitsKept
<1>4. CASE RefreshReviews /\ cell' = cell
  <2>1. UNCHANGED <<cell, durable, disk, faults>>
    BY <1>1, <1>4 DEF RefreshReviews
  <2>2. RestType'
    BY <1>1, <2>1 DEF RestType, durable
  <2> QED BY <1>1, <2>1, <2>2, Untouched DEF Good, CommitsKept
<1> QED BY <1>2, <1>3, <1>4

\* What is loaded is the work of the checkpoint.
LEMMA RestartGood ==
    ASSUME RestType, WorkInv, Restart
    PROVE  Good
<1>1. /\ WellFormed(saved) /\ saved.files \in [Paths -> Content]
      /\ disk \in [Paths -> Content] /\ restarts \in Nat
  BY InvTypes, CellFields
<1>2. /\ restarts' = restarts + 1 /\ cell' = saved /\ saved' = saved /\ refresh' = FALSE
      /\ disk' = [p \in Paths |-> IF saved.files[p] = Absent THEN disk[p]
                                  ELSE saved.files[p]]
      /\ writer' = [p \in Paths |-> NoWriter] /\ focus' = [p \in Paths |-> {}]
      /\ commits' = 0 /\ unsaved' = FALSE /\ UNCHANGED <<misses, edits, faults>>
  BY DEF Restart
<1>3. Matches(saved, disk')
  BY <1>2 DEF Matches
<1>4. Passed(saved)
  BY <1>1, <1>2 DEF Passed, Checkpointed, CountType, SameWork, WellFormed, RestType
<1>5. WorkInv'
  BY <1>1, <1>2, <1>3, <1>4, Recorded DEF WorkInv
<1>6. disk' \in [Paths -> Content]
  BY <1>1, <1>2
<1>7. writer' \in WriterType
  BY <1>2, WorkspaceAssumption DEF WriterType, NoWriter
<1>8. focus' \in [Paths -> SUBSET Humans] /\ commits' \in 0..MaxCommits
      /\ restarts' \in Nat /\ restarts' > 0
  BY <1>1, <1>2, WorkspaceAssumption
<1>9. RestType'
  BY <1>2, <1>4, <1>6, <1>7, <1>8 DEF RestType, Passed, CountType
<1> QED BY <1>5, <1>8, <1>9 DEF Good, CommitsKept

-----------------------------------------------------------------------------
(* The theorems.                                                           *)

\* Every action.
LEMMA NextGood ==
    ASSUME RestType, WorkInv, Next
    PROVE  Good
<1>1. ASSUME NEW p \in Edited, Edit(p) \/ Cursor(p)
      PROVE  Good
  <2>1. p \in Paths
    BY WorkspaceAssumption
  <2> QED BY <1>1, <2>1, EditGood, CursorGood
<1>2. ASSUME NEW p \in Edited, NEW i \in Paths \cup Ids, Review(i, p)
      PROVE  Good
  <2>1. CASE StartCommit(i, p)
    BY <2>1, StartCommitGood
  <2>2. CASE ~StartCommit(i, p)
    <3>1. PICK status \in ReviewStatus \ {"committing"} :
              Decided(Decide(cell, i, status)) /\ UNCHANGED commits
      BY <1>2, <2>2 DEF Review, ApproveEntity, AcknowledgeReview, RejectReview, ReviewStatus
    <3> QED BY <3>1, DecidedGood
  <2> QED BY <2>1, <2>2
<1>3. ASSUME NEW s \in Ids, ShadowDecision(s)
      PROVE  Good
  BY <1>3, ShadowDecisionGood
<1>4. ASSUME NEW s \in Ids, NEW aged \in BOOLEAN, CollectShadowGarbage(s, aged)
      PROVE  Good
  BY <1>4, CollectGood
<1>5. CASE CommitSucceeds \/ CommitFails
  BY <1>5, CommitSucceedsGood, CommitFailsGood
<1>6. CASE RefreshReviews \/ RecordEvent
  BY <1>6, CaughtUpGood
<1>7. CASE Restart
  BY <1>7, RestartGood
<1> QED BY <1>1, <1>2, <1>3, <1>4, <1>5, <1>6, <1>7 DEF Next

\* The invariant holds initially,
LEMMA InvInit == Init => WorkspaceInv
<1> SUFFICES ASSUME Init PROVE WorkspaceInv
  OBVIOUS
<1>1. \A s \in Ids : cell.shadows[s] = NoShadow
  BY DEF Init
<1>2. NoShadow \in Shadow /\ NoShadow.status = "none"
  BY WorkspaceAssumption DEF Shadow, NoShadow
<1>3. cell \in Cell
  <2>1. [p \in Paths |-> Start] \in [Paths -> Content] /\ 0 \in 0..MaxShadows
    BY WorkspaceAssumption DEF Content
  <2>2. [s \in Ids |-> NoShadow] \in [Ids -> Shadow]
    BY <1>2
  <2>3. [i \in Paths \cup Ids |-> "none"] \in [Paths \cup Ids -> ReviewStatus]
    BY DEF ReviewStatus
  <2> QED BY <2>1, <2>2, <2>3 DEF Init, Cell
<1>4. WellFormed(cell)
  BY <1>1, <1>2, <1>3 DEF WellFormed, ShadowsOk
<1>5. Aligned(cell) /\ Matches(cell, disk) /\ saved = cell /\ SameWork(saved, cell)
  BY DEF Init, Aligned, Matches, SameWork
<1>6. WorkInv
  BY <1>4, <1>5 DEF WorkInv
<1>7. writer \in WriterType
  BY WorkspaceAssumption DEF Init, NoWriter, WriterType
<1>8. disk \in [Paths -> Content]
  BY <1>3, CellFields DEF Init
<1>9. RestType
  <2>1. focus \in [Paths -> SUBSET Humans]
    BY DEF Init
  <2>2. 0 \in 0..MaxCommits /\ 0 \in 0..MaxEdits
    BY WorkspaceAssumption
  <2>3. /\ refresh = FALSE /\ commits = 0 /\ edits = 0 /\ restarts = 0 /\ faults = 0
        /\ unsaved = FALSE /\ misses = 0
    BY DEF Init
  <2> QED BY <1>7, <1>8, <2>1, <2>2, <2>3 DEF RestType
<1>10. CommittingHasCommit
  BY DEF Init, CommittingHasCommit
<1> QED BY <1>6, <1>9, <1>10 DEF WorkspaceInv

\* every step keeps it,
LEMMA InvStep == WorkspaceInv /\ [Next]_vars => WorkspaceInv'
<1> SUFFICES ASSUME WorkspaceInv, [Next]_vars PROVE WorkspaceInv'
  OBVIOUS
<1>1. RestType /\ WorkInv /\ CommittingHasCommit
  BY DEF WorkspaceInv
<1>2. CASE Next
  <2>1. RestType' /\ WorkInv' /\ CommitsKept
    BY <1>1, <1>2, NextGood DEF Good
  <2>2. restarts' \in Nat /\ commits' \in Nat
    BY <2>1, WorkspaceAssumption DEF RestType
  <2>3. CommittingHasCommit'
    BY <1>1, <2>1, <2>2 DEF CommittingHasCommit, CommitsKept, NoneCommitting
  <2> QED BY <2>1, <2>3 DEF WorkspaceInv
<1>3. CASE UNCHANGED vars
  BY <1>1, <1>3 DEF vars, durable, WorkspaceInv, RestType, WorkInv, CommittingHasCommit
<1> QED BY <1>2, <1>3

\* and so it always holds.
LEMMA InvHolds == Spec => []WorkspaceInv
BY InvInit, InvStep, PTL DEF Spec

\* Buffers, shadows, reviews, the worktree and the checkpoint stay well formed
\* (TypeOK).
THEOREM TypeCorrect == Spec => []TypeOK
<1>1. WorkspaceInv => TypeOK
  BY DEF WorkspaceInv, RestType, WorkInv, WellFormed, TypeOK, WriterType
<1> QED BY <1>1, InvHolds, PTL

\* The document, the file entry and the worktree of a buffer hold the same text
\* whatever edits, takeovers, undos, adoptions, merges and restarts come in
\* which order, until a worktree write fails (Converged).
THEOREM CopiesConverge == Spec => []Converged
<1>1. WorkspaceInv => Converged
  BY DEF WorkspaceInv, WorkInv, Converged, Aligned, Matches
<1> QED BY <1>1, InvHolds, PTL

\* A shadow that was made from another BASE is stale (StaleMarked).
THEOREM ShadowsAreMarked == Spec => []StaleMarked
<1>1. WorkspaceInv => StaleMarked
  BY DEF WorkspaceInv, WorkInv, WellFormed, ShadowsOk, StaleMarked, Open, Base
<1> QED BY <1>1, InvHolds, PTL

\* Whenever the control plane crashes, its checkpoint has every text, BASE and
\* every shadow, if the last checkpoint did not fail and until a worktree write
\* fails (CrashKeepsWork): one that succeeds makes good for any that failed.
THEOREM WorkSurvivesCrash == Spec => []CrashKeepsWork
<1>1. WorkspaceInv => CrashKeepsWork
  BY DEF WorkspaceInv, WorkInv, SameWork, CrashKeepsWork
<1> QED BY <1>1, InvHolds, PTL

\* No review is left "committing" with no commit to answer
\* (CommittingHasCommit).
THEOREM CommitsAreAwaited == Spec => []CommittingHasCommit
<1>1. WorkspaceInv => CommittingHasCommit
  BY DEF WorkspaceInv
<1> QED BY <1>1, InvHolds, PTL

-----------------------------------------------------------------------------
(* What a takeover and the other steps do to shadows.                      *)

\* There is an open shadow of p with the text "after" that replaced "before".
KeptIn(shadows, p, before, after) ==
    \E s \in Ids : /\ shadows[s].status = "open" /\ shadows[s].path = p
                   /\ shadows[s].after = after /\ shadows[s].before = before

\* A takeover that restores a text keeps the displaced one.
LEMMA RestoredKept ==
    ASSUME writer \in WriterType, NEW c, WellFormed(c), Room(c),
           NEW p \in Paths, c.files[p] \in Texts
    PROVE  KeptIn(Restored(c, p).shadows, p, writer[p].before, c.files[p])
<1>1. PICK w : w = Made(p, Base(c, p), writer[p].before, c.files[p], "open", FALSE)
  OBVIOUS
<1>2. PICK sh : sh = Restored(c, p).shadows
  OBVIOUS
<1>3. sh = [c.shadows EXCEPT ![c.made + 1] = w] /\ c.made + 1 \in Ids
  <2>1. sh = Preserved(c, p).shadows
    BY <1>2, RestoredKeeps
  <2>2. c.made + 1 \in Ids
    BY PreservedKeeps
  <2>3. Preserved(c, p).shadows =
            [c.shadows EXCEPT ![c.made + 1] =
                Made(p, Base(c, p), writer[p].before, c.files[p], "open", FALSE)]
    BY PreservedKeeps
  <2> QED BY <1>1, <2>1, <2>2, <2>3
<1>4. c.shadows \in [Ids -> Shadow]
  BY CellFields DEF WellFormed
<1>5. sh[c.made + 1] = w
  BY <1>3, <1>4
<1>6. /\ w.status = "open" /\ w.path = p
      /\ w.after = c.files[p] /\ w.before = writer[p].before
  BY <1>1 DEF Made
<1> QED BY <1>2, <1>3, <1>5, <1>6 DEF KeptIn

\* A human edit of text the agent wrote keeps that text in an open shadow.
LEMMA EditTakes ==
    ASSUME RestType, WorkInv, NEW p \in Paths, NEW t \in Texts, AgentWriting(p),
           cell.files[p] \notin {Absent, writer[p].before}, cell.files[p] # t,
           NEW c0, c0 = Create(cell, p), NEW ok \in BOOLEAN,
           NEW c1, c1 = Entered(c0, p, t, ok),
           Takes(c0, p, t) /\ Displaced(c0, p) => Room(cell)
    PROVE  /\ KeptIn(Put(c1, p, t).shadows, p, writer[p].before, cell.files[p])
           /\ Put(c1, p, t) \in Cell
<1>1. /\ WellFormed(cell) /\ writer \in WriterType /\ cell.files \in [Paths -> Content]
      /\ t \in Content
  BY InvTypes DEF Content
<1>2. c0 = cell /\ cell.files[p] \in Texts
  BY <1>1 DEF Create, Content
<1>3. Takes(c0, p, t) /\ Displaced(c0, p) /\ Room(cell)
  BY <1>2 DEF Takes, Displaced
<1>4. PICK c : c = Restored(cell, p)
  OBVIOUS
<1>5. c1 = Reviewed(Noted(c, ok))
  BY <1>2, <1>3, <1>4 DEF Entered, TakenOver
<1>6. WellFormed(c) /\ KeptIn(c.shadows, p, writer[p].before, cell.files[p])
  BY <1>1, <1>2, <1>3, <1>4, RestoredKeeps, RestoredKept
<1>7. c1 \in Cell /\ c1.shadows = c.shadows
  BY <1>5, <1>6, NotedKeeps DEF SameWork, WellFormed
<1>8. Put(c1, p, t).shadows = c1.shadows /\ Put(c1, p, t) \in Cell
  <2>1. PICK d \in Cell : d = c1
    BY <1>7
  <2>2. Put(d, p, t).shadows = d.shadows
    BY <1>1, PutFields
  <2>3. Put(d, p, t) \in Cell
    BY <1>1, PutFields
  <2> QED BY <2>1, <2>2, <2>3, Zenon
<1> QED BY <1>6, <1>7, <1>8

\* Recording an edit leaves the files and the shadows of c.
LEMMA EditRecordedStays ==
    ASSUME NEW c \in Cell, NEW whole, NEW failed, NEW was,
           EditRecorded(c, whole, failed, was)
    PROVE  SameWork(c, cell')
<1>1. PICK c2 : /\ c2 \in {Noted(c, TRUE), Noted(c, FALSE)}
                /\ cell' = IF whole THEN Reviewed(c2) ELSE c2
  <2>1. CASE "event" \in failed
    BY <2>1 DEF EditRecorded, Noted
  <2>2. CASE "event" \notin failed
    BY <2>2 DEF EditRecorded, Noted
  <2> QED BY <2>1, <2>2
<1>2. c2 \in Cell /\ SameWork(c, c2)
  BY <1>1, NotedFields
<1>3. SameWork(c2, Reviewed(c2))
  BY <1>2, ReviewedFields
<1> QED BY <1>1, <1>2, <1>3 DEF SameWork

\* So does recording anything else.
LEMMA ReportedStays ==
    ASSUME NEW c \in Cell, Logged(c) \/ Reported(c)
    PROVE  SameWork(c, cell')
<1>1. PICK ok \in BOOLEAN : cell' \in {Noted(c, ok), Reviewed(Noted(c, ok))}
  BY DEF Logged, Reported
<1>2. Noted(c, ok) \in Cell /\ SameWork(c, Noted(c, ok))
  BY NotedFields
<1>3. SameWork(Noted(c, ok), Reviewed(Noted(c, ok)))
  BY <1>2, ReviewedFields
<1> QED BY <1>1, <1>2, <1>3 DEF SameWork

\* The step in which the agent stops being the writer.
LEMMA TakeoverStep ==
    ASSUME RestType, WorkInv, faults = 0, ~Unlucky, NEW p \in Paths, AgentWriting(p),
           cell.files[p] \notin {Absent, writer[p].before}, writer'[p].who # Agent,
           [Next]_vars
    PROVE  \/ cell'.files[p] = cell.files[p]
           \/ KeptIn(cell'.shadows, p, writer[p].before, cell.files[p])
<1>1. /\ WellFormed(cell) /\ writer \in WriterType /\ cell.files \in [Paths -> Content]
      /\ cell.files[p] \in Texts /\ cell \in Cell
  BY InvTypes DEF Content
<1>2. writer' # writer
  BY DEF AgentWriting
<1>3. ASSUME NEW h \in Humans, NEW q \in Edited, FocusFile(h, q)
      PROVE  KeptIn(cell'.shadows, p, writer[p].before, cell.files[p])
  <2>1. /\ AgentWriting(q) /\ (Displaced(cell, q) => Reported(Restored(cell, q)))
        /\ writer' = [writer EXCEPT ![q] = NoWriter]
    BY <1>2, <1>3 DEF FocusFile
  <2>2. q = p
    BY <1>1, <2>1 DEF WriterType, AgentWriting
  <2>3. Displaced(cell, p)
    BY DEF Displaced
  <2>4. Room(cell)
    BY <1>2, <1>3, <2>2, <2>3 DEF FocusFile
  <2>5. PICK c : c = Restored(cell, p)
    OBVIOUS
  <2>6. WellFormed(c) /\ KeptIn(c.shadows, p, writer[p].before, cell.files[p])
    BY <1>1, <2>4, <2>5, RestoredKeeps, RestoredKept
  <2>7. SameWork(c, cell')
    BY <2>1, <2>2, <2>3, <2>5, <2>6, ReportedStays DEF WellFormed
  <2> QED BY <2>6, <2>7 DEF SameWork
<1>4. ASSUME NEW h \in Humans, NEW q \in Edited, NEW t \in Written, NEW whole \in BOOLEAN,
             NEW failed, HumanEdit(h, q, t, whole, failed)
      PROVE  \/ cell'.files[p] = cell.files[p]
             \/ KeptIn(cell'.shadows, p, writer[p].before, cell.files[p])
  <2>1. writer' = [writer EXCEPT ![q] = Writes(h, Empty)] /\ t \in Texts /\ t \in Content
    BY <1>4, WorkspaceAssumption DEF HumanEdit, Content
  <2>2. q = p
    BY <1>1, <2>1 DEF WriterType, AgentWriting
  <2>3. PICK c0 : c0 = Create(cell, p)
    OBVIOUS
  <2>4. /\ Takes(c0, p, t) /\ Displaced(c0, p) => Room(cell)
        /\ \E ok \in BOOLEAN, was \in {saved, Restored(c0, p)} :
              EditRecorded(Put(Entered(c0, p, t, ok), p, t), whole, failed, was)
    BY <1>4, <2>2, <2>3, HumanEditSteps
  <2>5. PICK ok \in BOOLEAN, was \in {saved, Restored(c0, p)} :
            EditRecorded(Put(Entered(c0, p, t, ok), p, t), whole, failed, was)
    BY <2>4
  <2>6. PICK c1 : c1 = Entered(c0, p, t, ok)
    OBVIOUS
  <2>7. PICK c2 : c2 = Put(c1, p, t)
    OBVIOUS
  <2>8. EditRecorded(c2, whole, failed, was)
    BY <2>5, <2>6, <2>7
  <2>9. CASE cell.files[p] = t
    <3>1. c0 = cell /\ c1 = c0
      BY <2>3, <2>6, <2>9 DEF Create, Entered, Takes
    <3>2. c2 \in Cell /\ c2.files = [cell.files EXCEPT ![p] = t]
      BY <1>1, <2>1, <2>7, <3>1, PutFields
    <3>3. cell'.files = c2.files
      BY <2>8, <3>2, EditRecordedStays DEF SameWork
    <3> QED BY <1>1, <2>9, <3>2, <3>3
  <2>10. CASE cell.files[p] # t
    <3>1. c2 \in Cell /\ KeptIn(c2.shadows, p, writer[p].before, cell.files[p])
      BY <2>1, <2>3, <2>4, <2>6, <2>7, <2>10, EditTakes
    <3>2. cell'.shadows = c2.shadows
      BY <2>8, <3>1, EditRecordedStays DEF SameWork
    <3> QED BY <3>1, <3>2
  <2> QED BY <2>9, <2>10
<1>5. ASSUME NEW q \in Edited, NEW t \in Written, HumanEditFails(q, t)
      PROVE  KeptIn(cell'.shadows, p, writer[p].before, cell.files[p])
  <2>1. PICK c0 : c0 = Create(cell, q)
    OBVIOUS
  <2>2. Takes(c0, q, t) /\ writer' = [writer EXCEPT ![q] = NoWriter]
    BY <1>2, <1>5, <2>1 DEF HumanEditFails
  <2>3. Takes(c0, q, t) /\ Displaced(c0, q) => Room(cell)
    BY <1>5, <2>1, HumanEditFailsSteps
  <2>4. PICK ok \in BOOLEAN : cell' = Put(Entered(c0, q, t, ok), q, t)
    BY <1>5, <2>1, HumanEditFailsSteps
  <2>5. PICK c1 : c1 = Entered(c0, q, t, ok)
    OBVIOUS
  <2>6. q = p /\ t \in Texts
    BY <1>1, <2>2, WorkspaceAssumption DEF WriterType, AgentWriting
  <2>7. cell.files[p] # t
    BY <1>1, <2>1, <2>2, <2>6 DEF Create, Takes
  <2> QED BY <2>1, <2>3, <2>4, <2>5, <2>6, <2>7, EditTakes
<1>6. ASSUME NEW q \in Edited, NEW t \in Written, NEW failed, AgentEditLive(q, t, failed)
      PROVE  FALSE
  <2>1. PICK before : writer' = [writer EXCEPT ![q] = Writes(Agent, before)]
    BY <1>6 DEF AgentEditLive
  <2>2. writer'[p].who = Agent
    BY <1>1, <2>1 DEF WriterType, Writes, AgentWriting
  <2> QED BY <2>2
<1>7. CASE Restart
  BY <1>7 DEF Unlucky, Restart, WorkInv, SameWork
<1>8. ASSUME cell' = cell
      PROVE  cell'.files[p] = cell.files[p]
  BY <1>8
<1>9. ASSUME NEW q \in Edited, Edit(q)
      PROVE  \/ cell'.files[p] = cell.files[p]
             \/ KeptIn(cell'.shadows, p, writer[p].before, cell.files[p])
  <2>1. ASSUME \/ DeleteFile(q) \/ DiskDelete(q) \/ SecretEdit(q)
               \/ \E base \in Named, t \in Written \cup {Empty} : UncertainDisk(q, base, t)
               \/ \E t \in Written : \/ AgentEditShadowed(q, t) \/ AgentEditFails(q, t)
                                     \/ UndoEdit(q, t) \/ UndoFails(q, t)
        PROVE  writer' = writer
    BY <2>1 DEF DeleteFile, DiskDelete, RemoveFile, SecretEdit, UncertainDisk,
         AgentEditShadowed, AgentEditFails, UndoEdit, UndoFails, Overwrite, OverwriteFails
  <2> QED BY <1>2, <1>4, <1>5, <1>6, <1>9, <2>1 DEF Edit
<1>10. ASSUME NEW q \in Edited, Cursor(q)
       PROVE  \/ cell'.files[p] = cell.files[p]
              \/ KeptIn(cell'.shadows, p, writer[p].before, cell.files[p])
  BY <1>2, <1>3, <1>8, <1>10 DEF Cursor, Blur, LeaseExpires, FocusFails
<1>11. ASSUME NEW q, NEW i, Review(i, q)
       PROVE  FALSE
  BY <1>2, <1>11 DEF Review, ApproveEntity, StartCommit, AcknowledgeReview, RejectReview,
       Decided
<1>12. ASSUME NEW s, \/ ShadowDecision(s) \/ \E aged \in BOOLEAN : CollectShadowGarbage(s, aged)
       PROVE  FALSE
  BY <1>2, <1>12 DEF ShadowDecision, AdoptShadow, AdoptFails, MergeShadow, MergeFails,
       MergeConflicts, DiscardShadow, CollectShadowGarbage, Overwrite, OverwriteFails, Record
<1>13. CASE CommitSucceeds \/ CommitFails \/ RefreshReviews \/ RecordEvent \/ UNCHANGED vars
  BY <1>2, <1>13 DEF CommitSucceeds, Decided, CommitFails, RefreshReviews, RecordEvent, vars
<1> QED BY <1>7, <1>9, <1>10, <1>11, <1>12, <1>13 DEF Next

\* What the agent wrote is still live, or in an open shadow with the text it had
\* replaced, when the agent stops being the writer, unless it stops by a crash
\* and the last checkpoint before it failed (TakeoverKeepsAgentText).
THEOREM TakeoversKeepText == Spec => TakeoverKeepsAgentText
<1>1. WorkspaceInv /\ [Next]_vars =>
        [faults = 0 /\ ~Unlucky => \A p \in Paths :
          (/\ AgentWriting(p)
           /\ cell.files[p] \notin {Absent, writer[p].before}
           /\ writer'[p].who # Agent)
          => \/ cell'.files[p] = cell.files[p]
             \/ \E s \in Ids :
                   /\ cell'.shadows[s].status = "open"
                   /\ cell'.shadows[s].path = p
                   /\ cell'.shadows[s].after = cell.files[p]
                   /\ cell'.shadows[s].before = writer[p].before]_vars
  BY TakeoverStep DEF WorkspaceInv, KeptIn
<1> QED BY <1>1, InvHolds, PTL DEF Spec, TakeoverKeepsAgentText

\* A new shadow is none of those that were there.
LEMMA AddedElsewhere ==
    ASSUME NEW c, WellFormed(c), NEW s \in Ids, c.shadows[s].status # "none"
    PROVE  s # c.made + 1 /\ c.shadows \in [Ids -> Shadow]
<1>1. c.shadows \in [Ids -> Shadow] /\ c.made \in Int /\ s \in Int
  BY CellFields DEF WellFormed, Ids
<1>2. s <= c.made
  BY DEF WellFormed, ShadowsOk
<1>3. s # c.made + 1
  BY <1>1, <1>2
<1> QED BY <1>1, <1>3

\* Adding a shadow leaves the others.
LEMMA AddShadowStays ==
    ASSUME NEW c, WellFormed(c), Room(c), NEW s \in Ids, c.shadows[s].status # "none",
           NEW p \in Paths, NEW base \in Texts, NEW before \in Texts, NEW after \in Texts,
           NEW status \in Unresolved, NEW fromDisk \in Flag
    PROVE  LET c2 == AddShadow(c, p, base, before, after, status, fromDisk)
           IN  c2 \in Cell /\ c2.shadows[s] = c.shadows[s]
<1>1. PICK c2 : c2 = AddShadow(c, p, base, before, after, status, fromDisk)
  OBVIOUS
<1>2. PICK w : w = Made(p, base, before, after, status, fromDisk)
  OBVIOUS
<1>3. c2 \in Cell /\ c2.shadows = [c.shadows EXCEPT ![c.made + 1] = w]
  BY <1>1, <1>2, AddShadowFields DEF WellFormed
<1>4. c2.shadows[s] = c.shadows[s]
  BY <1>3, AddedElsewhere
<1> QED BY <1>1, <1>3, <1>4

\* So does a takeover.
LEMMA TakenOverStays ==
    ASSUME writer \in WriterType, NEW c, WellFormed(c), NEW p \in Paths,
           Displaced(c, p) => Room(c), c.files[p] \in Texts,
           NEW s \in Ids, c.shadows[s].status # "none", NEW ok \in BOOLEAN
    PROVE  /\ TakenOver(c, p, ok).shadows[s] = c.shadows[s]
           /\ Displaced(c, p) => Restored(c, p).shadows[s] = c.shadows[s]
           /\ Displaced(c, p) => Preserved(c, p).shadows[s] = c.shadows[s]
<1>1. CASE ~Displaced(c, p)
  BY <1>1 DEF TakenOver
<1>2. CASE Displaced(c, p)
  <2>1. PICK sh : sh = Preserved(c, p).shadows
    OBVIOUS
  <2>2. PICK w : w = Made(p, Base(c, p), writer[p].before, c.files[p], "open", FALSE)
    OBVIOUS
  <2>3. Preserved(c, p).shadows =
            [c.shadows EXCEPT ![c.made + 1] =
                Made(p, Base(c, p), writer[p].before, c.files[p], "open", FALSE)]
    BY <1>2, PreservedKeeps
  <2>4. sh = [c.shadows EXCEPT ![c.made + 1] = w]
    BY <2>1, <2>2, <2>3
  <2>5. sh[s] = c.shadows[s]
    BY <2>4, AddedElsewhere
  <2>6. PICK c1 : c1 = Restored(c, p)
    OBVIOUS
  <2>7. WellFormed(c1) /\ c1.shadows = sh
    BY <1>2, <2>1, <2>6, RestoredKeeps
  <2>8. TakenOver(c, p, ok) = Reviewed(Noted(c1, ok))
    BY <1>2, <2>6 DEF TakenOver
  <2>9. Reviewed(Noted(c1, ok)).shadows = c1.shadows
    BY <2>7, NotedKeeps DEF SameWork
  <2> QED BY <2>1, <2>5, <2>6, <2>7, <2>8, <2>9
<1> QED BY <1>1, <1>2

\* Edits, cursors and takeovers leave an open shadow as it is.
LEMMA EditStays ==
    ASSUME RestType, WorkInv, NEW s \in Ids, Open(s), NEW p \in Paths, Edit(p) \/ Cursor(p)
    PROVE  cell'.shadows[s] = cell.shadows[s]
<1>1. /\ WellFormed(cell) /\ writer \in WriterType /\ cell.files \in [Paths -> Content]
      /\ cell \in Cell /\ cell.shadows[s].status # "none" /\ cell.baseline \in [Paths -> Content]
  BY InvTypes DEF Open
<1>2. Written \subseteq Texts /\ Empty \in Texts /\ Texts \subseteq Content /\ Absent \in Content
  BY WorkspaceAssumption DEF Content
<1>3. ASSUME NEW c \in Cell, Reported(c)
      PROVE  cell'.shadows = c.shadows
  BY <1>3, ReportedStays DEF SameWork
<1>4. \A t \in Content : Put(cell, p, t) \in Cell /\ Put(cell, p, t).shadows = cell.shadows
  BY <1>1, PutFields
<1>5. ASSUME NEW c0, NEW t \in Texts, c0 = Create(cell, p), NEW ok \in BOOLEAN,
             Takes(c0, p, t) /\ Displaced(c0, p) => Room(cell),
             NEW c1, c1 = Entered(c0, p, t, ok)
      PROVE  Put(c1, p, t) \in Cell /\ Put(c1, p, t).shadows[s] = cell.shadows[s]
  <2>1. /\ WellFormed(c0) /\ c0.shadows = cell.shadows /\ c0.made = cell.made
        /\ c0.files[p] \in Texts
    BY <1>1, <1>5, CreateKeeps
  <2>2. c1 \in Cell /\ c1.shadows[s] = cell.shadows[s]
    <3>1. CASE Takes(c0, p, t) /\ Displaced(c0, p)
      <4>1. Room(c0)
        BY <1>5, <2>1, <3>1 DEF Room
      <4>2. c1 = TakenOver(c0, p, ok)
        BY <1>5, <3>1 DEF Entered
      <4>3. WellFormed(c1) /\ c1.shadows[s] = c0.shadows[s]
        BY <1>1, <2>1, <4>1, <4>2, TakenOverKeeps, TakenOverStays
      <4> QED BY <2>1, <4>3 DEF WellFormed
    <3>2. CASE ~(Takes(c0, p, t) /\ Displaced(c0, p))
      BY <1>5, <2>1, <3>2 DEF Entered, WellFormed
    <3> QED BY <3>1, <3>2
  <2>3. PICK d \in Cell : d = c1
    BY <2>2
  <2>4. t \in Content
    BY <1>2
  <2>5. Put(d, p, t).shadows = d.shadows
    BY <2>4, PutFields
  <2>6. Put(d, p, t) \in Cell
    BY <2>4, PutFields
  <2> QED BY <2>2, <2>3, <2>5, <2>6
<1>6. ASSUME NEW h \in Humans, NEW t \in Written, NEW whole \in BOOLEAN, NEW failed,
             HumanEdit(h, p, t, whole, failed)
      PROVE  cell'.shadows[s] = cell.shadows[s]
  <2>1. PICK c0 : c0 = Create(cell, p)
    OBVIOUS
  <2>2. /\ Takes(c0, p, t) /\ Displaced(c0, p) => Room(cell)
        /\ \E ok \in BOOLEAN, was \in {saved, Restored(c0, p)} :
              EditRecorded(Put(Entered(c0, p, t, ok), p, t), whole, failed, was)
    BY <1>6, <2>1, HumanEditSteps
  <2>3. PICK ok \in BOOLEAN, was \in {saved, Restored(c0, p)} :
            EditRecorded(Put(Entered(c0, p, t, ok), p, t), whole, failed, was)
    BY <2>2
  <2>4. PICK c1 : c1 = Entered(c0, p, t, ok)
    OBVIOUS
  <2>5. PICK c2 : c2 = Put(c1, p, t)
    OBVIOUS
  <2>6. t \in Texts
    BY <1>2
  <2>7. c2 \in Cell /\ c2.shadows[s] = cell.shadows[s]
    BY <1>5, <2>1, <2>2, <2>4, <2>5, <2>6
  <2>8. EditRecorded(c2, whole, failed, was)
    BY <2>3, <2>4, <2>5
  <2> QED BY <2>7, <2>8, EditRecordedStays DEF SameWork
<1>7. ASSUME NEW t \in Written, HumanEditFails(p, t)
      PROVE  cell'.shadows[s] = cell.shadows[s]
  <2>1. PICK c0 : c0 = Create(cell, p)
    OBVIOUS
  <2>2. Takes(c0, p, t) /\ Displaced(c0, p) => Room(cell)
    BY <1>7, <2>1, HumanEditFailsSteps
  <2>3. PICK ok \in BOOLEAN : cell' = Put(Entered(c0, p, t, ok), p, t)
    BY <1>7, <2>1, HumanEditFailsSteps
  <2>4. PICK c1 : c1 = Entered(c0, p, t, ok)
    OBVIOUS
  <2>5. t \in Texts
    BY <1>2
  <2> QED BY <1>5, <2>1, <2>2, <2>3, <2>4, <2>5
<1>8. ASSUME NEW c0, WellFormed(c0), Room(c0), c0.shadows = cell.shadows,
             NEW base \in Texts, NEW before \in Texts, NEW after \in Texts,
             NEW status \in Unresolved, NEW fromDisk \in Flag,
             Reported(AddShadow(c0, p, base, before, after, status, fromDisk))
      PROVE  cell'.shadows[s] = cell.shadows[s]
  <2>1. PICK c : c = AddShadow(c0, p, base, before, after, status, fromDisk)
    OBVIOUS
  <2>2. c \in Cell /\ c.shadows[s] = c0.shadows[s]
    BY <1>1, <1>8, <2>1, AddShadowStays
  <2> QED BY <1>3, <1>8, <2>1, <2>2
<1>9. Base(cell, p) \in Texts /\ TextOf(cell.files, p) \in Texts
  BY <1>1, TextOfType DEF Base
<1>10. "open" \in Unresolved /\ "blocked" \in Unresolved /\ TRUE \in Flag /\ FALSE \in Flag
  BY DEF Unresolved, Flag
<1>11. ASSUME NEW t \in Written, AgentEditShadowed(p, t)
       PROVE  cell'.shadows[s] = cell.shadows[s]
  <2>1. PICK c0 : c0 = Create(cell, p)
    OBVIOUS
  <2>2. WellFormed(c0) /\ c0.shadows = cell.shadows /\ c0.made = cell.made
    BY <1>1, <2>1, CreateKeeps
  <2>3. PICK status \in Unresolved : status = "open"
    BY <1>10
  <2>4. PICK fromDisk \in Flag : fromDisk = FALSE
    BY <1>10
  <2>5. /\ Room(c0) /\ t \in Texts
        /\ Reported(AddShadow(c0, p, Base(cell, p), TextOf(cell.files, p), t,
                              status, fromDisk))
    BY <1>2, <1>11, <2>1, <2>2, <2>3, <2>4 DEF AgentEditShadowed, Room
  <2> QED BY <1>8, <1>9, <2>2, <2>5
<1>12. CASE SecretEdit(p)
  <2>1. PICK status \in Unresolved : status = "blocked"
    BY <1>10
  <2>2. PICK fromDisk \in Flag : fromDisk = FALSE
    BY <1>10
  <2>3. /\ Room(cell)
        /\ Reported(AddShadow(cell, p, Base(cell, p), TextOf(cell.files, p), Empty,
                              status, fromDisk))
    BY <1>12, <2>1, <2>2 DEF SecretEdit
  <2> QED BY <1>1, <1>2, <1>8, <1>9, <2>3
<1>13. ASSUME NEW base \in Named, NEW t \in Written \cup {Empty}, UncertainDisk(p, base, t)
       PROVE  cell'.shadows[s] = cell.shadows[s]
  <2>1. PICK status \in Unresolved : status = "open"
    BY <1>10
  <2>2. PICK fromDisk \in Flag : fromDisk = TRUE
    BY <1>10
  <2>3. /\ Room(cell) /\ t \in Texts
        /\ Reported(AddShadow(cell, p, base, TextOf(cell.files, p), t,
                              status, fromDisk))
    BY <1>2, <1>13, <2>1, <2>2 DEF UncertainDisk
  <2>4. base \in Texts
    BY WorkspaceAssumption
  <2> QED BY <1>1, <1>8, <1>9, <2>3, <2>4
<1>14. ASSUME NEW t \in Content, Reported(Put(cell, p, t)) \/ cell' = Put(cell, p, t)
       PROVE  cell'.shadows[s] = cell.shadows[s]
  BY <1>3, <1>4, <1>14
<1>15. ASSUME NEW t \in Written,
              \/ \E failed \in SUBSET {"event", "reviews"} : AgentEditLive(p, t, failed)
              \/ AgentEditFails(p, t) \/ UndoEdit(p, t) \/ UndoFails(p, t)
       PROVE  cell'.shadows[s] = cell.shadows[s]
  <2>1. t \in Content
    BY <1>2
  <2>2. ASSUME NEW failed, AgentEditLive(p, t, failed)
        PROVE  cell'.shadows[s] = cell.shadows[s]
    <3>1. EditRecorded(Put(cell, p, t), TRUE, failed, saved)
      BY <2>2 DEF AgentEditLive
    <3>2. PICK c \in Cell : c = Put(cell, p, t) /\ c.shadows = cell.shadows
      BY <1>4, <2>1
    <3>3. PICK whole : whole = TRUE
      OBVIOUS
    <3>4. EditRecorded(c, whole, failed, saved)
      BY <3>1, <3>2, <3>3
    <3> QED BY <3>2, <3>4, EditRecordedStays DEF SameWork
  <2>3. CASE AgentEditFails(p, t) \/ UndoEdit(p, t) \/ UndoFails(p, t)
    <3>1. Reported(Put(cell, p, t)) \/ cell' = Put(cell, p, t)
      BY <2>3 DEF AgentEditFails, UndoEdit, UndoFails, Overwrite, OverwriteFails
    <3> QED BY <1>14, <2>1, <3>1
  <2> QED BY <1>15, <2>2, <2>3
<1>16. CASE DeleteFile(p) \/ DiskDelete(p)
  <2>1. Reported(Put(cell, p, Absent))
    BY <1>16 DEF DeleteFile, DiskDelete, RemoveFile
  <2> QED BY <1>2, <1>14, <2>1
<1>17. ASSUME NEW h \in Humans, FocusFile(h, p)
       PROVE  cell'.shadows[s] = cell.shadows[s]
  <2>1. CASE AgentWriting(p) /\ Displaced(cell, p)
    <3>1. Reported(Restored(cell, p)) /\ cell.files[p] \in Texts /\ Room(cell)
      BY <1>1, <1>17, <2>1 DEF FocusFile, Content
    <3>2. PICK c : c = Restored(cell, p)
      OBVIOUS
    <3>3. WellFormed(c)
      BY <1>1, <3>1, <3>2, RestoredKeeps
    <3>4. c.shadows[s] = cell.shadows[s]
      BY <1>1, <2>1, <3>1, <3>2, TakenOverStays
    <3> QED BY <1>3, <3>1, <3>2, <3>3, <3>4 DEF WellFormed
  <2>2. CASE ~(AgentWriting(p) /\ Displaced(cell, p))
    BY <1>17, <2>2 DEF FocusFile
  <2> QED BY <2>1, <2>2
<1>18. CASE FocusFails(p)
  <2>1. /\ cell' = HalfRestored(cell, p) /\ cell.files[p] \in Texts
        /\ Displaced(cell, p) /\ Room(cell)
    BY <1>1, <1>18 DEF FocusFails, Content
  <2>2. PICK c : c = Preserved(cell, p)
    OBVIOUS
  <2>3. c.shadows[s] = cell.shadows[s]
    BY <1>1, <2>1, <2>2, TakenOverStays
  <2>4. WellFormed(c)
    BY <1>1, <2>1, <2>2, PreservedKeeps
  <2>5. cell'.shadows = c.shadows
    BY <2>1, <2>2, <2>4 DEF HalfRestored, WellFormed, Cell
  <2> QED BY <2>3, <2>5
<1>19. ASSUME (\E h \in Humans : Blur(h, p)) \/ LeaseExpires(p)
       PROVE  cell'.shadows[s] = cell.shadows[s]
  BY <1>19 DEF Blur, LeaseExpires
<1>20. CASE Cursor(p)
  BY <1>17, <1>18, <1>19, <1>20 DEF Cursor
<1>21. CASE Edit(p)
  BY <1>6, <1>7, <1>11, <1>12, <1>13, <1>15, <1>16, <1>21 DEF Edit
<1> QED BY <1>20, <1>21

\* Resolving a shadow settles it and leaves the others.
LEMMA ResolveStays ==
    ASSUME NEW c \in Cell, NEW s \in Ids, NEW r \in Ids,
           NEW status \in {"adopted", "merged", "discarded", "collected"}
    PROVE  /\ r = s => Resolve(c, r, status).shadows[s].status = status
           /\ r # s => Resolve(c, r, status).shadows[s] = c.shadows[s]
<1>1. c.shadows \in [Ids -> Shadow]
  BY CellFields
<1>2. PICK w : w = Settled(c, r, status)
  OBVIOUS
<1>3. w.status = status
  BY <1>2 DEF Settled, NoShadow
<1>4. Resolve(c, r, status).shadows = [c.shadows EXCEPT ![r] = Settled(c, r, status)]
  BY ResolveFields
<1>5. Resolve(c, r, status).shadows = [c.shadows EXCEPT ![r] = w]
  BY <1>2, <1>4
<1> QED BY <1>1, <1>3, <1>5

\* The text an adoption replaces becomes a shadow besides those that are there.
LEMMA AdoptStays ==
    ASSUME RestType, WorkInv, NEW s \in Ids, Open(s), NEW r \in Ids, AdoptShadow(r)
    PROVE  \/ cell'.shadows[s].status = "adopted"
           \/ cell'.shadows[s] = cell.shadows[s]
<1>1. /\ WellFormed(cell) /\ cell \in Cell /\ Open(r) /\ Room(cell)
      /\ cell.shadows \in [Ids -> Shadow]
  BY InvTypes DEF AdoptShadow, Adoptable
<1>2. PICK p \in Paths : p = cell.shadows[r].path
  BY <1>1, OpenShadow
<1>3. PICK base \in Texts : base = cell.shadows[r].base
  BY <1>1, OpenShadow
<1>4. PICK before \in Texts : before = cell.shadows[r].before
  BY <1>1, OpenShadow
<1>5. PICK after \in Texts : after = cell.shadows[r].after
  BY <1>1, OpenShadow
<1>6. PICK fromDisk \in Flag : fromDisk = cell.shadows[r].disk
  BY <1>1, OpenShadow
<1>7. PICK status \in Unresolved : status = "open"
  BY DEF Unresolved
<1>8. PICK adopted \in {"adopted", "merged", "discarded", "collected"} : adopted = "adopted"
  OBVIOUS
<1>9. PICK c1 \in Cell : /\ c1 = Put(cell, p, after)
                          /\ c1.shadows = cell.shadows /\ c1.made = cell.made
  <2>1. after \in Content
    BY DEF Content
  <2>2. Put(cell, p, after) \in Cell
    BY <1>1, <2>1, PutFields
  <2>3. Put(cell, p, after).shadows = cell.shadows
    BY <1>1, <2>1, PutFields
  <2>4. Put(cell, p, after).made = cell.made
    BY <1>1, <2>1, PutFields
  <2> QED BY <2>2, <2>3, <2>4
<1>10. PICK c2 \in Cell : c2 = Resolve(c1, r, adopted)
  BY ResolveFields
<1>11. c2.made = cell.made
  <2>1. Resolve(c1, r, adopted).made = c1.made
    BY ResolveFields
  <2> QED BY <1>9, <1>10, <2>1
<1>12. /\ r = s => c2.shadows[s].status = adopted
       /\ r # s => c2.shadows[s] = cell.shadows[s]
  <2>1. r = s => Resolve(c1, r, adopted).shadows[s].status = adopted
    BY ResolveStays
  <2>2. r # s => Resolve(c1, r, adopted).shadows[s] = c1.shadows[s]
    BY ResolveStays
  <2> QED BY <1>9, <1>10, <2>1, <2>2
<1>13. PICK w : w = Made(p, base, before, after, status, fromDisk)
  OBVIOUS
<1>14. PICK v : v = Made(p, base, after, before, status, fromDisk)
  OBVIOUS
<1>15. PICK c : c = AddShadow(c2, p, base, after, before, status, fromDisk)
  OBVIOUS
<1>16. Room(c2)
  BY <1>1, <1>11 DEF Room
<1>17. c \in Cell /\ c.shadows = [c2.shadows EXCEPT ![c2.made + 1] = v]
  BY <1>14, <1>15, <1>16, AddShadowFields
<1>18. s # cell.made + 1
  BY <1>1, AddedElsewhere DEF Open
<1>19. c.shadows[s] = c2.shadows[s]
  BY <1>11, <1>17, <1>18, CellFields
<1>20. Reported(AddShadow(Resolve(Put(cell, p, after), r, adopted), p, base,
                          after, before, status, fromDisk))
  BY <1>2, <1>3, <1>4, <1>5, <1>6, <1>7, <1>8 DEF AdoptShadow, Overwrite
<1>21. Reported(c)
  BY <1>9, <1>10, <1>15, <1>20
<1>22. cell'.shadows = c.shadows
  BY <1>17, <1>21, ReportedStays DEF SameWork
<1> QED BY <1>8, <1>12, <1>19, <1>22

\* A decision about one shadow leaves the others.
LEMMA DecisionStays ==
    ASSUME RestType, WorkInv, NEW s \in Ids, Open(s), NEW r \in Ids, ShadowDecision(r)
    PROVE  \/ cell'.shadows[s].status \in {"adopted", "merged", "discarded"}
           \/ cell'.shadows[s] = cell.shadows[s]
<1>1. WellFormed(cell) /\ cell \in Cell /\ cell.shadows \in [Ids -> Shadow]
  BY InvTypes
<1>2. ASSUME NEW c \in Cell, Reported(c)
      PROVE  cell'.shadows = c.shadows
  BY <1>2, ReportedStays DEF SameWork
<1>3. ASSUME NEW p \in Paths, NEW t \in Texts
      PROVE  Put(cell, p, t) \in Cell /\ Put(cell, p, t).shadows = cell.shadows
  BY <1>1, PutFields DEF Content
<1>4. CASE AdoptShadow(r)
  BY <1>4, AdoptStays
<1>5. ASSUME NEW t \in Texts, MergeShadow(r, t)
      PROVE  \/ cell'.shadows[s].status = "merged"
             \/ cell'.shadows[s] = cell.shadows[s]
  <2>1. Open(r)
    BY <1>5 DEF MergeShadow, Mergeable
  <2>2. PICK p \in Paths : p = cell.shadows[r].path
    BY <1>1, <2>1, OpenShadow
  <2>3. PICK status \in {"adopted", "merged", "discarded", "collected"} : status = "merged"
    OBVIOUS
  <2>4. PICK c1 \in Cell : c1 = Put(cell, p, t)
    BY <1>3
  <2>5. PICK c \in Cell : c = Resolve(c1, r, status)
    BY ResolveFields
  <2>6. /\ r = s => c.shadows[s].status = status
        /\ r # s => c.shadows[s] = c1.shadows[s]
    BY <2>5, ResolveStays
  <2>7. Reported(c)
    BY <1>5, <2>2, <2>3, <2>4, <2>5 DEF MergeShadow, Overwrite
  <2>8. c1.shadows = cell.shadows
    BY <1>3, <2>4
  <2> QED BY <1>2, <2>3, <2>6, <2>7, <2>8
<1>6. CASE AdoptFails(r) \/ \E t \in Texts : MergeFails(r, t)
  <2>1. Open(r)
    BY <1>6 DEF AdoptFails, Adoptable, MergeFails, Mergeable
  <2>2. PICK p \in Paths : p = cell.shadows[r].path
    BY <1>1, <2>1, OpenShadow
  <2>3. cell.shadows[r].after \in Texts
    BY <1>1, <2>1, OpenShadow
  <2>4. PICK t \in Texts : cell' = Put(cell, p, t)
    BY <1>6, <2>2, <2>3 DEF AdoptFails, MergeFails, OverwriteFails
  <2> QED BY <1>3, <2>4
<1>7. CASE MergeConflicts(r)
  BY <1>1, <1>2, <1>7 DEF MergeConflicts, Record
<1>8. CASE DiscardShadow(r)
  <2>1. PICK status \in {"adopted", "merged", "discarded", "collected"} :
            status = "discarded"
    OBVIOUS
  <2>2. PICK c1 \in Cell : c1 = Resolve(cell, r, status)
    BY <1>1, ResolveFields
  <2>3. PICK base \in Texts : base = cell.shadows[r].base
    BY <1>1 DEF Shadow
  <2>4. PICK stale \in Flag : stale = cell.shadows[r].stale
    BY <1>1 DEF Shadow, Flag
  <2>5. PICK c : c = [c1 EXCEPT !.shadows[r].base = base, !.shadows[r].stale = stale]
    OBVIOUS
  <2>6. c1.shadows \in [Ids -> Shadow]
    BY CellFields
  <2>7. PICK w \in Shadow : w = [c1.shadows[r] EXCEPT !.base = base, !.stale = stale]
    BY <2>6 DEF Shadow, Flag
  <2>8. w.status = c1.shadows[r].status
    BY <2>6, <2>7 DEF Shadow
  <2>9. c = [c1 EXCEPT !.shadows = [c1.shadows EXCEPT ![r] = w]]
    BY <2>5, <2>6, <2>7 DEF Cell, Shadow
  <2>10. [c1.shadows EXCEPT ![r] = w] \in [Ids -> Shadow]
    BY <2>6, <2>7
  <2>11. c \in Cell /\ c.shadows = [c1.shadows EXCEPT ![r] = w]
    BY <2>9, <2>10 DEF Cell
  <2>12. /\ r = s => c1.shadows[s].status = status
         /\ r # s => c1.shadows[s] = cell.shadows[s]
    BY <1>1, <2>2, ResolveStays
  <2>13. Reported(c)
    BY <1>8, <2>1, <2>2, <2>3, <2>4, <2>5 DEF DiscardShadow, Record
  <2>14. cell'.shadows = [c1.shadows EXCEPT ![r] = w]
    BY <1>2, <2>11, <2>13
  <2> QED BY <2>1, <2>6, <2>8, <2>12, <2>14
<1>9. Written \subseteq Texts
  BY WorkspaceAssumption
<1> QED BY <1>4, <1>5, <1>6, <1>7, <1>8, <1>9 DEF ShadowDecision

\* The answer to a commit may make a shadow stale, and changes nothing else in
\* it.
LEMMA CommitStays ==
    ASSUME RestType, WorkInv, NEW s \in Ids, CommitSucceeds
    PROVE  cell'.shadows[s] \in {cell.shadows[s], [cell.shadows[s] EXCEPT !.stale = TRUE]}
<1>1. cell \in Cell
  BY InvTypes
<1>2. PICK c1 \in Cell : c1 = Turn(cell, "committing", "approved") /\ c1.shadows = cell.shadows
  BY <1>1, TurnFields DEF SameWork, ReviewStatus
<1>3. PICK sh : sh = Outdated(cell.files)
  OBVIOUS
<1>4. PICK c : c = [c1 EXCEPT !.baseline = cell.files, !.shadows = sh]
  OBVIOUS
<1>5. Logged(c)
  BY <1>2, <1>3, <1>4 DEF CommitSucceeds, Decided
<1>6. c \in Cell /\ c.shadows = sh
  <2>1. cell.files \in [Paths -> Content] /\ \A r \in Ids : cell.shadows[r] \in Shadow
    BY <1>1, CellFields
  <2>2. ASSUME NEW r \in Ids
        PROVE  sh[r] \in Shadow
    BY <1>3, <2>1 DEF Outdated, Shadow
  <2>3. sh \in [Ids -> Shadow]
    BY <1>3, <2>2 DEF Outdated
  <2> QED BY <1>2, <1>4, <2>1, <2>3 DEF Cell
<1>7. cell'.shadows = sh
  BY <1>5, <1>6, ReportedStays DEF SameWork
<1> QED BY <1>3, <1>7 DEF Outdated

\* What a step may do to an open shadow.
LEMMA OpenStep ==
    ASSUME RestType, WorkInv, faults = 0, ~Unlucky, NEW s \in Ids, Open(s), [Next]_vars
    PROVE  \/ cell'.shadows[s].status \in {"adopted", "merged", "discarded"}
           \/ cell'.shadows[s] \in {cell.shadows[s], [cell.shadows[s] EXCEPT !.stale = TRUE]}
           \/ CollectShadowGarbage(s, TRUE)
<1>1. cell \in Cell
  BY InvTypes
<1>2. ASSUME SameWork(cell, cell')
      PROVE  cell'.shadows[s] = cell.shadows[s]
  BY <1>2 DEF SameWork
<1>3. ASSUME NEW p \in Edited, Edit(p) \/ Cursor(p)
      PROVE  cell'.shadows[s] = cell.shadows[s]
  BY <1>3, EditStays, WorkspaceAssumption
<1>4. ASSUME NEW p \in Edited, NEW i \in Paths \cup Ids, Review(i, p)
      PROVE  SameWork(cell, cell')
  <2>1. \A status \in ReviewStatus :
            Decide(cell, i, status) \in Cell /\ SameWork(cell, Decide(cell, i, status))
    BY <1>1, DecideFields
  <2>2. CASE ApproveEntity(i, p) \/ AcknowledgeReview(i, p) \/ RejectReview(i, p)
    <3>1. PICK status \in ReviewStatus : Logged(Decide(cell, i, status))
      BY <2>2 DEF ApproveEntity, AcknowledgeReview, RejectReview, Decided, ReviewStatus
    <3>2. PICK c \in Cell : c = Decide(cell, i, status)
      BY <2>1
    <3>3. SameWork(c, cell') /\ SameWork(cell, c)
      BY <2>1, <3>1, <3>2, ReportedStays
    <3> QED BY <3>3 DEF SameWork
  <2>3. CASE StartCommit(i, p)
    <3>1. PICK d \in Cell : d = Decide(cell, i, "accepted")
      BY <1>1, DecideFields DEF ReviewStatus
    <3>2. cell' = Turn(d, "accepted", "committing")
      BY <2>3, <3>1 DEF StartCommit
    <3>3. SameWork(cell, d) /\ SameWork(d, cell')
      BY <2>1, <3>1, <3>2, TurnFields DEF ReviewStatus
    <3> QED BY <3>3 DEF SameWork
  <2> QED BY <1>4, <2>2, <2>3 DEF Review
<1>5. ASSUME NEW r \in Ids, ShadowDecision(r)
      PROVE  \/ cell'.shadows[s].status \in {"adopted", "merged", "discarded"}
             \/ cell'.shadows[s] = cell.shadows[s]
  BY <1>5, DecisionStays
<1>6. ASSUME NEW r \in Ids, NEW aged \in BOOLEAN, CollectShadowGarbage(r, aged)
      PROVE  cell'.shadows[s] = cell.shadows[s] \/ CollectShadowGarbage(s, TRUE)
  <2>1. CASE r = s
    <3>1. ~Resolved(s)
      BY DEF Open, Resolved
    <3>2. aged = TRUE
      BY <1>6, <2>1, <3>1 DEF CollectShadowGarbage
    <3> QED BY <1>6, <2>1, <3>2
  <2>2. CASE r # s
    BY <1>1, <1>6, <2>2, ResolveStays DEF CollectShadowGarbage
  <2> QED BY <2>1, <2>2
<1>7. CASE CommitSucceeds
  BY <1>7, CommitStays
<1>8. CASE CommitFails
  <2>1. PICK c \in Cell : c = Turn(cell, "committing", "pending") /\ SameWork(cell, c)
    BY <1>1, TurnFields DEF ReviewStatus
  <2>2. SameWork(c, cell')
    BY <1>8, <2>1, ReportedStays DEF CommitFails
  <2> QED BY <1>2, <2>1, <2>2 DEF SameWork
<1>9. CASE RefreshReviews
  BY <1>1, <1>2, <1>9, ReviewedFields DEF RefreshReviews
<1>10. CASE RecordEvent \/ UNCHANGED vars
  BY <1>1, <1>2, <1>10, ReportedStays DEF RecordEvent, vars
<1>11. CASE Restart
  BY <1>11 DEF Unlucky, Restart, WorkInv, SameWork
<1> QED BY <1>2, <1>3, <1>4, <1>5, <1>6, <1>7, <1>8, <1>9, <1>10, <1>11 DEF Next

\* An open shadow keeps its texts until it is resolved or collected for its age,
\* whatever is edited, decided or committed meanwhile, and whatever restarts,
\* unless the last checkpoint before a crash failed (OpenShadowKept).
THEOREM OpenShadowsStay == Spec => OpenShadowKept
<1>1. WorkspaceInv /\ [Next]_vars =>
        [faults = 0 /\ ~Unlucky => \A s \in Ids : Open(s) =>
          \/ cell'.shadows[s].status \in {"adopted", "merged", "discarded"}
          \/ cell'.shadows[s] \in {cell.shadows[s],
                                   [cell.shadows[s] EXCEPT !.stale = TRUE]}
          \/ CollectShadowGarbage(s, TRUE)]_vars
  BY OpenStep DEF WorkspaceInv
<1> QED BY <1>1, InvHolds, PTL DEF Spec, OpenShadowKept

=============================================================================
