--------------------------- MODULE CommitService ---------------------------
(***************************************************************************)
(* What review.Committer promises ApproveReview (internal/review/service.go *)
(* and internal/cell/store.go): a call is answered once, with an error or   *)
(* with the receipt of a revision that contains the commit made for that    *)
(* very call.  An error promises nothing: the commit may have been made.    *)
(***************************************************************************)
EXTENDS Integers, Sequences

CONSTANTS Requests, \* the calls of Committer.Commit
          None      \* not answered yet

VARIABLES asked,  \* the calls that have been made
          log,    \* the commits of the cell's branch, oldest first
          answer  \* None, 0 for an error, or the revision of the receipt

svars == <<asked, log, answer>>

\* Revision n contains the commit made for r.
Contains(n, r) == n <= Len(log) /\ \E i \in 1..n : log[i] = r

Init ==
    /\ asked = {}
    /\ log = << >>
    /\ answer = [r \in Requests |-> None]

Ask(r) ==
    /\ r \notin asked
    /\ asked' = asked \cup {r}
    /\ UNCHANGED <<log, answer>>

\* A call that cannot be relayed is refused at once.
Refuse(r) ==
    /\ r \notin asked
    /\ asked' = asked \cup {r}
    /\ answer' = [answer EXCEPT ![r] = 0]
    /\ UNCHANGED log

Commit(r) ==
    /\ r \in asked
    /\ \A i \in 1..Len(log) : log[i] # r
    /\ log' = Append(log, r)
    /\ UNCHANGED <<asked, answer>>

Fail(r) ==
    /\ r \in asked
    /\ answer[r] = None
    /\ answer' = [answer EXCEPT ![r] = 0]
    /\ UNCHANGED <<asked, log>>

Receipt(r, n) ==
    /\ r \in asked
    /\ answer[r] = None
    /\ Contains(n, r)
    /\ answer' = [answer EXCEPT ![r] = n]
    /\ UNCHANGED <<asked, log>>

Next ==
    \E r \in Requests : \/ Ask(r) \/ Refuse(r) \/ Commit(r) \/ Fail(r)
                        \/ \E n \in 1..Len(log) : Receipt(r, n)

Spec == Init /\ [][Next]_svars
=============================================================================
