--------------------------- MODULE ReviewedEdits ---------------------------
(***************************************************************************)
(* What the change-request feature promises its users (USER_GUIDE.md,      *)
(* "optimistic lock"): a request is decided once; approving it replaces    *)
(* the file in GitLab in the same instant, and only while the file still   *)
(* has the version the requester edited.  ChangeRequests implements this   *)
(* in several steps; one of its runs checks that it does so as long as     *)
(* those steps do not interleave with another writer.                      *)
(***************************************************************************)
CONSTANTS Ids,        \* change-request ids
          Files,      \* paths in the GitLab repository
          Contents,   \* file contents
          Blank,      \* the content of an empty file
          Trim,       \* the version (hash) of a content
          None        \* "no file", "no request"

VARIABLES repo,       \* repo[f]: the content of f on the branch, or None
          request     \* request[i]: the request as its users see it, or None

vars == <<repo, request>>

Statuses == {"pending", "approved", "rejected", "conflict", "withdrawn"}

Request == [file: Files, new: Contents, base: Contents, status: Statuses]

Submission == [file: Files, new: Contents, base: Contents, status: {"pending"}]

Version(c) == IF c = None THEN Blank ELSE Trim[c]

Pending(i) == request[i] # None /\ request[i].status = "pending"

Current(i) == Version(repo[request[i].file]) = request[i].base

Decide(i, s) == request' = [request EXCEPT ![i].status = s]

Init ==
  /\ repo \in [Files -> Contents \cup {None}]
  /\ request = [i \in Ids |-> None]

Submit(i) ==
  /\ request[i] = None
  /\ \E r \in Submission : request' = [request EXCEPT ![i] = r]
  /\ UNCHANGED repo

\* Approval and commit are one step, taken only on the version that was edited.
Approve(i) ==
  /\ Pending(i)
  /\ Current(i)
  /\ Decide(i, "approved")
  /\ repo' = [repo EXCEPT ![request[i].file] = request[i].new]

\* The file has another version: the request is void and nothing is written.
Invalidate(i) ==
  /\ Pending(i)
  /\ ~Current(i)
  /\ Decide(i, "conflict")
  /\ UNCHANGED repo

Reject(i) ==
  /\ Pending(i)
  /\ Decide(i, "rejected")
  /\ UNCHANGED repo

Withdraw(i) ==
  /\ request[i] # None
  /\ Decide(i, "withdrawn")
  /\ UNCHANGED repo

\* Any other writer of the repository: a push, or a reverse synchronisation.
OtherCommit(f) ==
  /\ \E c \in Contents \cup {None} : repo' = [repo EXCEPT ![f] = c]
  /\ UNCHANGED request

Next ==
  \/ \E i \in Ids : Submit(i) \/ Approve(i) \/ Invalidate(i) \/ Reject(i) \/ Withdraw(i)
  \/ \E f \in Files : OtherCommit(f)

Spec == Init /\ [][Next]_vars
=============================================================================
