--------------------------- MODULE ChangeRequests ---------------------------
(***************************************************************************)
(* The change-request feature: internal/api/change_request.go over         *)
(* internal/store/change_request_store.go and the GitLab client.           *)
(*                                                                         *)
(* Every HTTP request runs in a goroutine of its own.  The store protects  *)
(* each of its calls with a mutex, but a handler makes several calls (Get, *)
(* GetFile, GetRawFile, CreateCommit, Update) and holds no lock in         *)
(* between, so a handler is a sequence of steps on a private COPY of the   *)
(* request.  GitLab is modelled from how the code uses it: a branch whose  *)
(* files other writers (pushes, reverse syncs) change at any time.         *)
(***************************************************************************)
EXTENDS Naturals, FiniteSets

CONSTANTS
  Handlers,     \* HTTP requests the server can process at the same time
  Ids,          \* ids the store can issue ("cr-<nanoseconds>", never reissued)
  Files,        \* paths of ConfigMap files in the repository
  Contents,     \* file contents
  Blank,        \* the empty content
  Trim,         \* Trim[c]: c without surrounding white space; stands for its SHA-256
  None,         \* no file, no request, no id
  Faults,       \* the kinds of failure that may happen, see FaultKinds
  Overlap,      \* TRUE: handlers and other writers interleave freely, as they do
  MaxRev,       \* bound: commits per file
  MaxCrashes    \* bound: process crashes

FaultKinds == {"read",         \* a GitLab read fails
               "commit",       \* CreateCommit fails and changes nothing
               "lost_reply",   \* CreateCommit takes effect but its reply is lost
               "save",         \* the store's file cannot be written
               "crash"}        \* the process dies

ChangeRequest == [file: Files, old: Contents, new: Contents, base: Contents,
                  status: {"pending", "approved", "rejected", "conflict"},
                  commitError: BOOLEAN]

\* What the requester submits; no handler changes it afterwards.
Bodies == [file: Files, old: Contents, new: Contents, base: Contents]

Body(cr) == [file |-> cr.file, old |-> cr.old, new |-> cr.new, base |-> cr.base]

ASSUME ContentAssumption ==
  /\ Blank \in Contents
  /\ Trim \in [Contents -> Contents]
  /\ Trim[Blank] = Blank

ASSUME NoneAssumption ==
  /\ None \notin Ids
  /\ None \notin Contents
  /\ None \notin ChangeRequest \cup Bodies

ASSUME EnvironmentAssumption ==
  /\ Faults \subseteq FaultKinds
  /\ Overlap \in BOOLEAN
  /\ MaxRev \in Nat
  /\ MaxCrashes \in Nat

VARIABLES
  repo,       \* repo[f]: content of f on the branch, None if there is no such file
  rev,        \* rev[f]: number of commits that touched f
  commits,    \* those commits, see Commit
  requests,   \* the store's list in memory, by id
  disk,       \* change_requests.json
  filed,      \* history: what was submitted under each id, None if not issued
  handler,    \* handler[h]: where a handler is and what it remembers
  crashes     \* number of crashes so far

vars == <<repo, rev, commits, requests, disk, filed, handler, crashes>>

\* author: the request committed, None for another writer; parent: what was replaced;
\* at: rev[file] when it was replaced; seen: rev[file] at the approver's version check.
Commit == [author: Ids \cup {None}, file: Files, content: Contents \cup {None},
           base: Contents, parent: Contents \cup {None}, at: Nat, seen: Nat]

Steps == {"idle", "loaded", "create", "check", "probe", "commit",
          "save_approved", "save_error", "save_conflict", "save_rejected", "delete"}

\* Between these steps an approval or a rejection works on a copy it took while pending.
Reviewing == {"check", "probe", "commit", "save_approved", "save_error",
              "save_conflict", "save_rejected"}

\* Steps that end in the store's save().
Saving == {"create", "save_approved", "save_error", "save_conflict", "save_rejected", "delete"}

Local == [pc: Steps, id: Ids \cup {None}, cr: ChangeRequest \cup {None},
          exists: BOOLEAN, seen: Nat]

Idle == [pc |-> "idle", id |-> None, cr |-> None, exists |-> FALSE, seen |-> 0]

-----------------------------------------------------------------------------
(* GitLab, as the handlers use it.                                          *)

\* The version of what a caller that takes a failed read for an empty file sees.
Version(c) == IF c = None THEN Blank ELSE Trim[c]

\* GetFile with its error dropped: "content := ''; if b, err := GetFile(); err == nil".
BestEffortRead(f) ==
  {IF repo[f] = None THEN Blank ELSE repo[f]}
    \cup (IF "read" \in Faults THEN {Blank} ELSE {})

\* A commit lands: nothing in CreateCommit compares it with an expected version.
Land(e) ==
  /\ repo' = [repo EXCEPT ![e.file] = e.content]
  /\ rev' = [rev EXCEPT ![e.file] = @ + 1]
  /\ commits' = commits \cup {e}

-----------------------------------------------------------------------------
(* The store: each call is atomic; memory changes even when save() fails.   *)

Save(list) ==
  /\ requests' = list
  /\ disk' = list \/ ("save" \in Faults /\ disk' = disk)

\* Faulty variant: Update inserts a record it does not find.
Upsert(i, cr) == Save([requests EXCEPT ![i] = cr])

\* Update replaces the whole record; an unknown id is ErrNotFound.
Update(i, cr) ==
  IF requests[i] = None THEN UNCHANGED <<requests, disk>>
                        ELSE Save([requests EXCEPT ![i] = cr])

\* Faulty variant: the status is not looked at.
IsKnown(i) == requests[i] # None

IsPending(i) == requests[i] # None /\ requests[i].status = "pending"

-----------------------------------------------------------------------------
(* Handlers.  A handler that answers an error before its first effect (not  *)
(* found, already decided, no permission) changes nothing and is no step.   *)

InFlight(h) == handler[h].pc \notin {"idle", "loaded"}

Goto(h, local) == handler' = [handler EXCEPT ![h] = local]

MayEnter == Overlap \/ \A h \in Handlers : ~InFlight(h)

Free == {i \in Ids : filed[i] = None}

Creating == {h \in Handlers : handler[h].pc = "create"}

\* The browser opens a file (GET load-file) and keeps its version as the base.
Load(h, f) ==
  /\ handler[h].pc = "idle"
  /\ repo[f] # None
  /\ \E c \in Contents :
       /\ c = repo[f]
       /\ Goto(h, [Idle EXCEPT !.pc = "loaded",
                     !.cr = [file |-> f, old |-> Blank, new |-> c, base |-> Trim[c],
                             status |-> "pending", commitError |-> FALSE]])
  /\ UNCHANGED <<repo, rev, commits, requests, disk, filed, crashes>>

\* Faulty variant: no fallback when the client sends no version.
BaseVersionUnset(h, fetched) ==
  IF handler[h].pc = "loaded" THEN handler[h].cr.base ELSE None

\* baseVersion := body.BaseVersion; if it is empty, the hash of what was just fetched.
BaseVersion(h, fetched) ==
  IF handler[h].pc = "loaded" THEN handler[h].cr.base ELSE Trim[fetched]

\* POST change-requests, first half: fetch the content shown as the diff's left side.
CreateFetch(h, f, new) ==
  /\ handler[h].pc \in {"idle", "loaded"}
  /\ handler[h].pc = "loaded" => handler[h].cr.file = f
  /\ MayEnter
  /\ Trim[new] # Blank
  /\ Cardinality(Free) > Cardinality(Creating)   \* bound: an id will be left
  /\ \E fetched \in BestEffortRead(f) :
       Goto(h, [Idle EXCEPT !.pc = "create",
                  !.cr = [file |-> f, old |-> fetched, new |-> new,
                          base |-> BaseVersion(h, fetched),
                          status |-> "pending", commitError |-> FALSE]])
  /\ UNCHANGED <<repo, rev, commits, requests, disk, filed, crashes>>

\* POST change-requests, second half: changeReqStore.Create issues an id and appends.
CreateStore(h) ==
  /\ handler[h].pc = "create"
  /\ \E i \in Free :
       /\ Save([requests EXCEPT ![i] = handler[h].cr])
       /\ filed' = [filed EXCEPT ![i] = Body(handler[h].cr)]
  /\ Goto(h, Idle)
  /\ UNCHANGED <<repo, rev, commits, crashes>>

\* The first call of approve and of reject: Get a copy, which must be pending.
StartReview(h, i, step) ==
  /\ handler[h].pc = "idle"
  /\ MayEnter
  /\ IsPending(i)
  /\ Goto(h, [Idle EXCEPT !.pc = step, !.id = i, !.cr = requests[i]])
  /\ UNCHANGED <<repo, rev, commits, requests, disk, filed, crashes>>

ApproveStart(h, i) == StartReview(h, i, "check")

\* Faulty variants: no comparison; comparison of contents that are not trimmed.
AlwaysMatches(cr, current) == TRUE

RawMatches(cr, current) == current = cr.base

\* contentHash(currentContent) != cr.BaseVersion, negated.
BaseMatches(cr, current) == Trim[current] = cr.base

\* The optimistic-lock check: re-read the file and compare its version to the base.
ApproveCheck(h) ==
  LET l == handler[h] IN
  /\ l.pc = "check"
  /\ \E current \in BestEffortRead(l.cr.file) :
       Goto(h, [l EXCEPT !.seen = rev[l.cr.file],
                         !.pc = IF BaseMatches(l.cr, current) THEN "probe"
                                                              ELSE "save_conflict"])
  /\ UNCHANGED <<repo, rev, commits, requests, disk, filed, crashes>>

\* The handler's last store call; the copy was pending, so only these fields differ.
Finish(h, step, status, failed) ==
  LET l == handler[h] IN
  /\ l.pc = step
  /\ Update(l.id, [l.cr EXCEPT !.status = status, !.commitError = failed])
  /\ Goto(h, Idle)
  /\ UNCHANGED <<repo, rev, commits, filed, crashes>>

ApproveConflict(h) == Finish(h, "save_conflict", "conflict", handler[h].cr.commitError)

\* CommitFiles reads the file once more to choose the commit action, create or update.
ApproveProbe(h) ==
  LET l == handler[h] IN
  /\ l.pc = "probe"
  /\ \E exists \in {repo[l.cr.file] # None} \cup (IF "read" \in Faults THEN {FALSE} ELSE {}) :
       Goto(h, [l EXCEPT !.pc = "commit", !.exists = exists])
  /\ UNCHANGED <<repo, rev, commits, requests, disk, filed, crashes>>

\* GitLab refuses to create a file that exists and to update one that does not.
Accepted(l) == l.exists = (repo[l.cr.file] # None)

\* Faulty variant: OldYAML is sent in place of NewYAML.
CommitOfOld(l) ==
  [author |-> l.id, file |-> l.cr.file, content |-> l.cr.old, base |-> l.cr.base,
   parent |-> repo[l.cr.file], at |-> rev[l.cr.file], seen |-> l.seen]

CommitOf(l) ==
  [author |-> l.id, file |-> l.cr.file, content |-> l.cr.new, base |-> l.cr.base,
   parent |-> repo[l.cr.file], at |-> rev[l.cr.file], seen |-> l.seen]

\* CreateCommit takes effect; the reply may get lost.
ApproveCommit(h) ==
  LET l == handler[h] IN
  /\ l.pc = "commit"
  /\ Accepted(l)
  /\ rev[l.cr.file] < MaxRev
  /\ Land(CommitOf(l))
  /\ \/ Goto(h, [l EXCEPT !.pc = "save_approved"])
     \/ "lost_reply" \in Faults /\ Goto(h, [l EXCEPT !.pc = "save_error"])
  /\ UNCHANGED <<requests, disk, filed, crashes>>

\* Faulty variant: the error of CommitFile is dropped.
ApproveCommitErrorDropped(h) ==
  LET l == handler[h] IN
  /\ l.pc = "commit"
  /\ ~Accepted(l) \/ "commit" \in Faults
  /\ Goto(h, [l EXCEPT !.pc = "save_approved"])
  /\ UNCHANGED <<repo, rev, commits, requests, disk, filed, crashes>>

\* CreateCommit fails: refused, or for a reason of its own.
ApproveCommitFails(h) ==
  LET l == handler[h] IN
  /\ l.pc = "commit"
  /\ ~Accepted(l) \/ "commit" \in Faults
  /\ Goto(h, [l EXCEPT !.pc = "save_error"])
  /\ UNCHANGED <<repo, rev, commits, requests, disk, filed, crashes>>

\* The commit failed: the copy, still pending, is written back with the error.
ApproveError(h) == Finish(h, "save_error", "pending", TRUE)

ApproveSave(h) == Finish(h, "save_approved", "approved", FALSE)

RejectStart(h, i) == StartReview(h, i, "save_rejected")

RejectSave(h) == Finish(h, "save_rejected", "rejected", handler[h].cr.commitError)

\* DELETE: Get for the permission check, then Delete by id; any status can be deleted.
DeleteStart(h, i) ==
  /\ handler[h].pc = "idle"
  /\ MayEnter
  /\ requests[i] # None
  /\ Goto(h, [Idle EXCEPT !.pc = "delete", !.id = i, !.cr = requests[i]])
  /\ UNCHANGED <<repo, rev, commits, requests, disk, filed, crashes>>

DeleteStore(h) ==
  LET i == handler[h].id IN
  /\ handler[h].pc = "delete"
  /\ IF requests[i] = None THEN UNCHANGED <<requests, disk>>
                           ELSE Save([requests EXCEPT ![i] = None])
  /\ Goto(h, Idle)
  /\ UNCHANGED <<repo, rev, commits, filed, crashes>>

-----------------------------------------------------------------------------
(* The environment.                                                         *)

OtherCommit(f, c) ==
  /\ MayEnter
  /\ rev[f] < MaxRev
  /\ c # repo[f]
  /\ Land([author |-> None, file |-> f, content |-> c, base |-> Blank,
            parent |-> repo[f], at |-> rev[f], seen |-> rev[f]])
  /\ UNCHANGED <<requests, disk, filed, handler, crashes>>

\* The process dies and comes back: the store reloads its file, handlers are gone,
\* what a browser has loaded is not.
Restart(file) ==
  /\ "crash" \in Faults
  /\ crashes < MaxCrashes
  /\ crashes' = crashes + 1
  /\ disk' = file
  /\ requests' = file
  /\ handler' = [h \in Handlers |-> IF InFlight(h) THEN Idle ELSE handler[h]]
  /\ UNCHANGED <<repo, rev, commits, filed>>

Crash == Restart(disk)

\* os.WriteFile truncates the file first; load() drops a file it cannot parse.
CrashWhileSaving ==
  /\ \E h \in Handlers : handler[h].pc \in Saving
  /\ Restart([i \in Ids |-> None])

Init ==
  /\ repo \in [Files -> Contents \cup {None}]
  /\ rev = [f \in Files |-> 0]
  /\ commits = {}
  /\ requests = [i \in Ids |-> None]
  /\ disk = requests
  /\ filed = [i \in Ids |-> None]
  /\ handler = [h \in Handlers |-> Idle]
  /\ crashes = 0

Handle(h) ==
  \/ \E f \in Files : Load(h, f)
  \/ \E f \in Files, c \in Contents : CreateFetch(h, f, c)
  \/ \E i \in Ids : ApproveStart(h, i) \/ RejectStart(h, i) \/ DeleteStart(h, i)
  \/ CreateStore(h)
  \/ ApproveCheck(h) \/ ApproveConflict(h) \/ ApproveProbe(h)
  \/ ApproveCommit(h) \/ ApproveCommitFails(h) \/ ApproveError(h) \/ ApproveSave(h)
  \/ RejectSave(h)
  \/ DeleteStore(h)

Next ==
  \/ \E h \in Handlers : Handle(h)
  \/ \E f \in Files, c \in Contents \cup {None} : OtherCommit(f, c)
  \/ Crash
  \/ CrashWhileSaving

Spec == Init /\ [][Next]_vars

-----------------------------------------------------------------------------
(* Properties.                                                              *)

TypeOK ==
  /\ repo \in [Files -> Contents \cup {None}]
  /\ rev \in [Files -> Nat]
  /\ commits \subseteq Commit
  /\ requests \in [Ids -> ChangeRequest \cup {None}]
  /\ disk \in [Ids -> ChangeRequest \cup {None}]
  /\ filed \in [Ids -> Bodies \cup {None}]
  /\ handler \in [Handlers -> Local]
  /\ crashes \in Nat

CommitsOf(i) == {e \in commits : e.author = i}

\* A request shown as approved is in GitLab's history, whatever failed, crashed or ran
\* at the same time: approveChangeRequest stores "approved" after CommitFile only.
ApprovedWasCommitted ==
  \A i \in Ids : requests[i] # None /\ requests[i].status = "approved" => CommitsOf(i) # {}

\* What an approval commits is, to the letter, what was submitted under that id, and the
\* record shown to users is too: the stale copies handlers write back never mix requests.
CommitsWhatWasReviewed ==
  /\ \A e \in commits :
       e.author # None =>
         /\ filed[e.author] # None
         /\ e.file = filed[e.author].file
         /\ e.content = filed[e.author].new
         /\ e.base = filed[e.author].base
  /\ \A i \in Ids : requests[i] # None => Body(requests[i]) = filed[i]

\* A base that cannot stand for a read that failed: see BestEffortRead.
Trusted(base) == base # Blank \/ "read" \notin Faults

\* The reach of the optimistic lock: a change that was on the branch when the approver
\* checked the version is never overwritten by that approval.  (Reads that fail count as
\* an empty file, so an empty base is protected only as long as none fails.)
CheckedVersionIsReplaced ==
  \A e \in commits :
    e.author # None /\ e.at = e.seen /\ Trusted(e.base) => Version(e.parent) = e.base

\* The inductive invariant behind the three properties above.  Stale copies are harmless
\* to them because every copy, in memory, on disk or in a handler, agrees with what was
\* filed; an approval is stored by a handler that committed; and between its check and
\* its commit a handler's version is current unless the file got another commit.
Agree(list, submitted) ==
  \A i \in Ids : list[i] # None => submitted[i] # None /\ Body(list[i]) = submitted[i]

Committed(list, landed) ==
  \A i \in Ids :
    list[i] # None /\ list[i].status = "approved" => \E e \in landed : e.author = i

Fresh(l) ==
  /\ l.seen <= rev[l.cr.file]
  /\ l.seen = rev[l.cr.file] /\ Trusted(l.cr.base)
       => Version(repo[l.cr.file]) = l.cr.base

HandlerSound(l) ==
  /\ l.pc = "create" => l.cr.status = "pending"
  /\ l.pc \in Reviewing => filed[l.id] # None /\ Body(l.cr) = filed[l.id]
  /\ l.pc \in {"probe", "commit"} => Fresh(l)
  /\ l.pc = "save_approved" => \E e \in commits : e.author = l.id

CommitSound(e) ==
  e.author # None =>
    /\ filed[e.author] # None
    /\ e.file = filed[e.author].file
    /\ e.content = filed[e.author].new
    /\ e.base = filed[e.author].base

SafetyInv ==
  /\ Agree(requests, filed) /\ Agree(disk, filed)
  /\ Committed(requests, commits) /\ Committed(disk, commits)
  /\ \A h \in Handlers : HandlerSound(handler[h])
  /\ \A e \in commits : CommitSound(e)
  /\ CheckedVersionIsReplaced

\* A request that was deleted never comes back, although approvals and rejections that
\* were under way write their copy of it: Update does not insert.  A restart does not
\* bring it back either, provided that the store's file can be written.
DeletedStaysDeleted ==
  [][\A i \in Ids :
       filed[i] # None /\ requests[i] = None /\ (crashes' = crashes \/ "save" \notin Faults)
         => requests'[i] = None]_vars

\* USER_GUIDE "optimistic lock" against mutual overwriting: no approval replaces a
\* version other than the one the request was based on.
NoLostUpdate ==
  \A e \in commits : e.author # None => Version(e.parent) = e.base

\* A request is marked as conflicting only if somebody else's commit replaced the version
\* it was based on ("the file was changed by another commit in the meantime").
ConflictHasCause ==
  \A i \in Ids :
    requests[i] # None /\ requests[i].status = "conflict"
      => \E e \in commits : /\ e.author # i
                            /\ e.file = requests[i].file
                            /\ Version(e.parent) = requests[i].base
                            /\ Version(e.content) # requests[i].base

-----------------------------------------------------------------------------
(* Refinement: a request counts as approved from its commit on.             *)

Shown(i) ==
  IF filed[i] = None THEN None
  ELSE [file |-> filed[i].file, new |-> filed[i].new, base |-> filed[i].base,
        status |-> IF requests[i] = None THEN "withdrawn"
                   ELSE IF requests[i].status = "pending" /\ CommitsOf(i) # {} THEN "approved"
                   ELSE requests[i].status]

\* What users see of a request is not taken for "no request".
ASSUME ViewAssumption ==
  None \notin [file: Files, new: Contents, base: Contents,
               status: {"pending", "approved", "rejected", "conflict", "withdrawn"}]

Abstract == INSTANCE ReviewedEdits WITH request <- [i \in Ids |-> Shown(i)]

\* Without overlapping writers and lost replies the handlers implement ReviewedEdits: a
\* decision is final ("already processed, cannot be approved again"), what was committed is
\* not shown as rejected later, and an approval commits what the reviewed version becomes.
ImplementsReviewedEdits == Abstract!Spec
=============================================================================
