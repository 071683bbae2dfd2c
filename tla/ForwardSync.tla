---------------------------- MODULE ForwardSync ----------------------------
(***************************************************************************)
(* A forward task: GenericSyncer of internal/engine/generic_syncer.go      *)
(* copies the resources of a GitLab path to a cluster.  A scheduled loop   *)
(* does so again and again (runScheduled), "sync now" does it once         *)
(* (TriggerSync), and a review asks for the changes first (PreviewSync),   *)
(* shows them in a browser and sends some of them back to be applied       *)
(* (ApplyChanges).                                                         *)
(*                                                                         *)
(* A version is the number of the commit that wrote a file.  Each file     *)
(* describes one resource of the task, and no two files describe the same. *)
(* Contents are compared and applied as wholes: what others add to an      *)
(* object beside the fields of its file is left out.                       *)
(***************************************************************************)
EXTENDS Integers

CONSTANTS
  Files,        \* files of the task, and the resources they describe
  None,         \* no file, no object
  Edited,       \* content of an object that was changed by hand
  Faults,       \* the external calls that may fail, see AllFaults
  MaxCommits,   \* bound on the commits to the branch
  MaxEdits,     \* bound on the changes by hand in the cluster
  MaxFaults,    \* bound on the failures
  MaxRequests   \* bound on the HTTP requests

AllFaults == {"tree", "read", "list", "apply", "reply"}

Versions == 0..MaxCommits

ASSUME ForwardSyncAssumption ==
  /\ None \notin Int
  /\ Edited \notin Int \cup {None}
  /\ Faults \subseteq AllFaults
  /\ MaxCommits \in Nat
  /\ MaxEdits \in Nat
  /\ MaxFaults \in Nat
  /\ MaxRequests \in Nat

VARIABLES
  repo,       \* repo[f]: version of the file on the branch
  cluster,    \* cluster[f]: version of the resource in the cluster
  at,         \* at[s]: where a sync is and what it has read
  result,     \* LastSyncResult of the task
  commits,    \* number of the last commit
  edits,      \* number of changes by hand
  faults,     \* number of failures
  requests,   \* number of HTTP requests
  disturbed   \* history: disturbed[s]: objects that others changed during a sync

vars == <<repo, cluster, at, result, commits, edits, faults, requests, disturbed>>

Syncs == {"loop", "manual", "review"}

Nothing == [f \in Files |-> None]

Idle == [pc |-> "idle", todo |-> {}, got |-> Nothing, failed |-> FALSE]

SyncState ==
  [pc : {"idle", "read", "shown", "apply"},
   todo : SUBSET Files,                       \* files to read, changes to apply
   got : [Files -> Versions \cup {None}],     \* what the sync has read
   failed : BOOLEAN]                          \* whether info.Failed > 0

TypeOK ==
  /\ repo \in [Files -> Versions \cup {None}]
  /\ cluster \in [Files -> Versions \cup {None, Edited}]
  /\ at \in [Syncs -> SyncState]
  /\ result \in {"none", "success", "failed"}
  /\ commits \in Versions
  /\ edits \in 0..MaxEdits
  /\ faults \in 0..MaxFaults
  /\ requests \in 0..MaxRequests
  /\ disturbed \in [Syncs -> SUBSET Files]

Init ==
  /\ repo \in [Files -> {0, None}]
  /\ cluster \in [Files -> {None, Edited}]
  /\ at = [s \in Syncs |-> Idle]
  /\ result = "none"
  /\ commits = 0
  /\ edits = 0
  /\ faults = 0
  /\ requests = 0
  /\ disturbed = [s \in Syncs |-> {}]

Fails(fault) ==
  /\ fault \in Faults
  /\ faults < MaxFaults
  /\ faults' = faults + 1

\* The history when f is changed in the cluster and these syncs did not do it.
Disturbed(f, others) ==
  [s \in Syncs |-> IF s \in others /\ at[s].pc # "idle" THEN disturbed[s] \cup {f} ELSE disturbed[s]]

(* GitLab and the cluster. *)

\* Somebody commits a new version of a file, or removes it.
Push(f) ==
  /\ commits < MaxCommits
  /\ commits' = commits + 1
  /\ \/ repo' = [repo EXCEPT ![f] = commits + 1]
     \/ repo[f] # None /\ repo' = [repo EXCEPT ![f] = None]
  /\ UNCHANGED <<cluster, at, result, edits, faults, requests, disturbed>>

\* Somebody changes or deletes an object in the cluster.
EditByHand(f) ==
  /\ edits < MaxEdits
  /\ edits' = edits + 1
  /\ \E c \in {None, Edited} : cluster' = [cluster EXCEPT ![f] = c]
  /\ disturbed' = Disturbed(f, Syncs)
  /\ UNCHANGED <<repo, at, result, commits, faults, requests>>

(* A sync. *)

\* MUTANT of Finish: what the sync has read is not given up.
FinishWithoutReset(s, verdict) ==
  /\ at' = [at EXCEPT ![s].pc = "done"]
  /\ result' = verdict
  /\ disturbed' = [disturbed EXCEPT ![s] = {}]

\* The sync of s is over: finishTask records its result.
Finish(s, verdict) ==
  /\ at' = [at EXCEPT ![s] = Idle]
  /\ result' = verdict
  /\ disturbed' = [disturbed EXCEPT ![s] = {}]

Tree == {f \in Files : repo[f] # None}

\* FetchFiles begins: the paths of the files.
ListTree(s) ==
  /\ at[s].pc = "idle"
  /\ at' = [at EXCEPT ![s] = [Idle EXCEPT !.pc = "read", !.todo = Tree]]
  /\ UNCHANGED <<repo, cluster, result, commits, edits, faults, disturbed>>

\* The tree cannot be read.  A preview answers with the error; a sync ends
\* with an error but no failed resource, which finishTask takes for success.
ListTreeFails(s) ==
  /\ at[s].pc = "idle"
  /\ Fails("tree")
  /\ IF s = "review" THEN UNCHANGED <<at, result, disturbed>> ELSE Finish(s, "success")
  /\ UNCHANGED <<repo, cluster, commits, edits>>

\* The next tick of runScheduled.
Tick ==
  /\ ListTree("loop") \/ ListTreeFails("loop")
  /\ UNCHANGED requests

\* POST .../sync and POST .../preview
Request(s) ==
  /\ s # "loop"
  /\ requests < MaxRequests
  /\ requests' = requests + 1
  /\ ListTree(s) \/ ListTreeFails(s)

WithFile(s, f) == [at[s] EXCEPT !.todo = @ \ {f}, !.got = [@ EXCEPT ![f] = repo[f]]]

\* A worker of FetchFiles gets the content of one file, which may be another
\* than when the tree was read, or gone.
ReadFile(s, f) ==
  /\ at[s].pc = "read"
  /\ f \in at[s].todo
  /\ at' = [at EXCEPT ![s] = WithFile(s, f)]
  /\ UNCHANGED <<repo, cluster, result, commits, edits, faults, requests, disturbed>>

\* A file that cannot be read is left out.
ReadFileFails(s, f) ==
  /\ at[s].pc = "read"
  /\ f \in at[s].todo
  /\ Fails("read")
  /\ at' = [at EXCEPT ![s].todo = @ \ {f}]
  /\ UNCHANGED <<repo, cluster, result, commits, edits, requests, disturbed>>

\* MUTANT of Changes: what exists in the cluster is left alone.
ChangesNew(s, found) == {f \in Files : at[s].got[f] # None /\ found[f] = None}

\* IsSameContent: the files that differ from what was found.
Changes(s, found) == {f \in Files : at[s].got[f] \notin {None, found[f]}}

Found(lost) == [f \in Files |-> IF f \in lost THEN None ELSE cluster[f]]

WithChanges(s, lost) ==
  [at[s] EXCEPT !.pc = IF s = "review" THEN "shown" ELSE "apply",
                !.todo = Changes(s, Found(lost))]

\* The cluster is listed; an object whose List fails counts as missing.
Compare(s) ==
  /\ at[s].pc = "read"
  /\ at[s].todo = {}
  /\ \E lost \in SUBSET Files :
       /\ \/ lost = {} /\ faults' = faults
          \/ lost # {} /\ Fails("list")
       /\ at' = [at EXCEPT ![s] = WithChanges(s, lost)]
  /\ UNCHANGED <<repo, cluster, result, commits, edits, requests, disturbed>>

\* POST .../apply: the user sends some of the shown changes back, as they
\* were when the preview was made.
Approve ==
  /\ at["review"].pc = "shown"
  /\ requests < MaxRequests
  /\ requests' = requests + 1
  /\ \E chosen \in SUBSET at["review"].todo :
       at' = [at EXCEPT !["review"] = [@ EXCEPT !.pc = "apply", !.todo = chosen]]
  /\ UNCHANGED <<repo, cluster, result, commits, edits, faults, disturbed>>

\* The user closes the preview.
Dismiss ==
  /\ at["review"].pc = "shown"
  /\ at' = [at EXCEPT !["review"] = Idle]
  /\ disturbed' = [disturbed EXCEPT !["review"] = {}]
  /\ UNCHANGED <<repo, cluster, result, commits, edits, faults, requests>>

\* A worker applies one change; server-side apply with force takes over
\* whatever the object holds.
Apply(s, f) ==
  /\ at[s].pc = "apply"
  /\ f \in at[s].todo
  /\ cluster' = [cluster EXCEPT ![f] = at[s].got[f]]
  /\ at' = [at EXCEPT ![s].todo = @ \ {f}]
  /\ disturbed' = Disturbed(f, Syncs \ {s})
  /\ UNCHANGED <<repo, result, commits, edits, faults, requests>>

WithFailure(s, f) == [at[s] EXCEPT !.todo = @ \ {f}, !.failed = TRUE]

\* MUTANT of ApplyFails: the error does not count.
ApplyFailsUncounted(s, f) ==
  /\ at[s].pc = "apply"
  /\ f \in at[s].todo
  /\ \/ Fails("apply") /\ UNCHANGED <<cluster, disturbed>>
     \/ Fails("reply") /\ cluster' = [cluster EXCEPT ![f] = at[s].got[f]]
                       /\ disturbed' = Disturbed(f, Syncs \ {s})
  /\ at' = [at EXCEPT ![s].todo = @ \ {f}]
  /\ UNCHANGED <<repo, result, commits, edits, requests>>

\* All retries of a change fail, or took effect without an answer.
ApplyFails(s, f) ==
  /\ at[s].pc = "apply"
  /\ f \in at[s].todo
  /\ \/ Fails("apply") /\ UNCHANGED <<cluster, disturbed>>
     \/ Fails("reply") /\ cluster' = [cluster EXCEPT ![f] = at[s].got[f]]
                       /\ disturbed' = Disturbed(f, Syncs \ {s})
  /\ at' = [at EXCEPT ![s] = WithFailure(s, f)]
  /\ UNCHANGED <<repo, result, commits, edits, requests>>

Done(s) ==
  /\ at[s].pc = "apply"
  /\ at[s].todo = {}
  /\ Finish(s, IF at[s].failed THEN "failed" ELSE "success")
  /\ UNCHANGED <<repo, cluster, commits, edits, faults, requests>>

Proceed(s) ==
  \/ \E f \in Files : ReadFile(s, f) \/ ReadFileFails(s, f) \/ Apply(s, f) \/ ApplyFails(s, f)
  \/ Compare(s)
  \/ Done(s)

Next ==
  \/ \E f \in Files : Push(f) \/ EditByHand(f)
  \/ Tick
  \/ \E s \in Syncs : Request(s) \/ Proceed(s)
  \/ Approve
  \/ Dismiss

Spec == Init /\ [][Next]_vars

\* The ticker goes on, and calls return.  Nobody has to use the API.
Fairness == WF_vars(Tick) /\ \A s \in Syncs : WF_vars(Proceed(s))

FairSpec == Spec /\ Fairness

-----------------------------------------------------------------------------

\* A sync that reports success has brought the cluster to what it read from
\* GitLab, except for objects that somebody else changed in the meantime.
\* (Of a review the user may have chosen some changes only.)
SuccessIsTrue ==
  [][\A s \in {"loop", "manual"} :
       Done(s) /\ result' = "success" =>
         \A f \in Files \ disturbed[s] : at[s].got[f] \in {None, cluster[f]}]_vars

\* The loop repairs everything in the end: once commits, edits by hand,
\* failures and requests stop, the cluster holds what GitLab holds, also when
\* syncs have overlapped or an outdated review was applied.
Converges == <>[](\A f \in Files : repo[f] # None => cluster[f] = repo[f])
=============================================================================
