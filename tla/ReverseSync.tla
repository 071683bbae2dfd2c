---------------------------- MODULE ReverseSync ----------------------------
(***************************************************************************)
(* A reverse task in mode "auto": runWatchMode of internal/engine/         *)
(* task_manager.go follows the ConfigMaps of the task's namespaces and,    *)
(* five seconds after the last event, copies what the cluster holds to     *)
(* GitLab (GenericSyncer.ReverseSync).  "Sync now" (TriggerSync) runs the  *)
(* same copy from an HTTP handler.                                         *)
(*                                                                         *)
(* An event goes through five places, each of which can merge it with      *)
(* others or drop it: the API server's stream, the channel of              *)
(* WatchConfigMaps, the channel "trigger", the debounce timer and the      *)
(* sync itself.  The files of the task are written by its syncs only; the  *)
(* end of the loop is TaskManager's subject.                               *)
(***************************************************************************)
EXTENDS Naturals, Sequences, FiniteSets

CONSTANTS
  Objects,      \* the resources the task's types and name filter select
  ConfigMaps,   \* those of them that are ConfigMaps: only these are watched
  Namespaces,   \* the namespaces of the task
  NamespaceOf,  \* NamespaceOf[o]: where an object lives
  Contents,     \* what an object can hold, up to what the cleaner removes
  None,         \* no object, no file
  ChannelSize,  \* room in the channel of WatchConfigMaps: 100 in the code
  Faults,       \* the external calls that may fail, see AllFaults
  Overlap,      \* whether a manual sync may run beside the loop's
  MaxEdits,     \* bound on the changes in the cluster
  MaxFaults     \* bound on the failures

AllFaults == {"open", "close", "read", "list", "probe", "commit", "reply"}

ASSUME ReverseSyncAssumption ==
  /\ IsFiniteSet(Objects)
  /\ ConfigMaps \subseteq Objects
  /\ NamespaceOf \in [Objects -> Namespaces]
  /\ None \notin Contents
  /\ ChannelSize \in Nat \ {0}
  /\ Faults \subseteq AllFaults
  /\ Overlap \in BOOLEAN
  /\ MaxEdits \in Nat
  /\ MaxFaults \in Nat

VARIABLES
  cluster,    \* cluster[o]: what the cluster holds
  files,      \* files[o]: the file of o on the branch
  stream,     \* stream[n]: events of the watch of n that are not delivered yet
  watch,      \* watch[n]: "unopened", "open" or "closed"
  events,     \* events[n]: number of ConfigMaps in the channel of n
  trigger,    \* whether the channel trigger holds its one signal
  timer,      \* whether the debounce timer is set
  at,         \* at[s]: where a sync is and what it has read
  result,     \* LastResult of the task's runtime status
  unlisted,   \* history: namespaces the last finished sync could not list
  edits,      \* number of changes in the cluster
  faults      \* number of failures

watching == <<stream, watch, events, trigger>>
counters == <<edits, faults>>
vars == <<cluster, files, watching, timer, at, result, unlisted, counters>>

Syncs == {"loop", "manual"}

Values == Contents \cup {None}

Nothing == [o \in Objects |-> None]

Idle == [pc |-> "idle", read |-> Nothing, found |-> Nothing,
         listed |-> {}, failed |-> {}, probed |-> {}]

SyncState ==
  [pc : {"idle", "list", "commit"},
   read : [Objects -> Values],      \* FetchFiles: what is known of the files
   found : [Objects -> Values],     \* List: what is known of the cluster
   listed : SUBSET Namespaces,
   failed : SUBSET Namespaces,
   probed : SUBSET Objects]         \* CommitFiles: files that exist

TypeOK ==
  /\ cluster \in [Objects -> Values]
  /\ files \in [Objects -> Values]
  /\ stream \in [Namespaces -> Seq({"ADDED", "MODIFIED", "DELETED"})]
  /\ watch \in [Namespaces -> {"unopened", "open", "closed"}]
  /\ events \in [Namespaces -> 0..ChannelSize]
  /\ trigger \in BOOLEAN
  /\ timer \in BOOLEAN
  /\ at \in [Syncs -> SyncState]
  /\ result \in {"none", "success", "failed"}
  /\ unlisted \subseteq Namespaces
  /\ edits \in 0..MaxEdits
  /\ faults \in 0..MaxFaults

Init ==
  /\ cluster \in [Objects -> Values]
  /\ files \in [Objects -> Values]
  /\ stream = [n \in Namespaces |-> <<>>]
  /\ watch = [n \in Namespaces |-> "unopened"]
  /\ events = [n \in Namespaces |-> 0]
  /\ trigger = FALSE
  /\ timer = FALSE
  /\ at = [s \in Syncs |-> Idle]
  /\ result = "none"
  /\ unlisted = {}
  /\ edits = 0
  /\ faults = 0

Fails(fault) ==
  /\ fault \in Faults
  /\ faults < MaxFaults
  /\ faults' = faults + 1

(* The cluster and the watches. *)

\* The event that tells a watcher of a change.
EventType(old, new) ==
  CASE new = None -> "DELETED"
    [] old = None -> "ADDED"
    [] OTHER -> "MODIFIED"

\* Somebody creates, changes or deletes an object.
Change(o, c) ==
  /\ edits < MaxEdits
  /\ edits' = edits + 1
  /\ c # cluster[o]
  /\ cluster' = [cluster EXCEPT ![o] = c]
  /\ stream' = IF o \in ConfigMaps /\ watch[NamespaceOf[o]] = "open"
                 THEN [stream EXCEPT ![NamespaceOf[o]] = Append(@, EventType(cluster[o], c))]
                 ELSE stream
  /\ UNCHANGED <<files, watch, events, trigger, timer, at, result, unlisted, faults>>

Existing(n) == {o \in ConfigMaps : NamespaceOf[o] = n /\ cluster[o] # None}

\* Without a resource version, a watch starts with the objects that exist.
Open(n) ==
  /\ watch[n] = "unopened"
  /\ watch' = [watch EXCEPT ![n] = "open"]
  /\ stream' = [stream EXCEPT ![n] = [i \in 1..Cardinality(Existing(n)) |-> "ADDED"]]
  /\ UNCHANGED <<cluster, files, events, trigger, timer, at, result, unlisted, counters>>

\* runWatchMode logs the error and goes on with the next namespace.
OpenFails(n) ==
  /\ watch[n] = "unopened"
  /\ Fails("open")
  /\ watch' = [watch EXCEPT ![n] = "closed"]
  /\ UNCHANGED <<cluster, files, stream, events, trigger, timer, at, result, unlisted, edits>>

\* The API server ends the watch: WatchConfigMaps closes its channel.
Close(n) ==
  /\ watch[n] = "open"
  /\ Fails("close")
  /\ watch' = [watch EXCEPT ![n] = "closed"]
  /\ stream' = [stream EXCEPT ![n] = <<>>]
  /\ UNCHANGED <<cluster, files, events, trigger, timer, at, result, unlisted, edits>>

\* MUTANT of Sent: the send does not look at the room that is left.
SentUnbounded(k) == k + 1

\* Sending to a full channel drops the ConfigMap.
Sent(k) == IF k < ChannelSize THEN k + 1 ELSE k

\* MUTANT of IsChange: what exists when the watch is opened is ignored.
IsModification(type) == type = "MODIFIED"

\* Deletions are not passed on.
IsChange(type) == type \in {"ADDED", "MODIFIED"}

\* The goroutine of WatchConfigMaps.
Deliver(n) ==
  /\ stream[n] # <<>>
  /\ stream' = [stream EXCEPT ![n] = Tail(@)]
  /\ events' = IF IsChange(Head(stream[n])) THEN [events EXCEPT ![n] = Sent(@)] ELSE events
  /\ UNCHANGED <<cluster, files, watch, trigger, timer, at, result, unlisted, counters>>

\* MUTANT of Forward: the channel trigger has no buffer, so that a signal
\* is dropped while the loop is syncing.
ForwardUnbuffered(n) ==
  /\ events[n] > 0
  /\ events' = [events EXCEPT ![n] = @ - 1]
  /\ trigger' = (trigger \/ at["loop"].pc = "idle")
  /\ UNCHANGED <<cluster, files, stream, watch, timer, at, result, unlisted, counters>>

\* The goroutine of a namespace in runWatchMode: a signal that is already
\* there stands for this event too.
Forward(n) ==
  /\ events[n] > 0
  /\ events' = [events EXCEPT ![n] = @ - 1]
  /\ trigger' = TRUE
  /\ UNCHANGED <<cluster, files, stream, watch, timer, at, result, unlisted, counters>>

(* The debounce loop of runWatchMode. *)

InLoop ==
  /\ \A n \in Namespaces : watch[n] # "unopened"
  /\ at["loop"].pc = "idle"

\* Each signal sets the timer anew.
Debounce ==
  /\ InLoop
  /\ trigger
  /\ trigger' = FALSE
  /\ timer' = TRUE
  /\ UNCHANGED <<cluster, files, stream, watch, events, at, result, unlisted, counters>>

(* A sync: GenericSyncer.ReverseSync. *)

MayStart(s) == Overlap \/ \A other \in Syncs \ {s} : at[other].pc = "idle"

\* What is known of a sync, one call after the other.
WithFiles(lost) ==
  [Idle EXCEPT !.pc = "list",
               !.read = [o \in Objects |-> IF o \in lost THEN None ELSE files[o]]]

WithList(s, n) ==
  [at[s] EXCEPT !.listed = @ \cup {n},
                !.found = [o \in Objects |-> IF NamespaceOf[o] = n THEN cluster[o] ELSE @[o]]]

WithFailure(s, n) == [at[s] EXCEPT !.failed = @ \cup {n}]

\* FetchFiles: ReverseSync ignores its error and takes no file for existing;
\* FetchFiles itself leaves out the files whose content it cannot get.
Fetch(s) ==
  /\ at[s].pc = "idle"
  /\ MayStart(s)
  /\ \E lost \in SUBSET Objects :
       /\ \/ lost = {} /\ faults' = faults
          \/ lost # {} /\ Fails("read")
       /\ at' = [at EXCEPT ![s] = WithFiles(lost)]
  /\ UNCHANGED <<cluster, files, watching, timer, result, unlisted, edits>>

\* Five seconds without a signal.
Fire ==
  /\ InLoop
  /\ timer
  /\ Fetch("loop")

\* POST /api/tasks/:id/sync
TriggerSync == Fetch("manual")

Unanswered(s) == Namespaces \ (at[s].listed \cup at[s].failed)

List(s, n) ==
  /\ at[s].pc = "list"
  /\ n \in Unanswered(s)
  /\ at' = [at EXCEPT ![s] = WithList(s, n)]
  /\ UNCHANGED <<cluster, files, watching, timer, result, unlisted, counters>>

\* The error is logged and the namespace left out.
ListFails(s, n) ==
  /\ at[s].pc = "list"
  /\ n \in Unanswered(s)
  /\ Fails("list")
  /\ at' = [at EXCEPT ![s] = WithFailure(s, n)]
  /\ UNCHANGED <<cluster, files, watching, timer, result, unlisted, edits>>

\* The objects that are not in GitLab as the cluster holds them.
Pending(s) == {o \in Objects : at[s].found[o] # None /\ at[s].found[o] # at[s].read[o]}

\* The sync is over; the loop forgets the timer that started it.
Finish(s, verdict) ==
  /\ at' = [at EXCEPT ![s] = Idle]
  /\ result' = verdict
  /\ unlisted' = at[s].failed
  /\ timer' = IF s = "loop" THEN FALSE ELSE timer

\* Everything is in GitLab already: no commit.
NothingPending(s) ==
  /\ at[s].pc = "list"
  /\ Unanswered(s) = {}
  /\ Pending(s) = {}
  /\ Finish(s, "success")
  /\ UNCHANGED <<cluster, files, watching, counters>>

WithProbes(s, lost) ==
  [at[s] EXCEPT !.pc = "commit",
                !.probed = {o \in Pending(s) \ lost : files[o] # None}]

\* CommitFiles asks for every file whether it exists; an error means no.
Probe(s) ==
  /\ at[s].pc = "list"
  /\ Unanswered(s) = {}
  /\ Pending(s) # {}
  /\ \E lost \in SUBSET Pending(s) :
       /\ \/ lost = {} /\ faults' = faults
          \/ lost # {} /\ Fails("probe")
       /\ at' = [at EXCEPT ![s] = WithProbes(s, lost)]
  /\ UNCHANGED <<cluster, files, watching, timer, result, unlisted, edits>>

\* GitLab takes all the files or none: it refuses to create a file that
\* exists and to update one that does not.
Acceptable(s) == at[s].probed = {o \in Pending(s) : files[o] # None}

Written(s) == [o \in Objects |-> IF o \in Pending(s) THEN at[s].found[o] ELSE files[o]]

Commit(s) ==
  /\ at[s].pc = "commit"
  /\ Acceptable(s)
  /\ files' = Written(s)
  /\ Finish(s, "success")
  /\ UNCHANGED <<cluster, watching, counters>>

CommitRefused(s) ==
  /\ at[s].pc = "commit"
  /\ ~Acceptable(s)
  /\ Finish(s, "failed")
  /\ UNCHANGED <<cluster, files, watching, counters>>

\* The call fails, or takes effect without an answer.
CommitFails(s) ==
  /\ at[s].pc = "commit"
  /\ \/ Fails("commit") /\ files' = files
     \/ Fails("reply") /\ Acceptable(s) /\ files' = Written(s)
  /\ Finish(s, "failed")
  /\ UNCHANGED <<cluster, watching, edits>>

Proceed(s) ==
  \/ \E n \in Namespaces : List(s, n) \/ ListFails(s, n)
  \/ NothingPending(s) \/ Probe(s)
  \/ Commit(s) \/ CommitRefused(s) \/ CommitFails(s)

Watching(n) == Open(n) \/ OpenFails(n) \/ Deliver(n) \/ Forward(n)

Next ==
  \/ \E o \in Objects, c \in Values : Change(o, c)
  \/ \E n \in Namespaces : Watching(n) \/ Close(n)
  \/ Debounce \/ Fire \/ TriggerSync
  \/ \E s \in Syncs : Proceed(s)

Spec == Init /\ [][Next]_vars

\* Goroutines that can run do run, calls return, and the timer fires.
Fairness ==
  /\ \A n \in Namespaces : WF_vars(Open(n) \/ OpenFails(n)) /\ WF_vars(Deliver(n)) /\ WF_vars(Forward(n))
  /\ WF_vars(Debounce)
  /\ WF_vars(Fire)
  /\ \A s \in Syncs : WF_vars(Proceed(s))

FairSpec == Spec /\ Fairness

-----------------------------------------------------------------------------

\* The file of o is not what the cluster holds.  (No sync deletes a file.)
Behind(o) == cluster[o] # None /\ files[o] # cluster[o]

\* A change of a ConfigMap of n that the loop has not been told of yet.
Announced(n) ==
  \/ \E i \in DOMAIN stream[n] : IsChange(stream[n][i])
  \/ events[n] > 0

\* The loop will start a sync.
SyncIsDue == trigger \/ (timer /\ at["loop"].pc = "idle")

\* A sync that is under way will bring the file of o up to date.
WillWrite(s, o) ==
  /\ at[s].pc # "idle"
  /\ \/ at[s].pc = "list" /\ NamespaceOf[o] \in Unanswered(s)
     \/ o \in Pending(s) /\ at[s].found[o] = cluster[o]

\* The watch of n is lost, or the last sync could not list n or commit.
Excused(n) ==
  \/ watch[n] # "open"
  \/ result = "failed"
  \/ n \in unlisted

\* No change is forgotten.  A ConfigMap in GitLab that differs from the one
\* in the cluster is on its way: its event waits somewhere between the API
\* server and the debounce timer, or a sync that is under way will read it.
\* That events are merged, dropped by a full channel or arrive during a sync
\* makes no difference.  What is excused are the failures for which the code
\* has no second attempt.
NothingForgotten ==
  \A o \in ConfigMaps :
    Behind(o) =>
      \/ Announced(NamespaceOf[o])
      \/ SyncIsDue
      \/ \E s \in Syncs : WillWrite(s, o)
      \/ \E s \in Syncs : at[s].pc # "idle" /\ NamespaceOf[o] \in at[s].failed
      \/ Excused(NamespaceOf[o])

\* Once the cluster is quiet, GitLab catches up with every ConfigMap whose
\* watch stays open, unless syncs fail.
CatchesUp ==
  \A o \in ConfigMaps :
    <>[]~Excused(NamespaceOf[o]) => <>[]~Behind(o)
=============================================================================
