---------------------------- MODULE TaskManager ----------------------------
(***************************************************************************)
(* The life of a sync task: internal/engine/task_manager.go with the       *)
(* handlers of internal/api/tasks.go and internal/api/webhook.go over      *)
(* internal/store/task_store.go.                                           *)
(*                                                                         *)
(* A started task has an entry in the map `running' and a goroutine, here  *)
(* a loop, that syncs it from time to time.  The loop, like every handler, *)
(* works on a private copy of the task's record, and every write to the    *)
(* store replaces the whole record.  The lock mu protects the map only;    *)
(* the store's own lock makes each of its calls atomic.                    *)
(***************************************************************************)
EXTENDS Naturals, FiniteSets

CONSTANTS
  Tasks,        \* ids the store can issue ("task-<nanoseconds>", never reissued)
  Configs,      \* what a user configures: names, paths, direction, mode, filters
  Periodic,     \* the configurations whose loop syncs on its own (scheduled, auto)
  Tokens,       \* webhook tokens, with "no token" among them
  Procs,        \* HTTP requests the server can process at the same time
  Loops,        \* goroutines that can be alive at the same time
  None,         \* no record, no loop, no lock holder
  Operations,   \* the operations and failures that may happen, see AllOperations
  Overlap,      \* TRUE: handlers and loops interleave freely, as they do
  MaxRestarts   \* bound: process restarts

AllOperations == {"pause", "edit", "token", "delete", "sync", "apply", "shutdown",
                  "crash",        \* the process dies
                  "sync_error",   \* doSync cannot build its clients
                  "resolve"}      \* a connection of the task does not resolve

Status == {"paused", "running", "error"}

SyncTask == [cfg: Configs, token: Tokens, status: Status]

ASSUME TaskAssumption ==
  /\ Periodic \subseteq Configs
  /\ Operations \subseteq AllOperations
  /\ Overlap \in BOOLEAN
  /\ MaxRestarts \in Nat
  /\ Procs \cap Loops = {}
  /\ None \notin Procs \cup Loops \cup SyncTask
  /\ None \notin Tasks \cup [cfg: Configs, token: Tokens, run: BOOLEAN]

VARIABLES
  stored,     \* stored[t]: the record in sync_tasks.json and in memory, or None
  running,    \* running[t]: the loop the task manager knows for t, or None
  at,         \* at[a]: where a handler or a loop is, with its copy of the record
  cancelled,  \* the loops whose context was cancelled
  mu,         \* holder of the task manager's lock between two steps, or None
  stopping,   \* TRUE from the end of StopAll to the exit of the process
  asked,      \* history: what users last asked of t, None if t was never created
  restarts    \* number of restarts so far

vars == <<stored, running, at, cancelled, mu, stopping, asked, restarts>>

Actors == Procs \cup Loops

Local == [pc: {"idle", "wait", "sync", "finish", "start", "stop", "stop_store", "delete",
               "edit", "edit_check", "edit_get", "token", "stop_all", "stop_all_store", "exit"},
          op: {"none", "loop", "start", "pause", "edit", "delete", "sync", "apply",
               "token", "shutdown"},
          task: Tasks \cup {None},
          copy: SyncTask \cup {None}]

Idle == [pc |-> "idle", op |-> "none", task |-> None, copy |-> None]

At(pc, op, t, copy) == [pc |-> pc, op |-> op, task |-> t, copy |-> copy]

\* Steps that use the actor's copy.
Copying == {"wait", "sync", "finish", "start", "stop_store", "edit", "token", "stop_all_store"}

InServer(p) == at[p].pc \notin {"idle", "edit"}

LiveLoops(t) == {l \in Loops : at[l].task = t /\ l \notin cancelled}

FreeLoops == {l \in Loops : at[l] = Idle}

\* Bound: a loop is left for every request that may start one.
Room == Cardinality(FreeLoops) > Cardinality({p \in Procs : at[p].op \in {"start", "edit"}})

\* Without Overlap, what begins goes through before anything else begins.
MayEnter ==
  \/ Overlap
  \/ cancelled = {} /\ \A a \in Actors : at[a].pc \in {"idle", "wait"}

-----------------------------------------------------------------------------
(* The store.                                                               *)

\* Faulty variant: Update inserts a record it does not find.
Upsert(t, r) == stored' = [stored EXCEPT ![t] = r]

\* Update replaces the whole record; an unknown id is ErrNotFound, which no caller
\* below reacts to otherwise than by answering an error.
Update(t, r) ==
  stored' = IF stored[t] = None THEN stored ELSE [stored EXCEPT ![t] = r]

\* POST tasks: taskStore.Create; whatever the client sends, the status is "paused".
Create(t, c, token) ==
  /\ MayEnter
  /\ asked[t] = None
  /\ stored' = [stored EXCEPT ![t] = [cfg |-> c, token |-> token, status |-> "paused"]]
  /\ asked' = [asked EXCEPT ![t] = [cfg |-> c, token |-> token, run |-> FALSE]]
  /\ UNCHANGED <<running, at, cancelled, mu, stopping, restarts>>

-----------------------------------------------------------------------------
(* Starting.                                                                *)

Enter(p, local) ==
  /\ at[p].pc = "idle"
  /\ MayEnter
  /\ at' = [at EXCEPT ![p] = local]
  /\ UNCHANGED <<stored, running, cancelled, mu, stopping, asked, restarts>>

\* POST start: the handler gets a copy and hands it to StartTask.
StartGet(p, t) ==
  /\ stored[t] # None
  /\ Room
  /\ Enter(p, At("start", "start", t, stored[t]))

\* StartTask refuses: already running, or a connection does not resolve.
StartRefused(p) ==
  /\ at[p].pc = "start"
  /\ mu = None
  /\ running[at[p].task] # None \/ "resolve" \in Operations
  /\ at' = [at EXCEPT ![p] = Idle]
  /\ UNCHANGED <<stored, running, cancelled, mu, stopping, asked, restarts>>

\* StartTask: an entry, the status, a goroutine that keeps the handler's copy.
Spawn(p) ==
  LET t == at[p].task
      task == [at[p].copy EXCEPT !.status = "running"]
  IN
  /\ \E l \in FreeLoops :
       /\ running' = [running EXCEPT ![t] = l]
       /\ at' = [at EXCEPT ![p] = Idle, ![l] = At("wait", "loop", t, task)]
  /\ Update(t, task)
  /\ asked' = [asked EXCEPT ![t].run = TRUE]
  /\ UNCHANGED <<cancelled, mu, stopping, restarts>>

\* Faulty variant: an entry that exists is replaced.
StartTaskUnchecked(p) == at[p].pc = "start" /\ mu = None /\ Spawn(p)

StartTask(p) ==
  /\ at[p].pc = "start"
  /\ mu = None
  /\ running[at[p].task] = None
  /\ Spawn(p)

-----------------------------------------------------------------------------
(* Stopping: StopTask holds mu over a Get and an Update of the store.       *)

Pause(p, t) ==
  /\ "pause" \in Operations
  /\ asked[t] # None
  /\ Enter(p, At("stop", "pause", t, None))

DeleteStop(p, t) ==
  /\ "delete" \in Operations
  /\ asked[t] # None
  /\ Enter(p, At("stop", "delete", t, None))

\* Where a handler goes on after StopTask.
AfterStop(l) ==
  CASE l.op = "pause"  -> Idle
    [] l.op = "delete" -> [l EXCEPT !.pc = "delete", !.copy = None]
    [] OTHER           -> [l EXCEPT !.pc = "edit_get", !.copy = None]

\* A pause and a delete ask for the task not to run; an edit does not.
StopAsked(l) ==
  asked' = IF l.op \in {"pause", "delete"} THEN [asked EXCEPT ![l.task].run = FALSE]
                                           ELSE asked

StopNotRunning(p) ==
  LET l == at[p] IN
  /\ l.pc = "stop"
  /\ mu = None
  /\ running[l.task] = None
  /\ at' = [at EXCEPT ![p] = AfterStop(l)]
  /\ StopAsked(l)
  /\ UNCHANGED <<stored, running, cancelled, mu, stopping, restarts>>

\* What StopTask does after the loop's entry is gone: Get, and keep mu for the Update.
StopGet(p) ==
  LET l == at[p] IN
  IF stored[l.task] = None
  THEN /\ at' = [at EXCEPT ![p] = AfterStop(l)]
       /\ mu' = mu
  ELSE /\ at' = [at EXCEPT ![p] = [l EXCEPT !.pc = "stop_store", !.copy = stored[l.task]]]
       /\ mu' = p

\* Faulty variants: the context is not cancelled; the entry stays.
StopRunningLeaks(p) ==
  LET l == at[p] IN
  /\ l.pc = "stop"
  /\ mu = None
  /\ running[l.task] # None
  /\ running' = [running EXCEPT ![l.task] = None]
  /\ StopGet(p)
  /\ StopAsked(l)
  /\ UNCHANGED <<stored, cancelled, stopping, restarts>>

StopRunningKeepsEntry(p) ==
  LET l == at[p] IN
  /\ l.pc = "stop"
  /\ mu = None
  /\ running[l.task] # None
  /\ cancelled' = cancelled \cup {running[l.task]}
  /\ StopGet(p)
  /\ StopAsked(l)
  /\ UNCHANGED <<stored, running, stopping, restarts>>

StopRunning(p) ==
  LET l == at[p] IN
  /\ l.pc = "stop"
  /\ mu = None
  /\ running[l.task] # None
  /\ cancelled' = cancelled \cup {running[l.task]}
  /\ running' = [running EXCEPT ![l.task] = None]
  /\ StopGet(p)
  /\ StopAsked(l)
  /\ UNCHANGED <<stored, stopping, restarts>>

\* Faulty variant: an early return without the unlock.
StopStoreNoUnlock(p) ==
  LET l == at[p] IN
  /\ l.pc = "stop_store"
  /\ Update(l.task, [l.copy EXCEPT !.status = "paused"])
  /\ at' = [at EXCEPT ![p] = AfterStop(l)]
  /\ UNCHANGED <<running, cancelled, mu, stopping, asked, restarts>>

StopStore(p) ==
  LET l == at[p] IN
  /\ l.pc = "stop_store"
  /\ Update(l.task, [l.copy EXCEPT !.status = "paused"])
  /\ mu' = None
  /\ at' = [at EXCEPT ![p] = AfterStop(l)]
  /\ UNCHANGED <<running, cancelled, stopping, asked, restarts>>

Delete(p) ==
  /\ at[p].pc = "delete"
  /\ stored' = [stored EXCEPT ![at[p].task] = None]
  /\ at' = [at EXCEPT ![p] = Idle]
  /\ UNCHANGED <<running, cancelled, mu, stopping, asked, restarts>>

-----------------------------------------------------------------------------
(* Editing: PUT tasks/{id} and the webhook token.                           *)

\* The browser fills the edit form from GET tasks, where a running task shows its
\* runtime status; what it sends back is this copy with another configuration.
EditOpen(p, t, c) ==
  /\ "edit" \in Operations
  /\ at[p].pc = "idle"
  /\ MayEnter
  /\ stored[t] # None
  /\ Room
  /\ at' = [at EXCEPT ![p] = At("edit", "edit", t,
              [stored[t] EXCEPT !.cfg = c,
                                !.status = IF running[t] # None THEN "running" ELSE @])]
  /\ UNCHANGED <<stored, running, cancelled, mu, stopping, asked, restarts>>

EditStore(p) ==
  LET l == at[p] IN
  /\ l.pc = "edit"
  /\ Update(l.task, l.copy)
  /\ IF stored[l.task] = None
     THEN /\ at' = [at EXCEPT ![p] = Idle]
          /\ asked' = asked
     ELSE /\ at' = [at EXCEPT ![p] = [l EXCEPT !.pc = "edit_check", !.copy = None]]
          /\ asked' = [asked EXCEPT ![l.task].cfg = l.copy.cfg]
  /\ UNCHANGED <<running, cancelled, mu, stopping, restarts>>

\* Faulty variant: a running task is not stopped.
EditCheckSkipped(p) ==
  /\ at[p].pc = "edit_check"
  /\ mu = None
  /\ at' = [at EXCEPT ![p] = Idle]
  /\ UNCHANGED <<stored, running, cancelled, mu, stopping, asked, restarts>>

\* "If task is running, restart it with new config": GetTaskStatus, StopTask, ...
EditCheck(p) ==
  /\ at[p].pc = "edit_check"
  /\ mu = None
  /\ at' = [at EXCEPT ![p] = IF running[@.task] # None THEN [@ EXCEPT !.pc = "stop"] ELSE Idle]
  /\ UNCHANGED <<stored, running, cancelled, mu, stopping, asked, restarts>>

\* Faulty variant: the result of Get is not compared to nil.
EditGetUnchecked(p) ==
  LET l == at[p] IN
  /\ l.pc = "edit_get"
  /\ at' = [at EXCEPT ![p] =
              IF stored[l.task] = None \/ stored[l.task].status = "running"
              THEN [l EXCEPT !.pc = "start", !.copy = stored[l.task]] ELSE Idle]
  /\ UNCHANGED <<stored, running, cancelled, mu, stopping, asked, restarts>>

\* ... Get, and StartTask if the record says "running".
EditGet(p) ==
  LET l == at[p] IN
  /\ l.pc = "edit_get"
  /\ at' = [at EXCEPT ![p] =
              IF stored[l.task] # None /\ stored[l.task].status = "running"
              THEN [l EXCEPT !.pc = "start", !.copy = stored[l.task]] ELSE Idle]
  /\ UNCHANGED <<stored, running, cancelled, mu, stopping, asked, restarts>>

\* POST and DELETE webhook-token: Get, then Update of the whole record.
TokenGet(p, t, token) ==
  /\ "token" \in Operations
  /\ stored[t] # None
  /\ Enter(p, At("token", "token", t, [stored[t] EXCEPT !.token = token]))

TokenStore(p) ==
  LET l == at[p] IN
  /\ l.pc = "token"
  /\ Update(l.task, l.copy)
  /\ asked' = IF stored[l.task] = None THEN asked
                                       ELSE [asked EXCEPT ![l.task].token = l.copy.token]
  /\ at' = [at EXCEPT ![p] = Idle]
  /\ UNCHANGED <<running, cancelled, mu, stopping, restarts>>

-----------------------------------------------------------------------------
(* Syncing: by a loop, by TriggerSync (UI, webhook) and by ApplyChanges.    *)

\* TriggerSync and ApplyChanges get a copy, whether the task is running or not.
Trigger(p, t) ==
  /\ "sync" \in Operations
  /\ mu = None
  /\ stored[t] # None
  /\ Enter(p, At("sync", "sync", t, stored[t]))

Apply(p, t) ==
  /\ "apply" \in Operations
  /\ stored[t] # None
  /\ Enter(p, At("sync", "apply", t, stored[t]))

\* A tick, or a watch event after its debounce.  A tick that is due together with the
\* cancellation may win: select chooses at random.
LoopTick(l) ==
  /\ at[l].pc = "wait"
  /\ MayEnter
  /\ at[l].copy.cfg \in Periodic
  /\ at' = [at EXCEPT ![l].pc = "sync"]
  /\ UNCHANGED <<stored, running, cancelled, mu, stopping, asked, restarts>>

Return(l) == IF l.op = "loop" THEN [l EXCEPT !.pc = "wait"] ELSE Idle

\* finishTask, first half: "re-read from the store" the status only.
FinishGet(a) ==
  LET l == at[a] IN
  /\ l.pc = "sync"
  /\ at' = [at EXCEPT ![a] = [l EXCEPT !.pc = "finish",
              !.copy.status = IF stored[l.task] = None THEN @ ELSE stored[l.task].status]]
  /\ UNCHANGED <<stored, running, cancelled, mu, stopping, asked, restarts>>

\* finishTask, second half: the whole copy is written back.
FinishStore(a) ==
  LET l == at[a] IN
  /\ l.pc = "finish"
  /\ Update(l.task, l.copy)
  /\ at' = [at EXCEPT ![a] = Return(l)]
  /\ UNCHANGED <<running, cancelled, mu, stopping, asked, restarts>>

\* setTaskError, when doSync cannot begin.
SyncError(a) ==
  LET l == at[a]
      failed == [l.copy EXCEPT !.status = "error"]
  IN
  /\ "sync_error" \in Operations
  /\ l.pc = "sync"
  /\ l.op # "apply"
  /\ Update(l.task, failed)
  /\ at' = [at EXCEPT ![a] = Return([l EXCEPT !.copy = failed])]
  /\ UNCHANGED <<running, cancelled, mu, stopping, asked, restarts>>

\* Faulty variant: runScheduled does not watch its context.
LoopDoneManualOnly(l) ==
  /\ at[l].pc = "wait"
  /\ l \in cancelled
  /\ at[l].copy.cfg \notin Periodic
  /\ at' = [at EXCEPT ![l].pc = "exit"]
  /\ UNCHANGED <<stored, running, cancelled, mu, stopping, asked, restarts>>

\* ctx.Done: the goroutine returns from its select.
LoopDone(l) ==
  /\ at[l].pc = "wait"
  /\ l \in cancelled
  /\ at' = [at EXCEPT ![l].pc = "exit"]
  /\ UNCHANGED <<stored, running, cancelled, mu, stopping, asked, restarts>>

\* runTask's deferred function deletes "its" entry, by task id.
LoopExit(l) ==
  /\ at[l].pc = "exit"
  /\ mu = None
  /\ running' = [running EXCEPT ![at[l].task] = None]
  /\ at' = [at EXCEPT ![l] = Idle]
  /\ cancelled' = cancelled \ {l}
  /\ UNCHANGED <<stored, mu, stopping, asked, restarts>>

-----------------------------------------------------------------------------
(* Shutdown and restart.  The server still answers while StopAll runs.      *)

StopAll(p) ==
  /\ "shutdown" \in Operations
  /\ at[p].pc = "idle"
  /\ MayEnter
  /\ ~stopping
  /\ mu = None
  /\ mu' = p
  /\ at' = [at EXCEPT ![p] = At("stop_all", "shutdown", None, None)]
  /\ UNCHANGED <<stored, running, cancelled, stopping, asked, restarts>>

\* The next entry of the map (which is replaced at the end; nobody sees it before).
StopAllNext(p, t) ==
  /\ at[p].pc = "stop_all"
  /\ running[t] # None
  /\ cancelled' = cancelled \cup {running[t]}
  /\ running' = [running EXCEPT ![t] = None]
  /\ at' = [at EXCEPT ![p] = IF stored[t] = None THEN @
                             ELSE At("stop_all_store", "shutdown", t, stored[t])]
  /\ UNCHANGED <<stored, mu, stopping, asked, restarts>>

StopAllStore(p) ==
  /\ at[p].pc = "stop_all_store"
  /\ Update(at[p].task, [at[p].copy EXCEPT !.status = "paused"])
  /\ at' = [at EXCEPT ![p] = At("stop_all", "shutdown", None, None)]
  /\ UNCHANGED <<running, cancelled, mu, stopping, asked, restarts>>

StopAllEnd(p) ==
  /\ at[p].pc = "stop_all"
  /\ \A t \in Tasks : running[t] = None
  /\ mu' = None
  /\ stopping' = TRUE
  /\ at' = [at EXCEPT ![p] = Idle]
  /\ UNCHANGED <<stored, running, cancelled, asked, restarts>>

Injective(f) == \A s, t \in DOMAIN f : f[s] = f[t] => s = t

\* Faulty variant: nothing is restored.
ToRestoreNone == {}

ToRestore == {t \in Tasks : stored[t] # None /\ stored[t].status = "running"}

\* The process comes back: RestoreRunningTasks starts a loop for each stored "running",
\* before the server listens.  What a browser has in its form is not lost.
Restart ==
  /\ "crash" \in Operations \/ stopping
  /\ restarts < MaxRestarts
  /\ \E ok \in IF "resolve" \in Operations THEN SUBSET ToRestore ELSE {ToRestore} :
     \E loop \in [ok -> Loops] :
       /\ Injective(loop)
       /\ running' = [t \in Tasks |-> IF t \in ok THEN loop[t] ELSE None]
       /\ stored' = [t \in Tasks |-> IF t \in ToRestore \ ok
                                     THEN [stored[t] EXCEPT !.status = "error"]
                                     ELSE stored[t]]
       /\ at' = [a \in Actors |->
                   IF a \in Procs THEN IF at[a].pc = "edit" /\ Overlap THEN at[a] ELSE Idle
                   ELSE IF \E t \in ok : loop[t] = a
                        THEN LET t == CHOOSE t \in ok : loop[t] = a
                             IN At("wait", "loop", t, stored[t])
                        ELSE Idle]
  /\ cancelled' = {}
  /\ mu' = None
  /\ stopping' = FALSE
  /\ restarts' = restarts + 1
  /\ asked' = asked

Init ==
  /\ stored = [t \in Tasks |-> None]
  /\ running = [t \in Tasks |-> None]
  /\ at = [a \in Actors |-> Idle]
  /\ cancelled = {}
  /\ mu = None
  /\ stopping = FALSE
  /\ asked = [t \in Tasks |-> None]
  /\ restarts = 0

\* A request arrives.
Request(p) ==
  \E t \in Tasks :
    \/ StartGet(p, t) \/ Pause(p, t) \/ DeleteStop(p, t) \/ Trigger(p, t) \/ Apply(p, t)
    \/ \E c \in Configs : EditOpen(p, t, c)
    \/ \E token \in Tokens : TokenGet(p, t, token)

\* An actor goes on with what it does, without a lock to wait for.
Proceed(a) == FinishGet(a) \/ FinishStore(a) \/ SyncError(a)

Continue(p) ==
  \/ Proceed(p) \/ StopStore(p) \/ Delete(p) \/ EditGet(p) \/ TokenStore(p)
  \/ (\E t \in Tasks : StopAllNext(p, t)) \/ StopAllStore(p) \/ StopAllEnd(p)

\* A handler gets the lock.
Acquire(p) ==
  \/ StartRefused(p) \/ StartTask(p) \/ StopNotRunning(p) \/ StopRunning(p) \/ EditCheck(p)

Next ==
  \/ \E t \in Tasks, c \in Configs, token \in Tokens : Create(t, c, token)
  \/ \E p \in Procs : Request(p) \/ EditStore(p) \/ StopAll(p) \/ Continue(p) \/ Acquire(p)
  \/ \E l \in Loops : LoopTick(l) \/ Proceed(l) \/ LoopDone(l) \/ LoopExit(l)
  \/ Restart

Spec == Init /\ [][Next]_vars

\* Goroutines are scheduled; GitLab and the cluster answer, so that a sync ends; the lock
\* is a Go mutex, which does not starve a waiter; select is random, so that the
\* cancellation of a context is not overlooked for ever.  Users owe nothing.
Fairness ==
  /\ \A p \in Procs : WF_vars(Continue(p)) /\ SF_vars(Acquire(p))
  /\ \A l \in Loops : WF_vars(Proceed(l)) /\ SF_vars(LoopDone(l)) /\ SF_vars(LoopExit(l))

FairSpec == Spec /\ Fairness

-----------------------------------------------------------------------------
(* Properties.                                                              *)

\* With the types: whoever is about to use its copy of a record has one (updateTask
\* ignores the error of its Get and must not start a task that is gone).
TypeOK ==
  /\ stored \in [Tasks -> SyncTask \cup {None}]
  /\ running \in [Tasks -> Loops \cup {None}]
  /\ at \in [Actors -> Local]
  /\ \A a \in Actors : at[a].pc \in Copying => at[a].copy # None
  /\ cancelled \subseteq Loops
  /\ mu \in Procs \cup {None}
  /\ stopping \in BOOLEAN
  /\ asked \in [Tasks -> [cfg: Configs, token: Tokens, run: BOOLEAN] \cup {None}]
  /\ restarts \in Nat

\* The map never names a goroutine that has ended, that was cancelled or that serves
\* another task, although goroutines delete entries by task id, whoever installed them:
\* StartTask refuses and GetTaskStatus answers "running" for tasks that do run only.
EntryIsLive ==
  \A t \in Tasks :
    running[t] # None =>
      /\ at[running[t]].op = "loop"
      /\ at[running[t]].task = t
      /\ running[t] \notin cancelled

\* A deleted task never comes back: the loops, syncs and edits that are under way write
\* their copies of it, and so does StopTask; Update does not insert.
DeletedStaysDeleted ==
  [][\A t \in Tasks : asked[t] # None /\ stored[t] = None => stored'[t] = None]_vars

\* A loop whose context was cancelled ends, with whatever handlers and other loops do.
CancelledLoopEnds ==
  \A l \in Loops : l \in cancelled ~> at[l].pc = "idle"

\* No handler waits for ever: not for the lock, not for another handler.
HandlersAnswer ==
  \A p \in Procs : InServer(p) ~> ~InServer(p)

\* StartTask: "already running".  A task has at most one live loop, and the map knows it,
\* so that a pause reaches it.
OneLoop ==
  \A t \in Tasks : \A l \in LiveLoops(t) : running[t] = l

InHand(t) == \E p \in Procs : InServer(p) /\ at[p].task = t

\* USER_GUIDE: a pause controls whether the scheduled or automatic mode runs, and a task
\* is stopped before it is deleted.  A task that is stored as paused, or was deleted, has no
\* live loop once no handler is at work on it.
StoppedIsQuiet ==
  \A t \in Tasks :
    (stored[t] = None \/ stored[t].status = "paused") /\ ~InHand(t) => LiveLoops(t) = {}

\* What the last edit asked for is what is stored: no stale copy brings an older
\* configuration back.
EditsAreKept ==
  \A t \in Tasks : stored[t] # None => stored[t].cfg = asked[t].cfg

\* What is shown and restored as running does run, over failures, edits, shutdowns and
\* crashes: StartTask and RestoreRunningTasks keep the status and the loops in step.
StoredRunningRuns ==
  \A t \in Tasks :
    stored[t] # None /\ stored[t].status = "running" /\ ~InHand(t) /\ mu = None
      => running[t] # None
=============================================================================
