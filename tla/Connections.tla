---------------------------- MODULE Connections ----------------------------
(***************************************************************************)
(* The three stores that refer to each other: internal/store/              *)
(* source_store.go (GitLab), target_store.go (clusters) and task_store.go, *)
(* behind the POST and DELETE handlers of internal/api.                    *)
(*                                                                         *)
(* Each store has a lock of its own.  Creating a task holds the lock of    *)
(* the tasks while it looks the two connections up; deleting a connection  *)
(* holds the lock of its store while it lists the tasks.                   *)
(***************************************************************************)
EXTENDS Naturals

CONSTANTS
  Tasks,        \* ids the task store can issue
  Names,        \* names of connections; a source and a target may share one
  Directions,   \* the directions of the tasks, "forward" or "reverse"
  Procs,        \* HTTP requests the server can process at the same time
  None,         \* no task, no lock holder
  Operations    \* the operations of a run, see AllOperations

AllOperations == {"create", "delete", "update_task"}

Kinds == {"source", "target"}

Stores == Kinds \cup {"task"}

\* The fields SourceName and TargetName: where a task copies from and to.
SyncTask == [direction: Directions, source: Names, target: Names]

ASSUME ConnectionAssumption ==
  /\ Directions \subseteq {"forward", "reverse"}
  /\ Operations \subseteq AllOperations
  /\ None \notin Procs \cup SyncTask

VARIABLES
  conns,    \* conns[k]: names of the connections of kind k
  tasks,    \* tasks[t]: the record, None if not in the store
  lock,     \* lock[s]: who holds the lock of store s between two steps, or None
  at,       \* at[p]: where a handler is
  edited    \* history: the tasks that were updated since they were created

vars == <<conns, tasks, lock, at, edited>>

Idle == [pc |-> "idle"]

CreateAt(pc, t, r) == [pc |-> pc, id |-> t, task |-> r]

DeleteAt(pc, k, n) == [pc |-> pc, kind |-> k, name |-> n]

Local ==
  {Idle} \cup {CreateAt(pc, t, r) : pc \in {"create", "check_source", "check_target", "append"},
                                    t \in Tasks, r \in SyncTask}
         \cup {DeleteAt(pc, k, n) : pc \in {"delete", "list", "remove"}, k \in Kinds, n \in Names}

\* Locks a handler holds between two of its steps.
Holds(p) ==
  CASE at[p].pc \in {"check_source", "check_target", "append"} -> {"task"}
    [] at[p].pc \in {"list", "remove"} -> {at[p].kind}
    [] OTHER -> {}

\* The kind of connection the two fields name; a reverse task copies from a cluster.
SourceKind(r) == IF r.direction = "reverse" THEN "target" ELSE "source"

TargetKind(r) == IF r.direction = "reverse" THEN "source" ELSE "target"

WellReferenced(r, c) ==
  /\ r.source \in c[SourceKind(r)]
  /\ r.target \in c[TargetKind(r)]

Acquire(p, s) ==
  /\ lock[s] = None
  /\ lock' = [lock EXCEPT ![s] = p]

Release(s) == lock' = [lock EXCEPT ![s] = None]

Goto(p, local) == at' = [at EXCEPT ![p] = local]

-----------------------------------------------------------------------------
(* Creating a task, under the lock of the task store.                       *)

Creating == {"create", "check_source", "check_target", "append"}

\* Bound: an id is left for every request.
CreateRequest(p, t, r) ==
  /\ "create" \in Operations
  /\ at[p] = Idle
  /\ tasks[t] = None
  /\ \A q \in Procs : at[q].pc \in Creating => at[q].id # t
  /\ Goto(p, CreateAt("create", t, r))
  /\ UNCHANGED <<conns, tasks, lock, edited>>

CreateLock(p) ==
  /\ at[p].pc = "create"
  /\ Acquire(p, "task")
  /\ Goto(p, [at[p] EXCEPT !.pc = "check_source"])
  /\ UNCHANGED <<conns, tasks, edited>>

\* Get of the other store, under its read lock; not found ends the request.
Check(p, pc, kind, name, next) ==
  /\ at[p].pc = pc
  /\ lock[kind] = None
  /\ IF name \in conns[kind] THEN Goto(p, [at[p] EXCEPT !.pc = next]) /\ lock' = lock
                             ELSE Goto(p, Idle) /\ Release("task")
  /\ UNCHANGED <<conns, tasks, edited>>

CheckSource(p) ==
  /\ at[p].pc = "check_source"
  /\ Check(p, "check_source", SourceKind(at[p].task), at[p].task.source, "check_target")

\* Faulty variant: the error return forgets the lock.
CheckTargetNoUnlock(p) ==
  /\ at[p].pc = "check_target"
  /\ lock[TargetKind(at[p].task)] = None
  /\ Goto(p, IF at[p].task.target \in conns[TargetKind(at[p].task)]
             THEN [at[p] EXCEPT !.pc = "append"] ELSE Idle)
  /\ UNCHANGED <<conns, tasks, lock, edited>>

CheckTarget(p) ==
  /\ at[p].pc = "check_target"
  /\ Check(p, "check_target", TargetKind(at[p].task), at[p].task.target, "append")

CreateAppend(p) ==
  /\ at[p].pc = "append"
  /\ tasks' = [tasks EXCEPT ![at[p].id] = at[p].task]
  /\ Release("task")
  /\ Goto(p, Idle)
  /\ edited' = edited \ {at[p].id}
  /\ UNCHANGED conns

-----------------------------------------------------------------------------
(* Deleting a connection, under the lock of its store.                      *)

\* The tasks that keep a connection: by SourceName for a GitLab source, by TargetName
\* for a cluster, whatever the direction of the task.
Referring(k, n) ==
  {t \in Tasks : tasks[t] # None
                   /\ n = IF k = "source" THEN tasks[t].source ELSE tasks[t].target}

DeleteRequest(p, k, n) ==
  /\ "delete" \in Operations
  /\ at[p] = Idle
  /\ Goto(p, DeleteAt("delete", k, n))
  /\ UNCHANGED <<conns, tasks, lock, edited>>

DeleteLock(p) ==
  /\ at[p].pc = "delete"
  /\ Acquire(p, at[p].kind)
  /\ Goto(p, [at[p] EXCEPT !.pc = "list"])
  /\ UNCHANGED <<conns, tasks, edited>>

\* Faulty variant: the lock is given back for the time of the check.
DeleteListUnlocked(p) ==
  /\ at[p].pc = "list"
  /\ lock["task"] = None
  /\ Release(at[p].kind)
  /\ Goto(p, IF Referring(at[p].kind, at[p].name) # {} THEN Idle
             ELSE [at[p] EXCEPT !.pc = "remove"])
  /\ UNCHANGED <<conns, tasks, edited>>

\* List of the task store, under its read lock; a reference refuses the request.
DeleteList(p) ==
  /\ at[p].pc = "list"
  /\ lock["task"] = None
  /\ IF Referring(at[p].kind, at[p].name) # {}
     THEN Goto(p, Idle) /\ Release(at[p].kind)
     ELSE Goto(p, [at[p] EXCEPT !.pc = "remove"]) /\ lock' = lock
  /\ UNCHANGED <<conns, tasks, edited>>

DeleteRemove(p) ==
  /\ at[p].pc = "remove"
  /\ conns' = [conns EXCEPT ![at[p].kind] = @ \ {at[p].name}]
  /\ Release(at[p].kind)
  /\ Goto(p, Idle)
  /\ UNCHANGED <<tasks, edited>>

-----------------------------------------------------------------------------
(* Calls that need one lock only.                                           *)

\* POST sources and targets: a name is taken once per kind.
CreateConnection(k, n) ==
  /\ lock[k] = None
  /\ n \notin conns[k]
  /\ conns' = [conns EXCEPT ![k] = @ \cup {n}]
  /\ UNCHANGED <<tasks, lock, at, edited>>

\* PUT tasks/{id}: taskStore.Update looks no connection up.
UpdateTask(t, r) ==
  /\ "update_task" \in Operations
  /\ lock["task"] = None
  /\ tasks[t] # None
  /\ tasks' = [tasks EXCEPT ![t] = r]
  /\ edited' = edited \cup {t}
  /\ UNCHANGED <<conns, lock, at>>

DeleteTask(t) ==
  /\ lock["task"] = None
  /\ tasks[t] # None
  /\ tasks' = [tasks EXCEPT ![t] = None]
  /\ UNCHANGED <<conns, lock, at, edited>>

\* What the files may hold when the server comes up.
Init ==
  /\ conns \in [Kinds -> SUBSET Names]
  /\ tasks \in [Tasks -> {None} \cup {r \in SyncTask : WellReferenced(r, conns)}]
  /\ lock = [s \in Stores |-> None]
  /\ at = [p \in Procs |-> Idle]
  /\ edited = {}

Request(p) ==
  \/ \E t \in Tasks, r \in SyncTask : CreateRequest(p, t, r)
  \/ \E k \in Kinds, n \in Names : DeleteRequest(p, k, n)

Continue(p) ==
  \/ CreateLock(p) \/ CheckSource(p) \/ CheckTarget(p) \/ CreateAppend(p)
  \/ DeleteLock(p) \/ DeleteList(p) \/ DeleteRemove(p)

Next ==
  \/ \E p \in Procs : Request(p) \/ Continue(p)
  \/ \E k \in Kinds, n \in Names : CreateConnection(k, n)
  \/ \E t \in Tasks : DeleteTask(t) \/ \E r \in SyncTask : UpdateTask(t, r)

Spec == Init /\ [][Next]_vars

\* A handler that can go on again and again does: Go's mutexes starve nobody.
FairSpec == Spec /\ \A p \in Procs : SF_vars(Continue(p))

-----------------------------------------------------------------------------
(* Properties.                                                              *)

\* With the types: a lock is held exactly by the handler that is between the calls it
\* protects, on every path, refusals included.
TypeOK ==
  /\ conns \in [Kinds -> SUBSET Names]
  /\ tasks \in [Tasks -> SyncTask \cup {None}]
  /\ at \in [Procs -> Local]
  /\ lock \in [Stores -> Procs \cup {None}]
  /\ edited \subseteq Tasks
  /\ \A p \in Procs, s \in Stores : lock[s] = p <=> s \in Holds(p)

\* Referential integrity: what a task refers to exists, although the check of a delete
\* and the check of a create look at each other's store in two separate steps.  (Tasks
\* that were updated are excepted: taskStore.Update takes any name.)
ReferencesHold ==
  \A t \in Tasks \ edited : tasks[t] # None => WellReferenced(tasks[t], conns)

\* Creating or deleting what is in use "returns an error": every request is answered.
RequestsAnswer ==
  \A p \in Procs : at[p] # Idle ~> at[p] = Idle
=============================================================================
