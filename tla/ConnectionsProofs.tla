-------------------------- MODULE ConnectionsProofs --------------------------
(* Proofs about Connections for every value of its constants: any number of  *)
(* connections, tasks and requests, forward and reverse tasks side by side.  *)
EXTENDS Connections, TLAPS

-----------------------------------------------------------------------------
(* Where a handler can be.                                                    *)

Deleting == {"delete", "list", "remove"}

\* The locks of a handler that is at l: Holds, of a place instead of a process.
HeldAt(l) ==
  CASE l.pc \in {"check_source", "check_target", "append"} -> {"task"}
    [] l.pc \in {"list", "remove"} -> {l.kind}
    [] OTHER -> {}

LEMMA HoldsIsHeldAt == \A p : Holds(p) = HeldAt(at[p]) /\ Holds(p)' = HeldAt(at'[p])
BY DEF Holds, HeldAt

LEMMA LocalCases ==
  ASSUME NEW l \in Local
  PROVE  \/ l = Idle
         \/ \E pc \in Creating, t \in Tasks, r \in SyncTask : l = CreateAt(pc, t, r)
         \/ \E pc \in Deleting, k \in Kinds, n \in Names : l = DeleteAt(pc, k, n)
BY DEF Local, Creating, Deleting

LEMMA IdleLocal == Idle \in Local /\ HeldAt(Idle) = {}
BY DEF Local, Idle, HeldAt

\* A handler that creates a task has an id and a record, and keeps both.
LEMMA CreatorLocal ==
  ASSUME NEW l \in Local, l.pc \in Creating
  PROVE  /\ l.id \in Tasks /\ l.task \in SyncTask
         /\ \A pc \in Creating :
              /\ [l EXCEPT !.pc = pc] = CreateAt(pc, l.id, l.task)
              /\ CreateAt(pc, l.id, l.task) \in Local
<1>1. PICK pc \in Creating, t \in Tasks, r \in SyncTask : l = CreateAt(pc, t, r)
  <2>1. l # Idle
    BY DEF Idle, Creating
  <2>2. ASSUME NEW pc \in Deleting, NEW k \in Kinds, NEW n \in Names, l = DeleteAt(pc, k, n)
        PROVE  FALSE
    BY <2>2 DEF DeleteAt, Creating, Deleting
  <2>3. QED
    BY <2>1, <2>2, LocalCases
<1>2. \A c \in Creating : CreateAt(c, t, r) \in Local
  BY DEF Creating, Local
<1>3. l.id = t /\ l.task = r /\ \A c \in Creating : [l EXCEPT !.pc = c] = CreateAt(c, t, r)
  BY <1>1 DEF CreateAt
<1>4. QED
  BY <1>2, <1>3

\* A handler that deletes a connection has its kind and its name, and keeps both.
LEMMA DeleterLocal ==
  ASSUME NEW l \in Local, l.pc \in Deleting
  PROVE  /\ l.kind \in Kinds /\ l.name \in Names
         /\ \A pc \in Deleting :
              /\ [l EXCEPT !.pc = pc] = DeleteAt(pc, l.kind, l.name)
              /\ DeleteAt(pc, l.kind, l.name) \in Local
<1>1. PICK pc \in Deleting, k \in Kinds, n \in Names : l = DeleteAt(pc, k, n)
  <2>1. l # Idle
    BY DEF Idle, Deleting
  <2>2. ASSUME NEW pc \in Creating, NEW t \in Tasks, NEW r \in SyncTask, l = CreateAt(pc, t, r)
        PROVE  FALSE
    BY <2>2 DEF CreateAt, Creating, Deleting
  <2>3. QED
    BY <2>1, <2>2, LocalCases
<1>2. \A c \in Deleting : DeleteAt(c, k, n) \in Local
  BY DEF Deleting, Local
<1>3. /\ l.kind = k /\ l.name = n
      /\ \A c \in Deleting : [l EXCEPT !.pc = c] = DeleteAt(c, k, n)
  BY <1>1 DEF DeleteAt
<1>4. QED
  BY <1>2, <1>3

-----------------------------------------------------------------------------
(* Types and locks.                                                           *)

LocksHeld == \A p \in Procs, s \in Stores : lock[s] = p <=> s \in Holds(p)

\* Handler p moves; only locks that nobody or p itself held change hands.
LEMMA MoveType ==
  ASSUME TypeOK, NEW p \in Procs, NEW l \in Local, Goto(p, l),
         lock' \in [Stores -> Procs \cup {None}],
         \A s \in Stores : lock'[s] = p <=> s \in HeldAt(l),
         \A s \in Stores : \/ lock'[s] = lock[s]
                           \/ lock[s] \in {p, None} /\ lock'[s] \in {p, None}
  PROVE  at' \in [Procs -> Local] /\ LocksHeld'
<1>1. at' \in [Procs -> Local] /\ at'[p] = l /\ \A q \in Procs : q # p => at'[q] = at[q]
  BY DEF TypeOK, Goto
<1>2. ASSUME NEW q \in Procs, NEW s \in Stores
      PROVE  lock'[s] = q <=> s \in HeldAt(at'[q])
  <2>1. CASE q = p
    BY <1>1, <2>1
  <2>2. CASE q # p
    <3>1. lock[s] = q <=> s \in HeldAt(at'[q])
      BY <1>1, <2>2, HoldsIsHeldAt DEF TypeOK
    <3>2. lock'[s] = q <=> lock[s] = q
      BY <2>2, ConnectionAssumption
    <3>3. QED
      BY <3>1, <3>2
  <2>3. QED
    BY <2>1, <2>2
<1>3. LocksHeld'
  BY <1>2, HoldsIsHeldAt DEF LocksHeld
<1>4. QED
  BY <1>1, <1>3

\* Taking a lock that is free, giving one back, going on with the locks one has.
LEMMA AcquireMove ==
  ASSUME TypeOK, NEW p \in Procs, NEW s \in Stores, NEW l \in Local, Goto(p, l),
         Acquire(p, s), HeldAt(at[p]) = {}, HeldAt(l) = {s}
  PROVE  /\ at' \in [Procs -> Local] /\ LocksHeld'
         /\ lock' \in [Stores -> Procs \cup {None}]
<1>1. \A x \in Stores : lock[x] # p
  BY HoldsIsHeldAt DEF TypeOK
<1>2. lock' \in [Stores -> Procs \cup {None}] /\ lock'[s] = p
        /\ \A x \in Stores : x # s => lock'[x] = lock[x]
  BY DEF Acquire, TypeOK
<1>3. lock[s] = None
  BY DEF Acquire
<1>4. QED
  BY <1>1, <1>2, <1>3, MoveType

LEMMA ReleaseMove ==
  ASSUME TypeOK, NEW p \in Procs, NEW s \in Stores, Goto(p, Idle),
         Release(s), HeldAt(at[p]) = {s}
  PROVE  /\ at' \in [Procs -> Local] /\ LocksHeld'
         /\ lock' \in [Stores -> Procs \cup {None}]
<1>1. \A x \in Stores : lock[x] = p <=> x = s
  BY HoldsIsHeldAt DEF TypeOK
<1>2. lock' \in [Stores -> Procs \cup {None}] /\ lock'[s] = None
        /\ \A x \in Stores : x # s => lock'[x] = lock[x]
  BY DEF Release, TypeOK
<1>3. p # None
  BY ConnectionAssumption
<1>4. QED
  BY <1>1, <1>2, <1>3, IdleLocal, MoveType

LEMMA PlainMove ==
  ASSUME TypeOK, NEW p \in Procs, NEW l \in Local, Goto(p, l),
         lock' = lock, HeldAt(l) = HeldAt(at[p])
  PROVE  /\ at' \in [Procs -> Local] /\ LocksHeld'
         /\ lock' \in [Stores -> Procs \cup {None}]
<1>1. \A x \in Stores : lock[x] = p <=> x \in HeldAt(l)
  BY HoldsIsHeldAt DEF TypeOK
<1>2. lock' \in [Stores -> Procs \cup {None}]
  BY DEF TypeOK
<1>3. QED
  BY <1>1, <1>2, MoveType

LEMMA TypeInit == Init => TypeOK
<1> SUFFICES ASSUME Init PROVE TypeOK
  OBVIOUS
<1>1. tasks \in [Tasks -> SyncTask \cup {None}]
  BY DEF Init
<1>2. at \in [Procs -> Local] /\ \A p \in Procs : Holds(p) = {}
  BY IdleLocal, HoldsIsHeldAt DEF Init
<1>3. lock \in [Stores -> Procs \cup {None}] /\ \A p \in Procs, s \in Stores : lock[s] # p
  BY ConnectionAssumption DEF Init
<1>4. QED
  BY <1>1, <1>2, <1>3 DEF Init, TypeOK

LEMMA TypeCreateRequest ==
  ASSUME TypeOK, NEW p \in Procs, NEW t \in Tasks, NEW r \in SyncTask, CreateRequest(p, t, r)
  PROVE  TypeOK'
<1>1. CreateAt("create", t, r) \in Local /\ HeldAt(CreateAt("create", t, r)) = {}
  BY DEF Local, HeldAt, CreateAt
<1>2. Goto(p, CreateAt("create", t, r)) /\ lock' = lock /\ at[p] = Idle
  BY DEF CreateRequest
<1>3. /\ at' \in [Procs -> Local] /\ LocksHeld'
      /\ lock' \in [Stores -> Procs \cup {None}]
  BY <1>1, <1>2, IdleLocal, PlainMove
<1>4. QED
  BY <1>3 DEF CreateRequest, TypeOK, LocksHeld

LEMMA TypeDeleteRequest ==
  ASSUME TypeOK, NEW p \in Procs, NEW k \in Kinds, NEW n \in Names, DeleteRequest(p, k, n)
  PROVE  TypeOK'
<1>1. DeleteAt("delete", k, n) \in Local /\ HeldAt(DeleteAt("delete", k, n)) = {}
  BY DEF Local, HeldAt, DeleteAt
<1>2. Goto(p, DeleteAt("delete", k, n)) /\ lock' = lock /\ at[p] = Idle
  BY DEF DeleteRequest
<1>3. /\ at' \in [Procs -> Local] /\ LocksHeld'
      /\ lock' \in [Stores -> Procs \cup {None}]
  BY <1>1, <1>2, IdleLocal, PlainMove
<1>4. QED
  BY <1>3 DEF DeleteRequest, TypeOK, LocksHeld

\* What a step of a creating handler leads to, and the locks it has there.
LEMMA CreatorMoves ==
  ASSUME TypeOK, NEW p \in Procs, at[p].pc \in Creating, NEW pc \in Creating
  PROVE  /\ [at[p] EXCEPT !.pc = pc] = CreateAt(pc, at[p].id, at[p].task)
         /\ CreateAt(pc, at[p].id, at[p].task) \in Local
         /\ at[p].id \in Tasks /\ at[p].task \in SyncTask
         /\ HeldAt(CreateAt(pc, at[p].id, at[p].task)) = IF pc = "create" THEN {} ELSE {"task"}
         /\ HeldAt(at[p]) = IF at[p].pc = "create" THEN {} ELSE {"task"}
<1>1. at[p] \in Local
  BY DEF TypeOK
<1>2. HeldAt(CreateAt(pc, at[p].id, at[p].task)) = IF pc = "create" THEN {} ELSE {"task"}
  BY DEF HeldAt, CreateAt, Creating
<1>3. HeldAt(at[p]) = IF at[p].pc = "create" THEN {} ELSE {"task"}
  BY DEF HeldAt, Creating
<1>4. QED
  BY <1>1, <1>2, <1>3, CreatorLocal

LEMMA DeleterMoves ==
  ASSUME TypeOK, NEW p \in Procs, at[p].pc \in Deleting, NEW pc \in Deleting
  PROVE  /\ [at[p] EXCEPT !.pc = pc] = DeleteAt(pc, at[p].kind, at[p].name)
         /\ DeleteAt(pc, at[p].kind, at[p].name) \in Local
         /\ at[p].kind \in Kinds /\ at[p].name \in Names
         /\ HeldAt(DeleteAt(pc, at[p].kind, at[p].name)) =
              IF pc = "delete" THEN {} ELSE {at[p].kind}
         /\ HeldAt(at[p]) = IF at[p].pc = "delete" THEN {} ELSE {at[p].kind}
<1>1. at[p] \in Local
  BY DEF TypeOK
<1>2. HeldAt(DeleteAt(pc, at[p].kind, at[p].name)) = IF pc = "delete" THEN {} ELSE {at[p].kind}
  BY DEF HeldAt, DeleteAt, Deleting
<1>3. HeldAt(at[p]) = IF at[p].pc = "delete" THEN {} ELSE {at[p].kind}
  BY DEF HeldAt, Deleting
<1>4. QED
  BY <1>1, <1>2, <1>3, DeleterLocal

LEMMA StoresOf == Kinds \subseteq Stores /\ "task" \in Stores /\ "task" \notin Kinds
BY DEF Stores, Kinds

LEMMA TypeCreateLock ==
  ASSUME TypeOK, NEW p \in Procs, CreateLock(p)
  PROVE  TypeOK'
<1>1. at[p].pc = "create" /\ "create" \in Creating /\ "check_source" \in Creating
  BY DEF CreateLock, Creating
<1>2. Goto(p, [at[p] EXCEPT !.pc = "check_source"]) /\ Acquire(p, "task")
  BY DEF CreateLock
<1>3. /\ at' \in [Procs -> Local] /\ LocksHeld'
      /\ lock' \in [Stores -> Procs \cup {None}]
  BY <1>1, <1>2, CreatorMoves, StoresOf, AcquireMove
<1>4. QED
  BY <1>3 DEF CreateLock, TypeOK, LocksHeld

LEMMA TypeCheck ==
  ASSUME TypeOK, NEW p \in Procs, NEW pc \in {"check_source", "check_target"},
         NEW kind, NEW name, NEW next \in {"check_target", "append"},
         Check(p, pc, kind, name, next)
  PROVE  TypeOK'
<1>1. /\ at[p].pc \in Creating /\ next \in Creating
      /\ at[p].pc # "create" /\ next # "create"
  BY DEF Check, Creating
<1>2. /\ at' \in [Procs -> Local] /\ LocksHeld'
      /\ lock' \in [Stores -> Procs \cup {None}]
  <2>1. CASE Goto(p, [at[p] EXCEPT !.pc = next]) /\ lock' = lock
    BY <1>1, <2>1, CreatorMoves, PlainMove
  <2>2. CASE Goto(p, Idle) /\ Release("task")
    BY <1>1, <2>2, CreatorMoves, StoresOf, ReleaseMove
  <2>3. QED
    BY <2>1, <2>2 DEF Check
<1>3. QED
  BY <1>2 DEF Check, TypeOK, LocksHeld

LEMMA TypeCreateAppend ==
  ASSUME TypeOK, NEW p \in Procs, CreateAppend(p)
  PROVE  TypeOK'
<1>1. at[p].pc = "append" /\ "append" \in Creating
  BY DEF CreateAppend, Creating
<1>2. Goto(p, Idle) /\ Release("task")
  BY DEF CreateAppend
<1>3. /\ at' \in [Procs -> Local] /\ LocksHeld'
      /\ lock' \in [Stores -> Procs \cup {None}]
  BY <1>1, <1>2, CreatorMoves, StoresOf, ReleaseMove
<1>4. at[p].id \in Tasks /\ at[p].task \in SyncTask
  BY <1>1, CreatorMoves
<1>5. tasks' \in [Tasks -> SyncTask \cup {None}]
  BY <1>4 DEF CreateAppend, TypeOK
<1>6. QED
  BY <1>3, <1>5 DEF CreateAppend, TypeOK, LocksHeld

LEMMA TypeDeleteLock ==
  ASSUME TypeOK, NEW p \in Procs, DeleteLock(p)
  PROVE  TypeOK'
<1>1. at[p].pc = "delete" /\ "delete" \in Deleting /\ "list" \in Deleting
  BY DEF DeleteLock, Deleting
<1> DEFINE l == DeleteAt("list", at[p].kind, at[p].name)
<1>2. Goto(p, l) /\ Acquire(p, at[p].kind)
  BY <1>1, DeleterMoves DEF DeleteLock
<1>3. l \in Local /\ HeldAt(l) = {at[p].kind} /\ HeldAt(at[p]) = {} /\ at[p].kind \in Stores
  BY <1>1, DeleterMoves, StoresOf
<1> HIDE DEF l
<1>4. /\ at' \in [Procs -> Local] /\ LocksHeld'
      /\ lock' \in [Stores -> Procs \cup {None}]
  BY <1>2, <1>3, AcquireMove
<1>5. QED
  BY <1>4 DEF DeleteLock, TypeOK, LocksHeld

LEMMA TypeDeleteList ==
  ASSUME TypeOK, NEW p \in Procs, DeleteList(p)
  PROVE  TypeOK'
<1>1. at[p].pc = "list" /\ "list" \in Deleting /\ "remove" \in Deleting
  BY DEF DeleteList, Deleting
<1>2. /\ at' \in [Procs -> Local] /\ LocksHeld'
      /\ lock' \in [Stores -> Procs \cup {None}]
  <2>1. CASE Goto(p, [at[p] EXCEPT !.pc = "remove"]) /\ lock' = lock
    <3> DEFINE l == DeleteAt("remove", at[p].kind, at[p].name)
    <3>1. Goto(p, l)
      BY <1>1, <2>1, DeleterMoves
    <3>2. l \in Local /\ HeldAt(l) = HeldAt(at[p])
      BY <1>1, DeleterMoves
    <3> HIDE DEF l
    <3>3. QED
      BY <2>1, <3>1, <3>2, PlainMove
  <2>2. CASE Goto(p, Idle) /\ Release(at[p].kind)
    BY <1>1, <2>2, DeleterMoves, StoresOf, ReleaseMove
  <2>3. QED
    BY <2>1, <2>2 DEF DeleteList
<1>3. QED
  BY <1>2 DEF DeleteList, TypeOK, LocksHeld

LEMMA TypeDeleteRemove ==
  ASSUME TypeOK, NEW p \in Procs, DeleteRemove(p)
  PROVE  TypeOK'
<1>1. at[p].pc = "remove" /\ "remove" \in Deleting
  BY DEF DeleteRemove, Deleting
<1>2. Goto(p, Idle) /\ Release(at[p].kind)
  BY DEF DeleteRemove
<1>3. /\ at' \in [Procs -> Local] /\ LocksHeld'
      /\ lock' \in [Stores -> Procs \cup {None}]
  BY <1>1, <1>2, DeleterMoves, StoresOf, ReleaseMove
<1>4. conns' \in [Kinds -> SUBSET Names]
  BY DEF DeleteRemove, TypeOK
<1>5. QED
  BY <1>3, <1>4 DEF DeleteRemove, TypeOK, LocksHeld

\* The calls that need one lock only move no handler.
LEMMA TypeOneLock ==
  ASSUME TypeOK, UNCHANGED <<lock, at>>,
         conns' \in [Kinds -> SUBSET Names], tasks' \in [Tasks -> SyncTask \cup {None}],
         edited' \subseteq Tasks
  PROVE  TypeOK'
BY HoldsIsHeldAt DEF TypeOK

LEMMA TypeStep == TypeOK /\ [Next]_vars => TypeOK'
<1> SUFFICES ASSUME TypeOK, [Next]_vars PROVE TypeOK'
  OBVIOUS
<1>1. ASSUME NEW p \in Procs, Request(p) PROVE TypeOK'
  BY <1>1, TypeCreateRequest, TypeDeleteRequest DEF Request
<1>2. ASSUME NEW p \in Procs, Continue(p) PROVE TypeOK'
  <2>1. CASE CreateLock(p)
    BY <2>1, TypeCreateLock
  <2>2. CASE CheckSource(p)
    BY <2>2, TypeCheck DEF CheckSource
  <2>3. CASE CheckTarget(p)
    BY <2>3, TypeCheck DEF CheckTarget
  <2>4. CASE CreateAppend(p)
    BY <2>4, TypeCreateAppend
  <2>5. CASE DeleteLock(p)
    BY <2>5, TypeDeleteLock
  <2>6. CASE DeleteList(p)
    BY <2>6, TypeDeleteList
  <2>7. CASE DeleteRemove(p)
    BY <2>7, TypeDeleteRemove
  <2>8. QED
    BY <1>2, <2>1, <2>2, <2>3, <2>4, <2>5, <2>6, <2>7 DEF Continue
<1>3. ASSUME NEW k \in Kinds, NEW n \in Names, CreateConnection(k, n) PROVE TypeOK'
  <2>1. conns' \in [Kinds -> SUBSET Names]
    BY <1>3 DEF CreateConnection, TypeOK
  <2>2. QED
    BY <1>3, <2>1, TypeOneLock DEF CreateConnection, TypeOK
<1>4. ASSUME NEW t \in Tasks, DeleteTask(t) PROVE TypeOK'
  <2>1. tasks' \in [Tasks -> SyncTask \cup {None}]
    BY <1>4 DEF DeleteTask, TypeOK
  <2>2. QED
    BY <1>4, <2>1, TypeOneLock DEF DeleteTask, TypeOK
<1>5. ASSUME NEW t \in Tasks, NEW r \in SyncTask, UpdateTask(t, r) PROVE TypeOK'
  <2>1. tasks' \in [Tasks -> SyncTask \cup {None}]
    BY <1>5 DEF UpdateTask, TypeOK
  <2>2. QED
    BY <1>5, <2>1, TypeOneLock DEF UpdateTask, TypeOK
<1>6. CASE UNCHANGED vars
  BY <1>6, TypeOneLock DEF vars, TypeOK
<1>7. QED
  BY <1>1, <1>2, <1>3, <1>4, <1>5, <1>6 DEF Next

\* In every reachable state the variables have their types, and a store's lock is held
\* exactly by the handler that is between the two calls it protects: no path of a POST or
\* a DELETE, refusals included, keeps a lock or gives one back too early.
THEOREM TypeCorrect == Spec => []TypeOK
<1>1. QED
  BY TypeInit, TypeStep, PTL DEF Spec

-----------------------------------------------------------------------------
(* Referential integrity.  The two requests that could break it look at each *)
(* other's store without its lock: a create has seen both connections before *)
(* it appends, a delete has seen no task before it removes.  What saves them *)
(* is that a create keeps the task lock, which a delete needs to go on, and  *)
(* a delete keeps the lock of its kind, which a create needs to go on.       *)

\* What a task refers to as a connection of kind k.
NameOf(r, k) == IF k = "source" THEN r.source ELSE r.target

\* What a create has found is still there.
CreatorSaw ==
  \A p \in Procs :
    /\ at[p].pc \in {"check_target", "append"} =>
         at[p].task.source \in conns[SourceKind(at[p].task)]
    /\ at[p].pc = "append" => at[p].task.target \in conns[TargetKind(at[p].task)]

\* No create is past its look at a store while a delete is about to write that store.
RemoveIsAlone ==
  \A p, q \in Procs :
    at[q].pc = "remove" =>
      /\ at[p].pc = "check_target" => at[q].kind # SourceKind(at[p].task)
      /\ at[p].pc # "append"

\* What a delete has found is still so: no task refers to what it is about to remove, but
\* for tasks that were updated.
NothingRefers ==
  \A q \in Procs :
    at[q].pc = "remove" =>
      \A t \in Tasks \ edited :
        tasks[t] # None => NameOf(tasks[t], at[q].kind) # at[q].name

\* Referential integrity of the forward tasks, whatever other tasks there are.  (A delete
\* looks for a GitLab source in SourceName, where a reverse task has its cluster.)
ForwardReferencesHold ==
  \A t \in Tasks \ edited :
    tasks[t] # None /\ tasks[t].direction = "forward" => WellReferenced(tasks[t], conns)

Integrity == CreatorSaw /\ RemoveIsAlone /\ NothingRefers /\ ForwardReferencesHold

IInv == TypeOK /\ Integrity

LEMMA IntegrityInit == Init => Integrity
<1> SUFFICES ASSUME Init PROVE Integrity
  OBVIOUS
<1>1. \A p \in Procs : at[p].pc = "idle"
  BY DEF Init, Idle
<1>2. \A t \in Tasks : tasks[t] # None => WellReferenced(tasks[t], conns)
  BY DEF Init
<1>3. QED
  BY <1>1, <1>2 DEF Integrity, CreatorSaw, RemoveIsAlone, NothingRefers, ForwardReferencesHold

\* The lock of a store keeps every other handler out of what it protects.
LEMMA Exclusion ==
  ASSUME TypeOK, NEW p \in Procs
  PROVE  /\ at[p].pc \in {"check_source", "check_target", "append"} => lock["task"] = p
         /\ at[p].pc \in {"list", "remove"} => at[p].kind \in Kinds /\ lock[at[p].kind] = p
<1>1. CASE at[p].pc \in {"check_source", "check_target", "append"}
  BY <1>1, StoresOf DEF TypeOK, Holds
<1>2. CASE at[p].pc \in {"list", "remove"}
  <2>1. at[p].kind \in Kinds
    BY <1>2, DeleterLocal DEF TypeOK, Deleting
  <2>2. at[p].kind \in Holds(p)
    BY <1>2 DEF Holds
  <2>3. QED
    BY <1>2, <2>1, <2>2, StoresOf DEF TypeOK
<1>3. QED
  BY <1>1, <1>2

LEMMA NobodyIsNone == \A p \in Procs : p # None
BY ConnectionAssumption

\* A handler that goes where it relies on nothing.
LEMMA QuietMove ==
  ASSUME IInv, NEW p \in Procs, NEW l, Goto(p, l), UNCHANGED <<conns, tasks, edited>>,
         l.pc \notin {"check_target", "append", "remove"}
  PROVE  Integrity'
<1>1. at'[p] = l /\ \A q \in Procs : q # p => at'[q] = at[q]
  BY DEF IInv, TypeOK, Goto
<1>2. CreatorSaw'
  BY <1>1 DEF IInv, Integrity, CreatorSaw, SourceKind, TargetKind
<1>3. RemoveIsAlone'
  BY <1>1 DEF IInv, Integrity, RemoveIsAlone, SourceKind
<1>4. NothingRefers'
  BY <1>1 DEF IInv, Integrity, NothingRefers, NameOf
<1>5. ForwardReferencesHold'
  BY DEF IInv, Integrity, ForwardReferencesHold, WellReferenced, SourceKind, TargetKind
<1>6. QED
  BY <1>2, <1>3, <1>4, <1>5 DEF Integrity

LEMMA IdleIsQuiet == Idle.pc \notin {"check_target", "append", "remove"}
BY DEF Idle

LEMMA KindsOfTask ==
  \A r : /\ SourceKind(r) \in Kinds /\ TargetKind(r) \in Kinds
         /\ \A k \in Kinds : k = SourceKind(r) \/ k = TargetKind(r)
BY DEF SourceKind, TargetKind, Kinds

LEMMA IntegrityCheckSource ==
  ASSUME IInv, NEW p \in Procs, CheckSource(p)
  PROVE  Integrity'
<1> DEFINE k == SourceKind(at[p].task)
           l == CreateAt("check_target", at[p].id, at[p].task)
<1>1. at[p].pc = "check_source" /\ lock[k] = None /\ UNCHANGED <<conns, tasks, edited>>
  BY DEF CheckSource, Check
<1>2. CASE at[p].task.source \notin conns[k]
  BY <1>1, <1>2, IdleIsQuiet, QuietMove DEF CheckSource, Check
<1>3. CASE at[p].task.source \in conns[k]
  <2>1. Goto(p, l)
    <3>1. at[p].pc \in Creating /\ "check_target" \in Creating
      BY <1>1 DEF Creating
    <3>2. Goto(p, [at[p] EXCEPT !.pc = "check_target"])
      BY <1>3 DEF CheckSource, Check
    <3>3. QED
      BY <3>1, <3>2, CreatorMoves DEF IInv
  <2>2. l.pc = "check_target" /\ l.task = at[p].task
    BY DEF CreateAt
  <2> HIDE DEF l
  <2>3. at'[p] = l /\ \A q \in Procs : q # p => at'[q] = at[q]
    BY <2>1 DEF IInv, TypeOK, Goto
  <2>4. CreatorSaw'
    BY <1>1, <1>3, <2>2, <2>3 DEF IInv, Integrity, CreatorSaw, SourceKind, TargetKind
  <2>5. RemoveIsAlone'
    <3>1. \A q \in Procs : at[q].pc = "remove" => at[q].kind # k
      BY <1>1, Exclusion, NobodyIsNone DEF IInv
    <3>2. QED
      BY <2>2, <2>3, <3>1 DEF IInv, Integrity, RemoveIsAlone, SourceKind
  <2>6. NothingRefers'
    BY <1>1, <2>2, <2>3 DEF IInv, Integrity, NothingRefers, NameOf
  <2>7. ForwardReferencesHold'
    BY <1>1 DEF IInv, Integrity, ForwardReferencesHold, WellReferenced, SourceKind, TargetKind
  <2>8. QED
    BY <2>4, <2>5, <2>6, <2>7 DEF Integrity
<1>4. QED
  BY <1>2, <1>3

LEMMA IntegrityCheckTarget ==
  ASSUME IInv, NEW p \in Procs, CheckTarget(p)
  PROVE  Integrity'
<1> DEFINE k == TargetKind(at[p].task)
           l == CreateAt("append", at[p].id, at[p].task)
<1>1. at[p].pc = "check_target" /\ lock[k] = None /\ UNCHANGED <<conns, tasks, edited>>
  BY DEF CheckTarget, Check
<1>2. CASE at[p].task.target \notin conns[k]
  BY <1>1, <1>2, IdleIsQuiet, QuietMove DEF CheckTarget, Check
<1>3. CASE at[p].task.target \in conns[k]
  <2>1. Goto(p, l)
    <3>1. at[p].pc \in Creating /\ "append" \in Creating
      BY <1>1 DEF Creating
    <3>2. Goto(p, [at[p] EXCEPT !.pc = "append"])
      BY <1>3 DEF CheckTarget, Check
    <3>3. QED
      BY <3>1, <3>2, CreatorMoves DEF IInv
  <2>2. l.pc = "append" /\ l.task = at[p].task
    BY DEF CreateAt
  <2> HIDE DEF l
  <2>3. at'[p] = l /\ \A q \in Procs : q # p => at'[q] = at[q]
    BY <2>1 DEF IInv, TypeOK, Goto
  <2>4. CreatorSaw'
    BY <1>1, <1>3, <2>2, <2>3 DEF IInv, Integrity, CreatorSaw, SourceKind, TargetKind
  <2>5. RemoveIsAlone'
    <3>1. \A q \in Procs : at[q].pc # "remove"
      <4>1. ASSUME NEW q \in Procs, at[q].pc = "remove" PROVE FALSE
        <5>1. at[q].kind # SourceKind(at[p].task)
          BY <1>1, <4>1 DEF IInv, Integrity, RemoveIsAlone
        <5>2. at[q].kind \in Kinds /\ at[q].kind # k
          BY <1>1, <4>1, Exclusion, NobodyIsNone DEF IInv
        <5>3. QED
          BY <5>1, <5>2, KindsOfTask
      <4>2. QED
        BY <4>1
    <3>2. QED
      BY <2>2, <2>3, <3>1 DEF RemoveIsAlone
  <2>6. NothingRefers'
    BY <1>1, <2>2, <2>3 DEF IInv, Integrity, NothingRefers, NameOf
  <2>7. ForwardReferencesHold'
    BY <1>1 DEF IInv, Integrity, ForwardReferencesHold, WellReferenced, SourceKind, TargetKind
  <2>8. QED
    BY <2>4, <2>5, <2>6, <2>7 DEF Integrity
<1>4. QED
  BY <1>2, <1>3

LEMMA IntegrityAppend ==
  ASSUME IInv, NEW p \in Procs, CreateAppend(p)
  PROVE  Integrity'
<1>1. at[p].pc = "append" /\ at[p].id \in Tasks /\ UNCHANGED conns
  BY CreatorMoves DEF CreateAppend, Creating, IInv
<1>2. at'[p] = Idle /\ \A q \in Procs : q # p => at'[q] = at[q]
  BY DEF CreateAppend, IInv, TypeOK, Goto
<1>3. tasks'[at[p].id] = at[p].task /\ \A t \in Tasks : t # at[p].id => tasks'[t] = tasks[t]
  BY <1>1 DEF CreateAppend, IInv, TypeOK
<1>4. edited' = edited \ {at[p].id}
  BY DEF CreateAppend
<1>5. CreatorSaw'
  BY <1>1, <1>2, IdleIsQuiet DEF IInv, Integrity, CreatorSaw, SourceKind, TargetKind
<1>6. \A q \in Procs : at'[q].pc # "remove"
  BY <1>1, <1>2, IdleIsQuiet DEF IInv, Integrity, RemoveIsAlone
<1>7. WellReferenced(at[p].task, conns')
  BY <1>1 DEF IInv, Integrity, CreatorSaw, WellReferenced
<1>8. ForwardReferencesHold'
  BY <1>1, <1>3, <1>4, <1>7
     DEF IInv, Integrity, ForwardReferencesHold, WellReferenced, SourceKind, TargetKind
<1>9. QED
  BY <1>5, <1>6, <1>8 DEF Integrity, RemoveIsAlone, NothingRefers

LEMMA IntegrityList ==
  ASSUME IInv, NEW p \in Procs, DeleteList(p)
  PROVE  Integrity'
<1> DEFINE k == at[p].kind
           n == at[p].name
           l == DeleteAt("remove", k, n)
<1>1. at[p].pc = "list" /\ lock["task"] = None /\ UNCHANGED <<conns, tasks, edited>>
  BY DEF DeleteList
<1>2. CASE Referring(k, n) # {}
  BY <1>1, <1>2, IdleIsQuiet, QuietMove DEF DeleteList
<1>3. CASE Referring(k, n) = {}
  <2>1. Goto(p, l)
    <3>1. at[p].pc \in Deleting /\ "remove" \in Deleting
      BY <1>1 DEF Deleting
    <3>2. Goto(p, [at[p] EXCEPT !.pc = "remove"])
      BY <1>3 DEF DeleteList
    <3>3. QED
      BY <3>1, <3>2, DeleterMoves DEF IInv
  <2>2. l.pc = "remove" /\ l.kind = k /\ l.name = n
    BY DEF DeleteAt
  <2> HIDE DEF l
  <2>3. at'[p] = l /\ \A q \in Procs : q # p => at'[q] = at[q]
    BY <2>1 DEF IInv, TypeOK, Goto
  <2>4. CreatorSaw'
    BY <1>1, <2>2, <2>3 DEF IInv, Integrity, CreatorSaw, SourceKind, TargetKind
  <2>5. RemoveIsAlone'
    <3>1. \A q \in Procs : at[q].pc \notin {"check_target", "append"}
      BY <1>1, Exclusion, NobodyIsNone DEF IInv
    <3>2. QED
      BY <2>2, <2>3, <3>1 DEF RemoveIsAlone
  <2>6. NothingRefers'
    <3>1. \A t \in Tasks : tasks[t] # None => NameOf(tasks[t], k) # n
      BY <1>3 DEF Referring, NameOf
    <3>2. QED
      BY <1>1, <2>2, <2>3, <3>1 DEF IInv, Integrity, NothingRefers, NameOf
  <2>7. ForwardReferencesHold'
    BY <1>1 DEF IInv, Integrity, ForwardReferencesHold, WellReferenced, SourceKind, TargetKind
  <2>8. QED
    BY <2>4, <2>5, <2>6, <2>7 DEF Integrity
<1>4. QED
  BY <1>2, <1>3

LEMMA IntegrityRemove ==
  ASSUME IInv, NEW p \in Procs, DeleteRemove(p)
  PROVE  Integrity'
<1> DEFINE k == at[p].kind
           n == at[p].name
<1>1. at[p].pc = "remove" /\ k \in Kinds /\ UNCHANGED <<tasks, edited>>
  BY Exclusion DEF DeleteRemove, IInv
<1>2. at'[p] = Idle /\ \A q \in Procs : q # p => at'[q] = at[q]
  BY DEF DeleteRemove, IInv, TypeOK, Goto
<1>3. conns'[k] = conns[k] \ {n} /\ \A x \in Kinds : x # k => conns'[x] = conns[x]
  BY <1>1 DEF DeleteRemove, IInv, TypeOK
<1>4. CreatorSaw'
  <2>1. ASSUME NEW q \in Procs, at'[q].pc = "check_target"
        PROVE  at'[q].task.source \in conns'[SourceKind(at'[q].task)]
    <3>1. at'[q] = at[q] /\ k # SourceKind(at[q].task)
      BY <1>1, <1>2, <2>1, IdleIsQuiet DEF IInv, Integrity, RemoveIsAlone
    <3>2. at[q].task.source \in conns[SourceKind(at[q].task)]
      BY <2>1, <3>1 DEF IInv, Integrity, CreatorSaw
    <3>3. QED
      BY <1>3, <3>1, <3>2, KindsOfTask
  <2>2. \A q \in Procs : at'[q].pc # "append"
    BY <1>1, <1>2, IdleIsQuiet DEF IInv, Integrity, RemoveIsAlone
  <2>3. QED
    BY <2>1, <2>2 DEF CreatorSaw, SourceKind, TargetKind
<1>5. RemoveIsAlone'
  BY <1>2, IdleIsQuiet DEF IInv, Integrity, RemoveIsAlone, SourceKind
<1>6. NothingRefers'
  BY <1>1, <1>2, IdleIsQuiet DEF IInv, Integrity, NothingRefers, NameOf
<1>7. ForwardReferencesHold'
  <2>1. ASSUME NEW t \in Tasks \ edited, tasks[t] # None, tasks[t].direction = "forward"
        PROVE  /\ tasks[t].source \in conns'["source"]
               /\ tasks[t].target \in conns'["target"]
    <3>1. /\ tasks[t].source \in conns["source"]
          /\ tasks[t].target \in conns["target"]
      BY <2>1 DEF IInv, Integrity, ForwardReferencesHold, WellReferenced, SourceKind, TargetKind
    <3>2. NameOf(tasks[t], k) # n
      BY <1>1, <2>1 DEF IInv, Integrity, NothingRefers
    <3>3. QED
      BY <1>1, <1>3, <3>1, <3>2 DEF NameOf, Kinds
  <2>2. QED
    BY <1>1, <2>1 DEF ForwardReferencesHold, WellReferenced, SourceKind, TargetKind
<1>8. QED
  BY <1>4, <1>5, <1>6, <1>7 DEF Integrity

LEMMA IntegrityNewConnection ==
  ASSUME IInv, NEW k \in Kinds, NEW n \in Names, CreateConnection(k, n)
  PROVE  Integrity'
<1>1. UNCHANGED <<tasks, lock, at, edited>> /\ \A x \in Kinds : conns[x] \subseteq conns'[x]
  BY DEF CreateConnection, IInv, TypeOK
<1>2. CreatorSaw'
  BY <1>1, KindsOfTask DEF IInv, Integrity, CreatorSaw, SourceKind, TargetKind
<1>3. RemoveIsAlone' /\ NothingRefers'
  BY <1>1 DEF IInv, Integrity, RemoveIsAlone, NothingRefers, SourceKind, NameOf
<1>4. ForwardReferencesHold'
  BY <1>1, KindsOfTask
     DEF IInv, Integrity, ForwardReferencesHold, WellReferenced, SourceKind, TargetKind
<1>5. QED
  BY <1>2, <1>3, <1>4 DEF Integrity

\* Updating a task excepts it; deleting one leaves fewer.
LEMMA IntegrityTask ==
  ASSUME IInv, NEW t \in Tasks, UNCHANGED <<conns, at>>,
         \A s \in Tasks : s # t => tasks'[s] = tasks[s],
         \/ tasks'[t] = None /\ edited' = edited
         \/ edited' = edited \cup {t}
  PROVE  Integrity'
<1>1. CreatorSaw' /\ RemoveIsAlone'
  BY DEF IInv, Integrity, CreatorSaw, RemoveIsAlone, SourceKind, TargetKind
<1>2. NothingRefers'
  BY DEF IInv, Integrity, NothingRefers, NameOf
<1>3. ForwardReferencesHold'
  BY DEF IInv, Integrity, ForwardReferencesHold, WellReferenced, SourceKind, TargetKind
<1>4. QED
  BY <1>1, <1>2, <1>3 DEF Integrity

LEMMA IntegrityStep == IInv /\ [Next]_vars => Integrity'
<1> SUFFICES ASSUME IInv, [Next]_vars PROVE Integrity'
  OBVIOUS
<1>1. ASSUME NEW p \in Procs, NEW t \in Tasks, NEW r \in SyncTask, CreateRequest(p, t, r)
      PROVE  Integrity'
  <2>1. CreateAt("create", t, r).pc \notin {"check_target", "append", "remove"}
    BY DEF CreateAt
  <2>2. QED
    BY <1>1, <2>1, QuietMove DEF CreateRequest
<1>2. ASSUME NEW p \in Procs, NEW k \in Kinds, NEW n \in Names, DeleteRequest(p, k, n)
      PROVE  Integrity'
  <2>1. DeleteAt("delete", k, n).pc \notin {"check_target", "append", "remove"}
    BY DEF DeleteAt
  <2>2. QED
    BY <1>2, <2>1, QuietMove DEF DeleteRequest
<1>3. ASSUME NEW p \in Procs, CreateLock(p) PROVE Integrity'
  <2>1. at[p].pc \in Creating /\ "check_source" \in Creating
    BY <1>3 DEF CreateLock, Creating
  <2>2. Goto(p, CreateAt("check_source", at[p].id, at[p].task))
    BY <1>3, <2>1, CreatorMoves DEF CreateLock, IInv
  <2>3. CreateAt("check_source", at[p].id, at[p].task).pc
          \notin {"check_target", "append", "remove"}
    BY DEF CreateAt
  <2>4. QED
    BY <1>3, <2>2, <2>3, QuietMove DEF CreateLock
<1>4. ASSUME NEW p \in Procs, DeleteLock(p) PROVE Integrity'
  <2>1. at[p].pc \in Deleting /\ "list" \in Deleting
    BY <1>4 DEF DeleteLock, Deleting
  <2>2. Goto(p, DeleteAt("list", at[p].kind, at[p].name))
    BY <1>4, <2>1, DeleterMoves DEF DeleteLock, IInv
  <2>3. DeleteAt("list", at[p].kind, at[p].name).pc \notin {"check_target", "append", "remove"}
    BY DEF DeleteAt
  <2>4. QED
    BY <1>4, <2>2, <2>3, QuietMove DEF DeleteLock
<1>5. ASSUME NEW t \in Tasks, DeleteTask(t) PROVE Integrity'
  BY <1>5, IntegrityTask DEF DeleteTask, IInv, TypeOK
<1>6. ASSUME NEW t \in Tasks, NEW r \in SyncTask, UpdateTask(t, r) PROVE Integrity'
  BY <1>6, IntegrityTask DEF UpdateTask, IInv, TypeOK
<1>7. CASE UNCHANGED vars
  BY <1>7 DEF vars, IInv, Integrity, CreatorSaw, RemoveIsAlone, NothingRefers,
              ForwardReferencesHold, WellReferenced, SourceKind, TargetKind, NameOf
<1>8. QED
  BY <1>1, <1>2, <1>3, <1>4, <1>5, <1>6, <1>7, IntegrityCheckSource, IntegrityCheckTarget,
     IntegrityAppend, IntegrityList, IntegrityRemove, IntegrityNewConnection
     DEF Next, Request, Continue

LEMMA IntegrityHolds == Spec => []IInv
<1>1. Init => IInv
  BY TypeInit, IntegrityInit DEF IInv
<1>2. IInv /\ [Next]_vars => IInv'
  BY TypeStep, IntegrityStep DEF IInv
<1>3. QED
  BY <1>1, <1>2, PTL DEF Spec

\* Whatever forward and reverse tasks there are: a forward task that was not updated
\* refers to a GitLab source and to a cluster that exist, with any number of creates and
\* deletes under way.
THEOREM ForwardReferencesKept == Spec => []ForwardReferencesHold
<1>1. IInv => ForwardReferencesHold
  BY DEF IInv, Integrity
<1>2. QED
  BY <1>1, IntegrityHolds, PTL

\* Without reverse tasks this is all of referential integrity: what the task store refers
\* to exists, although the check of a delete and the check of a create look at each
\* other's store in two separate steps.
THEOREM ReferencesKept ==
  ASSUME "reverse" \notin Directions
  PROVE  Spec => []ReferencesHold
<1>1. IInv => ReferencesHold
  <2>1. \A d \in Directions : d = "forward"
    BY ConnectionAssumption
  <2>2. \A r \in SyncTask : r.direction = "forward"
    BY <2>1 DEF SyncTask
  <2>3. TypeOK => \A t \in Tasks : tasks[t] # None => tasks[t].direction = "forward"
    BY <2>2 DEF TypeOK
  <2>4. QED
    BY <2>3 DEF IInv, Integrity, ForwardReferencesHold, ReferencesHold
<1>2. QED
  BY <1>1, IntegrityHolds, PTL

=============================================================================
