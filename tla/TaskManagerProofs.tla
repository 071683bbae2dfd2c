-------------------------- MODULE TaskManagerProofs --------------------------
(* Proofs about TaskManager for every value of its constants: any number of  *)
(* tasks, handlers and loops, all operations and failures.                   *)
EXTENDS TaskManager, TLAPS

-----------------------------------------------------------------------------
(* What there is, and what None is not.                                       *)

Asked == [cfg: Configs, token: Tokens, run: BOOLEAN]

LEMMA NoneIsNothing ==
  /\ \A t \in Tasks : t # None
  /\ \A l \in Loops : l # None
  /\ \A p \in Procs : p # None
  /\ \A r \in SyncTask : r # None
  /\ \A r \in Asked : r # None
<1>1. None \notin Procs \cup Loops \cup SyncTask /\ None \notin Tasks \cup Asked
  BY TaskAssumption DEF Asked
<1> HIDE DEF SyncTask, Asked
<1>2. QED
  BY <1>1

LEMMA ActorsAreDistinct ==
  /\ Procs \subseteq Actors /\ Loops \subseteq Actors
  /\ \A a \in Actors : a \in Procs \/ a \in Loops
  /\ \A p \in Procs, l \in Loops : p # l
BY TaskAssumption DEF Actors

-----------------------------------------------------------------------------
(* Types, with the shapes of handlers and loops.                              *)

\* A loop is free, or it has a task and one of four places.
LoopShape(l) ==
  \/ l = Idle
  \/ l.op = "loop" /\ l.task \in Tasks /\ l.pc \in {"wait", "sync", "finish", "exit"}

\* A handler has a task, unless it stops all of them; it has the places of handlers.
HandlerShape(l) ==
  /\ l.op # "loop" /\ l.pc \notin {"wait", "exit"}
  /\ l.pc \notin {"idle", "stop_all"} => l.task \in Tasks

\* A place that fits its step: a copy where one is needed, a task that was created.
Fits(l, known) ==
  /\ l.pc \in Copying => l.copy \in SyncTask
  /\ l.task \in Tasks => known[l.task] # None

ActorsOK ==
  /\ at \in [Actors -> Local]
  /\ \A a \in Actors : Fits(at[a], asked)
  /\ \A l \in Loops : LoopShape(at[l])
  /\ \A p \in Procs : HandlerShape(at[p])

\* Only a loop that runs is cancelled, and only a cancelled one leaves its select.
CancelledOK ==
  /\ \A l \in cancelled : at[l].op = "loop"
  /\ \A l \in Loops : at[l].pc = "exit" => l \in cancelled

StoreOK ==
  /\ stored \in [Tasks -> SyncTask \cup {None}]
  /\ asked \in [Tasks -> Asked \cup {None}]
  /\ \A t \in Tasks : stored[t] # None => asked[t] # None

ServerOK ==
  /\ running \in [Tasks -> Loops \cup {None}]
  /\ cancelled \subseteq Loops
  /\ mu \in Procs \cup {None}
  /\ stopping \in BOOLEAN
  /\ restarts \in Nat

TypeInv == ActorsOK /\ CancelledOK /\ StoreOK /\ ServerOK

LEMMA TypeInvTypeOK == TypeInv => TypeOK
<1> SUFFICES ASSUME TypeInv PROVE TypeOK
  OBVIOUS
<1>1. \A a \in Actors : at[a].pc \in Copying => at[a].copy # None
  BY NoneIsNothing DEF TypeInv, ActorsOK, Fits
<1>2. QED
  BY <1>1 DEF TypeInv, ActorsOK, StoreOK, ServerOK, TypeOK, Asked

LEMMA IdleShape ==
  /\ Idle \in Local /\ Fits(Idle, asked) /\ Fits(Idle, asked') /\ LoopShape(Idle) /\ HandlerShape(Idle)
  /\ Idle.pc = "idle" /\ Idle.op = "none" /\ Idle.task = None
BY NoneIsNothing DEF Idle, Local, Fits, LoopShape, HandlerShape, Copying

LEMMA TypeInvInit == Init => TypeInv
<1> SUFFICES ASSUME Init PROVE TypeInv
  OBVIOUS
<1>1. ActorsOK
  BY IdleShape, ActorsAreDistinct DEF Init, ActorsOK
<1>2. CancelledOK
  BY IdleShape, ActorsAreDistinct DEF Init, CancelledOK
<1>3. StoreOK
  BY DEF Init, StoreOK
<1>4. ServerOK
  BY DEF Init, ServerOK
<1>5. QED
  BY <1>1, <1>2, <1>3, <1>4 DEF TypeInv

-----------------------------------------------------------------------------
(* How steps change the state: one actor moves, records are replaced.         *)

\* The history of requests only grows.
AskedGrows == \A t \in Tasks : asked[t] # None => asked'[t] # None

LEMMA FitsLater ==
  ASSUME AskedGrows, NEW l, Fits(l, asked)
  PROVE  Fits(l, asked')
BY DEF AskedGrows, Fits

\* Actor a goes to l.
Moves(a, l) == at' = [at EXCEPT ![a] = l]

LEMMA MovesTo ==
  ASSUME ActorsOK, NEW a \in Actors, NEW l, Moves(a, l)
  PROVE  at'[a] = l /\ \A b \in Actors : b # a => at'[b] = at[b]
BY DEF ActorsOK, Moves

LEMMA HandlerMoves ==
  ASSUME TypeInv, AskedGrows, NEW p \in Procs, NEW l \in Local, Moves(p, l),
         HandlerShape(l), Fits(l, asked')
  PROVE  ActorsOK'
<1>1. at' \in [Actors -> Local]
  BY ActorsAreDistinct DEF TypeInv, ActorsOK, Moves
<1>2. at'[p] = l /\ \A b \in Actors : b # p => at'[b] = at[b]
  BY MovesTo, ActorsAreDistinct DEF TypeInv
<1>3. \A a \in Actors : Fits(at'[a], asked')
  BY <1>2, FitsLater DEF TypeInv, ActorsOK
<1>4. \A k \in Loops : LoopShape(at'[k])
  BY <1>2, ActorsAreDistinct DEF TypeInv, ActorsOK
<1>5. \A q \in Procs : HandlerShape(at'[q])
  BY <1>2, ActorsAreDistinct DEF TypeInv, ActorsOK
<1>6. QED
  BY <1>1, <1>3, <1>4, <1>5 DEF ActorsOK

LEMMA LoopMoves ==
  ASSUME TypeInv, AskedGrows, NEW k \in Loops, NEW l \in Local, Moves(k, l),
         LoopShape(l), Fits(l, asked')
  PROVE  ActorsOK'
<1>1. at' \in [Actors -> Local]
  BY ActorsAreDistinct DEF TypeInv, ActorsOK, Moves
<1>2. at'[k] = l /\ \A b \in Actors : b # k => at'[b] = at[b]
  BY MovesTo, ActorsAreDistinct DEF TypeInv
<1>3. \A a \in Actors : Fits(at'[a], asked')
  BY <1>2, FitsLater DEF TypeInv, ActorsOK
<1>4. \A j \in Loops : LoopShape(at'[j])
  BY <1>2, ActorsAreDistinct DEF TypeInv, ActorsOK
<1>5. \A q \in Procs : HandlerShape(at'[q])
  BY <1>2, ActorsAreDistinct DEF TypeInv, ActorsOK
<1>6. QED
  BY <1>1, <1>3, <1>4, <1>5 DEF ActorsOK

\* A handler's move concerns no loop.
LEMMA HandlerKeepsCancelled ==
  ASSUME TypeInv, NEW p \in Procs, NEW l, Moves(p, l), cancelled' = cancelled
  PROVE  CancelledOK'
<1>1. \A k \in Loops : at'[k] = at[k]
  BY MovesTo, ActorsAreDistinct DEF TypeInv
<1>2. cancelled \subseteq Loops
  BY DEF TypeInv, ServerOK
<1>3. QED
  BY <1>1, <1>2 DEF TypeInv, CancelledOK

\* A handler that cancels the loop the map names for t.
LEMMA HandlerCancels ==
  ASSUME TypeInv, EntryIsLive, NEW p \in Procs, NEW l, Moves(p, l), NEW t \in Tasks,
         running[t] # None, cancelled' = cancelled \cup {running[t]}
  PROVE  CancelledOK'
<1>1. \A k \in Loops : at'[k] = at[k]
  BY MovesTo, ActorsAreDistinct DEF TypeInv
<1>2. cancelled \subseteq Loops /\ running[t] \in Loops
  BY DEF TypeInv, ServerOK
<1>3. at[running[t]].op = "loop"
  BY DEF EntryIsLive
<1>4. QED
  BY <1>1, <1>2, <1>3 DEF TypeInv, CancelledOK

\* Update: the record of t becomes r, if there is one; nothing is inserted.
LEMMA UpdateStore ==
  ASSUME StoreOK, NEW t \in Tasks, NEW r \in SyncTask, Update(t, r)
  PROVE  /\ stored' \in [Tasks -> SyncTask \cup {None}]
         /\ \A s \in Tasks : stored'[s] = IF s = t /\ stored[s] # None THEN r ELSE stored[s]
         /\ \A s \in Tasks : stored'[s] # None <=> stored[s] # None
<1>1. CASE stored[t] = None
  BY <1>1 DEF StoreOK, Update
<1>2. CASE stored[t] # None
  <2>1. stored' = [stored EXCEPT ![t] = r]
    BY <1>2 DEF Update
  <2>2. r # None
    BY NoneIsNothing
  <2>3. QED
    BY <1>2, <2>1, <2>2 DEF StoreOK
<1>3. QED
  BY <1>1, <1>2

\* One field of what is asked of t changes, or nothing.
LEMMA AskedFields ==
  ASSUME StoreOK, NEW t \in Tasks, asked[t] # None,
         \/ \E b \in BOOLEAN : asked' = [asked EXCEPT ![t].run = b]
         \/ \E c \in Configs : asked' = [asked EXCEPT ![t].cfg = c]
         \/ \E k \in Tokens : asked' = [asked EXCEPT ![t].token = k]
         \/ asked' = asked
  PROVE  asked' \in [Tasks -> Asked \cup {None}] /\ AskedGrows
<1>1. asked[t] \in Asked
  BY DEF StoreOK
<1>2. PICK r \in Asked : asked' = [asked EXCEPT ![t] = r]
  <2>1. asked' = [asked EXCEPT ![t] = asked'[t]]
    BY DEF StoreOK
  <2>2. asked'[t] \in Asked
    BY <1>1 DEF StoreOK, Asked
  <2>3. QED
    BY <2>1, <2>2
<1>3. r # None
  BY NoneIsNothing
<1>4. QED
  BY <1>2, <1>3 DEF StoreOK, AskedGrows

LEMMA SameAsked == ASSUME asked' = asked PROVE AskedGrows
BY DEF AskedGrows

LEMMA SameStore ==
  ASSUME StoreOK, stored' = stored, asked' = asked
  PROVE  StoreOK'
BY DEF StoreOK

-----------------------------------------------------------------------------
(* The invariant of all interleavings: types, and live entries.               *)

IInv == TypeInv /\ EntryIsLive

\* What most steps leave alone.
QuietServer ==
  /\ mu' \in Procs \cup {None}
  /\ stopping' \in BOOLEAN
  /\ restarts' \in Nat

\* A handler moves, and may write the store and what is asked.
LEMMA HandlerStep ==
  ASSUME IInv, NEW p \in Procs, NEW l \in Local, Moves(p, l),
         HandlerShape(l), Fits(l, asked'), AskedGrows,
         UNCHANGED <<running, cancelled>>, StoreOK', QuietServer
  PROVE  IInv'
<1>1. ActorsOK'
  BY HandlerMoves DEF IInv
<1>2. CancelledOK'
  BY HandlerKeepsCancelled DEF IInv
<1>3. ServerOK'
  BY DEF IInv, TypeInv, ServerOK, QuietServer
<1>4. EntryIsLive'
  <2>1. \A k \in Loops : at'[k] = at[k]
    BY MovesTo, ActorsAreDistinct DEF IInv, TypeInv
  <2>2. \A t \in Tasks : running[t] # None => running[t] \in Loops
    BY DEF IInv, TypeInv, ServerOK
  <2>3. QED
    BY <2>1, <2>2 DEF IInv, EntryIsLive
<1>5. QED
  BY <1>1, <1>2, <1>3, <1>4 DEF IInv, TypeInv

\* A handler cancels the loop of t and takes its entry out of the map.
LEMMA HandlerStops ==
  ASSUME IInv, NEW p \in Procs, NEW l \in Local, Moves(p, l),
         HandlerShape(l), Fits(l, asked'), AskedGrows, NEW t \in Tasks, running[t] # None,
         cancelled' = cancelled \cup {running[t]}, running' = [running EXCEPT ![t] = None],
         StoreOK', QuietServer
  PROVE  IInv'
<1>1. ActorsOK'
  BY HandlerMoves DEF IInv
<1>2. CancelledOK'
  BY HandlerCancels DEF IInv
<1>3. \A s \in Tasks : running[s] # None => running[s] \in Loops
  BY DEF IInv, TypeInv, ServerOK
<1>4. ServerOK'
  BY <1>3 DEF IInv, TypeInv, ServerOK, QuietServer
<1>5. EntryIsLive'
  <2>1. \A k \in Loops : at'[k] = at[k]
    BY MovesTo, ActorsAreDistinct DEF IInv, TypeInv
  <2>2. \A s \in Tasks : running'[s] = IF s = t THEN None ELSE running[s]
    BY DEF IInv, TypeInv, ServerOK
  <2>3. \A s \in Tasks : s # t /\ running[s] # None => running[s] # running[t]
    BY DEF IInv, EntryIsLive
  <2>4. QED
    BY <1>3, <2>1, <2>2, <2>3 DEF IInv, EntryIsLive
<1>6. QED
  BY <1>1, <1>2, <1>4, <1>5 DEF IInv, TypeInv

\* A loop that serves a task goes on serving it; it leaves its select when cancelled.
LEMMA LoopStep ==
  ASSUME IInv, NEW k \in Loops, NEW l \in Local, Moves(k, l),
         at[k].op = "loop", l.op = "loop", l.task = at[k].task,
         l.pc \in {"wait", "sync", "finish", "exit"}, l.pc = "exit" => k \in cancelled,
         l.pc \in Copying => l.copy \in SyncTask,
         UNCHANGED <<running, cancelled, mu, stopping, asked, restarts>>, StoreOK'
  PROVE  IInv'
<1>1. at'[k] = l /\ \A b \in Actors : b # k => at'[b] = at[b]
  BY MovesTo, ActorsAreDistinct DEF IInv, TypeInv
<1>2. l.task \in Tasks /\ asked[l.task] # None
  <2>1. at[k].task \in Tasks
    BY IdleShape DEF IInv, TypeInv, ActorsOK, LoopShape
  <2>2. QED
    BY <2>1, ActorsAreDistinct DEF IInv, TypeInv, ActorsOK, Fits
<1>3. ActorsOK'
  <2>1. LoopShape(l) /\ Fits(l, asked')
    BY <1>2 DEF LoopShape, Fits
  <2>2. QED
    BY <2>1, SameAsked, LoopMoves DEF IInv
<1>4. CancelledOK'
  BY <1>1, ActorsAreDistinct DEF IInv, TypeInv, CancelledOK, ServerOK
<1>5. ServerOK'
  BY DEF IInv, TypeInv, ServerOK
<1>6. EntryIsLive'
  <2>1. \A t \in Tasks : running[t] # None => running[t] \in Loops
    BY DEF IInv, TypeInv, ServerOK
  <2>2. QED
    BY <1>1, <2>1, ActorsAreDistinct DEF IInv, EntryIsLive
<1>7. QED
  BY <1>3, <1>4, <1>5, <1>6 DEF IInv, TypeInv

\* What is known of a handler or a loop from its step.
LEMMA HandlerAt ==
  ASSUME IInv, NEW p \in Procs
  PROVE  /\ at[p] \in Local /\ at[p].op # "loop" /\ at[p].pc \notin {"wait", "exit"}
         /\ at[p].pc \notin {"idle", "stop_all"} =>
              at[p].task \in Tasks /\ asked[at[p].task] # None
         /\ at[p].pc \in Copying => at[p].copy \in SyncTask
BY ActorsAreDistinct DEF IInv, TypeInv, ActorsOK, Fits, HandlerShape

LEMMA LoopAt ==
  ASSUME IInv, NEW l \in Loops, at[l].pc # "idle"
  PROVE  /\ at[l] \in Local /\ at[l].op = "loop" /\ at[l].task \in Tasks
         /\ at[l].pc \in {"wait", "sync", "finish", "exit"} /\ asked[at[l].task] # None
         /\ at[l].pc \in Copying => at[l].copy \in SyncTask
<1>1. at[l] \in Local /\ LoopShape(at[l]) /\ Fits(at[l], asked) /\ at[l] # Idle
  BY ActorsAreDistinct, IdleShape DEF IInv, TypeInv, ActorsOK
<1>2. QED
  BY <1>1 DEF LoopShape, Fits

-----------------------------------------------------------------------------
(* Requests that arrive.                                                      *)

LEMMA EnterStep ==
  ASSUME IInv, NEW p \in Procs, NEW l \in Local, Enter(p, l),
         HandlerShape(l), Fits(l, asked)
  PROVE  IInv'
<1>1. Moves(p, l) /\ UNCHANGED <<stored, running, cancelled, mu, stopping, asked, restarts>>
  BY DEF Enter, Moves
<1>2. StoreOK' /\ QuietServer /\ AskedGrows
  BY <1>1, SameStore, SameAsked DEF IInv, TypeInv, ServerOK, QuietServer
<1>3. QED
  BY <1>1, <1>2, HandlerStep

LEMMA StoredIsAsked ==
  ASSUME IInv, NEW t \in Tasks, stored[t] # None
  PROVE  stored[t] \in SyncTask /\ asked[t] # None
BY DEF IInv, TypeInv, StoreOK

\* A place whose step needs a copy, one whose step needs none.
LEMMA CopyingPlace ==
  ASSUME NEW pc \in {"start", "edit", "token", "sync"},
         NEW op \in {"start", "edit", "token", "sync", "apply"},
         NEW t \in Tasks, asked[t] # None, NEW copy \in SyncTask
  PROVE  At(pc, op, t, copy) \in Local /\ HandlerShape(At(pc, op, t, copy))
           /\ Fits(At(pc, op, t, copy), asked)
BY DEF At, Local, HandlerShape, Fits, Copying

LEMMA StoppingPlace ==
  ASSUME NEW op \in {"pause", "delete"}, NEW t \in Tasks, asked[t] # None
  PROVE  At("stop", op, t, None) \in Local /\ HandlerShape(At("stop", op, t, None))
           /\ Fits(At("stop", op, t, None), asked)
BY DEF At, Local, HandlerShape, Fits, Copying

LEMMA RequestStep ==
  ASSUME IInv, NEW p \in Procs, Request(p)
  PROVE  IInv'
<1>1. ASSUME NEW t \in Tasks, StartGet(p, t) PROVE IInv'
  BY <1>1, StoredIsAsked, CopyingPlace, EnterStep DEF StartGet
<1>2. ASSUME NEW t \in Tasks, Pause(p, t) PROVE IInv'
  BY <1>2, StoppingPlace, EnterStep DEF Pause
<1>3. ASSUME NEW t \in Tasks, DeleteStop(p, t) PROVE IInv'
  BY <1>3, StoppingPlace, EnterStep DEF DeleteStop
<1>4. ASSUME NEW t \in Tasks, Trigger(p, t) PROVE IInv'
  BY <1>4, StoredIsAsked, CopyingPlace, EnterStep DEF Trigger
<1>5. ASSUME NEW t \in Tasks, Apply(p, t) PROVE IInv'
  BY <1>5, StoredIsAsked, CopyingPlace, EnterStep DEF Apply
<1>6. ASSUME NEW t \in Tasks, NEW c \in Configs, EditOpen(p, t, c) PROVE IInv'
  <2> DEFINE copy == [stored[t] EXCEPT !.cfg = c,
                        !.status = IF running[t] # None THEN "running" ELSE @]
  <2>1. copy \in SyncTask /\ asked[t] # None
    BY <1>6, StoredIsAsked DEF EditOpen, SyncTask, Status
  <2>2. Enter(p, At("edit", "edit", t, copy))
    BY <1>6 DEF EditOpen, Enter
  <2> HIDE DEF copy
  <2>3. QED
    BY <2>1, <2>2, CopyingPlace, EnterStep
<1>7. ASSUME NEW t \in Tasks, NEW token \in Tokens, TokenGet(p, t, token) PROVE IInv'
  <2> DEFINE copy == [stored[t] EXCEPT !.token = token]
  <2>1. copy \in SyncTask /\ asked[t] # None
    BY <1>7, StoredIsAsked DEF TokenGet, SyncTask
  <2>2. Enter(p, At("token", "token", t, copy))
    BY <1>7 DEF TokenGet
  <2> HIDE DEF copy
  <2>3. QED
    BY <2>1, <2>2, CopyingPlace, EnterStep
<1>8. QED
  BY <1>1, <1>2, <1>3, <1>4, <1>5, <1>6, <1>7 DEF Request

-----------------------------------------------------------------------------
(* Starting and stopping.                                                     *)

LEMMA StartRefusedStep ==
  ASSUME IInv, NEW p \in Procs, StartRefused(p)
  PROVE  IInv'
<1>1. Moves(p, Idle) /\ UNCHANGED <<stored, running, cancelled, mu, stopping, asked, restarts>>
  BY DEF StartRefused, Moves
<1>2. StoreOK' /\ QuietServer /\ AskedGrows
  BY <1>1, SameStore, SameAsked DEF IInv, TypeInv, ServerOK, QuietServer
<1>3. QED
  BY <1>1, <1>2, IdleShape, HandlerStep

\* The handler goes idle and a free loop becomes the entry of its task.
LEMMA StartTaskStep ==
  ASSUME IInv, NEW p \in Procs, StartTask(p)
  PROVE  IInv'
<1> DEFINE t == at[p].task
           task == [at[p].copy EXCEPT !.status = "running"]
           l == At("wait", "loop", t, task)
<1>1. /\ at[p].pc = "start" /\ running[t] = None
      /\ Update(t, task)
      /\ asked' = [asked EXCEPT ![t].run = TRUE]
      /\ UNCHANGED <<cancelled, mu, stopping, restarts>>
  BY DEF StartTask, Spawn
<1>2. PICK k \in FreeLoops :
        /\ running' = [running EXCEPT ![t] = k]
        /\ at' = [at EXCEPT ![p] = Idle, ![k] = l]
  BY DEF StartTask, Spawn
<1>3. t \in Tasks /\ asked[t] # None /\ at[p].copy \in SyncTask
  BY <1>1, HandlerAt DEF Copying
<1>4. task \in SyncTask
  BY <1>3 DEF SyncTask, Status
<1>5. k \in Loops /\ at[k] = Idle
  BY DEF FreeLoops
<1>6. l \in Local /\ l.op = "loop" /\ l.task = t /\ l.pc = "wait" /\ l.copy = task
  BY <1>3, <1>4 DEF At, Local
<1> HIDE DEF task, l
<1>7. /\ stored' \in [Tasks -> SyncTask \cup {None}]
      /\ \A s \in Tasks : stored'[s] # None <=> stored[s] # None
  BY <1>1, <1>3, <1>4, UpdateStore DEF IInv, TypeInv
<1>8. asked' \in [Tasks -> Asked \cup {None}] /\ AskedGrows
  BY <1>1, <1>3, AskedFields DEF IInv, TypeInv
<1>9. StoreOK'
  BY <1>7, <1>8 DEF IInv, TypeInv, StoreOK, AskedGrows
<1>10. /\ at' \in [Actors -> Local] /\ at'[p] = Idle /\ at'[k] = l
       /\ \A b \in Actors : b # p /\ b # k => at'[b] = at[b]
  BY <1>2, <1>5, <1>6, IdleShape, ActorsAreDistinct DEF IInv, TypeInv, ActorsOK
<1>11. ActorsOK'
  <2>1. LoopShape(l) /\ Fits(l, asked')
    BY <1>3, <1>4, <1>6, <1>8 DEF LoopShape, Fits, AskedGrows
  <2>2. \A a \in Actors : Fits(at'[a], asked')
    BY <1>8, <1>10, <2>1, FitsLater, IdleShape DEF IInv, TypeInv, ActorsOK
  <2>3. \A j \in Loops : LoopShape(at'[j])
    BY <1>10, <2>1, IdleShape, ActorsAreDistinct DEF IInv, TypeInv, ActorsOK
  <2>4. \A q \in Procs : HandlerShape(at'[q])
    BY <1>5, <1>10, IdleShape, ActorsAreDistinct DEF IInv, TypeInv, ActorsOK
  <2>5. QED
    BY <1>10, <2>2, <2>3, <2>4 DEF ActorsOK
<1>12. k \notin cancelled
  BY <1>5, IdleShape DEF IInv, TypeInv, CancelledOK
<1>13. CancelledOK'
  <2>1. cancelled' = cancelled /\ cancelled \subseteq Loops
    BY <1>1 DEF IInv, TypeInv, ServerOK
  <2>2. \A j \in Loops : j # k => at'[j] = at[j]
    BY <1>10, ActorsAreDistinct
  <2>3. QED
    BY <1>6, <1>10, <1>12, <2>1, <2>2 DEF IInv, TypeInv, CancelledOK
<1>14. ServerOK'
  BY <1>1, <1>2, <1>5 DEF IInv, TypeInv, ServerOK
<1>15. EntryIsLive'
  <2>1. \A s \in Tasks : running'[s] = IF s = t THEN k ELSE running[s]
    BY <1>2, <1>3 DEF IInv, TypeInv, ServerOK
  <2>2. \A s \in Tasks : running[s] # None => running[s] \in Loops /\ running[s] # k
    BY <1>5, IdleShape DEF IInv, EntryIsLive, TypeInv, ServerOK
  <2>3. QED
    BY <1>1, <1>6, <1>10, <1>12, <2>1, <2>2, ActorsAreDistinct DEF IInv, EntryIsLive
<1>16. QED
  BY <1>9, <1>11, <1>13, <1>14, <1>15 DEF IInv, TypeInv

\* Where StopTask returns to.
LEMMA AfterStopShape ==
  ASSUME IInv, NEW p \in Procs, at[p].pc \in {"stop", "stop_store"}
  PROVE  /\ AfterStop(at[p]) \in Local /\ HandlerShape(AfterStop(at[p]))
         /\ \A known : known[at[p].task] # None => Fits(AfterStop(at[p]), known)
<1>1. at[p] \in Local /\ at[p].op # "loop" /\ at[p].task \in Tasks
  BY HandlerAt
<1>2. CASE at[p].op = "pause"
  <2>1. AfterStop(at[p]) = Idle
    BY <1>2 DEF AfterStop
  <2>2. \A known : Fits(Idle, known)
    BY IdleShape, NoneIsNothing DEF Fits, Copying
  <2>3. QED
    BY <2>1, <2>2, IdleShape
<1>3. CASE at[p].op = "delete"
  <2>1. AfterStop(at[p]) = [at[p] EXCEPT !.pc = "delete", !.copy = None]
    BY <1>3 DEF AfterStop
  <2>2. QED
    BY <1>1, <2>1 DEF Local, HandlerShape, Fits, Copying
<1>4. CASE at[p].op \notin {"pause", "delete"}
  <2>1. AfterStop(at[p]) = [at[p] EXCEPT !.pc = "edit_get", !.copy = None]
    BY <1>4 DEF AfterStop
  <2>2. QED
    BY <1>1, <2>1 DEF Local, HandlerShape, Fits, Copying
<1>5. QED
  BY <1>2, <1>3, <1>4

LEMMA StopAskedType ==
  ASSUME IInv, NEW p \in Procs, at[p].pc = "stop", StopAsked(at[p])
  PROVE  asked' \in [Tasks -> Asked \cup {None}] /\ AskedGrows /\ asked'[at[p].task] # None
<1>1. at[p].task \in Tasks /\ asked[at[p].task] # None
  BY HandlerAt
<1>2. \/ asked' = [asked EXCEPT ![at[p].task].run = FALSE]
      \/ asked' = asked
  BY DEF StopAsked
<1>3. asked' \in [Tasks -> Asked \cup {None}] /\ AskedGrows
  BY <1>1, <1>2, AskedFields DEF IInv, TypeInv
<1>4. QED
  BY <1>1, <1>3 DEF AskedGrows

LEMMA StopNotRunningStep ==
  ASSUME IInv, NEW p \in Procs, StopNotRunning(p)
  PROVE  IInv'
<1> DEFINE l == AfterStop(at[p])
<1>1. /\ at[p].pc = "stop" /\ Moves(p, l) /\ StopAsked(at[p])
      /\ UNCHANGED <<stored, running, cancelled, mu, stopping, restarts>>
  BY DEF StopNotRunning, Moves
<1>2. asked' \in [Tasks -> Asked \cup {None}] /\ AskedGrows /\ asked'[at[p].task] # None
  BY <1>1, StopAskedType
<1>3. l \in Local /\ HandlerShape(l) /\ Fits(l, asked')
  BY <1>1, <1>2, AfterStopShape
<1> HIDE DEF l
<1>4. StoreOK' /\ QuietServer
  BY <1>1, <1>2 DEF IInv, TypeInv, StoreOK, ServerOK, QuietServer, AskedGrows
<1>5. QED
  BY <1>1, <1>2, <1>3, <1>4, HandlerStep

\* Both outcomes of StopGet: the handler goes on, with a copy if there is a record.
LEMMA StopRunningStep ==
  ASSUME IInv, NEW p \in Procs, StopRunning(p)
  PROVE  IInv'
<1> DEFINE t == at[p].task
<1>1. /\ at[p].pc = "stop" /\ running[t] # None /\ StopAsked(at[p]) /\ StopGet(p)
      /\ cancelled' = cancelled \cup {running[t]}
      /\ running' = [running EXCEPT ![t] = None]
      /\ UNCHANGED <<stored, stopping, restarts>>
  BY DEF StopRunning
<1>2. asked' \in [Tasks -> Asked \cup {None}] /\ AskedGrows /\ asked'[t] # None
  BY <1>1, StopAskedType
<1>3. t \in Tasks /\ at[p] \in Local /\ at[p].op # "loop"
  BY <1>1, HandlerAt
<1>4. PICK l \in Local : Moves(p, l) /\ HandlerShape(l) /\ Fits(l, asked')
  <2>1. CASE stored[t] = None
    <3>1. Moves(p, AfterStop(at[p]))
      BY <1>1, <2>1 DEF StopGet, Moves
    <3>2. QED
      BY <1>1, <1>2, <3>1, AfterStopShape
  <2>2. CASE stored[t] # None
    <3> DEFINE l == [at[p] EXCEPT !.pc = "stop_store", !.copy = stored[t]]
    <3>1. Moves(p, l)
      BY <1>1, <2>2 DEF StopGet, Moves
    <3>2. stored[t] \in SyncTask
      BY <1>3, <2>2, StoredIsAsked
    <3>3. l \in Local /\ HandlerShape(l) /\ Fits(l, asked')
      BY <1>2, <1>3, <3>2 DEF Local, HandlerShape, Fits
    <3>4. QED
      BY <3>1, <3>3
  <2>3. QED
    BY <2>1, <2>2
<1>5. mu' \in Procs \cup {None}
  BY <1>1 DEF StopGet, IInv, TypeInv, ServerOK
<1>6. StoreOK' /\ QuietServer
  BY <1>1, <1>2, <1>5 DEF IInv, TypeInv, StoreOK, ServerOK, QuietServer, AskedGrows
<1>7. QED
  BY <1>1, <1>2, <1>3, <1>4, <1>6, HandlerStops

\* A handler writes a record back and goes on; what is asked stays.
LEMMA UpdateAndMove ==
  ASSUME IInv, NEW p \in Procs, NEW l \in Local, Moves(p, l), HandlerShape(l), Fits(l, asked),
         NEW t \in Tasks, NEW r \in SyncTask, Update(t, r), mu' \in Procs \cup {None},
         UNCHANGED <<running, cancelled, stopping, asked, restarts>>
  PROVE  IInv'
<1>1. /\ stored' \in [Tasks -> SyncTask \cup {None}]
      /\ \A s \in Tasks : stored'[s] # None <=> stored[s] # None
  BY UpdateStore DEF IInv, TypeInv
<1>2. StoreOK' /\ QuietServer /\ AskedGrows
  BY <1>1, SameAsked DEF IInv, TypeInv, StoreOK, ServerOK, QuietServer
<1>3. Fits(l, asked')
  BY <1>2, FitsLater
<1>4. QED
  BY <1>2, <1>3, HandlerStep

LEMMA StopStoreStep ==
  ASSUME IInv, NEW p \in Procs, StopStore(p)
  PROVE  IInv'
<1> DEFINE l == AfterStop(at[p])
           r == [at[p].copy EXCEPT !.status = "paused"]
<1>1. /\ at[p].pc = "stop_store" /\ Moves(p, l) /\ mu' = None /\ Update(at[p].task, r)
      /\ UNCHANGED <<running, cancelled, stopping, asked, restarts>>
  BY DEF StopStore, Moves
<1>2. at[p].task \in Tasks /\ asked[at[p].task] # None /\ at[p].copy \in SyncTask
  BY <1>1, HandlerAt DEF Copying
<1>3. r \in SyncTask
  BY <1>2 DEF SyncTask, Status
<1>4. l \in Local /\ HandlerShape(l) /\ Fits(l, asked)
  BY <1>1, <1>2, AfterStopShape
<1> HIDE DEF l, r
<1>5. QED
  BY <1>1, <1>2, <1>3, <1>4, UpdateAndMove

LEMMA DeleteStep ==
  ASSUME IInv, NEW p \in Procs, Delete(p)
  PROVE  IInv'
<1>1. /\ Moves(p, Idle) /\ stored' = [stored EXCEPT ![at[p].task] = None]
      /\ UNCHANGED <<running, cancelled, mu, stopping, asked, restarts>>
  BY DEF Delete, Moves
<1>2. stored' \in [Tasks -> SyncTask \cup {None}]
        /\ \A s \in Tasks : stored'[s] # None => stored[s] # None
  BY <1>1 DEF IInv, TypeInv, StoreOK
<1>3. StoreOK' /\ QuietServer /\ AskedGrows
  BY <1>1, <1>2, SameAsked DEF IInv, TypeInv, StoreOK, ServerOK, QuietServer
<1>4. QED
  BY <1>1, <1>3, IdleShape, HandlerStep

-----------------------------------------------------------------------------
(* Editing.                                                                   *)

LEMMA EditStoreStep ==
  ASSUME IInv, NEW p \in Procs, EditStore(p)
  PROVE  IInv'
<1> DEFINE t == at[p].task
<1>1. /\ at[p].pc = "edit" /\ Update(t, at[p].copy)
      /\ UNCHANGED <<running, cancelled, mu, stopping, restarts>>
  BY DEF EditStore
<1>2. /\ at[p] \in Local /\ at[p].op # "loop" /\ t \in Tasks /\ asked[t] # None
      /\ at[p].copy \in SyncTask
  BY <1>1, HandlerAt DEF Copying
<1>3. /\ stored' \in [Tasks -> SyncTask \cup {None}]
      /\ \A s \in Tasks : stored'[s] # None <=> stored[s] # None
  BY <1>1, <1>2, UpdateStore DEF IInv, TypeInv
<1>4. asked' \in [Tasks -> Asked \cup {None}] /\ AskedGrows
  <2>1. at[p].copy.cfg \in Configs
    BY <1>2 DEF SyncTask
  <2>2. asked' = asked \/ asked' = [asked EXCEPT ![t].cfg = at[p].copy.cfg]
    BY DEF EditStore
  <2>3. QED
    BY <1>2, <2>1, <2>2, AskedFields DEF IInv, TypeInv
<1>5. PICK l \in Local : Moves(p, l) /\ HandlerShape(l) /\ Fits(l, asked')
  <2>1. CASE stored[t] = None
    BY <2>1, IdleShape DEF EditStore, Moves
  <2>2. CASE stored[t] # None
    <3> DEFINE l == [at[p] EXCEPT !.pc = "edit_check", !.copy = None]
    <3>1. Moves(p, l)
      BY <2>2 DEF EditStore, Moves
    <3>2. l \in Local /\ HandlerShape(l) /\ Fits(l, asked')
      BY <1>2, <1>4 DEF Local, HandlerShape, Fits, Copying, AskedGrows
    <3>3. QED
      BY <3>1, <3>2
  <2>3. QED
    BY <2>1, <2>2
<1>6. StoreOK' /\ QuietServer
  BY <1>1, <1>3, <1>4 DEF IInv, TypeInv, StoreOK, ServerOK, QuietServer, AskedGrows
<1>7. QED
  BY <1>1, <1>4, <1>5, <1>6, HandlerStep

\* A handler that changes nothing but its own place.
LEMMA MoveOnly ==
  ASSUME IInv, NEW p \in Procs, NEW l \in Local, Moves(p, l), HandlerShape(l), Fits(l, asked),
         UNCHANGED <<stored, running, cancelled, mu, stopping, asked, restarts>>
  PROVE  IInv'
<1>1. StoreOK' /\ QuietServer /\ AskedGrows
  BY SameStore, SameAsked DEF IInv, TypeInv, ServerOK, QuietServer
<1>2. Fits(l, asked')
  BY <1>1, FitsLater
<1>3. QED
  BY <1>1, <1>2, HandlerStep

LEMMA EditCheckStep ==
  ASSUME IInv, NEW p \in Procs, EditCheck(p)
  PROVE  IInv'
<1>1. /\ at[p].pc = "edit_check"
      /\ UNCHANGED <<stored, running, cancelled, mu, stopping, asked, restarts>>
  BY DEF EditCheck
<1>2. /\ at[p] \in Local /\ at[p].op # "loop" /\ at[p].task \in Tasks
      /\ asked[at[p].task] # None
  BY <1>1, HandlerAt
<1>3. PICK l \in {Idle, [at[p] EXCEPT !.pc = "stop"]} : Moves(p, l)
  <2>1. at' = [at EXCEPT ![p] = IF running[at[p].task] # None THEN [at[p] EXCEPT !.pc = "stop"]
                                                              ELSE Idle]
    BY DEF EditCheck
  <2>2. QED
    BY <2>1 DEF Moves
<1>4. CASE l = Idle
  BY <1>1, <1>3, <1>4, IdleShape, MoveOnly
<1>5. CASE l = [at[p] EXCEPT !.pc = "stop"]
  <2>1. l \in Local /\ HandlerShape(l) /\ Fits(l, asked)
    BY <1>2, <1>5 DEF Local, HandlerShape, Fits, Copying
  <2>2. QED
    BY <1>1, <1>3, <2>1, MoveOnly
<1>6. QED
  BY <1>3, <1>4, <1>5

LEMMA EditGetStep ==
  ASSUME IInv, NEW p \in Procs, EditGet(p)
  PROVE  IInv'
<1> DEFINE t == at[p].task
           l == [at[p] EXCEPT !.pc = "start", !.copy = stored[t]]
<1>1. /\ at[p].pc = "edit_get"
      /\ UNCHANGED <<stored, running, cancelled, mu, stopping, asked, restarts>>
  BY DEF EditGet
<1>2. at[p] \in Local /\ at[p].op # "loop" /\ t \in Tasks /\ asked[t] # None
  BY <1>1, HandlerAt
<1>3. CASE stored[t] # None /\ stored[t].status = "running"
  <2>1. Moves(p, l)
    BY <1>3 DEF EditGet, Moves
  <2>2. stored[t] \in SyncTask
    BY <1>2, <1>3, StoredIsAsked
  <2>3. l \in Local /\ HandlerShape(l) /\ Fits(l, asked)
    BY <1>2, <2>2 DEF Local, HandlerShape, Fits
  <2>4. QED
    BY <1>1, <2>1, <2>3, MoveOnly
<1>4. CASE ~(stored[t] # None /\ stored[t].status = "running")
  <2>1. Moves(p, Idle)
    BY <1>4 DEF EditGet, Moves
  <2>2. QED
    BY <1>1, <2>1, IdleShape, MoveOnly
<1>5. QED
  BY <1>3, <1>4

LEMMA TokenStoreStep ==
  ASSUME IInv, NEW p \in Procs, TokenStore(p)
  PROVE  IInv'
<1> DEFINE t == at[p].task
<1>1. /\ at[p].pc = "token" /\ Update(t, at[p].copy) /\ Moves(p, Idle)
      /\ UNCHANGED <<running, cancelled, mu, stopping, restarts>>
  BY DEF TokenStore, Moves
<1>2. t \in Tasks /\ asked[t] # None /\ at[p].copy \in SyncTask
  BY <1>1, HandlerAt DEF Copying
<1>3. /\ stored' \in [Tasks -> SyncTask \cup {None}]
      /\ \A s \in Tasks : stored'[s] # None <=> stored[s] # None
  BY <1>1, <1>2, UpdateStore DEF IInv, TypeInv
<1>4. asked' \in [Tasks -> Asked \cup {None}] /\ AskedGrows
  <2>1. at[p].copy.token \in Tokens
    BY <1>2 DEF SyncTask
  <2>2. asked' = asked \/ asked' = [asked EXCEPT ![t].token = at[p].copy.token]
    BY DEF TokenStore
  <2>3. QED
    BY <1>2, <2>1, <2>2, AskedFields DEF IInv, TypeInv
<1>5. StoreOK' /\ QuietServer
  BY <1>1, <1>3, <1>4 DEF IInv, TypeInv, StoreOK, ServerOK, QuietServer, AskedGrows
<1>6. QED
  BY <1>1, <1>4, <1>5, IdleShape, HandlerStep

-----------------------------------------------------------------------------
(* Syncing.                                                                   *)

\* An actor that syncs is a handler that answers next, or a loop that waits next.
LEMMA ReturnShape ==
  ASSUME NEW l \in Local, l.copy \in SyncTask
  PROVE  /\ l.op # "loop" => Return(l) = Idle
         /\ l.op = "loop" => /\ Return(l) \in Local /\ Return(l).op = "loop"
                             /\ Return(l).task = l.task /\ Return(l).pc = "wait"
                             /\ Return(l).copy = l.copy
BY DEF Return, Local

\* The end of a sync: a record is written and the actor returns with copy.
LEMMA SyncEnds ==
  ASSUME IInv, NEW a \in Actors, at[a].pc \in {"sync", "finish"}, NEW copy \in SyncTask,
         NEW r \in SyncTask, Update(at[a].task, r), Moves(a, Return([at[a] EXCEPT !.copy = copy])),
         UNCHANGED <<running, cancelled, mu, stopping, asked, restarts>>
  PROVE  IInv'
<1> DEFINE l == [at[a] EXCEPT !.copy = copy]
<1>1. at[a] \in Local /\ at[a].task \in Tasks /\ (a \in Procs <=> at[a].op # "loop")
  BY HandlerAt, LoopAt, ActorsAreDistinct
<1>2. l \in Local /\ l.copy = copy /\ l.op = at[a].op /\ l.task = at[a].task
  BY <1>1 DEF Local
<1>3. Moves(a, Return(l))
  OBVIOUS
<1> HIDE DEF l
<1>4. CASE a \in Procs
  BY <1>1, <1>2, <1>3, <1>4, ReturnShape, IdleShape, UpdateAndMove DEF IInv, TypeInv, ServerOK
<1>5. CASE a \in Loops
  <2>1. at[a].op = "loop"
    BY <1>5, LoopAt
  <2>2. StoreOK'
    BY <1>1, UpdateStore DEF IInv, TypeInv, StoreOK
  <2>3. QED
    BY <1>1, <1>2, <1>3, <1>5, <2>1, <2>2, ReturnShape, LoopStep
<1>6. QED
  BY <1>4, <1>5, ActorsAreDistinct

LEMMA FinishGetStep ==
  ASSUME IInv, NEW a \in Actors, FinishGet(a)
  PROVE  IInv'
<1> DEFINE status == IF stored[at[a].task] = None THEN at[a].copy.status
                                                  ELSE stored[at[a].task].status
           l == [at[a] EXCEPT !.pc = "finish", !.copy.status = status]
<1>1. /\ at[a].pc = "sync" /\ Moves(a, l)
      /\ UNCHANGED <<stored, running, cancelled, mu, stopping, asked, restarts>>
  BY DEF FinishGet, Moves
<1>2. /\ at[a] \in Local /\ at[a].task \in Tasks /\ asked[at[a].task] # None
      /\ at[a].copy \in SyncTask
      /\ a \in Procs => at[a].op # "loop"
      /\ a \in Loops => at[a].op = "loop"
  BY <1>1, HandlerAt, LoopAt, ActorsAreDistinct DEF Copying
<1>3. status \in Status
  BY <1>2, StoredIsAsked DEF SyncTask
<1>4. /\ l \in Local /\ l.copy \in SyncTask /\ l.op = at[a].op /\ l.task = at[a].task
      /\ l.pc = "finish"
  BY <1>2, <1>3 DEF Local, SyncTask
<1> HIDE DEF l, status
<1>5. CASE a \in Procs
  <2>1. HandlerShape(l) /\ Fits(l, asked)
    BY <1>2, <1>4, <1>5 DEF HandlerShape, Fits
  <2>2. QED
    BY <1>1, <1>4, <1>5, <2>1, MoveOnly
<1>6. CASE a \in Loops
  BY <1>1, <1>2, <1>4, <1>6, LoopStep, SameStore DEF IInv, TypeInv
<1>7. QED
  BY <1>5, <1>6, ActorsAreDistinct

LEMMA ProceedStep ==
  ASSUME IInv, NEW a \in Actors, Proceed(a)
  PROVE  IInv'
<1>1. CASE FinishGet(a)
  BY <1>1, FinishGetStep
<1>2. ASSUME at[a].pc \in {"sync", "finish"} PROVE at[a] \in Local /\ at[a].copy \in SyncTask
  BY <1>2, HandlerAt, LoopAt, ActorsAreDistinct DEF Copying
<1>3. CASE FinishStore(a)
  <2>1. /\ at[a].pc = "finish" /\ Update(at[a].task, at[a].copy) /\ Moves(a, Return(at[a]))
        /\ UNCHANGED <<running, cancelled, mu, stopping, asked, restarts>>
    BY <1>3 DEF FinishStore, Moves
  <2>2. at[a] = [at[a] EXCEPT !.copy = at[a].copy]
    BY <1>2, <2>1 DEF Local
  <2>3. QED
    BY <1>2, <2>1, <2>2, SyncEnds
<1>4. CASE SyncError(a)
  <2> DEFINE failed == [at[a].copy EXCEPT !.status = "error"]
  <2>1. /\ at[a].pc = "sync" /\ Update(at[a].task, failed)
        /\ Moves(a, Return([at[a] EXCEPT !.copy = failed]))
        /\ UNCHANGED <<running, cancelled, mu, stopping, asked, restarts>>
    BY <1>4 DEF SyncError, Moves
  <2>2. failed \in SyncTask
    BY <1>2, <2>1 DEF SyncTask, Status
  <2> HIDE DEF failed
  <2>3. QED
    BY <2>1, <2>2, SyncEnds
<1>5. QED
  BY <1>1, <1>3, <1>4 DEF Proceed

\* A loop leaves its select, for a sync or for good.
LEMMA LoopSelects ==
  ASSUME IInv, NEW k \in Loops, NEW pc \in {"sync", "exit"}, at[k].pc = "wait",
         Moves(k, [at[k] EXCEPT !.pc = pc]), pc = "exit" => k \in cancelled,
         UNCHANGED <<stored, running, cancelled, mu, stopping, asked, restarts>>
  PROVE  IInv'
<1> DEFINE l == [at[k] EXCEPT !.pc = pc]
<1>1. at[k] \in Local /\ at[k].op = "loop" /\ at[k].copy \in SyncTask
  BY LoopAt DEF Copying
<1>2. /\ l \in Local /\ l.op = "loop" /\ l.task = at[k].task /\ l.pc = pc
      /\ l.copy \in SyncTask
  BY <1>1 DEF Local
<1>3. Moves(k, l)
  OBVIOUS
<1>4. StoreOK'
  BY SameStore DEF IInv, TypeInv
<1> HIDE DEF l
<1>5. QED
  BY <1>1, <1>2, <1>3, <1>4, LoopStep

LEMMA LoopTickStep ==
  ASSUME IInv, NEW l \in Loops, LoopTick(l)
  PROVE  IInv'
<1>1. /\ at[l].pc = "wait" /\ Moves(l, [at[l] EXCEPT !.pc = "sync"])
      /\ UNCHANGED <<stored, running, cancelled, mu, stopping, asked, restarts>>
  BY DEF LoopTick, Moves
<1>2. QED
  BY <1>1, LoopSelects

LEMMA LoopDoneStep ==
  ASSUME IInv, NEW l \in Loops, LoopDone(l)
  PROVE  IInv'
<1>1. /\ at[l].pc = "wait" /\ l \in cancelled /\ Moves(l, [at[l] EXCEPT !.pc = "exit"])
      /\ UNCHANGED <<stored, running, cancelled, mu, stopping, asked, restarts>>
  BY DEF LoopDone, Moves
<1>2. QED
  BY <1>1, LoopSelects

\* The deferred function deletes an entry of this loop's task, whichever it is, and the
\* loop is free again: entries of other tasks name other loops.
LEMMA LoopExitStep ==
  ASSUME IInv, NEW k \in Loops, LoopExit(k)
  PROVE  IInv'
<1> DEFINE t == at[k].task
<1>1. /\ at[k].pc = "exit" /\ Moves(k, Idle)
      /\ running' = [running EXCEPT ![t] = None] /\ cancelled' = cancelled \ {k}
      /\ UNCHANGED <<stored, mu, stopping, asked, restarts>>
  BY DEF LoopExit, Moves
<1>2. at'[k] = Idle /\ \A b \in Actors : b # k => at'[b] = at[b]
  BY <1>1, MovesTo, ActorsAreDistinct DEF IInv, TypeInv
<1>3. ActorsOK'
  BY <1>1, SameAsked, IdleShape, LoopMoves DEF IInv
<1>4. CancelledOK'
  <2>1. cancelled \subseteq Loops
    BY DEF IInv, TypeInv, ServerOK
  <2>2. \A l \in Loops : l # k => at'[l] = at[l]
    BY <1>2, ActorsAreDistinct
  <2>3. QED
    BY <1>1, <1>2, <2>1, <2>2, IdleShape DEF IInv, TypeInv, CancelledOK
<1>5. t \in Tasks
  BY <1>1, LoopAt
<1>6. \A s \in Tasks : running'[s] = IF s = t THEN None ELSE running[s]
  BY <1>1, <1>5 DEF IInv, TypeInv, ServerOK
<1>7. ServerOK'
  BY <1>1 DEF IInv, TypeInv, ServerOK
<1>8. EntryIsLive'
  <2>1. \A s \in Tasks : running[s] # None => running[s] \in Loops
    BY DEF IInv, TypeInv, ServerOK
  <2>2. \A s \in Tasks : s # t /\ running[s] # None => running[s] # k
    BY DEF IInv, EntryIsLive
  <2>3. QED
    BY <1>1, <1>2, <1>6, <2>1, <2>2, ActorsAreDistinct DEF IInv, EntryIsLive
<1>9. QED
  BY <1>1, <1>3, <1>4, <1>7, <1>8, SameStore DEF IInv, TypeInv

-----------------------------------------------------------------------------
(* Shutdown and restart.                                                      *)

LEMMA StopAllPlace ==
  /\ At("stop_all", "shutdown", None, None) \in Local
  /\ HandlerShape(At("stop_all", "shutdown", None, None))
  /\ \A known : Fits(At("stop_all", "shutdown", None, None), known)
BY NoneIsNothing DEF At, Local, HandlerShape, Fits, Copying

LEMMA StopAllBegins ==
  ASSUME IInv, NEW p \in Procs, StopAll(p)
  PROVE  IInv'
<1>1. /\ Moves(p, At("stop_all", "shutdown", None, None)) /\ mu' = p
      /\ UNCHANGED <<stored, running, cancelled, stopping, asked, restarts>>
  BY DEF StopAll, Moves
<1>2. StoreOK' /\ QuietServer /\ AskedGrows
  BY <1>1, SameStore, SameAsked DEF IInv, TypeInv, ServerOK, QuietServer
<1>3. QED
  BY <1>1, <1>2, StopAllPlace, HandlerStep

LEMMA StopAllNextStep ==
  ASSUME IInv, NEW p \in Procs, NEW t \in Tasks, StopAllNext(p, t)
  PROVE  IInv'
<1>1. /\ at[p].pc = "stop_all" /\ running[t] # None
      /\ cancelled' = cancelled \cup {running[t]}
      /\ running' = [running EXCEPT ![t] = None]
      /\ UNCHANGED <<stored, mu, stopping, asked, restarts>>
  BY DEF StopAllNext
<1>2. PICK l \in Local : Moves(p, l) /\ HandlerShape(l) /\ Fits(l, asked)
  <2>1. CASE stored[t] = None
    <3>1. Moves(p, at[p])
      BY <2>1 DEF StopAllNext, Moves
    <3>2. at[p] \in Local /\ HandlerShape(at[p]) /\ Fits(at[p], asked)
      BY ActorsAreDistinct DEF IInv, TypeInv, ActorsOK
    <3>3. QED
      BY <3>1, <3>2
  <2>2. CASE stored[t] # None
    <3> DEFINE l == At("stop_all_store", "shutdown", t, stored[t])
    <3>1. Moves(p, l)
      BY <2>2 DEF StopAllNext, Moves
    <3>2. stored[t] \in SyncTask /\ asked[t] # None
      BY <2>2, StoredIsAsked
    <3>3. l \in Local /\ HandlerShape(l) /\ Fits(l, asked)
      BY <3>2 DEF At, Local, HandlerShape, Fits
    <3>4. QED
      BY <3>1, <3>3
  <2>3. QED
    BY <2>1, <2>2
<1>3. StoreOK' /\ QuietServer /\ AskedGrows
  BY <1>1, SameStore, SameAsked DEF IInv, TypeInv, ServerOK, QuietServer
<1>4. Fits(l, asked')
  BY <1>2, <1>3, FitsLater
<1>5. QED
  BY <1>1, <1>2, <1>3, <1>4, HandlerStops

LEMMA StopAllStoreStep ==
  ASSUME IInv, NEW p \in Procs, StopAllStore(p)
  PROVE  IInv'
<1> DEFINE r == [at[p].copy EXCEPT !.status = "paused"]
<1>1. /\ at[p].pc = "stop_all_store" /\ Update(at[p].task, r)
      /\ Moves(p, At("stop_all", "shutdown", None, None))
      /\ UNCHANGED <<running, cancelled, mu, stopping, asked, restarts>>
  BY DEF StopAllStore, Moves
<1>2. at[p].task \in Tasks /\ at[p].copy \in SyncTask
  BY <1>1, HandlerAt DEF Copying
<1>3. r \in SyncTask
  BY <1>2 DEF SyncTask, Status
<1> HIDE DEF r
<1>4. mu' \in Procs \cup {None}
  BY <1>1 DEF IInv, TypeInv, ServerOK
<1>5. QED
  BY <1>1, <1>2, <1>3, <1>4, StopAllPlace, UpdateAndMove

LEMMA StopAllEndStep ==
  ASSUME IInv, NEW p \in Procs, StopAllEnd(p)
  PROVE  IInv'
<1>1. /\ Moves(p, Idle) /\ mu' = None /\ stopping' = TRUE
      /\ UNCHANGED <<stored, running, cancelled, asked, restarts>>
  BY DEF StopAllEnd, Moves
<1>2. StoreOK' /\ QuietServer /\ AskedGrows
  BY <1>1, SameStore, SameAsked DEF IInv, TypeInv, ServerOK, QuietServer
<1>3. QED
  BY <1>1, <1>2, IdleShape, HandlerStep

\* What Restart does, with the tasks whose connections resolve and the loops they get.
RestoredWith(ok, loop) ==
  /\ Injective(loop)
  /\ running' = [t \in Tasks |-> IF t \in ok THEN loop[t] ELSE None]
  /\ stored' = [t \in Tasks |-> IF t \in ToRestore \ ok
                                THEN [stored[t] EXCEPT !.status = "error"]
                                ELSE stored[t]]
  /\ at' = [a \in Actors |->
              IF a \in Procs THEN IF at[a].pc = "edit" /\ Overlap THEN at[a] ELSE Idle
              ELSE IF \E t \in ok : loop[t] = a
                   THEN LET t == CHOOSE t \in ok : loop[t] = a
                        IN At("wait", "loop", t, stored[t])
                   ELSE Idle]

\* After a restart: the loops of the restored tasks, and the browsers' forms.
LEMMA RestartedActors ==
  ASSUME IInv, NEW ok \in SUBSET ToRestore, NEW loop \in [ok -> Loops], RestoredWith(ok, loop)
  PROVE  /\ \A p \in Procs : \/ at'[p] = Idle
                             \/ at'[p] = at[p] /\ at[p].pc = "edit" /\ Overlap
         /\ \A t \in ok : at'[loop[t]] = At("wait", "loop", t, stored[t])
         /\ \A l \in Loops : \/ at'[l] = Idle /\ \A t \in ok : loop[t] # l
                             \/ \E t \in ok : /\ loop[t] = l
                                              /\ at'[l] = At("wait", "loop", t, stored[t])
         /\ \A t \in ok : t \in Tasks /\ stored[t] \in SyncTask /\ stored[t].status = "running"
                            /\ asked[t] # None /\ loop[t] \in Loops
         /\ DOMAIN at' = Actors
<1>1. \A p \in Procs : \/ at'[p] = Idle
                       \/ at'[p] = at[p] /\ at[p].pc = "edit" /\ Overlap
  BY ActorsAreDistinct DEF RestoredWith
<1>2. ASSUME NEW t \in ok PROVE at'[loop[t]] = At("wait", "loop", t, stored[t])
  <2>1. loop[t] \in Actors /\ loop[t] \notin Procs
    BY ActorsAreDistinct
  <2>2. (CHOOSE s \in ok : loop[s] = loop[t]) = t
    BY DEF RestoredWith, Injective
  <2>3. QED
    BY <2>1, <2>2 DEF RestoredWith
<1>3. ASSUME NEW l \in Loops, \A t \in ok : loop[t] # l PROVE at'[l] = Idle
  BY <1>3, ActorsAreDistinct DEF RestoredWith
<1>4. \A t \in ok : t \in Tasks /\ stored[t] # None /\ stored[t].status = "running"
  BY DEF ToRestore
<1>5. \A t \in ok : stored[t] \in SyncTask /\ asked[t] # None /\ loop[t] \in Loops
  BY <1>4, StoredIsAsked
<1>6. \A l \in Loops : \/ at'[l] = Idle /\ \A t \in ok : loop[t] # l
                      \/ \E t \in ok : /\ loop[t] = l
                                       /\ at'[l] = At("wait", "loop", t, stored[t])
  BY <1>2, <1>3
<1>7. DOMAIN at' = Actors
  BY DEF RestoredWith
<1>8. QED
  BY <1>1, <1>2, <1>4, <1>5, <1>6, <1>7

LEMMA RestartStep ==
  ASSUME IInv, Restart
  PROVE  IInv'
<1>1. /\ cancelled' = {} /\ mu' = None /\ stopping' = FALSE /\ restarts' = restarts + 1
      /\ asked' = asked
  BY DEF Restart
<1>2. PICK ok \in SUBSET ToRestore : \E loop \in [ok -> Loops] : RestoredWith(ok, loop)
  <2>1. PICK ok \in IF "resolve" \in Operations THEN SUBSET ToRestore ELSE {ToRestore} :
          \E loop \in [ok -> Loops] : RestoredWith(ok, loop)
    BY Zenon DEF Restart, RestoredWith
  <2>2. ok \in SUBSET ToRestore
    BY <2>1
  <2>3. QED
    BY <2>1, <2>2
<1>3. PICK loop \in [ok -> Loops] : RestoredWith(ok, loop)
  BY <1>2
<1>4. /\ \A p \in Procs : at'[p] = Idle \/ at'[p] = at[p]
      /\ \A t \in ok : at'[loop[t]] = At("wait", "loop", t, stored[t])
      /\ \A l \in Loops : \/ at'[l] = Idle /\ \A t \in ok : loop[t] # l
                          \/ \E t \in ok : /\ loop[t] = l
                                           /\ at'[l] = At("wait", "loop", t, stored[t])
      /\ \A t \in ok : /\ t \in Tasks /\ stored[t] \in SyncTask /\ asked[t] # None
                       /\ loop[t] \in Loops
      /\ DOMAIN at' = Actors
  BY <1>3, RestartedActors
<1>5. \A t \in Tasks : stored[t] # None =>
        stored[t] \in SyncTask /\ [stored[t] EXCEPT !.status = "error"] \in SyncTask
  BY StoredIsAsked DEF SyncTask, Status
<1>6. StoreOK'
  <2>1. ToRestore \subseteq {t \in Tasks : stored[t] # None}
    BY DEF ToRestore
  <2>2. stored' \in [Tasks -> SyncTask \cup {None}]
    BY <1>3, <1>5, <2>1 DEF RestoredWith, IInv, TypeInv, StoreOK
  <2>3. \A t \in Tasks : stored'[t] # None => asked[t] # None
    BY <1>3, <2>1 DEF RestoredWith, IInv, TypeInv, StoreOK
  <2>4. QED
    BY <1>1, <2>2, <2>3 DEF IInv, TypeInv, StoreOK
<1>7. \A t \in ok : LET l == At("wait", "loop", t, stored[t])
                    IN  /\ l \in Local /\ LoopShape(l) /\ Fits(l, asked') /\ l.op = "loop"
                        /\ l.task = t /\ l.pc = "wait"
  BY <1>1, <1>4 DEF At, Local, LoopShape, Fits
<1>8. ActorsOK'
  <2>1. \A p \in Procs : at'[p] \in Local /\ HandlerShape(at'[p]) /\ Fits(at'[p], asked')
    BY <1>1, <1>4, IdleShape, ActorsAreDistinct DEF IInv, TypeInv, ActorsOK
  <2>2. \A l \in Loops : at'[l] \in Local /\ LoopShape(at'[l]) /\ Fits(at'[l], asked')
    BY <1>4, <1>7, IdleShape
  <2>3. at' \in [Actors -> Local]
    <3>1. \A a \in Actors : at'[a] \in Local
      BY <2>1, <2>2, ActorsAreDistinct
    <3>2. at' = [a \in Actors |-> at'[a]]
      BY <1>3 DEF RestoredWith
    <3>3. QED
      BY <3>1, <3>2
  <2>4. QED
    BY <2>1, <2>2, <2>3, ActorsAreDistinct DEF ActorsOK
<1>9. CancelledOK'
  <2>1. \A l \in Loops : at'[l].pc # "exit"
    BY <1>4, <1>7, IdleShape
  <2>2. QED
    BY <1>1, <2>1 DEF CancelledOK
<1>10. ServerOK'
  <2>1. running' \in [Tasks -> Loops \cup {None}]
    BY <1>3, <1>4 DEF RestoredWith
  <2>2. restarts' \in Nat
    BY <1>1 DEF IInv, TypeInv, ServerOK
  <2>3. stopping' \in BOOLEAN
    BY <1>1
  <2>4. cancelled' \subseteq Loops /\ mu' \in Procs \cup {None}
    BY <1>1
  <2>5. QED
    BY <2>1, <2>2, <2>3, <2>4 DEF ServerOK
<1>11. EntryIsLive'
  <2>1. \A t \in Tasks : running'[t] # None => t \in ok /\ running'[t] = loop[t]
    BY <1>3 DEF RestoredWith
  <2>2. QED
    BY <1>1, <1>4, <1>7, <2>1 DEF EntryIsLive
<1>12. QED
  BY <1>6, <1>8, <1>9, <1>10, <1>11 DEF IInv, TypeInv

LEMMA CreateStep ==
  ASSUME IInv, NEW t \in Tasks, NEW c \in Configs, NEW token \in Tokens, Create(t, c, token)
  PROVE  IInv'
<1> DEFINE r == [cfg |-> c, token |-> token, status |-> "paused"]
           q == [cfg |-> c, token |-> token, run |-> FALSE]
<1>1. /\ asked[t] = None /\ stored' = [stored EXCEPT ![t] = r] /\ asked' = [asked EXCEPT ![t] = q]
      /\ UNCHANGED <<running, at, cancelled, mu, stopping, restarts>>
  BY DEF Create
<1>2. r \in SyncTask /\ q \in Asked /\ q # None
  BY NoneIsNothing DEF SyncTask, Asked, Status
<1> HIDE DEF r, q
<1>3. StoreOK' /\ AskedGrows
  BY <1>1, <1>2 DEF IInv, TypeInv, StoreOK, AskedGrows
<1>4. ActorsOK'
  BY <1>1, <1>3, FitsLater DEF IInv, TypeInv, ActorsOK
<1>5. CancelledOK' /\ ServerOK' /\ EntryIsLive'
  BY <1>1 DEF IInv, TypeInv, CancelledOK, ServerOK, EntryIsLive
<1>6. QED
  BY <1>3, <1>4, <1>5 DEF IInv, TypeInv

LEMMA IInvStep == IInv /\ [Next]_vars => IInv'
<1> SUFFICES ASSUME IInv, [Next]_vars PROVE IInv'
  OBVIOUS
<1>1. ASSUME NEW p \in Procs, Continue(p) PROVE IInv'
  BY <1>1, ProceedStep, ActorsAreDistinct, StopStoreStep, DeleteStep, EditGetStep,
     TokenStoreStep, StopAllNextStep, StopAllStoreStep, StopAllEndStep DEF Continue
<1>2. ASSUME NEW p \in Procs, Acquire(p) PROVE IInv'
  BY <1>2, StartRefusedStep, StartTaskStep, StopNotRunningStep, StopRunningStep, EditCheckStep
     DEF Acquire
<1>3. ASSUME NEW l \in Loops, LoopTick(l) \/ Proceed(l) \/ LoopDone(l) \/ LoopExit(l) PROVE IInv'
  BY <1>3, ProceedStep, ActorsAreDistinct, LoopTickStep, LoopDoneStep, LoopExitStep
<1>4. CASE UNCHANGED vars
  BY <1>4 DEF vars, IInv, TypeInv, ActorsOK, CancelledOK, StoreOK, ServerOK, EntryIsLive
<1>5. QED
  BY <1>1, <1>2, <1>3, <1>4, CreateStep, RequestStep, EditStoreStep, StopAllBegins, RestartStep
     DEF Next

LEMMA IInvHolds == Spec => []IInv
<1>1. Init => IInv
  <2>1. Init => EntryIsLive
    BY DEF Init, EntryIsLive
  <2>2. QED
    BY <2>1, TypeInvInit DEF IInv
<1>2. QED
  BY <1>1, IInvStep, PTL DEF Spec

\* In every reachable state the variables have their types, and every handler and loop that
\* is about to use its copy of a record has one: updateTask, which ignores the error of its
\* Get, does not start a task that is gone.
THEOREM TypeCorrect == Spec => []TypeOK
<1>1. IInv => TypeOK
  BY TypeInvTypeOK DEF IInv
<1>2. QED
  BY <1>1, IInvHolds, PTL

\* The map of running tasks never names a goroutine that has ended, was cancelled or serves
\* another task, with any number of handlers and loops that start, stop, edit and delete the
\* same tasks, and although a loop that ends deletes its task's entry whoever installed it.
THEOREM EntriesAreLive == Spec => []EntryIsLive
<1>1. IInv => EntryIsLive
  BY DEF IInv
<1>2. QED
  BY <1>1, IInvHolds, PTL

-----------------------------------------------------------------------------
(* Deleted tasks.                                                             *)

GoneStaysGone ==
  \A t \in Tasks : asked[t] # None /\ stored[t] = None => stored'[t] = None

LEMMA UpdateInsertsNothing ==
  ASSUME StoreOK, NEW t, NEW r, Update(t, r)
  PROVE  GoneStaysGone
BY DEF StoreOK, Update, GoneStaysGone

LEMMA SameStoreInsertsNothing ==
  ASSUME stored' = stored
  PROVE  GoneStaysGone
BY DEF GoneStaysGone

LEMMA NothingIsInserted == IInv /\ [Next]_vars => GoneStaysGone
<1> SUFFICES ASSUME IInv, [Next]_vars PROVE GoneStaysGone
  OBVIOUS
<1> USE UpdateInsertsNothing, SameStoreInsertsNothing
<1>1. StoreOK
  BY DEF IInv, TypeInv
<1>2. ASSUME NEW t \in Tasks, NEW c \in Configs, NEW token \in Tokens, Create(t, c, token)
      PROVE  GoneStaysGone
  BY <1>1, <1>2 DEF Create, StoreOK, GoneStaysGone
<1>3. ASSUME NEW p \in Procs, Request(p) PROVE GoneStaysGone
  BY <1>3 DEF Request, StartGet, Pause, DeleteStop, Trigger, Apply, EditOpen, TokenGet, Enter
<1>4. ASSUME NEW p \in Procs, EditStore(p) PROVE GoneStaysGone
  BY <1>1, <1>4 DEF EditStore
<1>5. ASSUME NEW p \in Procs, StopAll(p) PROVE GoneStaysGone
  BY <1>5 DEF StopAll
<1>6. ASSUME NEW a \in Actors, Proceed(a) PROVE GoneStaysGone
  BY <1>1, <1>6 DEF Proceed, FinishGet, FinishStore, SyncError
<1>7. ASSUME NEW p \in Procs, Delete(p) PROVE GoneStaysGone
  BY <1>1, <1>7 DEF Delete, StoreOK, GoneStaysGone
<1>8. ASSUME NEW p \in Procs, Continue(p) PROVE GoneStaysGone
  BY <1>1, <1>6, <1>7, <1>8, ActorsAreDistinct
     DEF Continue, StopStore, EditGet, TokenStore, StopAllNext, StopAllStore, StopAllEnd
<1>9. ASSUME NEW p \in Procs, Acquire(p) PROVE GoneStaysGone
  BY <1>1, <1>9 DEF Acquire, StartRefused, StartTask, Spawn, StopNotRunning, StopRunning, EditCheck
<1>10. ASSUME NEW l \in Loops, LoopTick(l) \/ LoopDone(l) \/ LoopExit(l) PROVE GoneStaysGone
  BY <1>10 DEF LoopTick, LoopDone, LoopExit
<1>11. ASSUME Restart PROVE GoneStaysGone
  <2>1. PICK ok : stored' = [t \in Tasks |-> IF t \in ToRestore \ ok
                                             THEN [stored[t] EXCEPT !.status = "error"]
                                             ELSE stored[t]]
    BY <1>11 DEF Restart
  <2>2. \A t \in ToRestore : stored[t] # None
    BY DEF ToRestore
  <2>3. QED
    BY <2>1, <2>2 DEF GoneStaysGone
<1>12. CASE UNCHANGED vars
  BY <1>12 DEF vars
<1>13. QED
  BY <1>2, <1>3, <1>4, <1>5, <1>6, <1>8, <1>9, <1>10, <1>11, <1>12, ActorsAreDistinct DEF Next

\* A task that was deleted never comes back, whatever loops, syncs, edits and stops were
\* under way with a copy of it: every one of their writes is an Update, and Update does not
\* insert; a restart brings back what is stored only.
THEOREM DeletedTasksStayDeleted == Spec => DeletedStaysDeleted
<1>1. IInv /\ [Next]_vars
        => [\A t \in Tasks : asked[t] # None /\ stored[t] = None => stored'[t] = None]_vars
  BY NothingIsInserted DEF GoneStaysGone
<1>2. QED
  BY <1>1, IInvHolds, PTL DEF Spec, DeletedStaysDeleted

-----------------------------------------------------------------------------
(* Without Overlap: what begins goes through before anything else begins.     *)
(* Loops that were cancelled end in the meantime, and a crash may still cut   *)
(* any operation short.                                                       *)

\* At work: not idle, not in a loop's select, not on its way out of it.
Resting == {"idle", "wait", "exit"}

Busy(a) == at[a].pc \notin Resting

OneBusy == \A a, b \in Actors : Busy(a) /\ Busy(b) => a = b

\* Places that are reached only while no cancelled loop is left over.
CleanPlaces == {"start", "stop", "edit", "edit_check", "token", "sync", "finish"}

\* What an actor at place l may rely on: st, ru, ca and as are the store, the map, the
\* cancelled loops and what was asked.
PlaceOK(l, st, ru, ca, as) ==
  /\ l.pc \in CleanPlaces => ca = {}
  /\ l.pc \in {"edit", "edit_check"} => l.op = "edit"
  /\ l.pc \in {"stop_store", "stop_all_store", "delete", "edit_get"} => ru[l.task] = None
  /\ l.pc = "stop" /\ l.op = "edit" => ru[l.task] # None
  /\ l.pc = "edit_get" /\ st[l.task] # None => st[l.task].status # "running"
  /\ l.pc = "start" => st[l.task] # None
  /\ l.pc \in {"token", "finish"} /\ st[l.task] # None => l.copy.status = st[l.task].status
  /\ l.pc = "edit" => (l.copy.status = "running" <=> ru[l.task] # None)
  /\ l.pc \in Copying \ {"edit", "wait"} => l.copy.cfg = as[l.task].cfg

PlacesOK == \A a \in Actors : PlaceOK(at[a], stored, running, cancelled, asked)

\* A cancelled loop does not sync any more, and its task has no entry before it is gone.
EndedLoops == \A l \in cancelled : at[l].pc \in {"wait", "exit"} /\ running[at[l].task] = None

\* A task with an entry is stored, and not as paused.
EntryIsStored ==
  \A t \in Tasks : running[t] # None => stored[t] # None /\ stored[t].status # "paused"

\* A task that is stored as running has an entry, or is being stopped.
RunningHasEntry ==
  \A t \in Tasks :
    stored[t] # None /\ stored[t].status = "running" /\ running[t] = None
      => \E p \in Procs : at[p].pc \in {"stop_store", "stop_all_store"} /\ at[p].task = t

\* An edit of t is stored and its loop is still to be stopped.
EditOn(t) ==
  \E p \in Procs : /\ at[p].pc = "edit_check" \/ (at[p].pc = "stop" /\ at[p].op = "edit")
                   /\ at[p].task = t

\* A waiting loop has the configuration last asked for, unless an edit is about to stop it.
WaitingIsCurrent ==
  \A l \in Loops :
    at[l].pc = "wait" /\ l \notin cancelled
      => at[l].copy.cfg = asked[at[l].task].cfg \/ EditOn(at[l].task)

SerialInv ==
  /\ OneBusy /\ PlacesOK /\ EndedLoops /\ OneLoop
  /\ EntryIsStored /\ RunningHasEntry /\ EditsAreKept /\ WaitingIsCurrent

FullInv == IInv /\ SerialInv

LEMMA SerialInit == Init => SerialInv
<1> SUFFICES ASSUME Init PROVE SerialInv
  OBVIOUS
<1>1. \A a \in Actors : at[a].pc = "idle" /\ at[a].task = None
  BY IdleShape DEF Init
<1>2. OneBusy /\ PlacesOK
  BY <1>1 DEF OneBusy, Busy, Resting, PlacesOK, PlaceOK, CleanPlaces, Copying
<1>3. EndedLoops /\ EntryIsStored /\ RunningHasEntry /\ EditsAreKept
  BY DEF Init, EndedLoops, EntryIsStored, RunningHasEntry, EditsAreKept
<1>4. OneLoop
  BY <1>1, ActorsAreDistinct, NoneIsNothing DEF OneLoop, LiveLoops
<1>5. WaitingIsCurrent
  BY <1>1, ActorsAreDistinct DEF WaitingIsCurrent
<1>6. QED
  BY <1>2, <1>3, <1>4, <1>5 DEF SerialInv

LEMMA RestingPlace ==
  ASSUME NEW l, l.pc \in Resting, NEW st, NEW ru, NEW ca, NEW as
  PROVE  PlaceOK(l, st, ru, ca, as)
BY DEF PlaceOK, Resting, CleanPlaces, Copying

\* All other actors rest.
Alone(a) == \A b \in Actors : b # a => ~Busy(b)

LEMMA BusyIsAlone == ASSUME OneBusy, NEW a \in Actors, Busy(a) PROVE Alone(a)
BY DEF OneBusy, Alone

LEMMA EntersAlone ==
  ASSUME ~Overlap, MayEnter
  PROVE  cancelled = {} /\ \A a \in Actors : ~Busy(a) /\ Alone(a)
BY DEF MayEnter, Alone, Busy, Resting

\* The places after a step of a, the only actor at work.
LEMMA AloneMoves ==
  ASSUME FullInv, NEW a \in Actors, Alone(a), NEW l, Moves(a, l),
         PlaceOK(l, stored', running', cancelled', asked')
  PROVE  OneBusy' /\ PlacesOK'
<1>1. at'[a] = l /\ \A b \in Actors : b # a => at'[b] = at[b]
  BY MovesTo DEF FullInv, IInv, TypeInv
<1>2. OneBusy'
  BY <1>1 DEF OneBusy, Alone, Busy
<1>3. \A b \in Actors : b # a => PlaceOK(at'[b], stored', running', cancelled', asked')
  BY <1>1, RestingPlace DEF Alone, Busy
<1>4. QED
  BY <1>1, <1>2, <1>3 DEF PlacesOK

\* While no handler is at work on a stop or an edit, neither excuses anything.
LEMMA NoExcuse ==
  ASSUME FullInv, NEW a \in Actors, Alone(a),
         a \in Procs => at[a].pc \notin {"stop_store", "stop_all_store", "edit_check", "stop"}
  PROVE  /\ \A t \in Tasks : stored[t] # None /\ stored[t].status = "running" => running[t] # None
         /\ \A l \in Loops : at[l].pc = "wait" /\ l \notin cancelled
                               => at[l].copy.cfg = asked[at[l].task].cfg
<1>1. \A p \in Procs : at[p].pc \notin {"stop_store", "stop_all_store", "edit_check", "stop"}
  BY ActorsAreDistinct DEF Alone, Busy, Resting
<1>2. QED
  BY <1>1 DEF FullInv, SerialInv, RunningHasEntry, WaitingIsCurrent, EditOn

\* A step of a handler that leaves the map alone: the loops stay as they are.
LEMMA SerialHandler ==
  ASSUME FullInv, NEW p \in Procs, Alone(p), NEW l, Moves(p, l),
         PlaceOK(l, stored', running', cancelled', asked'), UNCHANGED <<running, cancelled>>,
         EntryIsStored', RunningHasEntry', EditsAreKept', WaitingIsCurrent'
  PROVE  SerialInv'
<1>1. OneBusy' /\ PlacesOK'
  BY AloneMoves, ActorsAreDistinct
<1>2. \A k \in Loops : at'[k] = at[k]
  BY MovesTo, ActorsAreDistinct DEF FullInv, IInv, TypeInv
<1>3. cancelled \subseteq Loops
  BY DEF FullInv, IInv, TypeInv, ServerOK
<1>4. EndedLoops'
  BY <1>2, <1>3 DEF FullInv, SerialInv, EndedLoops
<1>5. OneLoop'
  BY <1>2 DEF FullInv, SerialInv, OneLoop, LiveLoops
<1>6. QED
  BY <1>1, <1>4, <1>5 DEF SerialInv

\* A task without an entry has no live loop.
LEMMA NoEntryNoLoop ==
  ASSUME OneLoop, NEW t \in Tasks, running[t] = None, NEW k \in Loops, k \notin cancelled
  PROVE  at[k].task # t
BY NoneIsNothing DEF OneLoop, LiveLoops

\* What is asked of every task keeps its configuration.
SameConfigs == \A t \in Tasks : asked[t] # None => asked'[t].cfg = asked[t].cfg

LEMMA StoredIsFine ==
  ASSUME FullInv, UNCHANGED <<stored, running>>, SameConfigs
  PROVE  EntryIsStored' /\ EditsAreKept'
<1>1. \A t \in Tasks : stored[t] # None => asked[t] # None
  BY DEF FullInv, IInv, TypeInv, StoreOK
<1>2. QED
  BY <1>1 DEF FullInv, SerialInv, EntryIsStored, EditsAreKept, SameConfigs

\* A step of a handler that writes nothing and stops nothing.
LEMMA SerialMove ==
  ASSUME FullInv, NEW p \in Procs, Alone(p), NEW l, Moves(p, l),
         PlaceOK(l, stored', running', cancelled', asked'),
         UNCHANGED <<stored, running, cancelled>>, SameConfigs,
         at[p].pc \notin {"stop_store", "stop_all_store"},
         at[p].pc = "edit_check" \/ (at[p].pc = "stop" /\ at[p].op = "edit") =>
           \/ l.pc = "stop" /\ l.op = "edit" /\ l.task = at[p].task
           \/ at[p].task \in Tasks /\ running[at[p].task] = None
  PROVE  SerialInv'
<1>1. at'[p] = l /\ \A k \in Actors : k # p => at'[k] = at[k]
  BY MovesTo, ActorsAreDistinct DEF FullInv, IInv, TypeInv
<1>2. EntryIsStored' /\ EditsAreKept'
  BY StoredIsFine
<1>3. RunningHasEntry'
  <2>1. \A q \in Procs : at[q].pc \notin {"stop_store", "stop_all_store"}
    BY ActorsAreDistinct DEF Alone, Busy, Resting
  <2>2. QED
    BY <2>1 DEF FullInv, SerialInv, RunningHasEntry
<1>4. WaitingIsCurrent'
  <2> SUFFICES ASSUME NEW k \in Loops, at[k].pc = "wait", k \notin cancelled
               PROVE  at[k].copy.cfg = asked'[at[k].task].cfg \/ EditOn(at[k].task)'
    BY <1>1, ActorsAreDistinct DEF WaitingIsCurrent, EditOn
  <2>1. at[k].task \in Tasks /\ asked[at[k].task] # None
    BY LoopAt DEF FullInv
  <2>2. CASE at[k].copy.cfg = asked[at[k].task].cfg
    BY <2>1, <2>2 DEF SameConfigs
  <2>3. CASE EditOn(at[k].task)
    <3>1. PICK q \in Procs : /\ at[q].pc = "edit_check" \/ (at[q].pc = "stop" /\ at[q].op = "edit")
                             /\ at[q].task = at[k].task
      BY <2>3 DEF EditOn
    <3>2. q = p
      BY <3>1, ActorsAreDistinct DEF Alone, Busy, Resting
    <3>3. running[at[k].task] # None
      BY <2>1, NoEntryNoLoop DEF FullInv, SerialInv
    <3>4. at'[k] = at[k]
      BY <1>1, ActorsAreDistinct
    <3>5. QED
      BY <1>1, <3>1, <3>2, <3>3, <3>4 DEF EditOn
  <2>4. QED
    BY <2>2, <2>3 DEF FullInv, SerialInv, WaitingIsCurrent
<1>5. QED
  BY <1>2, <1>3, <1>4, SerialHandler

\* A step of a handler that writes r as the record of its task t.
LEMMA SerialWrite ==
  ASSUME FullInv, NEW p \in Procs, Alone(p), NEW l, Moves(p, l),
         PlaceOK(l, stored', running', cancelled', asked'),
         NEW t \in Tasks, NEW r \in SyncTask, Update(t, r), UNCHANGED <<running, cancelled>>,
         at[p].task = t, at[p].pc \notin {"edit_check", "stop"},
         \A s \in Tasks : s # t => asked'[s] = asked[s],
         asked'[t].cfg = asked[t].cfg \/ (l.pc = "edit_check" /\ l.task = t),
         stored[t] # None =>
           /\ r.cfg = asked'[t].cfg
           /\ running[t] # None => r.status # "paused"
           /\ r.status = "running" => running[t] # None
  PROVE  SerialInv'
<1>1. at'[p] = l /\ \A k \in Actors : k # p => at'[k] = at[k]
  BY MovesTo, ActorsAreDistinct DEF FullInv, IInv, TypeInv
<1>2. \A s \in Tasks : stored'[s] = IF s = t /\ stored[s] # None THEN r ELSE stored[s]
  BY UpdateStore DEF FullInv, IInv, TypeInv
<1>3. r # None
  BY NoneIsNothing
<1>4. EntryIsStored'
  BY <1>2, <1>3 DEF FullInv, SerialInv, EntryIsStored
<1>5. EditsAreKept'
  BY <1>2 DEF FullInv, SerialInv, EditsAreKept
<1>6. RunningHasEntry'
  <2>1. \A q \in Procs : at[q].pc \in {"stop_store", "stop_all_store"} => at[q].task = t
    BY ActorsAreDistinct DEF Alone, Busy, Resting
  <2>2. \A s \in Tasks : stored'[s] # None /\ stored'[s].status = "running" => running[s] # None
    BY <1>2, <2>1 DEF FullInv, SerialInv, RunningHasEntry
  <2>3. QED
    BY <2>2 DEF RunningHasEntry
<1>7. WaitingIsCurrent'
  <2> SUFFICES ASSUME NEW k \in Loops, at[k].pc = "wait", k \notin cancelled
               PROVE  at[k].copy.cfg = asked'[at[k].task].cfg \/ EditOn(at[k].task)'
    BY <1>1, ActorsAreDistinct DEF WaitingIsCurrent, EditOn
  <2>1. at[k].task \in Tasks
    BY LoopAt DEF FullInv
  <2>2. \A q \in Procs : at[q].pc \notin {"edit_check", "stop"}
    BY ActorsAreDistinct DEF Alone, Busy, Resting
  <2>3. at[k].copy.cfg = asked[at[k].task].cfg
    BY <2>2 DEF FullInv, SerialInv, WaitingIsCurrent, EditOn
  <2>4. CASE l.pc = "edit_check" /\ l.task = t
    <3>1. at'[k] = at[k]
      BY <1>1, ActorsAreDistinct
    <3>2. CASE at[k].task = t
      BY <1>1, <2>4, <3>1, <3>2 DEF EditOn
    <3>3. CASE at[k].task # t
      BY <2>1, <2>3, <3>3
    <3>4. QED
      BY <3>2, <3>3
  <2>5. QED
    BY <2>1, <2>3, <2>4
<1>8. QED
  BY <1>4, <1>5, <1>6, <1>7, SerialHandler

\* A step of a handler that cancels the loop of t and takes its entry out of the map.
LEMMA SerialStops ==
  ASSUME FullInv, NEW p \in Procs, Alone(p), NEW l, Moves(p, l),
         PlaceOK(l, stored', running', cancelled', asked'),
         NEW t \in Tasks, running[t] # None, stored' = stored, SameConfigs,
         cancelled' = cancelled \cup {running[t]}, running' = [running EXCEPT ![t] = None],
         at[p].pc \in {"stop", "stop_all"}, at[p].pc = "stop" => at[p].task = t,
         l.pc \in {"stop_store", "stop_all_store"}, l.task = t
  PROVE  SerialInv'
<1>1. at'[p] = l /\ \A k \in Actors : k # p => at'[k] = at[k]
  BY MovesTo, ActorsAreDistinct DEF FullInv, IInv, TypeInv
<1>2. \A s \in Tasks : running'[s] = IF s = t THEN None ELSE running[s]
  BY DEF FullInv, IInv, TypeInv, ServerOK
<1>3. running[t] \in Loops /\ at[running[t]].op = "loop" /\ at[running[t]].task = t
  BY DEF FullInv, IInv, TypeInv, ServerOK, EntryIsLive
<1>4. cancelled \subseteq Loops
  BY DEF FullInv, IInv, TypeInv, ServerOK
<1>5. \A k \in Loops : at'[k] = at[k]
  BY <1>1, ActorsAreDistinct
<1>6. OneBusy' /\ PlacesOK'
  BY AloneMoves, ActorsAreDistinct
<1>7. EndedLoops'
  <2>1. at[running[t]].pc \in {"wait", "exit"}
    <3>1. ~Busy(running[t]) /\ at[running[t]].pc # "idle"
      BY <1>3, ActorsAreDistinct, IdleShape DEF Alone, FullInv, IInv, TypeInv, ActorsOK, LoopShape
    <3>2. QED
      BY <3>1 DEF Busy, Resting
  <2>2. \A k \in cancelled : at[k].task \in Tasks
    BY <1>4, LoopAt DEF FullInv, SerialInv, EndedLoops
  <2>3. QED
    BY <1>2, <1>3, <1>4, <1>5, <2>1, <2>2 DEF FullInv, SerialInv, EndedLoops
<1>8. OneLoop'
  BY <1>2, <1>5 DEF FullInv, SerialInv, OneLoop, LiveLoops
<1>9. EntryIsStored'
  BY <1>2 DEF FullInv, SerialInv, EntryIsStored
<1>10. RunningHasEntry'
  <2>1. \A q \in Procs : at[q].pc \notin {"stop_store", "stop_all_store"}
    BY ActorsAreDistinct DEF Alone, Busy, Resting
  <2>2. QED
    BY <1>1, <1>2, <2>1, ActorsAreDistinct DEF FullInv, SerialInv, RunningHasEntry
<1>11. EditsAreKept'
  <2>1. \A s \in Tasks : stored[s] # None => asked[s] # None
    BY DEF FullInv, IInv, TypeInv, StoreOK
  <2>2. QED
    BY <2>1 DEF FullInv, SerialInv, EditsAreKept, SameConfigs
<1>12. WaitingIsCurrent'
  <2> SUFFICES ASSUME NEW k \in Loops, at[k].pc = "wait", k \notin cancelled'
               PROVE  at[k].copy.cfg = asked'[at[k].task].cfg
    BY <1>5 DEF WaitingIsCurrent
  <2>1. at[k].task \in Tasks /\ asked[at[k].task] # None
    BY LoopAt DEF FullInv
  <2>2. at[k].task # t
    BY DEF FullInv, SerialInv, OneLoop, LiveLoops
  <2>3. ~EditOn(at[k].task)
    BY <2>2, ActorsAreDistinct DEF EditOn, Alone, Busy, Resting
  <2>4. at[k].copy.cfg = asked[at[k].task].cfg
    BY <2>3 DEF FullInv, SerialInv, WaitingIsCurrent
  <2>5. QED
    BY <2>1, <2>4 DEF SameConfigs
<1>13. QED
  BY <1>6, <1>7, <1>8, <1>9, <1>10, <1>11, <1>12 DEF SerialInv

\* What is known of the only actor at work.
LEMMA BusyFacts ==
  ASSUME FullInv, NEW a \in Actors, Busy(a)
  PROVE  Alone(a) /\ PlaceOK(at[a], stored, running, cancelled, asked)
BY BusyIsAlone DEF FullInv, SerialInv, PlacesOK

LEMMA IdlePlace ==
  ASSUME NEW st, NEW ru, NEW ca, NEW as
  PROVE  PlaceOK(Idle, st, ru, ca, as)
BY IdleShape DEF PlaceOK, CleanPlaces, Copying

\* Where StopTask returns to, once the task has no entry and is not stored as running.
LEMMA AfterStopPlace ==
  ASSUME IInv, NEW p \in Procs, at[p].pc \in {"stop", "stop_store"},
         NEW st, NEW ru, NEW ca, NEW as, ru[at[p].task] = None,
         st[at[p].task] # None => st[at[p].task].status # "running"
  PROVE  PlaceOK(AfterStop(at[p]), st, ru, ca, as)
<1>1. at[p] \in Local
  BY HandlerAt
<1>2. CASE at[p].op = "pause"
  BY <1>2, IdlePlace DEF AfterStop
<1>3. CASE at[p].op = "delete"
  <2> DEFINE l == [at[p] EXCEPT !.pc = "delete", !.copy = None]
  <2>1. AfterStop(at[p]) = l
    BY <1>3 DEF AfterStop
  <2>2. l.pc = "delete" /\ l.task = at[p].task
    BY <1>1 DEF Local
  <2> HIDE DEF l
  <2>3. QED
    BY <2>1, <2>2 DEF PlaceOK, CleanPlaces, Copying
<1>4. CASE at[p].op \notin {"pause", "delete"}
  <2> DEFINE l == [at[p] EXCEPT !.pc = "edit_get", !.copy = None]
  <2>1. AfterStop(at[p]) = l
    BY <1>4 DEF AfterStop
  <2>2. l.pc = "edit_get" /\ l.task = at[p].task
    BY <1>1 DEF Local
  <2> HIDE DEF l
  <2>3. QED
    BY <2>1, <2>2 DEF PlaceOK, CleanPlaces, Copying
<1>5. QED
  BY <1>2, <1>3, <1>4

-----------------------------------------------------------------------------
(* Requests that arrive.                                                      *)

LEMMA EnterSerial ==
  ASSUME FullInv, ~Overlap, NEW p \in Procs, NEW l, Enter(p, l),
         cancelled = {} => PlaceOK(l, stored, running, {}, asked)
  PROVE  SerialInv'
<1>1. Moves(p, l) /\ UNCHANGED <<stored, running, cancelled, mu, stopping, asked, restarts>>
  BY DEF Enter, Moves
<1>2. at[p].pc = "idle" /\ MayEnter
  BY DEF Enter
<1>3. cancelled = {} /\ Alone(p)
  BY <1>2, EntersAlone, ActorsAreDistinct
<1>4. PlaceOK(l, stored', running', cancelled', asked')
  BY <1>1, <1>3
<1>5. SameConfigs
  BY <1>1 DEF SameConfigs
<1>6. QED
  BY <1>1, <1>2, <1>3, <1>4, <1>5, SerialMove

\* A place with a copy of a record that is stored, one with a task to stop.
LEMMA CopiedPlace ==
  ASSUME NEW pc \in {"start", "sync", "token", "edit"}, NEW op, NEW t \in Tasks, NEW copy,
         stored[t] # None, pc = "edit" => op = "edit",
         pc = "edit" => (copy.status = "running" <=> running[t] # None),
         pc = "token" => copy.status = stored[t].status,
         pc # "edit" => copy.cfg = asked[t].cfg
  PROVE  PlaceOK(At(pc, op, t, copy), stored, running, {}, asked)
<1>1. /\ At(pc, op, t, copy).pc = pc /\ At(pc, op, t, copy).op = op
      /\ At(pc, op, t, copy).task = t /\ At(pc, op, t, copy).copy = copy
  BY DEF At
<1>2. QED
  BY <1>1 DEF PlaceOK, CleanPlaces, Copying

LEMMA StopPlace ==
  ASSUME NEW op \in {"pause", "delete"}, NEW t, NEW st, NEW ru, NEW as
  PROVE  PlaceOK(At("stop", op, t, None), st, ru, {}, as)
BY DEF At, PlaceOK, CleanPlaces, Copying

LEMMA RequestSerial ==
  ASSUME FullInv, ~Overlap, NEW p \in Procs, Request(p)
  PROVE  SerialInv'
<1>1. \A t \in Tasks : stored[t] # None => stored[t].cfg = asked[t].cfg
  BY DEF FullInv, SerialInv, EditsAreKept
<1>2. ASSUME NEW t \in Tasks, StartGet(p, t) PROVE SerialInv'
  BY <1>1, <1>2, CopiedPlace, EnterSerial DEF StartGet
<1>3. ASSUME NEW t \in Tasks, Pause(p, t) PROVE SerialInv'
  BY <1>3, StopPlace, EnterSerial DEF Pause
<1>4. ASSUME NEW t \in Tasks, DeleteStop(p, t) PROVE SerialInv'
  BY <1>4, StopPlace, EnterSerial DEF DeleteStop
<1>5. ASSUME NEW t \in Tasks, Trigger(p, t) PROVE SerialInv'
  BY <1>1, <1>5, CopiedPlace, EnterSerial DEF Trigger
<1>6. ASSUME NEW t \in Tasks, Apply(p, t) PROVE SerialInv'
  BY <1>1, <1>6, CopiedPlace, EnterSerial DEF Apply
<1>7. ASSUME NEW t \in Tasks, NEW c \in Configs, EditOpen(p, t, c) PROVE SerialInv'
  <2> DEFINE copy == [stored[t] EXCEPT !.cfg = c,
                        !.status = IF running[t] # None THEN "running" ELSE @]
  <2>1. stored[t] # None /\ stored[t] \in SyncTask
    BY <1>7, StoredIsAsked DEF EditOpen, FullInv
  <2>2. Enter(p, At("edit", "edit", t, copy))
    BY <1>7 DEF EditOpen, Enter
  <2>3. stored[t].status = "running" => running[t] # None
    <3>1. Alone(p) /\ at[p].pc = "idle"
      BY <2>2, EntersAlone, ActorsAreDistinct DEF Enter
    <3>2. QED
      BY <2>1, <3>1, NoExcuse, ActorsAreDistinct
  <2>4. copy.status = "running" <=> running[t] # None
    BY <2>1, <2>3 DEF SyncTask
  <2> HIDE DEF copy
  <2>5. QED
    BY <2>1, <2>2, <2>4, CopiedPlace, EnterSerial
<1>8. ASSUME NEW t \in Tasks, NEW token \in Tokens, TokenGet(p, t, token) PROVE SerialInv'
  <2> DEFINE copy == [stored[t] EXCEPT !.token = token]
  <2>1. stored[t] # None /\ stored[t] \in SyncTask
    BY <1>8, StoredIsAsked DEF TokenGet, FullInv
  <2>2. copy.status = stored[t].status /\ copy.cfg = asked[t].cfg
    BY <1>1, <2>1 DEF SyncTask
  <2>3. Enter(p, At("token", "token", t, copy))
    BY <1>8 DEF TokenGet
  <2> HIDE DEF copy
  <2>4. QED
    BY <2>1, <2>2, <2>3, CopiedPlace, EnterSerial
<1>9. QED
  BY <1>2, <1>3, <1>4, <1>5, <1>6, <1>7, <1>8 DEF Request

-----------------------------------------------------------------------------
(* Starting and stopping.                                                     *)

LEMMA StartRefusedSerial ==
  ASSUME FullInv, NEW p \in Procs, StartRefused(p)
  PROVE  SerialInv'
<1>1. /\ at[p].pc = "start" /\ Moves(p, Idle)
      /\ UNCHANGED <<stored, running, cancelled, mu, stopping, asked, restarts>>
  BY DEF StartRefused, Moves
<1>2. Alone(p) /\ SameConfigs
  BY <1>1, BusyFacts, ActorsAreDistinct DEF Busy, Resting, SameConfigs
<1>3. QED
  BY <1>1, <1>2, IdlePlace, SerialMove

LEMMA StopNotRunningSerial ==
  ASSUME FullInv, NEW p \in Procs, StopNotRunning(p)
  PROVE  SerialInv'
<1> DEFINE l == AfterStop(at[p])
           t == at[p].task
<1>1. /\ at[p].pc = "stop" /\ Moves(p, l) /\ StopAsked(at[p]) /\ running[t] = None
      /\ UNCHANGED <<stored, running, cancelled, mu, stopping, restarts>>
  BY DEF StopNotRunning, Moves
<1>2. t \in Tasks
  BY <1>1, HandlerAt DEF FullInv
<1>3. Alone(p)
  BY <1>1, BusyFacts, ActorsAreDistinct DEF Busy, Resting
<1>4. stored[t] # None => stored[t].status # "running"
  <2>1. ~\E q \in Procs : at[q].pc \in {"stop_store", "stop_all_store"}
    BY <1>1, <1>3, ActorsAreDistinct DEF Alone, Busy, Resting
  <2>2. QED
    BY <1>1, <1>2, <2>1 DEF FullInv, SerialInv, RunningHasEntry
<1>5. PlaceOK(l, stored', running', cancelled', asked')
  BY <1>1, <1>4, AfterStopPlace DEF FullInv
<1>6. SameConfigs
  BY <1>1 DEF StopAsked, SameConfigs, FullInv, IInv, TypeInv, StoreOK, Asked
<1> HIDE DEF l
<1>7. QED
  BY <1>1, <1>2, <1>3, <1>5, <1>6, SerialMove

\* The new loop is the only one of its task: no cancelled one is left, and without an entry
\* there was no other.
LEMMA StartTaskSerial ==
  ASSUME FullInv, NEW p \in Procs, StartTask(p)
  PROVE  SerialInv'
<1> DEFINE t == at[p].task
           task == [at[p].copy EXCEPT !.status = "running"]
           l == At("wait", "loop", t, task)
<1>1. /\ at[p].pc = "start" /\ running[t] = None
      /\ Update(t, task)
      /\ asked' = [asked EXCEPT ![t].run = TRUE]
      /\ UNCHANGED <<cancelled, mu, stopping, restarts>>
  BY DEF StartTask, Spawn
<1>2. PICK k \in FreeLoops :
        /\ running' = [running EXCEPT ![t] = k]
        /\ at' = [at EXCEPT ![p] = Idle, ![k] = l]
  BY DEF StartTask, Spawn
<1>3. t \in Tasks /\ asked[t] # None /\ at[p].copy \in SyncTask
  BY <1>1, HandlerAt DEF FullInv, Copying
<1>4. Alone(p) /\ PlaceOK(at[p], stored, running, cancelled, asked)
  BY <1>1, BusyFacts, ActorsAreDistinct DEF Busy, Resting
<1>5. cancelled = {} /\ stored[t] # None /\ at[p].copy.cfg = asked[t].cfg
  BY <1>1, <1>4 DEF PlaceOK, CleanPlaces, Copying
<1>6. task \in SyncTask /\ task.cfg = asked[t].cfg /\ task.status = "running"
  BY <1>3, <1>5 DEF SyncTask, Status
<1>7. k \in Loops
  BY DEF FreeLoops
<1>8. l.pc = "wait" /\ l.task = t /\ l.copy = task
  BY DEF At
<1> HIDE DEF task, l
<1>9. /\ at'[p] = Idle /\ at'[k] = l
      /\ \A b \in Actors : b # p /\ b # k => at'[b] = at[b]
  BY <1>2, <1>7, ActorsAreDistinct DEF FullInv, IInv, TypeInv, ActorsOK
<1>10. \A s \in Tasks : stored'[s] = IF s = t THEN task ELSE stored[s]
  BY <1>1, <1>3, <1>5, <1>6, UpdateStore DEF FullInv, IInv, TypeInv
<1>11. \A s \in Tasks : running'[s] = IF s = t THEN k ELSE running[s]
  BY <1>2, <1>3 DEF FullInv, IInv, TypeInv, ServerOK
<1>12. \A s \in Tasks : asked[s] # None => asked'[s].cfg = asked[s].cfg
  BY <1>1 DEF FullInv, IInv, TypeInv, StoreOK, Asked
<1>13. \A s \in Tasks : stored[s] # None => asked[s] # None
  BY DEF FullInv, IInv, TypeInv, StoreOK
<1>14. task # None /\ k # None
  BY <1>6, <1>7, NoneIsNothing
<1>15. /\ \A s \in Tasks : stored[s] # None /\ stored[s].status = "running" => running[s] # None
       /\ \A j \in Loops : at[j].pc = "wait" => at[j].copy.cfg = asked[at[j].task].cfg
  BY <1>1, <1>4, <1>5, NoExcuse, ActorsAreDistinct
<1>16. OneBusy' /\ PlacesOK'
  <2>1. \A b \in Actors : at'[b].pc \in Resting
    BY <1>4, <1>8, <1>9, IdleShape DEF Alone, Busy, Resting
  <2>2. PlacesOK'
    <3>1. \A b \in Actors : PlaceOK(at'[b], stored', running', cancelled', asked')
      BY <2>1, RestingPlace
    <3>2. QED
      BY <3>1 DEF PlacesOK
  <2>3. QED
    BY <2>1, <2>2 DEF OneBusy, Busy
<1>17. EndedLoops'
  BY <1>1, <1>5 DEF EndedLoops
<1>18. OneLoop'
  <2> SUFFICES ASSUME NEW s \in Tasks, NEW j \in Loops, at'[j].task = s
               PROVE  running'[s] = j
    BY DEF OneLoop, LiveLoops
  <2>1. CASE j = k
    BY <1>8, <1>9, <1>11, <2>1
  <2>2. CASE j # k
    <3>1. at[j].task = s
      BY <1>9, <2>2, ActorsAreDistinct
    <3>2. j \notin cancelled
      BY <1>5
    <3>3. s # t
      BY <1>1, <3>1, <3>2, NoEntryNoLoop DEF FullInv, SerialInv
    <3>4. QED
      BY <1>11, <3>1, <3>2, <3>3 DEF FullInv, SerialInv, OneLoop, LiveLoops
  <2>3. QED
    BY <2>1, <2>2
<1>19. EntryIsStored'
  BY <1>6, <1>10, <1>11, <1>14 DEF FullInv, SerialInv, EntryIsStored
<1>20. RunningHasEntry'
  BY <1>10, <1>11, <1>14, <1>15 DEF RunningHasEntry
<1>21. EditsAreKept'
  BY <1>3, <1>6, <1>10, <1>12, <1>13 DEF FullInv, SerialInv, EditsAreKept
<1>22. WaitingIsCurrent'
  <2> SUFFICES ASSUME NEW j \in Loops, at'[j].pc = "wait"
               PROVE  at'[j].copy.cfg = asked'[at'[j].task].cfg
    BY DEF WaitingIsCurrent
  <2>1. CASE j = k
    BY <1>3, <1>6, <1>8, <1>9, <1>12, <2>1
  <2>2. CASE j # k
    <3>1. at'[j] = at[j]
      BY <1>9, <2>2, ActorsAreDistinct
    <3>2. at[j].task \in Tasks /\ asked[at[j].task] # None
      BY <3>1, LoopAt DEF FullInv
    <3>3. QED
      BY <1>12, <1>15, <3>1, <3>2
  <2>3. QED
    BY <2>1, <2>2
<1>23. QED
  BY <1>16, <1>17, <1>18, <1>19, <1>20, <1>21, <1>22 DEF SerialInv

LEMMA StopRunningSerial ==
  ASSUME FullInv, NEW p \in Procs, StopRunning(p)
  PROVE  SerialInv'
<1> DEFINE t == at[p].task
           l == [at[p] EXCEPT !.pc = "stop_store", !.copy = stored[t]]
<1>1. /\ at[p].pc = "stop" /\ running[t] # None /\ StopAsked(at[p]) /\ StopGet(p)
      /\ cancelled' = cancelled \cup {running[t]}
      /\ running' = [running EXCEPT ![t] = None]
      /\ UNCHANGED <<stored, stopping, restarts>>
  BY DEF StopRunning
<1>2. t \in Tasks /\ at[p] \in Local
  BY <1>1, HandlerAt DEF FullInv
<1>3. Alone(p)
  BY <1>1, BusyFacts, ActorsAreDistinct DEF Busy, Resting
<1>4. stored[t] # None /\ asked[t] # None /\ stored[t].cfg = asked[t].cfg
  BY <1>1, <1>2 DEF FullInv, SerialInv, EntryIsStored, EditsAreKept, IInv, TypeInv, StoreOK
<1>5. Moves(p, l)
  BY <1>1, <1>4 DEF StopGet, Moves
<1>6. SameConfigs
  BY <1>1 DEF StopAsked, SameConfigs, FullInv, IInv, TypeInv, StoreOK, Asked
<1>7. l.pc = "stop_store" /\ l.task = t /\ l.copy = stored[t]
  BY <1>2 DEF Local
<1>8. running'[t] = None
  BY <1>1, <1>2 DEF FullInv, IInv, TypeInv, ServerOK
<1> HIDE DEF l
<1>9. PlaceOK(l, stored', running', cancelled', asked')
  BY <1>1, <1>2, <1>4, <1>6, <1>7, <1>8 DEF PlaceOK, CleanPlaces, Copying, SameConfigs
<1>10. QED
  BY <1>1, <1>2, <1>3, <1>5, <1>6, <1>7, <1>9, SerialStops

LEMMA StopStoreSerial ==
  ASSUME FullInv, NEW p \in Procs, StopStore(p)
  PROVE  SerialInv'
<1> DEFINE l == AfterStop(at[p])
           t == at[p].task
           r == [at[p].copy EXCEPT !.status = "paused"]
<1>1. /\ at[p].pc = "stop_store" /\ Moves(p, l) /\ Update(t, r)
      /\ UNCHANGED <<running, cancelled, stopping, asked, restarts>>
  BY DEF StopStore, Moves
<1>2. t \in Tasks /\ at[p].copy \in SyncTask
  BY <1>1, HandlerAt DEF FullInv, Copying
<1>3. Alone(p) /\ PlaceOK(at[p], stored, running, cancelled, asked)
  BY <1>1, BusyFacts, ActorsAreDistinct DEF Busy, Resting
<1>4. running[t] = None /\ at[p].copy.cfg = asked[t].cfg
  BY <1>1, <1>3 DEF PlaceOK, Copying
<1>5. r \in SyncTask /\ r.cfg = asked[t].cfg /\ r.status = "paused"
  BY <1>2, <1>4 DEF SyncTask, Status
<1> HIDE DEF r
<1>6. stored'[t] # None => stored'[t].status # "running"
  BY <1>1, <1>2, <1>5, UpdateStore DEF FullInv, IInv, TypeInv
<1>7. PlaceOK(l, stored', running', cancelled', asked')
  BY <1>1, <1>4, <1>6, AfterStopPlace DEF FullInv
<1> HIDE DEF l
<1>8. QED
  BY <1>1, <1>2, <1>3, <1>4, <1>5, <1>7, SerialWrite

LEMMA DeleteSerial ==
  ASSUME FullInv, NEW p \in Procs, Delete(p)
  PROVE  SerialInv'
<1> DEFINE t == at[p].task
<1>1. /\ at[p].pc = "delete" /\ Moves(p, Idle) /\ stored' = [stored EXCEPT ![t] = None]
      /\ UNCHANGED <<running, cancelled, mu, stopping, asked, restarts>>
  BY DEF Delete, Moves
<1>2. Alone(p) /\ PlaceOK(at[p], stored, running, cancelled, asked)
  BY <1>1, BusyFacts, ActorsAreDistinct DEF Busy, Resting
<1>3. running[t] = None /\ t \in Tasks
  BY <1>1, <1>2, HandlerAt DEF PlaceOK, FullInv
<1>4. \A s \in Tasks : stored'[s] = IF s = t THEN None ELSE stored[s]
  BY <1>1 DEF FullInv, IInv, TypeInv, StoreOK
<1>5. /\ \A s \in Tasks : stored[s] # None /\ stored[s].status = "running" => running[s] # None
      /\ \A k \in Loops : at[k].pc = "wait" /\ k \notin cancelled
                            => at[k].copy.cfg = asked[at[k].task].cfg
  BY <1>1, <1>2, NoExcuse, ActorsAreDistinct
<1>6. \A k \in Loops : at'[k] = at[k]
  BY <1>1, MovesTo, ActorsAreDistinct DEF FullInv, IInv, TypeInv
<1>7. EntryIsStored' /\ RunningHasEntry'
  BY <1>1, <1>3, <1>4, <1>5 DEF FullInv, SerialInv, EntryIsStored, RunningHasEntry
<1>8. EditsAreKept' /\ WaitingIsCurrent'
  BY <1>1, <1>4, <1>5, <1>6 DEF FullInv, SerialInv, EditsAreKept, WaitingIsCurrent
<1>9. QED
  BY <1>1, <1>2, <1>7, <1>8, IdlePlace, SerialHandler

-----------------------------------------------------------------------------
(* Editing.                                                                   *)

LEMMA EditStoreSerial ==
  ASSUME FullInv, NEW p \in Procs, EditStore(p)
  PROVE  SerialInv'
<1> DEFINE t == at[p].task
           r == at[p].copy
<1>1. /\ at[p].pc = "edit" /\ Update(t, r) /\ UNCHANGED <<running, cancelled>>
  BY DEF EditStore
<1>2. t \in Tasks /\ r \in SyncTask /\ at[p] \in Local /\ asked[t] # None
  BY <1>1, HandlerAt DEF FullInv, Copying
<1>3. Alone(p) /\ PlaceOK(at[p], stored, running, cancelled, asked)
  BY <1>1, BusyFacts, ActorsAreDistinct DEF Busy, Resting
<1>4. cancelled = {} /\ at[p].op = "edit" /\ (r.status = "running" <=> running[t] # None)
  BY <1>1, <1>3 DEF PlaceOK, CleanPlaces
<1>5. CASE stored[t] = None
  <2>1. Moves(p, Idle) /\ asked' = asked
    BY <1>5 DEF EditStore, Moves
  <2>2. QED
    BY <1>1, <1>2, <1>3, <1>5, <2>1, IdlePlace, SerialWrite
<1>6. CASE stored[t] # None
  <2> DEFINE l == [at[p] EXCEPT !.pc = "edit_check", !.copy = None]
  <2>1. Moves(p, l) /\ asked' = [asked EXCEPT ![t].cfg = r.cfg]
    BY <1>6 DEF EditStore, Moves
  <2>2. l.pc = "edit_check" /\ l.task = t /\ l.op = "edit"
    BY <1>2, <1>4 DEF Local
  <2>3. asked'[t].cfg = r.cfg /\ \A s \in Tasks : s # t => asked'[s] = asked[s]
    <3>1. asked[t] \in Asked /\ asked \in [Tasks -> Asked \cup {None}]
      BY <1>2 DEF FullInv, IInv, TypeInv, StoreOK
    <3>2. QED
      BY <1>2, <2>1, <3>1 DEF Asked
  <2> HIDE DEF l
  <2>4. PlaceOK(l, stored', running', cancelled', asked')
    BY <1>1, <1>4, <2>2 DEF PlaceOK, CleanPlaces, Copying
  <2>5. /\ r.cfg = asked'[t].cfg
        /\ running[t] # None => r.status # "paused"
        /\ r.status = "running" => running[t] # None
    BY <1>4, <2>3
  <2>6. at[p].task = t /\ at[p].pc \notin {"edit_check", "stop"}
    BY <1>1
  <2> HIDE DEF t, r
  <2>7. QED
    BY <1>1, <1>2, <1>3, <2>1, <2>2, <2>3, <2>4, <2>5, <2>6, SerialWrite
<1>7. QED
  BY <1>5, <1>6

LEMMA EditCheckSerial ==
  ASSUME FullInv, NEW p \in Procs, EditCheck(p)
  PROVE  SerialInv'
<1> DEFINE t == at[p].task
           l == [at[p] EXCEPT !.pc = "stop"]
<1>1. /\ at[p].pc = "edit_check"
      /\ UNCHANGED <<stored, running, cancelled, mu, stopping, asked, restarts>>
  BY DEF EditCheck
<1>2. at[p] \in Local /\ t \in Tasks
  BY <1>1, HandlerAt DEF FullInv
<1>3. Alone(p) /\ PlaceOK(at[p], stored, running, cancelled, asked)
  BY <1>1, BusyFacts, ActorsAreDistinct DEF Busy, Resting
<1>4. cancelled = {} /\ at[p].op = "edit"
  BY <1>1, <1>3 DEF PlaceOK, CleanPlaces
<1>5. SameConfigs
  BY <1>1 DEF SameConfigs
<1>6. at' = [at EXCEPT ![p] = IF running[at[p].task] # None THEN [at[p] EXCEPT !.pc = "stop"]
                                                            ELSE Idle]
  BY DEF EditCheck
<1>7. CASE running[t] = None
  <2>1. Moves(p, Idle)
    BY <1>6, <1>7 DEF Moves
  <2>2. QED
    BY <1>1, <1>2, <1>3, <1>5, <1>7, <2>1, IdlePlace, SerialMove
<1>8. CASE running[t] # None
  <2>1. Moves(p, l)
    BY <1>6, <1>8 DEF Moves
  <2>2. l.pc = "stop" /\ l.op = "edit" /\ l.task = t
    BY <1>2, <1>4 DEF Local
  <2> HIDE DEF l
  <2>3. PlaceOK(l, stored', running', cancelled', asked')
    BY <1>1, <1>4, <1>8, <2>2 DEF PlaceOK, CleanPlaces, Copying
  <2>4. QED
    BY <1>1, <1>3, <1>5, <2>1, <2>2, <2>3, SerialMove
<1>9. QED
  BY <1>7, <1>8

\* The stop of the edit has stored "paused", so that the task is not started again.
LEMMA EditGetSerial ==
  ASSUME FullInv, NEW p \in Procs, EditGet(p)
  PROVE  SerialInv'
<1>1. /\ at[p].pc = "edit_get"
      /\ UNCHANGED <<stored, running, cancelled, mu, stopping, asked, restarts>>
  BY DEF EditGet
<1>2. Alone(p) /\ PlaceOK(at[p], stored, running, cancelled, asked)
  BY <1>1, BusyFacts, ActorsAreDistinct DEF Busy, Resting
<1>3. ~(stored[at[p].task] # None /\ stored[at[p].task].status = "running")
  BY <1>1, <1>2 DEF PlaceOK
<1>4. Moves(p, Idle) /\ SameConfigs
  BY <1>1, <1>3 DEF EditGet, Moves, SameConfigs
<1>5. QED
  BY <1>1, <1>2, <1>4, IdlePlace, SerialMove

LEMMA TokenStoreSerial ==
  ASSUME FullInv, NEW p \in Procs, TokenStore(p)
  PROVE  SerialInv'
<1> DEFINE t == at[p].task
           r == at[p].copy
<1>1. /\ at[p].pc = "token" /\ Update(t, r) /\ Moves(p, Idle)
      /\ UNCHANGED <<running, cancelled, mu, stopping, restarts>>
  BY DEF TokenStore, Moves
<1>2. t \in Tasks /\ r \in SyncTask /\ asked[t] # None
  BY <1>1, HandlerAt DEF FullInv, Copying
<1>3. Alone(p) /\ PlaceOK(at[p], stored, running, cancelled, asked)
  BY <1>1, BusyFacts, ActorsAreDistinct DEF Busy, Resting
<1>4. r.cfg = asked[t].cfg /\ (stored[t] # None => r.status = stored[t].status)
  BY <1>1, <1>3 DEF PlaceOK, Copying
<1>5. asked'[t].cfg = asked[t].cfg /\ \A s \in Tasks : s # t => asked'[s] = asked[s]
  <2>1. asked[t] \in Asked /\ asked \in [Tasks -> Asked \cup {None}]
    BY <1>2 DEF FullInv, IInv, TypeInv, StoreOK
  <2>2. asked' = asked \/ asked' = [asked EXCEPT ![t].token = r.token]
    BY DEF TokenStore
  <2>3. QED
    BY <1>2, <2>1, <2>2 DEF Asked
<1>6. /\ running[t] # None /\ stored[t] # None => stored[t].status # "paused"
      /\ stored[t] # None /\ stored[t].status = "running" => running[t] # None
  BY <1>1, <1>2, <1>3, NoExcuse, ActorsAreDistinct DEF FullInv, SerialInv, EntryIsStored
<1>7. QED
  BY <1>1, <1>2, <1>3, <1>4, <1>5, <1>6, IdlePlace, SerialWrite

-----------------------------------------------------------------------------
(* Syncing.                                                                   *)

\* A step of a loop while no cancelled loop is left and no other actor is at work.
LEMMA SerialLoop ==
  ASSUME FullInv, NEW k \in Loops, Alone(k), cancelled = {}, NEW l, Moves(k, l),
         l.task = at[k].task, PlaceOK(l, stored', running', cancelled', asked'),
         l.pc = "wait" => l.copy.cfg = asked[l.task].cfg,
         at[k].pc \in {"wait", "sync", "finish"},
         UNCHANGED <<running, cancelled, asked>>,
         EntryIsStored', RunningHasEntry', EditsAreKept'
  PROVE  SerialInv'
<1>1. at'[k] = l /\ \A b \in Actors : b # k => at'[b] = at[b]
  BY MovesTo, ActorsAreDistinct DEF FullInv, IInv, TypeInv
<1>2. OneBusy' /\ PlacesOK'
  BY AloneMoves, ActorsAreDistinct
<1>3. EndedLoops'
  BY DEF EndedLoops
<1>4. OneLoop'
  <2>1. \A j \in Loops : at'[j].task = at[j].task
    BY <1>1, ActorsAreDistinct
  <2>2. QED
    BY <2>1 DEF FullInv, SerialInv, OneLoop, LiveLoops
<1>5. WaitingIsCurrent'
  <2>1. \A j \in Loops : at[j].pc = "wait" => at[j].copy.cfg = asked[at[j].task].cfg \/ EditOn(at[j].task)
    BY DEF FullInv, SerialInv, WaitingIsCurrent
  <2> SUFFICES ASSUME NEW j \in Loops, at'[j].pc = "wait"
               PROVE  at'[j].copy.cfg = asked[at'[j].task].cfg \/ EditOn(at[j].task)'
    BY <1>1, ActorsAreDistinct DEF WaitingIsCurrent, EditOn
  <2>3. CASE j = k
    BY <1>1, <2>3
  <2>4. CASE j # k
    <3>1. at'[j] = at[j]
      BY <1>1, <2>4, ActorsAreDistinct
    <3>2. CASE at[j].copy.cfg = asked[at[j].task].cfg
      BY <3>1, <3>2
    <3>3. CASE EditOn(at[j].task)
      BY <1>1, <3>1, <3>3, ActorsAreDistinct DEF EditOn
    <3>4. QED
      BY <2>1, <3>1, <3>2, <3>3
  <2>5. QED
    BY <2>3, <2>4
<1>6. QED
  BY <1>2, <1>3, <1>4, <1>5 DEF SerialInv

\* The record that ends a sync has the configuration asked for, and a status that fits.
LEMMA WrittenIsFine ==
  ASSUME FullInv, NEW a \in Actors, Alone(a), at[a].pc \in {"sync", "finish"},
         NEW t \in Tasks, NEW r \in SyncTask, Update(t, r), UNCHANGED <<running, asked>>,
         r.cfg = asked[t].cfg,
         stored[t] # None => \/ r.status = "error"
                             \/ r.status = stored[t].status
  PROVE  EntryIsStored' /\ RunningHasEntry' /\ EditsAreKept'
<1>1. \A s \in Tasks : stored'[s] = IF s = t /\ stored[s] # None THEN r ELSE stored[s]
  BY UpdateStore DEF FullInv, IInv, TypeInv
<1>2. r # None
  BY NoneIsNothing
<1>3. \A s \in Tasks : stored[s] # None /\ stored[s].status = "running" => running[s] # None
  BY NoExcuse
<1>4. EntryIsStored' /\ RunningHasEntry'
  BY <1>1, <1>2, <1>3 DEF FullInv, SerialInv, EntryIsStored, RunningHasEntry
<1>5. EditsAreKept'
  BY <1>1 DEF FullInv, SerialInv, EditsAreKept
<1>6. QED
  BY <1>4, <1>5

LEMMA SyncEndsSerial ==
  ASSUME FullInv, NEW a \in Actors, at[a].pc \in {"sync", "finish"}, NEW r \in SyncTask,
         Update(at[a].task, r), Moves(a, Return([at[a] EXCEPT !.copy = r])),
         r.cfg = at[a].copy.cfg,
         stored[at[a].task] # None => \/ r.status = "error"
                                      \/ r.status = stored[at[a].task].status,
         UNCHANGED <<running, cancelled, mu, stopping, asked, restarts>>
  PROVE  SerialInv'
<1> DEFINE l == [at[a] EXCEPT !.copy = r]
           t == at[a].task
<1>1. /\ at[a] \in Local /\ t \in Tasks /\ asked[t] # None
      /\ (a \in Procs <=> at[a].op # "loop")
  BY HandlerAt, LoopAt, ActorsAreDistinct DEF FullInv
<1>2. l \in Local /\ l.copy = r /\ l.op = at[a].op /\ l.task = t
  BY <1>1 DEF Local
<1>3. Moves(a, Return(l))
  OBVIOUS
<1>4. Alone(a) /\ PlaceOK(at[a], stored, running, cancelled, asked)
  BY BusyFacts DEF Busy, Resting
<1>5. cancelled = {} /\ r.cfg = asked[t].cfg
  BY <1>4 DEF PlaceOK, CleanPlaces, Copying
<1> HIDE DEF l
<1>6. EntryIsStored' /\ RunningHasEntry' /\ EditsAreKept'
  BY <1>1, <1>4, <1>5, WrittenIsFine
<1>7. CASE a \in Procs
  <2>1. Moves(a, Idle)
    BY <1>1, <1>2, <1>3, <1>7, ReturnShape
  <2>2. \A k \in Loops : at'[k] = at[k]
    BY <1>7, <2>1, MovesTo, ActorsAreDistinct DEF FullInv, IInv, TypeInv
  <2>3. \A k \in Loops : at[k].pc = "wait" /\ k \notin cancelled
                           => at[k].copy.cfg = asked[at[k].task].cfg
    BY <1>4, NoExcuse
  <2>4. WaitingIsCurrent'
    BY <2>2, <2>3 DEF WaitingIsCurrent
  <2>5. QED
    BY <1>4, <1>6, <1>7, <2>1, <2>4, IdlePlace, SerialHandler
<1>8. CASE a \in Loops
  <2>1. at[a].op = "loop"
    BY <1>1, <1>8, ActorsAreDistinct
  <2>2. /\ Return(l).task = t /\ Return(l).pc = "wait" /\ Return(l).copy = r
    BY <1>2, <2>1, ReturnShape
  <2>3. PlaceOK(Return(l), stored', running', cancelled', asked')
    BY <2>2, RestingPlace DEF Resting
  <2>4. QED
    BY <1>3, <1>4, <1>5, <1>6, <1>8, <2>2, <2>3, SerialLoop
<1>9. QED
  BY <1>7, <1>8, ActorsAreDistinct

LEMMA FinishGetSerial ==
  ASSUME FullInv, NEW a \in Actors, FinishGet(a)
  PROVE  SerialInv'
<1> DEFINE t == at[a].task
           status == IF stored[t] = None THEN at[a].copy.status ELSE stored[t].status
           l == [at[a] EXCEPT !.pc = "finish", !.copy.status = status]
<1>1. /\ at[a].pc = "sync" /\ Moves(a, l)
      /\ UNCHANGED <<stored, running, cancelled, mu, stopping, asked, restarts>>
  BY DEF FinishGet, Moves
<1>2. at[a] \in Local /\ t \in Tasks /\ at[a].copy \in SyncTask
  BY <1>1, HandlerAt, LoopAt, ActorsAreDistinct DEF Copying, FullInv
<1>3. Alone(a) /\ PlaceOK(at[a], stored, running, cancelled, asked)
  BY <1>1, BusyFacts DEF Busy, Resting
<1>4. cancelled = {} /\ at[a].copy.cfg = asked[t].cfg
  BY <1>1, <1>3 DEF PlaceOK, CleanPlaces, Copying
<1>5. /\ l.pc = "finish" /\ l.task = t /\ l.copy.cfg = at[a].copy.cfg
      /\ l.copy.status = status
  BY <1>2 DEF Local, SyncTask
<1>6. stored[t] # None => status = stored[t].status
  OBVIOUS
<1> HIDE DEF l, status
<1>7. PlaceOK(l, stored', running', cancelled', asked')
  BY <1>1, <1>4, <1>5, <1>6 DEF PlaceOK, CleanPlaces, Copying
<1>8. SameConfigs
  BY <1>1 DEF SameConfigs
<1>9. CASE a \in Procs
  BY <1>1, <1>3, <1>7, <1>8, <1>9, SerialMove
<1>10. CASE a \in Loops
  <2>1. EntryIsStored' /\ EditsAreKept'
    BY <1>1, <1>8, StoredIsFine
  <2>2. RunningHasEntry'
    <3>1. \A s \in Tasks : stored[s] # None /\ stored[s].status = "running" => running[s] # None
      BY <1>1, <1>3, NoExcuse
    <3>2. QED
      BY <1>1, <3>1 DEF RunningHasEntry
  <2>3. QED
    BY <1>1, <1>3, <1>4, <1>5, <1>7, <1>10, <2>1, <2>2, SerialLoop
<1>11. QED
  BY <1>9, <1>10, ActorsAreDistinct

LEMMA ProceedSerial ==
  ASSUME FullInv, NEW a \in Actors, Proceed(a)
  PROVE  SerialInv'
<1>1. CASE FinishGet(a)
  BY <1>1, FinishGetSerial
<1>2. ASSUME at[a].pc \in {"sync", "finish"} PROVE at[a] \in Local /\ at[a].copy \in SyncTask
  BY <1>2, HandlerAt, LoopAt, ActorsAreDistinct DEF Copying, FullInv
<1>3. CASE FinishStore(a)
  <2>1. /\ at[a].pc = "finish" /\ Update(at[a].task, at[a].copy) /\ Moves(a, Return(at[a]))
        /\ UNCHANGED <<running, cancelled, mu, stopping, asked, restarts>>
    BY <1>3 DEF FinishStore, Moves
  <2>2. at[a] = [at[a] EXCEPT !.copy = at[a].copy]
    BY <1>2, <2>1 DEF Local
  <2>3. stored[at[a].task] # None => at[a].copy.status = stored[at[a].task].status
    BY <2>1, BusyFacts DEF PlaceOK, Busy, Resting
  <2>4. QED
    BY <1>2, <2>1, <2>2, <2>3, SyncEndsSerial
<1>4. CASE SyncError(a)
  <2> DEFINE failed == [at[a].copy EXCEPT !.status = "error"]
  <2>1. /\ at[a].pc = "sync" /\ Update(at[a].task, failed)
        /\ Moves(a, Return([at[a] EXCEPT !.copy = failed]))
        /\ UNCHANGED <<running, cancelled, mu, stopping, asked, restarts>>
    BY <1>4 DEF SyncError, Moves
  <2>2. failed \in SyncTask /\ failed.status = "error" /\ failed.cfg = at[a].copy.cfg
    BY <1>2, <2>1 DEF SyncTask, Status
  <2> HIDE DEF failed
  <2>3. QED
    BY <2>1, <2>2, SyncEndsSerial
<1>5. QED
  BY <1>1, <1>3, <1>4 DEF Proceed

\* A tick counts only when nothing else is under way: the loop's copy is current.
LEMMA LoopTickSerial ==
  ASSUME FullInv, ~Overlap, NEW k \in Loops, LoopTick(k)
  PROVE  SerialInv'
<1> DEFINE l == [at[k] EXCEPT !.pc = "sync"]
<1>1. /\ at[k].pc = "wait" /\ MayEnter /\ Moves(k, l)
      /\ UNCHANGED <<stored, running, cancelled, mu, stopping, asked, restarts>>
  BY DEF LoopTick, Moves
<1>2. cancelled = {} /\ Alone(k)
  BY <1>1, EntersAlone, ActorsAreDistinct
<1>3. at[k] \in Local
  BY <1>1, LoopAt DEF FullInv
<1>4. /\ \A s \in Tasks : stored[s] # None /\ stored[s].status = "running" => running[s] # None
      /\ at[k].copy.cfg = asked[at[k].task].cfg
  BY <1>1, <1>2, NoExcuse, ActorsAreDistinct
<1>5. l.pc = "sync" /\ l.task = at[k].task /\ l.copy = at[k].copy
  BY <1>3 DEF Local
<1> HIDE DEF l
<1>6. PlaceOK(l, stored', running', cancelled', asked')
  BY <1>1, <1>2, <1>4, <1>5 DEF PlaceOK, CleanPlaces, Copying
<1>7. SameConfigs
  BY <1>1 DEF SameConfigs
<1>8. EntryIsStored' /\ EditsAreKept'
  BY <1>1, <1>7, StoredIsFine
<1>9. RunningHasEntry'
  BY <1>1, <1>4 DEF RunningHasEntry
<1>10. QED
  BY <1>1, <1>2, <1>5, <1>6, <1>8, <1>9, SerialLoop

\* A cancelled loop leaves its select, whoever else is at work.
LEMMA LoopDoneSerial ==
  ASSUME FullInv, NEW k \in Loops, LoopDone(k)
  PROVE  SerialInv'
<1> DEFINE l == [at[k] EXCEPT !.pc = "exit"]
<1>1. /\ at[k].pc = "wait" /\ k \in cancelled /\ Moves(k, l)
      /\ UNCHANGED <<stored, running, cancelled, mu, stopping, asked, restarts>>
  BY DEF LoopDone, Moves
<1>2. l.pc = "exit" /\ l.task = at[k].task
  BY <1>1, LoopAt DEF FullInv, Local
<1> HIDE DEF l
<1>3. at'[k] = l /\ \A b \in Actors : b # k => at'[b] = at[b]
  BY <1>1, MovesTo, ActorsAreDistinct DEF FullInv, IInv, TypeInv
<1>4. \A p \in Procs : at'[p] = at[p]
  BY <1>3, ActorsAreDistinct
<1>5. \A j \in Loops : at'[j].task = at[j].task /\ (j # k => at'[j] = at[j])
  BY <1>2, <1>3, ActorsAreDistinct
<1>6. OneBusy'
  BY <1>2, <1>3 DEF FullInv, SerialInv, OneBusy, Busy, Resting
<1>7. PlacesOK'
  <2>1. PlaceOK(l, stored', running', cancelled', asked')
    BY <1>2, RestingPlace DEF Resting
  <2>2. \A b \in Actors : b # k => PlaceOK(at'[b], stored', running', cancelled', asked')
    BY <1>1, <1>3 DEF FullInv, SerialInv, PlacesOK
  <2>3. QED
    BY <1>3, <2>1, <2>2 DEF PlacesOK
<1>8. EndedLoops'
  <2>1. cancelled \subseteq Loops
    BY DEF FullInv, IInv, TypeInv, ServerOK
  <2>2. QED
    BY <1>1, <1>2, <1>3, <1>5, <2>1 DEF FullInv, SerialInv, EndedLoops
<1>9. OneLoop'
  BY <1>1, <1>5 DEF FullInv, SerialInv, OneLoop, LiveLoops
<1>10. EntryIsStored' /\ EditsAreKept'
  BY <1>1 DEF FullInv, SerialInv, EntryIsStored, EditsAreKept
<1>11. RunningHasEntry'
  BY <1>1, <1>4 DEF FullInv, SerialInv, RunningHasEntry
<1>12. WaitingIsCurrent'
  BY <1>1, <1>4, <1>5 DEF FullInv, SerialInv, WaitingIsCurrent, EditOn
<1>13. QED
  BY <1>6, <1>7, <1>8, <1>9, <1>10, <1>11, <1>12 DEF SerialInv

\* A cancelled loop ends.  The entry it deletes is gone already: nobody has started its
\* task again in the meantime.
LEMMA LoopExitSerial ==
  ASSUME FullInv, NEW k \in Loops, LoopExit(k)
  PROVE  SerialInv'
<1> DEFINE t == at[k].task
<1>1. /\ at[k].pc = "exit" /\ Moves(k, Idle)
      /\ running' = [running EXCEPT ![t] = None] /\ cancelled' = cancelled \ {k}
      /\ UNCHANGED <<stored, mu, stopping, asked, restarts>>
  BY DEF LoopExit, Moves
<1>2. at'[k] = Idle /\ \A b \in Actors : b # k => at'[b] = at[b]
  BY <1>1, MovesTo, ActorsAreDistinct DEF FullInv, IInv, TypeInv
<1>3. k \in cancelled /\ running[t] = None /\ t \in Tasks
  BY <1>1, LoopAt DEF FullInv, SerialInv, EndedLoops, IInv, TypeInv, CancelledOK
<1>4. running' = running
  BY <1>1, <1>3 DEF FullInv, IInv, TypeInv, ServerOK
<1>5. \A p \in Procs : at'[p] = at[p]
  BY <1>2, ActorsAreDistinct
<1>6. \A j \in Loops : j # k => at'[j] = at[j]
  BY <1>2, ActorsAreDistinct
<1>7. OneBusy'
  BY <1>2, IdleShape DEF FullInv, SerialInv, OneBusy, Busy, Resting
<1>8. PlacesOK'
  <2>1. \A b \in Actors : PlaceOK(at[b], stored, running, cancelled, asked)
    BY DEF FullInv, SerialInv, PlacesOK
  <2>2. \A b \in Actors : PlaceOK(at[b], stored, running, cancelled', asked)
    BY <1>3, <2>1 DEF PlaceOK
  <2>3. \A b \in Actors : PlaceOK(at'[b], stored, running, cancelled', asked)
    BY <1>2, <2>2, IdlePlace
  <2>4. QED
    BY <1>1, <1>4, <2>3 DEF PlacesOK
<1>9. EndedLoops'
  <2>1. cancelled \subseteq Loops
    BY DEF FullInv, IInv, TypeInv, ServerOK
  <2>2. QED
    BY <1>1, <1>4, <1>6, <2>1 DEF FullInv, SerialInv, EndedLoops
<1>10. OneLoop'
  <2> SUFFICES ASSUME NEW s \in Tasks, NEW j \in Loops, j \notin cancelled', at'[j].task = s
               PROVE  running[s] = j
    BY <1>4 DEF OneLoop, LiveLoops
  <2>1. j # k
    BY <1>2, IdleShape, NoneIsNothing
  <2>2. QED
    BY <1>1, <1>6, <2>1 DEF FullInv, SerialInv, OneLoop, LiveLoops
<1>11. EntryIsStored' /\ EditsAreKept'
  BY <1>1, <1>4 DEF FullInv, SerialInv, EntryIsStored, EditsAreKept
<1>12. RunningHasEntry'
  BY <1>1, <1>4, <1>5 DEF FullInv, SerialInv, RunningHasEntry
<1>13. WaitingIsCurrent'
  <2>1. \A j \in Loops : at'[j].pc = "wait" /\ j \notin cancelled'
                            => at'[j] = at[j] /\ j \notin cancelled
    BY <1>1, <1>2, <1>6, IdleShape
  <2>2. QED
    BY <1>1, <1>5, <2>1 DEF FullInv, SerialInv, WaitingIsCurrent, EditOn
<1>14. QED
  BY <1>7, <1>8, <1>9, <1>10, <1>11, <1>12, <1>13 DEF SerialInv

-----------------------------------------------------------------------------
(* Shutdown, restart and creation.                                            *)

LEMMA StopAllAtPlace ==
  ASSUME NEW st, NEW ru, NEW ca, NEW as
  PROVE  PlaceOK(At("stop_all", "shutdown", None, None), st, ru, ca, as)
BY DEF At, PlaceOK, CleanPlaces, Copying

LEMMA StopAllSerial ==
  ASSUME FullInv, ~Overlap, NEW p \in Procs, StopAll(p)
  PROVE  SerialInv'
<1>1. /\ at[p].pc = "idle" /\ MayEnter
      /\ Moves(p, At("stop_all", "shutdown", None, None))
      /\ UNCHANGED <<stored, running, cancelled, stopping, asked, restarts>>
  BY DEF StopAll, Moves
<1>2. Alone(p) /\ SameConfigs
  BY <1>1, EntersAlone, ActorsAreDistinct DEF SameConfigs
<1>3. QED
  BY <1>1, <1>2, StopAllAtPlace, SerialMove

LEMMA StopAllNextSerial ==
  ASSUME FullInv, NEW p \in Procs, NEW t \in Tasks, StopAllNext(p, t)
  PROVE  SerialInv'
<1> DEFINE l == At("stop_all_store", "shutdown", t, stored[t])
<1>1. /\ at[p].pc = "stop_all" /\ running[t] # None
      /\ cancelled' = cancelled \cup {running[t]}
      /\ running' = [running EXCEPT ![t] = None]
      /\ UNCHANGED <<stored, mu, stopping, asked, restarts>>
  BY DEF StopAllNext
<1>2. Alone(p) /\ SameConfigs
  BY <1>1, BusyFacts, ActorsAreDistinct DEF Busy, Resting, SameConfigs
<1>3. stored[t] # None /\ stored[t].cfg = asked[t].cfg
  BY <1>1 DEF FullInv, SerialInv, EntryIsStored, EditsAreKept
<1>4. Moves(p, l)
  BY <1>3 DEF StopAllNext, Moves
<1>5. l.pc = "stop_all_store" /\ l.task = t /\ l.copy = stored[t]
  BY DEF At
<1>6. running'[t] = None
  BY <1>1 DEF FullInv, IInv, TypeInv, ServerOK
<1> HIDE DEF l
<1>7. PlaceOK(l, stored', running', cancelled', asked')
  BY <1>1, <1>3, <1>5, <1>6 DEF PlaceOK, CleanPlaces, Copying
<1>8. QED
  BY <1>1, <1>2, <1>4, <1>5, <1>7, SerialStops

LEMMA StopAllStoreSerial ==
  ASSUME FullInv, NEW p \in Procs, StopAllStore(p)
  PROVE  SerialInv'
<1> DEFINE t == at[p].task
           r == [at[p].copy EXCEPT !.status = "paused"]
<1>1. /\ at[p].pc = "stop_all_store" /\ Update(t, r)
      /\ Moves(p, At("stop_all", "shutdown", None, None))
      /\ UNCHANGED <<running, cancelled, mu, stopping, asked, restarts>>
  BY DEF StopAllStore, Moves
<1>2. t \in Tasks /\ at[p].copy \in SyncTask
  BY <1>1, HandlerAt DEF FullInv, Copying
<1>3. Alone(p) /\ PlaceOK(at[p], stored, running, cancelled, asked)
  BY <1>1, BusyFacts, ActorsAreDistinct DEF Busy, Resting
<1>4. running[t] = None /\ at[p].copy.cfg = asked[t].cfg
  BY <1>1, <1>3 DEF PlaceOK, Copying
<1>5. r \in SyncTask /\ r.cfg = asked[t].cfg /\ r.status = "paused"
  BY <1>2, <1>4 DEF SyncTask, Status
<1> HIDE DEF r
<1>6. QED
  BY <1>1, <1>2, <1>3, <1>4, <1>5, StopAllAtPlace, SerialWrite

LEMMA StopAllEndSerial ==
  ASSUME FullInv, NEW p \in Procs, StopAllEnd(p)
  PROVE  SerialInv'
<1>1. /\ at[p].pc = "stop_all" /\ Moves(p, Idle)
      /\ UNCHANGED <<stored, running, cancelled, asked, restarts>>
  BY DEF StopAllEnd, Moves
<1>2. Alone(p) /\ SameConfigs
  BY <1>1, BusyFacts, ActorsAreDistinct DEF Busy, Resting, SameConfigs
<1>3. QED
  BY <1>1, <1>2, IdlePlace, SerialMove

\* After a restart no handler is at work, and the loops are those of the restored tasks.
LEMMA RestartSerial ==
  ASSUME FullInv, ~Overlap, Restart
  PROVE  SerialInv'
<1>1. cancelled' = {} /\ asked' = asked
  BY DEF Restart
<1>2. PICK ok \in SUBSET ToRestore : \E loop \in [ok -> Loops] : RestoredWith(ok, loop)
  <2>1. PICK ok \in IF "resolve" \in Operations THEN SUBSET ToRestore ELSE {ToRestore} :
          \E loop \in [ok -> Loops] : RestoredWith(ok, loop)
    BY Zenon DEF Restart, RestoredWith
  <2>2. ok \in SUBSET ToRestore
    BY <2>1
  <2>3. QED
    BY <2>1, <2>2
<1>3. PICK loop \in [ok -> Loops] : RestoredWith(ok, loop)
  BY <1>2
<1>4. /\ \A p \in Procs : at'[p] = Idle
      /\ \A l \in Loops : \/ at'[l] = Idle
                          \/ \E t \in ok : /\ loop[t] = l
                                           /\ at'[l] = At("wait", "loop", t, stored[t])
      /\ \A t \in ok : /\ t \in Tasks /\ stored[t] \in SyncTask /\ stored[t].status = "running"
                       /\ loop[t] \in Loops
  BY <1>3, RestartedActors DEF FullInv
<1>5. \A t \in ok : LET l == At("wait", "loop", t, stored[t])
                    IN  l.pc = "wait" /\ l.task = t /\ l.copy = stored[t]
  BY DEF At
<1>6. \A t \in Tasks : running'[t] = IF t \in ok THEN loop[t] ELSE None
  BY <1>3 DEF RestoredWith
<1>7. \A t \in Tasks : stored'[t] = IF t \in ToRestore \ ok THEN [stored[t] EXCEPT !.status = "error"]
                                                            ELSE stored[t]
  BY <1>3 DEF RestoredWith
<1>8. \A t \in ToRestore : /\ stored[t] # None
                           /\ [stored[t] EXCEPT !.status = "error"].status = "error"
                           /\ [stored[t] EXCEPT !.status = "error"].cfg = stored[t].cfg
                           /\ [stored[t] EXCEPT !.status = "error"] # None
  <2>1. \A t \in ToRestore : stored[t] # None /\ stored[t] \in SyncTask
    BY StoredIsAsked DEF ToRestore, FullInv
  <2>2. \A r \in SyncTask : /\ [r EXCEPT !.status = "error"] \in SyncTask
                            /\ [r EXCEPT !.status = "error"].status = "error"
                            /\ [r EXCEPT !.status = "error"].cfg = r.cfg
    BY DEF SyncTask, Status
  <2>3. QED
    BY <2>1, <2>2, NoneIsNothing
<1>9. \A a \in Actors : at'[a].pc \in Resting
  BY <1>4, <1>5, IdleShape, ActorsAreDistinct DEF Resting
<1>10. OneBusy' /\ PlacesOK'
  <2>1. \A a \in Actors : PlaceOK(at'[a], stored', running', cancelled', asked')
    BY <1>9, RestingPlace
  <2>2. QED
    BY <1>9, <2>1 DEF OneBusy, Busy, PlacesOK
<1>11. EndedLoops'
  BY <1>1 DEF EndedLoops
<1>12. OneLoop'
  <2> SUFFICES ASSUME NEW s \in Tasks, NEW l \in Loops, at'[l].task = s
               PROVE  running'[s] = l
    BY DEF OneLoop, LiveLoops
  <2>1. PICK t \in ok : loop[t] = l /\ at'[l] = At("wait", "loop", t, stored[t])
    BY <1>4, IdleShape, NoneIsNothing
  <2>2. QED
    BY <1>5, <1>6, <2>1
<1>13. EntryIsStored'
  <2>1. \A t \in ok : stored'[t] = stored[t] /\ stored[t] # None /\ stored[t].status # "paused"
    BY <1>4, <1>7, NoneIsNothing
  <2>2. QED
    BY <1>6, <2>1 DEF EntryIsStored
<1>14. RunningHasEntry'
  <2> SUFFICES ASSUME NEW t \in Tasks, stored'[t] # None, stored'[t].status = "running"
               PROVE  running'[t] # None
    BY DEF RunningHasEntry
  <2>1. t \in ok
    BY <1>7, <1>8 DEF ToRestore
  <2>2. QED
    BY <1>4, <1>6, <2>1, NoneIsNothing
<1>15. EditsAreKept'
  <2>1. \A t \in Tasks : stored'[t] # None => stored[t] # None /\ stored'[t].cfg = stored[t].cfg
    BY <1>7, <1>8
  <2>2. QED
    BY <1>1, <2>1 DEF FullInv, SerialInv, EditsAreKept
<1>16. WaitingIsCurrent'
  <2> SUFFICES ASSUME NEW l \in Loops, at'[l].pc = "wait"
               PROVE  at'[l].copy.cfg = asked[at'[l].task].cfg
    BY <1>1 DEF WaitingIsCurrent
  <2>1. PICK t \in ok : loop[t] = l /\ at'[l] = At("wait", "loop", t, stored[t])
    BY <1>4, IdleShape
  <2>2. stored[t] # None /\ t \in Tasks
    BY <1>4, NoneIsNothing
  <2>3. QED
    BY <1>5, <2>1, <2>2 DEF FullInv, SerialInv, EditsAreKept
<1>17. QED
  BY <1>10, <1>11, <1>12, <1>13, <1>14, <1>15, <1>16 DEF SerialInv

\* A new task has no entry and no loop.
LEMMA CreateSerial ==
  ASSUME FullInv, ~Overlap, NEW t \in Tasks, NEW c \in Configs, NEW token \in Tokens,
         Create(t, c, token)
  PROVE  SerialInv'
<1> DEFINE r == [cfg |-> c, token |-> token, status |-> "paused"]
           q == [cfg |-> c, token |-> token, run |-> FALSE]
<1>1. /\ asked[t] = None /\ stored' = [stored EXCEPT ![t] = r] /\ asked' = [asked EXCEPT ![t] = q]
      /\ UNCHANGED <<running, at, cancelled, mu, stopping, restarts>> /\ MayEnter
  BY DEF Create
<1>2. r.cfg = c /\ q.cfg = c /\ r.status = "paused"
  OBVIOUS
<1> HIDE DEF r, q
<1>3. cancelled = {} /\ \A a \in Actors : ~Busy(a)
  BY <1>1, EntersAlone
<1>4. stored[t] = None /\ running[t] = None
  BY <1>1 DEF FullInv, IInv, TypeInv, StoreOK, SerialInv, EntryIsStored
<1>5. \A s \in Tasks : /\ stored'[s] = IF s = t THEN r ELSE stored[s]
                       /\ asked'[s] = IF s = t THEN q ELSE asked[s]
  BY <1>1 DEF FullInv, IInv, TypeInv, StoreOK
<1>6. OneBusy' /\ EndedLoops' /\ OneLoop'
  BY <1>1 DEF FullInv, SerialInv, OneBusy, Busy, EndedLoops, OneLoop, LiveLoops
<1>7. PlacesOK'
  <2>1. \A a \in Actors : PlaceOK(at[a], stored', running, cancelled, asked')
    BY <1>3, RestingPlace DEF Busy
  <2>2. QED
    BY <1>1, <2>1 DEF PlacesOK
<1>8. EntryIsStored' /\ EditsAreKept'
  BY <1>1, <1>2, <1>4, <1>5 DEF FullInv, SerialInv, EntryIsStored, EditsAreKept
<1>9. RunningHasEntry'
  BY <1>1, <1>2, <1>5 DEF FullInv, SerialInv, RunningHasEntry
<1>10. WaitingIsCurrent'
  <2> SUFFICES ASSUME NEW l \in Loops, at[l].pc = "wait"
               PROVE  at[l].copy.cfg = asked'[at[l].task].cfg
    BY <1>1 DEF WaitingIsCurrent
  <2>1. at[l].task \in Tasks /\ asked[at[l].task] # None
    BY LoopAt DEF FullInv
  <2>2. ~EditOn(at[l].task)
    BY <1>3, ActorsAreDistinct DEF EditOn, Busy, Resting
  <2>3. at[l].copy.cfg = asked[at[l].task].cfg
    BY <1>3, <2>2 DEF FullInv, SerialInv, WaitingIsCurrent
  <2>4. QED
    BY <1>1, <1>5, <2>1, <2>3
<1>11. QED
  BY <1>6, <1>7, <1>8, <1>9, <1>10 DEF SerialInv

-----------------------------------------------------------------------------
(* The theorems about operations that go through.                             *)

LEMMA SerialStep == ASSUME FullInv, ~Overlap, [Next]_vars PROVE SerialInv'
<1>1. ASSUME NEW p \in Procs, Continue(p) PROVE SerialInv'
  BY <1>1, ProceedSerial, ActorsAreDistinct, StopStoreSerial, DeleteSerial, EditGetSerial,
     TokenStoreSerial, StopAllNextSerial, StopAllStoreSerial, StopAllEndSerial DEF Continue
<1>2. ASSUME NEW p \in Procs, Acquire(p) PROVE SerialInv'
  BY <1>2, StartRefusedSerial, StartTaskSerial, StopNotRunningSerial, StopRunningSerial,
     EditCheckSerial DEF Acquire
<1>3. ASSUME NEW k \in Loops, LoopTick(k) \/ Proceed(k) \/ LoopDone(k) \/ LoopExit(k)
      PROVE  SerialInv'
  BY <1>3, ProceedSerial, ActorsAreDistinct, LoopTickSerial, LoopDoneSerial, LoopExitSerial
<1>4. CASE UNCHANGED vars
  <2>1. UNCHANGED <<stored, running, at, cancelled, mu, stopping, asked, restarts>>
    BY <1>4 DEF vars
  <2>2. QED
    BY <2>1 DEF FullInv, SerialInv, OneBusy, Busy, PlacesOK, EndedLoops, OneLoop, LiveLoops,
                EntryIsStored, RunningHasEntry, EditsAreKept, WaitingIsCurrent, EditOn
<1>5. QED
  BY <1>1, <1>2, <1>3, <1>4, CreateSerial, RequestSerial, EditStoreSerial, StopAllSerial,
     RestartSerial DEF Next

LEMMA FullInvHolds == ASSUME ~Overlap PROVE Spec => []FullInv
<1>1. Init => SerialInv
  BY SerialInit
<1>2. FullInv /\ [Next]_vars => SerialInv'
  BY SerialStep
<1>3. QED
  BY <1>1, <1>2, IInvHolds, PTL DEF Spec, FullInv

\* While every operation goes through before the next one begins, a task never has two live
\* loops, and the map knows the one it has, so that a pause reaches it: over every sequence
\* of starts, edits, failures, crashes and restarts.  With overlap it does not hold: a loop
\* that ends late deletes the entry of the one that was started after it.
THEOREM OneLoopEach == ASSUME ~Overlap PROVE Spec => []OneLoop
<1>1. FullInv => OneLoop
  BY DEF FullInv, SerialInv
<1>2. QED
  BY <1>1, FullInvHolds, PTL

\* Under the same condition, what the last edit of a task asked for is what is stored: no
\* loop, sync or token change writes an older copy of the configuration back.
THEOREM EditsStayKept == ASSUME ~Overlap PROVE Spec => []EditsAreKept
<1>1. FullInv => EditsAreKept
  BY DEF FullInv, SerialInv
<1>2. QED
  BY <1>1, FullInvHolds, PTL

\* Under the same condition, a task that is stored as paused, or was deleted, has no live
\* loop once no handler is at work on it.
THEOREM StoppedTasksAreQuiet == ASSUME ~Overlap PROVE Spec => []StoppedIsQuiet
<1>1. FullInv => StoppedIsQuiet
  <2> SUFFICES ASSUME FullInv, NEW t \in Tasks, stored[t] = None \/ stored[t].status = "paused",
                      NEW l \in LiveLoops(t)
               PROVE  FALSE
    BY DEF StoppedIsQuiet
  <2>1. running[t] = l /\ l \in Loops
    BY DEF FullInv, SerialInv, OneLoop, LiveLoops
  <2>2. QED
    BY <2>1, NoneIsNothing DEF FullInv, SerialInv, EntryIsStored
<1>2. QED
  BY <1>1, FullInvHolds, PTL

\* Under the same condition, a task that is shown and will be restored as running does run,
\* unless a handler is stopping it.
THEOREM StoredRunningTasksRun == ASSUME ~Overlap PROVE Spec => []StoredRunningRuns
<1>1. FullInv => StoredRunningRuns
  <2>1. \A p \in Procs : at[p].pc \in {"stop_store", "stop_all_store"} => InHand(at[p].task)
    BY DEF InHand, InServer
  <2>2. QED
    BY <2>1 DEF FullInv, SerialInv, RunningHasEntry, StoredRunningRuns, InHand, InServer
<1>2. QED
  BY <1>1, FullInvHolds, PTL

=============================================================================
