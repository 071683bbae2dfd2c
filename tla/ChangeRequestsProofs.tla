------------------------ MODULE ChangeRequestsProofs ------------------------
(* Proofs about ChangeRequests for every value of its constants: any number  *)
(* of handlers, requests and files, any faults, with and without overlap.    *)
EXTENDS ChangeRequests, TLAPS

-----------------------------------------------------------------------------
(* Types of the operators the actions are built from.                        *)

LEMMA VersionType == \A c \in Contents \cup {None} : Version(c) \in Contents
BY ContentAssumption DEF Version

LEMMA ReadType ==
  ASSUME TypeOK, NEW f \in Files
  PROVE  BestEffortRead(f) \subseteq Contents
BY ContentAssumption DEF TypeOK, BestEffortRead

LEMMA BodyType == \A cr \in ChangeRequest : Body(cr) \in Bodies
BY DEF ChangeRequest, Bodies, Body

\* One lemma per way of changing the store.
LEMMA SaveType ==
  ASSUME TypeOK, NEW list \in [Ids -> ChangeRequest \cup {None}], Save(list)
  PROVE  /\ requests' \in [Ids -> ChangeRequest \cup {None}]
         /\ disk' \in [Ids -> ChangeRequest \cup {None}]
BY DEF TypeOK, Save

LEMMA UpdateType ==
  ASSUME TypeOK, NEW i \in Ids, NEW cr \in ChangeRequest, Update(i, cr)
  PROVE  /\ requests' \in [Ids -> ChangeRequest \cup {None}]
         /\ disk' \in [Ids -> ChangeRequest \cup {None}]
<1>1. CASE requests[i] = None
  BY <1>1 DEF Update, TypeOK
<1>2. CASE requests[i] # None
  <2>1. [requests EXCEPT ![i] = cr] \in [Ids -> ChangeRequest \cup {None}]
    BY DEF TypeOK
  <2>2. Save([requests EXCEPT ![i] = cr])
    BY <1>2 DEF Update
  <2>3. QED
    BY <2>1, <2>2, SaveType
<1>3. QED
  BY <1>1, <1>2

LEMMA GotoType ==
  ASSUME TypeOK, NEW h \in Handlers, NEW l \in Local, Goto(h, l)
  PROVE  handler' \in [Handlers -> Local]
BY DEF TypeOK, Goto

LEMMA IdleType == Idle \in Local
BY DEF Idle, Local, Steps

LEMMA LandType ==
  ASSUME TypeOK, NEW e \in Commit, Land(e)
  PROVE  /\ repo' \in [Files -> Contents \cup {None}]
         /\ rev' \in [Files -> Nat]
         /\ commits' \subseteq Commit
BY DEF TypeOK, Land, Commit

\* While a handler is under way it holds a copy of a request; while it works on an
\* existing request it also remembers its id.
HoldsRequest ==
  \A h \in Handlers :
    /\ handler[h].pc # "idle" => handler[h].cr \in ChangeRequest
    /\ handler[h].pc \in Reviewing \cup {"delete"} => handler[h].id \in Ids

TypeInv == TypeOK /\ HoldsRequest

LEMMA TypeInvInit == Init => TypeInv
<1> SUFFICES ASSUME Init PROVE TypeInv
  OBVIOUS
<1>1. TypeOK
  BY IdleType DEF Init, TypeOK
<1>2. HoldsRequest
  BY DEF Init, HoldsRequest, Idle, Reviewing
<1>3. QED
  BY <1>1, <1>2 DEF TypeInv

\* A handler goes idle: nothing it should hold any more.
LEMMA GoIdle ==
  ASSUME TypeInv, NEW h \in Handlers, Goto(h, Idle)
  PROVE  handler' \in [Handlers -> Local] /\ HoldsRequest'
<1>1. handler' \in [Handlers -> Local]
  BY IdleType, GotoType DEF TypeInv
<1>2. HoldsRequest'
  BY DEF TypeInv, TypeOK, HoldsRequest, Goto, Idle, Reviewing
<1>3. QED
  BY <1>1, <1>2

\* A handler goes on with a copy and, if the step wants one, an id.
LEMMA GoOn ==
  ASSUME TypeInv, NEW h \in Handlers, NEW l \in Local, Goto(h, l),
         l.cr \in ChangeRequest,
         l.pc \in Reviewing \cup {"delete"} => l.id \in Ids
  PROVE  handler' \in [Handlers -> Local] /\ HoldsRequest'
<1>1. handler' \in [Handlers -> Local]
  BY GotoType DEF TypeInv
<1>2. HoldsRequest'
  BY DEF TypeInv, TypeOK, HoldsRequest, Goto
<1>3. QED
  BY <1>1, <1>2

LEMMA TypeReview ==
  ASSUME TypeInv, NEW h \in Handlers, NEW i \in Ids,
         NEW step \in {"check", "save_rejected"}, StartReview(h, i, step)
  PROVE  TypeInv'
<1> DEFINE l == [Idle EXCEPT !.pc = step, !.id = i, !.cr = requests[i]]
<1>1. requests[i] \in ChangeRequest
  BY DEF StartReview, IsPending, TypeInv, TypeOK
<1>2. l \in Local /\ l.cr \in ChangeRequest /\ l.id \in Ids
  BY <1>1 DEF Idle, Local, Steps
<1>3. Goto(h, l)
  BY DEF StartReview
<1> HIDE DEF l
<1>4. handler' \in [Handlers -> Local] /\ HoldsRequest'
  BY <1>2, <1>3, GoOn
<1>5. QED
  BY <1>4 DEF StartReview, TypeInv, TypeOK

LEMMA TypeFinish ==
  ASSUME TypeInv, NEW h \in Handlers,
         NEW step \in Reviewing, NEW status \in {"pending", "approved", "rejected", "conflict"},
         NEW failed \in BOOLEAN, Finish(h, step, status, failed)
  PROVE  TypeInv'
<1> DEFINE cr == [handler[h].cr EXCEPT !.status = status, !.commitError = failed]
<1>1. handler[h].cr \in ChangeRequest /\ handler[h].id \in Ids
  BY DEF Finish, TypeInv, HoldsRequest, Reviewing
<1>2. cr \in ChangeRequest
  BY <1>1 DEF ChangeRequest
<1>3. Update(handler[h].id, cr) /\ Goto(h, Idle)
  BY DEF Finish
<1> HIDE DEF cr
<1>4. /\ requests' \in [Ids -> ChangeRequest \cup {None}]
      /\ disk' \in [Ids -> ChangeRequest \cup {None}]
  BY <1>1, <1>2, <1>3, UpdateType DEF TypeInv
<1>5. handler' \in [Handlers -> Local] /\ HoldsRequest'
  BY <1>3, GoIdle
<1>6. QED
  BY <1>4, <1>5 DEF Finish, TypeInv, TypeOK

\* A step of a handler that only moves it on, keeping its copy and its id.
LEMMA TypeMove ==
  ASSUME TypeInv, NEW h \in Handlers, NEW l \in Local, Goto(h, l),
         handler[h].pc \in Reviewing, l.cr = handler[h].cr, l.id = handler[h].id
  PROVE  handler' \in [Handlers -> Local] /\ HoldsRequest'
<1>1. handler[h].cr \in ChangeRequest /\ handler[h].id \in Ids
  BY DEF TypeInv, HoldsRequest, Reviewing
<1>2. QED
  BY <1>1, GoOn

LEMMA TypeCheck ==
  ASSUME TypeInv, NEW h \in Handlers, ApproveCheck(h)
  PROVE  TypeInv'
<1>1. handler[h] \in Local /\ handler[h].pc = "check"
  BY DEF ApproveCheck, TypeInv, TypeOK
<1>2. handler[h].cr \in ChangeRequest
  BY <1>1 DEF TypeInv, HoldsRequest, Reviewing
<1>3. PICK current \in BestEffortRead(handler[h].cr.file) :
        Goto(h, [handler[h] EXCEPT !.seen = rev[handler[h].cr.file],
                   !.pc = IF BaseMatches(handler[h].cr, current) THEN "probe"
                                                                 ELSE "save_conflict"])
  BY DEF ApproveCheck
<1> DEFINE l == [handler[h] EXCEPT !.seen = rev[handler[h].cr.file],
                   !.pc = IF BaseMatches(handler[h].cr, current) THEN "probe"
                                                                 ELSE "save_conflict"]
<1>4. rev[handler[h].cr.file] \in Nat
  BY <1>2 DEF TypeInv, TypeOK, ChangeRequest
<1>5. l \in Local /\ l.cr = handler[h].cr /\ l.id = handler[h].id
  BY <1>1, <1>4 DEF Local, Steps
<1>6. Goto(h, l)
  BY <1>3
<1> HIDE DEF l
<1>7. handler' \in [Handlers -> Local] /\ HoldsRequest'
  BY <1>1, <1>5, <1>6, TypeMove DEF Reviewing
<1>8. QED
  BY <1>7 DEF ApproveCheck, TypeInv, TypeOK

LEMMA TypeProbe ==
  ASSUME TypeInv, NEW h \in Handlers, ApproveProbe(h)
  PROVE  TypeInv'
<1>1. handler[h] \in Local /\ handler[h].pc = "probe"
  BY DEF ApproveProbe, TypeInv, TypeOK
<1>2. PICK exists \in BOOLEAN : Goto(h, [handler[h] EXCEPT !.pc = "commit", !.exists = exists])
  BY DEF ApproveProbe
<1> DEFINE l == [handler[h] EXCEPT !.pc = "commit", !.exists = exists]
<1>3. l \in Local /\ l.cr = handler[h].cr /\ l.id = handler[h].id
  BY <1>1 DEF Local, Steps
<1>4. Goto(h, l)
  BY <1>2
<1> HIDE DEF l
<1>5. handler' \in [Handlers -> Local] /\ HoldsRequest'
  BY <1>1, <1>3, <1>4, TypeMove DEF Reviewing
<1>6. QED
  BY <1>5 DEF ApproveProbe, TypeInv, TypeOK

\* Both outcomes of CreateCommit move the handler to one of its two last steps.
LEMMA TypeAfterCommit ==
  ASSUME TypeInv, NEW h \in Handlers, handler[h].pc = "commit",
         NEW step \in {"save_approved", "save_error"},
         Goto(h, [handler[h] EXCEPT !.pc = step])
  PROVE  handler' \in [Handlers -> Local] /\ HoldsRequest'
<1> DEFINE l == [handler[h] EXCEPT !.pc = step]
<1>1. handler[h] \in Local
  BY DEF TypeInv, TypeOK
<1>2. l \in Local /\ l.cr = handler[h].cr /\ l.id = handler[h].id
  BY <1>1 DEF Local, Steps
<1> HIDE DEF l
<1>3. Goto(h, l)
  BY DEF l
<1>4. QED
  BY <1>2, <1>3, TypeMove DEF Reviewing

LEMMA CommitOfType ==
  ASSUME TypeInv, NEW h \in Handlers, handler[h].pc = "commit"
  PROVE  CommitOf(handler[h]) \in Commit
<1>1. handler[h] \in Local /\ handler[h].cr \in ChangeRequest /\ handler[h].id \in Ids
  BY DEF TypeInv, TypeOK, HoldsRequest, Reviewing
<1>2. /\ handler[h].seen \in Nat
      /\ handler[h].cr.file \in Files
      /\ handler[h].cr.new \in Contents
      /\ handler[h].cr.base \in Contents
  BY <1>1 DEF Local, ChangeRequest
<1>3. repo[handler[h].cr.file] \in Contents \cup {None} /\ rev[handler[h].cr.file] \in Nat
  BY <1>2 DEF TypeInv, TypeOK
<1>4. QED
  BY <1>1, <1>2, <1>3 DEF CommitOf, Commit

LEMMA TypeCommit ==
  ASSUME TypeInv, NEW h \in Handlers, ApproveCommit(h)
  PROVE  TypeInv'
<1>1. handler[h].pc = "commit" /\ Land(CommitOf(handler[h]))
  BY DEF ApproveCommit
<1>2. /\ repo' \in [Files -> Contents \cup {None}]
      /\ rev' \in [Files -> Nat]
      /\ commits' \subseteq Commit
  BY <1>1, CommitOfType, LandType DEF TypeInv
<1>3. PICK step \in {"save_approved", "save_error"} : Goto(h, [handler[h] EXCEPT !.pc = step])
  BY DEF ApproveCommit
<1>4. handler' \in [Handlers -> Local] /\ HoldsRequest'
  BY <1>1, <1>3, TypeAfterCommit
<1>5. QED
  BY <1>2, <1>4 DEF ApproveCommit, TypeInv, TypeOK

LEMMA TypeCommitFails ==
  ASSUME TypeInv, NEW h \in Handlers, ApproveCommitFails(h)
  PROVE  TypeInv'
<1>1. handler[h].pc = "commit" /\ Goto(h, [handler[h] EXCEPT !.pc = "save_error"])
  BY DEF ApproveCommitFails
<1>2. handler' \in [Handlers -> Local] /\ HoldsRequest'
  BY <1>1, TypeAfterCommit
<1>3. QED
  BY <1>2 DEF ApproveCommitFails, TypeInv, TypeOK

LEMMA TypeLoad ==
  ASSUME TypeInv, NEW h \in Handlers, NEW f \in Files, Load(h, f)
  PROVE  TypeInv'
<1>1. PICK c \in Contents :
        Goto(h, [Idle EXCEPT !.pc = "loaded",
                   !.cr = [file |-> f, old |-> Blank, new |-> c, base |-> Trim[c],
                           status |-> "pending", commitError |-> FALSE]])
  BY DEF Load
<1> DEFINE l == [Idle EXCEPT !.pc = "loaded",
                   !.cr = [file |-> f, old |-> Blank, new |-> c, base |-> Trim[c],
                           status |-> "pending", commitError |-> FALSE]]
<1>2. l.cr \in ChangeRequest
  BY ContentAssumption DEF ChangeRequest, Idle
<1>3. l \in Local /\ l.pc = "loaded"
  BY <1>2 DEF Local, Idle, Steps
<1>4. Goto(h, l)
  BY <1>1
<1> HIDE DEF l
<1>5. handler' \in [Handlers -> Local] /\ HoldsRequest'
  BY <1>2, <1>3, <1>4, GoOn DEF Reviewing
<1>6. QED
  BY <1>5 DEF Load, TypeInv, TypeOK

LEMMA TypeCreateFetch ==
  ASSUME TypeInv, NEW h \in Handlers, NEW f \in Files, NEW new \in Contents,
         CreateFetch(h, f, new)
  PROVE  TypeInv'
<1>1. PICK fetched \in BestEffortRead(f) :
        Goto(h, [Idle EXCEPT !.pc = "create",
                   !.cr = [file |-> f, old |-> fetched, new |-> new,
                           base |-> BaseVersion(h, fetched),
                           status |-> "pending", commitError |-> FALSE]])
  BY DEF CreateFetch
<1> DEFINE l == [Idle EXCEPT !.pc = "create",
                   !.cr = [file |-> f, old |-> fetched, new |-> new,
                           base |-> BaseVersion(h, fetched),
                           status |-> "pending", commitError |-> FALSE]]
<1>2. fetched \in Contents
  BY ReadType DEF TypeInv
<1>3. BaseVersion(h, fetched) \in Contents
  <2>1. CASE handler[h].pc = "loaded"
    <3>1. handler[h].cr \in ChangeRequest
      BY <2>1 DEF TypeInv, HoldsRequest
    <3>2. QED
      BY <2>1, <3>1 DEF BaseVersion, ChangeRequest
  <2>2. CASE handler[h].pc # "loaded"
    BY <1>2, <2>2, ContentAssumption DEF BaseVersion
  <2>3. QED
    BY <2>1, <2>2
<1>4. l.cr \in ChangeRequest
  BY <1>2, <1>3 DEF ChangeRequest, Idle
<1>5. l \in Local /\ l.pc = "create"
  BY <1>4 DEF Local, Idle, Steps
<1>6. Goto(h, l)
  BY <1>1
<1> HIDE DEF l
<1>7. handler' \in [Handlers -> Local] /\ HoldsRequest'
  BY <1>4, <1>5, <1>6, GoOn DEF Reviewing
<1>8. QED
  BY <1>7 DEF CreateFetch, TypeInv, TypeOK

LEMMA TypeCreateStore ==
  ASSUME TypeInv, NEW h \in Handlers, CreateStore(h)
  PROVE  TypeInv'
<1>1. handler[h].cr \in ChangeRequest
  BY DEF CreateStore, TypeInv, HoldsRequest
<1>2. PICK i \in Free : /\ Save([requests EXCEPT ![i] = handler[h].cr])
                        /\ filed' = [filed EXCEPT ![i] = Body(handler[h].cr)]
  BY DEF CreateStore
<1>3. filed' \in [Ids -> Bodies \cup {None}]
  BY <1>1, <1>2, BodyType DEF TypeInv, TypeOK
<1>4. [requests EXCEPT ![i] = handler[h].cr] \in [Ids -> ChangeRequest \cup {None}]
  BY <1>1 DEF TypeInv, TypeOK
<1>5. /\ requests' \in [Ids -> ChangeRequest \cup {None}]
      /\ disk' \in [Ids -> ChangeRequest \cup {None}]
  BY <1>2, <1>4, SaveType DEF TypeInv
<1>6. handler' \in [Handlers -> Local] /\ HoldsRequest'
  BY GoIdle DEF CreateStore
<1>7. QED
  BY <1>3, <1>5, <1>6 DEF CreateStore, TypeInv, TypeOK

LEMMA TypeDeleteStart ==
  ASSUME TypeInv, NEW h \in Handlers, NEW i \in Ids, DeleteStart(h, i)
  PROVE  TypeInv'
<1> DEFINE l == [Idle EXCEPT !.pc = "delete", !.id = i, !.cr = requests[i]]
<1>1. requests[i] \in ChangeRequest
  BY DEF DeleteStart, TypeInv, TypeOK
<1>2. l \in Local /\ l.cr \in ChangeRequest /\ l.id \in Ids
  BY <1>1 DEF Idle, Local, Steps
<1>3. Goto(h, l)
  BY DEF DeleteStart
<1> HIDE DEF l
<1>4. handler' \in [Handlers -> Local] /\ HoldsRequest'
  BY <1>2, <1>3, GoOn
<1>5. QED
  BY <1>4 DEF DeleteStart, TypeInv, TypeOK

LEMMA TypeDeleteStore ==
  ASSUME TypeInv, NEW h \in Handlers, DeleteStore(h)
  PROVE  TypeInv'
<1>1. handler[h].id \in Ids
  BY DEF DeleteStore, TypeInv, HoldsRequest
<1>2. /\ requests' \in [Ids -> ChangeRequest \cup {None}]
      /\ disk' \in [Ids -> ChangeRequest \cup {None}]
  <2>1. CASE requests[handler[h].id] = None
    BY <2>1 DEF DeleteStore, TypeInv, TypeOK
  <2>2. CASE requests[handler[h].id] # None
    <3>1. [requests EXCEPT ![handler[h].id] = None] \in [Ids -> ChangeRequest \cup {None}]
      BY DEF TypeInv, TypeOK
    <3>2. Save([requests EXCEPT ![handler[h].id] = None])
      BY <2>2 DEF DeleteStore
    <3>3. QED
      BY <3>1, <3>2, SaveType DEF TypeInv
  <2>3. QED
    BY <2>1, <2>2
<1>3. handler' \in [Handlers -> Local] /\ HoldsRequest'
  BY GoIdle DEF DeleteStore
<1>4. QED
  BY <1>2, <1>3 DEF DeleteStore, TypeInv, TypeOK

LEMMA TypeOtherCommit ==
  ASSUME TypeInv, NEW f \in Files, NEW c \in Contents \cup {None}, OtherCommit(f, c)
  PROVE  TypeInv'
<1> DEFINE e == [author |-> None, file |-> f, content |-> c, base |-> Blank,
                 parent |-> repo[f], at |-> rev[f], seen |-> rev[f]]
<1>1. e \in Commit
  BY ContentAssumption DEF Commit, TypeInv, TypeOK
<1>2. Land(e)
  BY DEF OtherCommit
<1> HIDE DEF e
<1>3. /\ repo' \in [Files -> Contents \cup {None}]
      /\ rev' \in [Files -> Nat]
      /\ commits' \subseteq Commit
  BY <1>1, <1>2, LandType DEF TypeInv
<1>4. QED
  BY <1>3 DEF OtherCommit, TypeInv, TypeOK, HoldsRequest

LEMMA TypeRestart ==
  ASSUME TypeInv, NEW file \in [Ids -> ChangeRequest \cup {None}], Restart(file)
  PROVE  TypeInv'
<1>1. handler' \in [Handlers -> Local]
  BY IdleType DEF Restart, TypeInv, TypeOK
<1>2. HoldsRequest'
  BY DEF Restart, TypeInv, TypeOK, HoldsRequest, Idle, Reviewing
<1>3. crashes' \in Nat
  BY DEF Restart, TypeInv, TypeOK
<1>4. QED
  BY <1>1, <1>2, <1>3 DEF Restart, TypeInv, TypeOK

LEMMA TypeInvNext == TypeInv /\ [Next]_vars => TypeInv'
<1> SUFFICES ASSUME TypeInv, [Next]_vars PROVE TypeInv'
  OBVIOUS
<1>1. ASSUME NEW h \in Handlers, Handle(h) PROVE TypeInv'
  <2>1. ASSUME NEW f \in Files, Load(h, f) PROVE TypeInv'
    BY <2>1, TypeLoad
  <2>2. ASSUME NEW f \in Files, NEW c \in Contents, CreateFetch(h, f, c) PROVE TypeInv'
    BY <2>2, TypeCreateFetch
  <2>3. ASSUME NEW i \in Ids, ApproveStart(h, i) PROVE TypeInv'
    BY <2>3, TypeReview DEF ApproveStart
  <2>4. ASSUME NEW i \in Ids, RejectStart(h, i) PROVE TypeInv'
    BY <2>4, TypeReview DEF RejectStart
  <2>5. ASSUME NEW i \in Ids, DeleteStart(h, i) PROVE TypeInv'
    BY <2>5, TypeDeleteStart
  <2>6. CASE CreateStore(h)
    BY <2>6, TypeCreateStore
  <2>7. CASE ApproveCheck(h)
    BY <2>7, TypeCheck
  <2>8. CASE ApproveProbe(h)
    BY <2>8, TypeProbe
  <2>9. CASE ApproveCommit(h)
    BY <2>9, TypeCommit
  <2>10. CASE ApproveCommitFails(h)
    BY <2>10, TypeCommitFails
  <2>11. CASE ApproveError(h)
    BY <2>11, TypeFinish DEF ApproveError, Reviewing
  <2>12. CASE ApproveSave(h)
    BY <2>12, TypeFinish DEF ApproveSave, Reviewing
  <2>13. ASSUME handler[h].pc \in Reviewing PROVE handler[h].cr.commitError \in BOOLEAN
    <3>1. handler[h].cr \in ChangeRequest
      BY <2>13 DEF TypeInv, HoldsRequest, Reviewing
    <3>2. QED
      BY <3>1 DEF ChangeRequest
  <2>14. CASE ApproveConflict(h)
    <3>1. handler[h].cr.commitError \in BOOLEAN
      BY <2>13, <2>14 DEF ApproveConflict, Finish, Reviewing
    <3>2. QED
      BY <2>14, <3>1, TypeFinish DEF ApproveConflict, Reviewing
  <2>15. CASE RejectSave(h)
    <3>1. handler[h].cr.commitError \in BOOLEAN
      BY <2>13, <2>15 DEF RejectSave, Finish, Reviewing
    <3>2. QED
      BY <2>15, <3>1, TypeFinish DEF RejectSave, Reviewing
  <2>16. CASE DeleteStore(h)
    BY <2>16, TypeDeleteStore
  <2>17. QED
    BY <1>1, <2>1, <2>2, <2>3, <2>4, <2>5, <2>6, <2>7, <2>8, <2>9, <2>10, <2>11, <2>12,
       <2>14, <2>15, <2>16 DEF Handle
<1>2. ASSUME NEW f \in Files, NEW c \in Contents \cup {None}, OtherCommit(f, c) PROVE TypeInv'
  BY <1>2, TypeOtherCommit
<1>3. CASE Crash
  <2>1. disk \in [Ids -> ChangeRequest \cup {None}]
    BY DEF TypeInv, TypeOK
  <2>2. QED
    BY <1>3, <2>1, TypeRestart DEF Crash
<1>4. CASE CrashWhileSaving
  <2>1. [i \in Ids |-> None] \in [Ids -> ChangeRequest \cup {None}]
    OBVIOUS
  <2>2. QED
    BY <1>4, <2>1, TypeRestart DEF CrashWhileSaving
<1>5. CASE UNCHANGED vars
  BY <1>5 DEF vars, TypeInv, TypeOK, HoldsRequest
<1>6. QED
  BY <1>1, <1>2, <1>3, <1>4, <1>5 DEF Next

\* Type correctness: whatever handlers, faults and crashes do, the store, its file, the
\* branch and the copies handlers hold are well formed; in particular a request always
\* has a base version for the optimistic lock (createChangeRequest's fallback).
THEOREM TypeCorrect == Spec => []TypeOK
<1>1. TypeInv => TypeOK
  BY DEF TypeInv
<1>2. QED
  BY <1>1, TypeInvInit, TypeInvNext, PTL DEF Spec

-----------------------------------------------------------------------------
(* The safety invariant.                                                     *)

\* The parts of the invariant that speak of the store, for a list that is saved.
Stored(list) == Agree(list, filed) /\ Committed(list, commits)

LEMMA SaveStored ==
  ASSUME SafetyInv, NEW list, Stored(list), Save(list), UNCHANGED <<filed, commits>>
  PROVE  /\ Agree(requests, filed)' /\ Committed(requests, commits)'
         /\ Agree(disk, filed)' /\ Committed(disk, commits)'
BY DEF SafetyInv, Stored, Save, Agree, Committed

\* Replacing one record by a copy that agrees with what was filed.
LEMMA UpdateStored ==
  ASSUME TypeInv, SafetyInv, NEW i \in Ids, NEW cr \in ChangeRequest, Update(i, cr),
         UNCHANGED <<filed, commits>>,
         filed[i] # None, Body(cr) = filed[i],
         cr.status = "approved" => \E e \in commits : e.author = i
  PROVE  /\ Agree(requests, filed)' /\ Committed(requests, commits)'
         /\ Agree(disk, filed)' /\ Committed(disk, commits)'
<1>1. CASE requests[i] = None
  BY <1>1 DEF Update, SafetyInv, Agree, Committed
<1>2. CASE requests[i] # None
  <2>1. Stored([requests EXCEPT ![i] = cr])
    BY DEF TypeInv, TypeOK, SafetyInv, Stored, Agree, Committed
  <2>2. Save([requests EXCEPT ![i] = cr])
    BY <1>2 DEF Update
  <2>3. QED
    BY <2>1, <2>2, SaveStored
<1>3. QED
  BY <1>1, <1>2

\* Steps that move one handler and leave the rest alone.
Frame == UNCHANGED <<repo, rev, commits, requests, disk, filed>>

LEMMA MoveSafe ==
  ASSUME TypeInv, SafetyInv, Frame, NEW h \in Handlers, NEW l, Goto(h, l), HandlerSound(l)
  PROVE  SafetyInv'
<1>1. \A g \in Handlers : HandlerSound(handler[g])'
  <2> SUFFICES ASSUME NEW g \in Handlers PROVE HandlerSound(handler[g])'
    OBVIOUS
  <2>1. CASE g = h
    BY <2>1 DEF Frame, Goto, TypeInv, TypeOK, HandlerSound, Fresh
  <2>2. CASE g # h
    BY <2>2 DEF Frame, Goto, TypeInv, TypeOK, SafetyInv, HandlerSound, Fresh
  <2>3. QED
    BY <2>1, <2>2
<1>2. QED
  BY <1>1 DEF Frame, SafetyInv, Agree, Committed, CommitSound, CheckedVersionIsReplaced

LEMMA IdleSound == HandlerSound(Idle)
BY DEF HandlerSound, Idle, Reviewing

\* The other handlers are sound after a step that leaves branch, commits and filings alone.
LEMMA IdleSafe ==
  ASSUME TypeInv, SafetyInv, UNCHANGED <<repo, rev, commits, filed>>,
         NEW h \in Handlers, Goto(h, Idle)
  PROVE  \A g \in Handlers : HandlerSound(handler[g])'
<1> SUFFICES ASSUME NEW g \in Handlers PROVE HandlerSound(handler[g])'
  OBVIOUS
<1>1. CASE g = h
  BY <1>1 DEF Goto, TypeInv, TypeOK, HandlerSound, Idle, Reviewing
<1>2. CASE g # h
  BY <1>2 DEF Goto, TypeInv, TypeOK, SafetyInv, HandlerSound, Fresh
<1>3. QED
  BY <1>1, <1>2

LEMMA CommitsUnchanged ==
  ASSUME SafetyInv, UNCHANGED <<commits, filed>>
  PROVE  (\A e \in commits : CommitSound(e))' /\ CheckedVersionIsReplaced'
BY DEF SafetyInv, CommitSound, CheckedVersionIsReplaced

LEMMA SafeReview ==
  ASSUME TypeInv, SafetyInv, NEW h \in Handlers, NEW i \in Ids,
         NEW step \in {"check", "save_rejected"}, StartReview(h, i, step)
  PROVE  SafetyInv'
<1> DEFINE l == [Idle EXCEPT !.pc = step, !.id = i, !.cr = requests[i]]
<1>1. filed[i] # None /\ Body(requests[i]) = filed[i]
  BY DEF StartReview, IsPending, SafetyInv, Agree
<1>2. l.pc = step /\ l.id = i /\ l.cr = requests[i]
  BY DEF Idle
<1>3. Goto(h, l) /\ Frame
  BY DEF StartReview, Frame
<1> HIDE DEF l
<1>4. HandlerSound(l)
  BY <1>1, <1>2 DEF HandlerSound
<1>5. QED
  BY <1>3, <1>4, MoveSafe

LEMMA SafeFinish ==
  ASSUME TypeInv, SafetyInv, NEW h \in Handlers,
         NEW step \in Reviewing, NEW status \in {"pending", "approved", "rejected", "conflict"},
         NEW failed \in BOOLEAN, Finish(h, step, status, failed),
         status = "approved" => step = "save_approved"
  PROVE  SafetyInv'
<1> DEFINE cr == [handler[h].cr EXCEPT !.status = status, !.commitError = failed]
<1>1. /\ handler[h].pc = step
      /\ handler[h].cr \in ChangeRequest
      /\ handler[h].id \in Ids
  BY DEF Finish, TypeInv, HoldsRequest, Reviewing
<1>2. cr \in ChangeRequest /\ Body(cr) = Body(handler[h].cr) /\ cr.status = status
  BY <1>1 DEF ChangeRequest, Body
<1>3. Update(handler[h].id, cr) /\ Goto(h, Idle) /\ UNCHANGED <<repo, rev, commits, filed>>
  BY DEF Finish
<1> HIDE DEF cr
<1>4. HandlerSound(handler[h])
  BY DEF SafetyInv
<1>5. /\ filed[handler[h].id] # None
      /\ Body(cr) = filed[handler[h].id]
      /\ cr.status = "approved" => \E e \in commits : e.author = handler[h].id
  BY <1>1, <1>2, <1>4 DEF HandlerSound
<1>6. /\ Agree(requests, filed)' /\ Committed(requests, commits)'
      /\ Agree(disk, filed)' /\ Committed(disk, commits)'
  BY <1>1, <1>2, <1>3, <1>5, UpdateStored
<1>7. \A g \in Handlers : HandlerSound(handler[g])'
  BY <1>3, IdleSafe
<1>8. QED
  BY <1>3, <1>6, <1>7, CommitsUnchanged DEF SafetyInv

\* The optimistic-lock check: a handler that passes it has the version of the branch,
\* unless it took a failed read for the blank content.
LEMMA SafeCheck ==
  ASSUME TypeInv, SafetyInv, NEW h \in Handlers, ApproveCheck(h)
  PROVE  SafetyInv'
<1>1. /\ handler[h].pc = "check"
      /\ handler[h] \in Local
      /\ handler[h].cr \in ChangeRequest
      /\ handler[h].id \in Ids
      /\ HandlerSound(handler[h])
  BY DEF ApproveCheck, TypeInv, TypeOK, HoldsRequest, Reviewing, SafetyInv
<1> DEFINE f == handler[h].cr.file
<1>2. PICK current \in BestEffortRead(f) :
        Goto(h, [handler[h] EXCEPT !.seen = rev[f],
                   !.pc = IF BaseMatches(handler[h].cr, current) THEN "probe"
                                                                 ELSE "save_conflict"])
  BY DEF ApproveCheck
<1> DEFINE l == [handler[h] EXCEPT !.seen = rev[f],
                   !.pc = IF BaseMatches(handler[h].cr, current) THEN "probe"
                                                                 ELSE "save_conflict"]
<1>3. /\ l.pc = IF BaseMatches(handler[h].cr, current) THEN "probe" ELSE "save_conflict"
      /\ l.id = handler[h].id
      /\ l.cr = handler[h].cr
      /\ l.seen = rev[f]
  BY <1>1 DEF Local
<1>4. Goto(h, l) /\ Frame
  BY <1>2 DEF ApproveCheck, Frame
<1> HIDE DEF l
<1>5. f \in Files /\ rev[f] \in Nat
  BY <1>1 DEF ChangeRequest, TypeInv, TypeOK
<1>6. BaseMatches(handler[h].cr, current) => Fresh(l)
  <2> SUFFICES ASSUME Trim[current] = handler[h].cr.base PROVE Fresh(l)
    BY DEF BaseMatches
  <2>1. l.seen <= rev[f]
    BY <1>3, <1>5
  <2>2. Trusted(handler[h].cr.base) => Version(repo[f]) = handler[h].cr.base
    BY ContentAssumption DEF BestEffortRead, Trusted, Version
  <2>3. QED
    BY <1>3, <2>1, <2>2 DEF Fresh
<1>7. HandlerSound(l)
  BY <1>1, <1>3, <1>6 DEF HandlerSound, Reviewing
<1>8. QED
  BY <1>4, <1>7, MoveSafe

LEMMA SafeProbe ==
  ASSUME TypeInv, SafetyInv, NEW h \in Handlers, ApproveProbe(h)
  PROVE  SafetyInv'
<1>1. handler[h].pc = "probe" /\ handler[h] \in Local /\ HandlerSound(handler[h])
  BY DEF ApproveProbe, TypeInv, TypeOK, SafetyInv
<1>2. PICK exists \in BOOLEAN : Goto(h, [handler[h] EXCEPT !.pc = "commit", !.exists = exists])
  BY DEF ApproveProbe
<1> DEFINE l == [handler[h] EXCEPT !.pc = "commit", !.exists = exists]
<1>3. /\ l.pc = "commit" /\ l.id = handler[h].id
      /\ l.cr = handler[h].cr /\ l.seen = handler[h].seen
  BY <1>1 DEF Local
<1>4. Goto(h, l) /\ Frame
  BY <1>2 DEF ApproveProbe, Frame
<1> HIDE DEF l
<1>5. HandlerSound(l)
  BY <1>1, <1>3 DEF HandlerSound, Fresh, Reviewing
<1>6. QED
  BY <1>4, <1>5, MoveSafe

LEMMA SafeCommitFails ==
  ASSUME TypeInv, SafetyInv, NEW h \in Handlers, ApproveCommitFails(h)
  PROVE  SafetyInv'
<1>1. handler[h].pc = "commit" /\ handler[h] \in Local /\ HandlerSound(handler[h])
  BY DEF ApproveCommitFails, TypeInv, TypeOK, SafetyInv
<1> DEFINE l == [handler[h] EXCEPT !.pc = "save_error"]
<1>2. l.pc = "save_error" /\ l.id = handler[h].id /\ l.cr = handler[h].cr
  BY <1>1 DEF Local
<1>3. Goto(h, l) /\ Frame
  BY DEF ApproveCommitFails, Frame
<1> HIDE DEF l
<1>4. HandlerSound(l)
  BY <1>1, <1>2 DEF HandlerSound, Reviewing
<1>5. QED
  BY <1>3, <1>4, MoveSafe

\* A commit leaves the other handlers sound: those on the same file are no longer at
\* the revision they saw, so nothing is claimed of their version any more.
LEMMA LandSound ==
  ASSUME TypeInv, SafetyInv, NEW e \in Commit, Land(e), UNCHANGED filed,
         NEW l \in Local, HandlerSound(l), l.pc # "idle" => l.cr \in ChangeRequest
  PROVE  HandlerSound(l)'
<1>1. commits' = commits \cup {e} /\ e.file \in Files
  BY DEF Land, Commit
<1>2. ASSUME l.pc \in {"probe", "commit"} PROVE Fresh(l)'
  <2>1. l.cr.file \in Files /\ l.seen \in Nat /\ Fresh(l)
    BY <1>2 DEF HandlerSound, ChangeRequest, Local
  <2>2. CASE l.cr.file = e.file
    BY <2>1, <2>2 DEF Land, Fresh, TypeInv, TypeOK
  <2>3. CASE l.cr.file # e.file
    <3>1. rev'[l.cr.file] = rev[l.cr.file] /\ repo'[l.cr.file] = repo[l.cr.file]
      BY <1>1, <2>1, <2>3 DEF Land, TypeInv, TypeOK
    <3>2. QED
      BY <2>1, <3>1 DEF Fresh, Version
  <2>4. QED
    BY <2>2, <2>3
<1>3. QED
  BY <1>1, <1>2 DEF HandlerSound

\* A commit with a sound entry preserves the part of the invariant about the store and
\* the history, if the entry of a request replaces its base whenever nothing intervened.
LEMMA LandSafe ==
  ASSUME TypeInv, SafetyInv, NEW e \in Commit, Land(e), UNCHANGED <<requests, disk, filed>>,
         CommitSound(e),
         e.author # None /\ e.at = e.seen /\ Trusted(e.base) => Version(e.parent) = e.base
  PROVE  /\ Agree(requests, filed)' /\ Committed(requests, commits)'
         /\ Agree(disk, filed)' /\ Committed(disk, commits)'
         /\ (\A d \in commits : CommitSound(d))'
         /\ CheckedVersionIsReplaced'
<1>1. commits' = commits \cup {e}
  BY DEF Land
<1>2. Agree(requests, filed)' /\ Agree(disk, filed)'
  BY DEF SafetyInv, Agree
<1>3. Committed(requests, commits)' /\ Committed(disk, commits)'
  BY <1>1 DEF SafetyInv, Committed
<1>4. (\A d \in commits : CommitSound(d))'
  BY <1>1 DEF SafetyInv, CommitSound
<1>5. CheckedVersionIsReplaced'
  BY <1>1 DEF SafetyInv, CheckedVersionIsReplaced, Version
<1>6. QED
  BY <1>2, <1>3, <1>4, <1>5

LEMMA SafeCommit ==
  ASSUME TypeInv, SafetyInv, NEW h \in Handlers, ApproveCommit(h)
  PROVE  SafetyInv'
<1> DEFINE e == CommitOf(handler[h])
<1>1. /\ handler[h].pc = "commit"
      /\ handler[h] \in Local
      /\ handler[h].id \in Ids
      /\ HandlerSound(handler[h])
      /\ handler[h].cr \in ChangeRequest
  BY DEF ApproveCommit, TypeInv, TypeOK, HoldsRequest, Reviewing, SafetyInv
<1>2. e \in Commit
  BY <1>1, CommitOfType
<1>3. Land(e) /\ UNCHANGED <<requests, disk, filed>>
  BY DEF ApproveCommit
<1>4. /\ e.author = handler[h].id
      /\ e.file = handler[h].cr.file
      /\ e.content = handler[h].cr.new
      /\ e.base = handler[h].cr.base
      /\ e.parent = repo[handler[h].cr.file]
      /\ e.at = rev[handler[h].cr.file]
      /\ e.seen = handler[h].seen
  BY DEF CommitOf
<1> HIDE DEF e
<1>5. CommitSound(e)
  BY <1>1, <1>4 DEF CommitSound, HandlerSound, Reviewing, Body
<1>6. e.author # None /\ e.at = e.seen /\ Trusted(e.base) => Version(e.parent) = e.base
  BY <1>1, <1>4 DEF HandlerSound, Fresh
<1>7. \A g \in Handlers : HandlerSound(handler[g])'
  <2>1. PICK step \in {"save_approved", "save_error"} :
          Goto(h, [handler[h] EXCEPT !.pc = step])
    BY DEF ApproveCommit
  <2> SUFFICES ASSUME NEW g \in Handlers PROVE HandlerSound(handler[g])'
    OBVIOUS
  <2>2. CASE g = h
    <3>1. /\ handler'[h].pc = step
          /\ handler'[h].id = handler[h].id
          /\ handler'[h].cr = handler[h].cr
      BY <1>1, <2>1 DEF Goto, TypeInv, TypeOK, Local
    <3>2. e \in commits' /\ filed' = filed
      BY <1>3 DEF Land
    <3>3. QED
      BY <1>1, <1>4, <2>2, <3>1, <3>2 DEF HandlerSound, Fresh, Reviewing
  <2>3. CASE g # h
    <3>1. handler'[g] = handler[g] /\ handler[g] \in Local
      BY <2>1, <2>3 DEF Goto, TypeInv, TypeOK
    <3>2. HandlerSound(handler[g]) /\ (handler[g].pc # "idle" => handler[g].cr \in ChangeRequest)
      BY DEF SafetyInv, TypeInv, HoldsRequest
    <3>3. QED
      BY <1>2, <1>3, <3>1, <3>2, LandSound DEF HandlerSound, Fresh
  <2>4. QED
    BY <2>2, <2>3
<1>8. QED
  BY <1>2, <1>3, <1>5, <1>6, <1>7, LandSafe DEF SafetyInv

LEMMA SafeOtherCommit ==
  ASSUME TypeInv, SafetyInv, NEW f \in Files, NEW c \in Contents \cup {None}, OtherCommit(f, c)
  PROVE  SafetyInv'
<1> DEFINE e == [author |-> None, file |-> f, content |-> c, base |-> Blank,
                 parent |-> repo[f], at |-> rev[f], seen |-> rev[f]]
<1>1. e \in Commit /\ e.author = None
  BY ContentAssumption DEF Commit, TypeInv, TypeOK
<1>2. Land(e) /\ UNCHANGED <<requests, disk, filed, handler>>
  BY DEF OtherCommit
<1> HIDE DEF e
<1>3. \A g \in Handlers : HandlerSound(handler[g])'
  <2> SUFFICES ASSUME NEW g \in Handlers PROVE HandlerSound(handler[g])'
    OBVIOUS
  <2>1. /\ handler'[g] = handler[g]
        /\ handler[g] \in Local
        /\ HandlerSound(handler[g])
        /\ handler[g].pc # "idle" => handler[g].cr \in ChangeRequest
    BY <1>2 DEF TypeInv, TypeOK, HoldsRequest, SafetyInv
  <2>2. QED
    BY <1>1, <1>2, <2>1, LandSound DEF HandlerSound, Fresh
<1>4. QED
  BY <1>1, <1>2, <1>3, LandSafe DEF SafetyInv, CommitSound

LEMMA SafeLoad ==
  ASSUME TypeInv, SafetyInv, NEW h \in Handlers, NEW f \in Files, Load(h, f)
  PROVE  SafetyInv'
<1>1. PICK cr : Goto(h, [Idle EXCEPT !.pc = "loaded", !.cr = cr])
  BY DEF Load
<1> DEFINE l == [Idle EXCEPT !.pc = "loaded", !.cr = cr]
<1>2. Goto(h, l) /\ l.pc = "loaded" /\ Frame
  BY <1>1 DEF Load, Frame, Idle
<1> HIDE DEF l
<1>3. HandlerSound(l)
  BY <1>2 DEF HandlerSound, Reviewing
<1>4. QED
  BY <1>2, <1>3, MoveSafe

LEMMA SafeCreateFetch ==
  ASSUME TypeInv, SafetyInv, NEW h \in Handlers, NEW f \in Files, NEW new \in Contents,
         CreateFetch(h, f, new)
  PROVE  SafetyInv'
<1>1. PICK fetched \in BestEffortRead(f) :
        Goto(h, [Idle EXCEPT !.pc = "create",
                   !.cr = [file |-> f, old |-> fetched, new |-> new,
                           base |-> BaseVersion(h, fetched),
                           status |-> "pending", commitError |-> FALSE]])
  BY DEF CreateFetch
<1> DEFINE l == [Idle EXCEPT !.pc = "create",
                   !.cr = [file |-> f, old |-> fetched, new |-> new,
                           base |-> BaseVersion(h, fetched),
                           status |-> "pending", commitError |-> FALSE]]
<1>2. Goto(h, l) /\ l.pc = "create" /\ l.cr.status = "pending" /\ Frame
  BY <1>1 DEF CreateFetch, Frame, Idle
<1> HIDE DEF l
<1>3. HandlerSound(l)
  BY <1>2 DEF HandlerSound, Reviewing
<1>4. QED
  BY <1>2, <1>3, MoveSafe

\* A fresh id is not the author of a commit, nor the subject of a handler, nor stored.
LEMMA SafeCreateStore ==
  ASSUME TypeInv, SafetyInv, NEW h \in Handlers, CreateStore(h)
  PROVE  SafetyInv'
<1> DEFINE cr == handler[h].cr
<1>1. cr \in ChangeRequest /\ cr.status = "pending"
  BY DEF CreateStore, TypeInv, HoldsRequest, SafetyInv, HandlerSound
<1>2. PICK i \in Free : Save([requests EXCEPT ![i] = cr]) /\ filed' = [filed EXCEPT ![i] = Body(cr)]
  BY DEF CreateStore
<1>3. Body(cr) # None /\ i \in Ids /\ filed[i] = None
  BY <1>1, BodyType, NoneAssumption DEF Free
<1>4. Goto(h, Idle) /\ UNCHANGED <<repo, rev, commits>>
  BY DEF CreateStore
<1> HIDE DEF cr
<1>5. /\ filed'[i] = Body(cr)
      /\ \A j \in Ids \ {i} : filed'[j] = filed[j]
  BY <1>2, <1>3 DEF TypeInv, TypeOK
<1> DEFINE list == [requests EXCEPT ![i] = cr]
<1>6. list[i] = cr /\ \A j \in Ids \ {i} : list[j] = requests[j]
  BY <1>3 DEF TypeInv, TypeOK
<1>7. requests' = list /\ (disk' = list \/ disk' = disk)
  BY <1>2 DEF Save
<1> HIDE DEF list
<1>8. Agree(list, filed') /\ Agree(disk, filed')
  BY <1>3, <1>5, <1>6 DEF SafetyInv, Agree
<1>9. Committed(list, commits)
  BY <1>1, <1>6 DEF SafetyInv, Committed
<1>10. /\ Agree(requests, filed)' /\ Committed(requests, commits)'
       /\ Agree(disk, filed)' /\ Committed(disk, commits)'
  <2>1. CASE disk' = list
    BY <2>1, <1>4, <1>7, <1>8, <1>9 DEF Agree, Committed
  <2>2. CASE disk' = disk
    BY <2>2, <1>4, <1>7, <1>8, <1>9 DEF Agree, Committed, SafetyInv
  <2>3. QED
    BY <1>7, <2>1, <2>2
<1>11. \A g \in Handlers : HandlerSound(handler[g])'
  <2> SUFFICES ASSUME NEW g \in Handlers PROVE HandlerSound(handler[g])'
    OBVIOUS
  <2>1. CASE g = h
    BY <1>4, <2>1 DEF Goto, TypeInv, TypeOK, HandlerSound, Idle, Reviewing
  <2>2. CASE g # h
    <3>1. handler'[g] = handler[g] /\ HandlerSound(handler[g])
      BY <1>4, <2>2 DEF Goto, TypeInv, TypeOK, SafetyInv
    <3>2. handler[g].pc \in Reviewing => handler[g].id \in Ids \ {i}
      BY <1>3, <3>1 DEF HandlerSound, TypeInv, HoldsRequest
    <3>3. QED
      BY <1>4, <1>5, <3>1, <3>2 DEF HandlerSound, Fresh
  <2>3. QED
    BY <2>1, <2>2
<1>12. (\A e \in commits : CommitSound(e))'
  <2> SUFFICES ASSUME NEW e \in commits, e.author # None PROVE CommitSound(e)'
    BY <1>4 DEF CommitSound
  <2>1. CommitSound(e) /\ e.author \in Ids \ {i}
    BY <1>3 DEF SafetyInv, TypeInv, TypeOK, Commit, CommitSound
  <2>2. QED
    BY <1>5, <2>1 DEF CommitSound
<1>13. CheckedVersionIsReplaced'
  BY <1>4 DEF SafetyInv, CheckedVersionIsReplaced
<1>14. QED
  BY <1>10, <1>11, <1>12, <1>13 DEF SafetyInv

LEMMA SafeDeleteStart ==
  ASSUME TypeInv, SafetyInv, NEW h \in Handlers, NEW i \in Ids, DeleteStart(h, i)
  PROVE  SafetyInv'
<1> DEFINE l == [Idle EXCEPT !.pc = "delete", !.id = i, !.cr = requests[i]]
<1>1. Goto(h, l) /\ l.pc = "delete" /\ Frame
  BY DEF DeleteStart, Frame, Idle
<1> HIDE DEF l
<1>2. HandlerSound(l)
  BY <1>1 DEF HandlerSound, Reviewing
<1>3. QED
  BY <1>1, <1>2, MoveSafe

LEMMA SafeDeleteStore ==
  ASSUME TypeInv, SafetyInv, NEW h \in Handlers, DeleteStore(h)
  PROVE  SafetyInv'
<1> DEFINE i == handler[h].id
<1>1. Goto(h, Idle) /\ UNCHANGED <<repo, rev, commits, filed>> /\ i \in Ids
  BY DEF DeleteStore, TypeInv, HoldsRequest
<1>2. /\ Agree(requests, filed)' /\ Committed(requests, commits)'
      /\ Agree(disk, filed)' /\ Committed(disk, commits)'
  <2>1. CASE requests[i] = None
    BY <1>1, <2>1 DEF DeleteStore, SafetyInv, Agree, Committed
  <2>2. CASE requests[i] # None
    <3>1. Save([requests EXCEPT ![i] = None])
      BY <2>2 DEF DeleteStore
    <3>2. Stored([requests EXCEPT ![i] = None])
      BY <1>1 DEF TypeInv, TypeOK, SafetyInv, Stored, Agree, Committed
    <3>3. QED
      BY <1>1, <3>1, <3>2, SaveStored
  <2>3. QED
    BY <2>1, <2>2
<1>3. \A g \in Handlers : HandlerSound(handler[g])'
  BY <1>1, IdleSafe
<1>4. QED
  BY <1>1, <1>2, <1>3, CommitsUnchanged DEF SafetyInv

LEMMA SafeRestart ==
  ASSUME TypeInv, SafetyInv, NEW file \in [Ids -> ChangeRequest \cup {None}], Stored(file),
         Restart(file)
  PROVE  SafetyInv'
<1>1. UNCHANGED <<repo, rev, commits, filed>> /\ requests' = file /\ disk' = file
  BY DEF Restart
<1>2. \A g \in Handlers : HandlerSound(handler[g])'
  <2> SUFFICES ASSUME NEW g \in Handlers PROVE HandlerSound(handler[g])'
    OBVIOUS
  <2>1. handler'[g] = IF InFlight(g) THEN Idle ELSE handler[g]
    BY DEF Restart
  <2>2. HandlerSound(handler[g])
    BY DEF SafetyInv
  <2>3. QED
    BY <1>1, <2>1, <2>2 DEF HandlerSound, Fresh, Idle, Reviewing
<1>3. /\ Agree(requests, filed)' /\ Committed(requests, commits)'
      /\ Agree(disk, filed)' /\ Committed(disk, commits)'
  BY <1>1 DEF Stored, Agree, Committed
<1>4. QED
  BY <1>1, <1>2, <1>3, CommitsUnchanged DEF SafetyInv

LEMMA SafetyInvInit == Init => SafetyInv
<1> SUFFICES ASSUME Init PROVE SafetyInv
  OBVIOUS
<1>1. \A h \in Handlers : HandlerSound(handler[h])
  BY IdleSound DEF Init
<1>2. QED
  BY <1>1 DEF Init, SafetyInv, Agree, Committed, CheckedVersionIsReplaced

LEMMA SafetyInvNext == TypeInv /\ SafetyInv /\ [Next]_vars => SafetyInv'
<1> SUFFICES ASSUME TypeInv, SafetyInv, [Next]_vars PROVE SafetyInv'
  OBVIOUS
<1>1. ASSUME NEW h \in Handlers, Handle(h) PROVE SafetyInv'
  <2>1. ASSUME NEW f \in Files, Load(h, f) PROVE SafetyInv'
    BY <2>1, SafeLoad
  <2>2. ASSUME NEW f \in Files, NEW c \in Contents, CreateFetch(h, f, c) PROVE SafetyInv'
    BY <2>2, SafeCreateFetch
  <2>3. ASSUME NEW i \in Ids, ApproveStart(h, i) PROVE SafetyInv'
    BY <2>3, SafeReview DEF ApproveStart
  <2>4. ASSUME NEW i \in Ids, RejectStart(h, i) PROVE SafetyInv'
    BY <2>4, SafeReview DEF RejectStart
  <2>5. ASSUME NEW i \in Ids, DeleteStart(h, i) PROVE SafetyInv'
    BY <2>5, SafeDeleteStart
  <2>6. CASE CreateStore(h)
    BY <2>6, SafeCreateStore
  <2>7. CASE ApproveCheck(h)
    BY <2>7, SafeCheck
  <2>8. CASE ApproveProbe(h)
    BY <2>8, SafeProbe
  <2>9. CASE ApproveCommit(h)
    BY <2>9, SafeCommit
  <2>10. CASE ApproveCommitFails(h)
    BY <2>10, SafeCommitFails
  <2>11. CASE ApproveError(h)
    BY <2>11, SafeFinish DEF ApproveError, Reviewing
  <2>12. CASE ApproveSave(h)
    BY <2>12, SafeFinish DEF ApproveSave, Reviewing
  <2>13. ASSUME handler[h].pc \in Reviewing PROVE handler[h].cr.commitError \in BOOLEAN
    <3>1. handler[h].cr \in ChangeRequest
      BY <2>13 DEF TypeInv, HoldsRequest, Reviewing
    <3>2. QED
      BY <3>1 DEF ChangeRequest
  <2>14. CASE ApproveConflict(h)
    <3>1. handler[h].cr.commitError \in BOOLEAN
      BY <2>13, <2>14 DEF ApproveConflict, Finish, Reviewing
    <3>2. QED
      BY <2>14, <3>1, SafeFinish DEF ApproveConflict, Reviewing
  <2>15. CASE RejectSave(h)
    <3>1. handler[h].cr.commitError \in BOOLEAN
      BY <2>13, <2>15 DEF RejectSave, Finish, Reviewing
    <3>2. QED
      BY <2>15, <3>1, SafeFinish DEF RejectSave, Reviewing
  <2>16. CASE DeleteStore(h)
    BY <2>16, SafeDeleteStore
  <2>17. QED
    BY <1>1, <2>1, <2>2, <2>3, <2>4, <2>5, <2>6, <2>7, <2>8, <2>9, <2>10, <2>11, <2>12,
       <2>14, <2>15, <2>16 DEF Handle
<1>2. ASSUME NEW f \in Files, NEW c \in Contents \cup {None}, OtherCommit(f, c) PROVE SafetyInv'
  BY <1>2, SafeOtherCommit
<1>3. CASE Crash
  <2>1. disk \in [Ids -> ChangeRequest \cup {None}] /\ Stored(disk)
    BY DEF TypeInv, TypeOK, SafetyInv, Stored
  <2>2. QED
    BY <1>3, <2>1, SafeRestart DEF Crash
<1>4. CASE CrashWhileSaving
  <2>1. /\ [i \in Ids |-> None] \in [Ids -> ChangeRequest \cup {None}]
        /\ Stored([i \in Ids |-> None])
    BY DEF Stored, Agree, Committed
  <2>2. QED
    BY <1>4, <2>1, SafeRestart DEF CrashWhileSaving
<1>5. CASE UNCHANGED vars
  <2>1. \A g \in Handlers : HandlerSound(handler[g])'
    BY <1>5 DEF vars, SafetyInv, HandlerSound, Fresh
  <2>2. /\ Agree(requests, filed)' /\ Committed(requests, commits)'
        /\ Agree(disk, filed)' /\ Committed(disk, commits)'
    BY <1>5 DEF vars, SafetyInv, Agree, Committed
  <2>3. QED
    BY <1>5, <2>1, <2>2, CommitsUnchanged DEF vars, SafetyInv
<1>6. QED
  BY <1>1, <1>2, <1>3, <1>4, <1>5 DEF Next

THEOREM SafetyInvariant == Spec => [](TypeInv /\ SafetyInv)
BY TypeInvInit, TypeInvNext, SafetyInvInit, SafetyInvNext, PTL DEF Spec

\* An approved request is in GitLab's history, for any number of concurrent reviewers and
\* whatever fails: only a handler whose CommitFile succeeded stores "approved".
THEOREM ApprovalsAreCommits == Spec => []ApprovedWasCommitted
<1>1. TypeInv /\ SafetyInv => ApprovedWasCommitted
  BY DEF SafetyInv, Committed, ApprovedWasCommitted, CommitsOf
<1>2. QED
  BY <1>1, SafetyInvariant, PTL

\* Commits carry what was submitted, and stale copies never mix two requests.
THEOREM CommitsAreReviewed == Spec => []CommitsWhatWasReviewed
<1>1. TypeInv /\ SafetyInv => CommitsWhatWasReviewed
  BY DEF SafetyInv, CommitSound, Agree, CommitsWhatWasReviewed
<1>2. QED
  BY <1>1, SafetyInvariant, PTL

\* What the optimistic lock of approveChangeRequest does guarantee without any lock
\* between its check and its commit: it never overwrites a change it could have seen.
THEOREM OptimisticLockReach == Spec => []CheckedVersionIsReplaced
<1>1. TypeInv /\ SafetyInv => CheckedVersionIsReplaced
  BY DEF SafetyInv
<1>2. QED
  BY <1>1, SafetyInvariant, PTL

-----------------------------------------------------------------------------
(* Deleted requests.                                                         *)

\* If saving works, a request that is gone from memory is gone from the file.
Durable ==
  "save" \notin Faults =>
    \A i \in Ids : filed[i] # None /\ requests[i] = None => disk[i] = None

Gone(i) == filed[i] # None /\ requests[i] = None

Written == disk' = requests' \/ "save" \in Faults

\* How a step changes the store: not at all; one stored record; one new record; reload.
StoreStep ==
  \/ UNCHANGED <<requests, disk, filed>>
  \/ /\ \E i \in Ids : /\ requests[i] # None
                       /\ \A j \in Ids \ {i} : requests'[j] = requests[j]
     /\ Written /\ filed' = filed
  \/ /\ \E i \in Ids : /\ filed[i] = None
                       /\ \A j \in Ids \ {i} : requests'[j] = requests[j] /\ filed'[j] = filed[j]
     /\ Written
  \/ /\ disk' = disk \/ \A i \in Ids : disk'[i] = None
     /\ requests' = disk' /\ filed' = filed /\ crashes' # crashes

LEMMA UpdateStep ==
  ASSUME TypeInv, NEW i \in Ids, NEW cr, Update(i, cr), UNCHANGED filed
  PROVE  StoreStep
BY DEF Update, Save, Written, StoreStep, TypeInv, TypeOK

LEMMA FinishStep ==
  ASSUME TypeInv, NEW h \in Handlers, NEW step \in Reviewing,
         NEW status, NEW failed, Finish(h, step, status, failed)
  PROVE  StoreStep
<1>1. handler[h].id \in Ids
  BY DEF Finish, TypeInv, HoldsRequest
<1>2. Update(handler[h].id, [handler[h].cr EXCEPT !.status = status, !.commitError = failed])
  BY DEF Finish
<1>3. UNCHANGED filed
  BY DEF Finish
<1>4. QED
  BY <1>1, <1>2, <1>3, UpdateStep

LEMMA NextStoreStep ==
  ASSUME TypeInv, [Next]_vars
  PROVE  StoreStep
<1>1. ASSUME NEW h \in Handlers, Handle(h) PROVE StoreStep
  <2>1. CASE \E f \in Files : Load(h, f) \/ (\E c \in Contents : CreateFetch(h, f, c))
    BY <2>1 DEF Load, CreateFetch, StoreStep
  <2>2. CASE \E i \in Ids : ApproveStart(h, i) \/ RejectStart(h, i) \/ DeleteStart(h, i)
    BY <2>2 DEF ApproveStart, RejectStart, StartReview, DeleteStart, StoreStep
  <2>3. CASE CreateStore(h)
    BY <2>3 DEF CreateStore, Free, Save, Written, StoreStep, TypeInv, TypeOK
  <2>4. CASE ApproveCheck(h) \/ ApproveProbe(h) \/ ApproveCommit(h) \/ ApproveCommitFails(h)
    BY <2>4 DEF ApproveCheck, ApproveProbe, ApproveCommit, ApproveCommitFails, StoreStep
  <2>5. CASE ApproveConflict(h)
    BY <2>5, FinishStep DEF ApproveConflict, Reviewing
  <2>6. CASE ApproveError(h)
    BY <2>6, FinishStep DEF ApproveError, Reviewing
  <2>7. CASE ApproveSave(h)
    BY <2>7, FinishStep DEF ApproveSave, Reviewing
  <2>8. CASE RejectSave(h)
    BY <2>8, FinishStep DEF RejectSave, Reviewing
  <2>9. CASE DeleteStore(h)
    <3>1. handler[h].id \in Ids
      BY <2>9 DEF DeleteStore, TypeInv, HoldsRequest
    <3>2. QED
      BY <2>9, <3>1 DEF DeleteStore, Save, Written, StoreStep, TypeInv, TypeOK
  <2>10. QED
    BY <1>1, <2>1, <2>2, <2>3, <2>4, <2>5, <2>6, <2>7, <2>8, <2>9 DEF Handle
<1>2. ASSUME NEW f \in Files, NEW c \in Contents \cup {None}, OtherCommit(f, c) PROVE StoreStep
  BY <1>2 DEF OtherCommit, StoreStep
<1>3. CASE Crash
  BY <1>3 DEF Crash, Restart, StoreStep, TypeInv, TypeOK
<1>4. CASE CrashWhileSaving
  BY <1>4 DEF CrashWhileSaving, Restart, StoreStep, TypeInv, TypeOK
<1>5. CASE UNCHANGED vars
  BY <1>5 DEF vars, StoreStep
<1>6. QED
  BY <1>1, <1>2, <1>3, <1>4, <1>5 DEF Next

LEMMA StoreStepDurable ==
  ASSUME TypeInv, Durable, StoreStep
  PROVE  /\ Durable'
         /\ \A i \in Ids : Gone(i) /\ (crashes' = crashes \/ "save" \notin Faults)
                          => requests'[i] = None
BY DEF StoreStep, Written, Durable, Gone, TypeInv, TypeOK

\* A deleted request never comes back through the stale copies handlers write; and if
\* saving works, no crash or restart brings it back either.
THEOREM DeletedIsForever == Spec => DeletedStaysDeleted
<1>1. Init => Durable
  BY DEF Init, Durable
<1>2. TypeInv /\ Durable /\ [Next]_vars => Durable'
  BY NextStoreStep, StoreStepDurable
<1>3. TypeInv /\ Durable /\ [Next]_vars =>
        [\A i \in Ids :
           filed[i] # None /\ requests[i] = None /\ (crashes' = crashes \/ "save" \notin Faults)
             => requests'[i] = None]_vars
  BY NextStoreStep, StoreStepDurable DEF Gone
<1>4. QED
  BY <1>1, <1>2, <1>3, TypeInvInit, TypeInvNext, PTL DEF Spec, DeletedStaysDeleted

-----------------------------------------------------------------------------
(* Handlers and other writers that do not interleave.                        *)

\* What holds of a handler while no other is under way: the request is as it was read, and
\* so is the revision of the file since the version check.
Fits(l, list, revs) ==
  /\ l.pc \in Reviewing => list[l.id] = l.cr /\ l.cr.status = "pending"
  /\ l.pc \in {"probe", "commit"} => l.seen = revs[l.cr.file]

Alone == \A g, h \in Handlers : InFlight(g) /\ InFlight(h) => g = h

\* Every approval replaced the revision it had checked.
AtCheck == \A e \in commits : e.author # None => e.at = e.seen

SerialInv ==
  /\ Alone
  /\ \A h \in Handlers : Fits(handler[h], requests, rev)
  /\ AtCheck

Quiet(l) == l.pc \in {"idle", "loaded"}

LEMMA QuietFits ==
  ASSUME NEW l, Quiet(l), NEW list, NEW revs
  PROVE  Fits(l, list, revs) /\ l.pc \notin Reviewing
BY DEF Quiet, Fits, Reviewing

\* Only h may be under way after the step: the rest is said of h alone.
LEMMA SerialOne ==
  ASSUME NEW h \in Handlers, \A g \in Handlers \ {h} : Quiet(handler'[g]),
         Fits(handler'[h], requests', rev'), AtCheck'
  PROVE  SerialInv'
<1>1. Alone'
  BY DEF Alone, InFlight, Quiet
<1>2. (\A g \in Handlers : Fits(handler[g], requests, rev))'
  <2> SUFFICES ASSUME NEW g \in Handlers PROVE Fits(handler'[g], requests', rev')
    BY DEF Fits
  <2>1. CASE g = h
    BY <2>1
  <2>2. CASE g # h
    BY <2>2, QuietFits
  <2>3. QED
    BY <2>1, <2>2
<1>3. QED
  BY <1>1, <1>2 DEF SerialInv

\* The handler that moves is the one under way, or there was none.
LEMMA OthersQuiet ==
  ASSUME TypeInv, Alone, NEW h \in Handlers, NEW l, Goto(h, l),
         InFlight(h) \/ \A g \in Handlers : ~InFlight(g)
  PROVE  /\ handler'[h] = l
         /\ \A g \in Handlers \ {h} : handler'[g] = handler[g] /\ Quiet(handler'[g])
<1>1. handler'[h] = l /\ \A g \in Handlers \ {h} : handler'[g] = handler[g]
  BY DEF Goto, TypeInv, TypeOK
<1>2. \A g \in Handlers \ {h} : ~InFlight(g)
  BY DEF Alone
<1>3. QED
  BY <1>1, <1>2 DEF InFlight, Quiet

LEMMA SerialGoto ==
  ASSUME TypeInv, SerialInv, NEW h \in Handlers, NEW l, Goto(h, l),
         InFlight(h) \/ \A g \in Handlers : ~InFlight(g),
         Fits(l, requests', rev'), AtCheck'
  PROVE  SerialInv'
<1>1. handler'[h] = l /\ \A g \in Handlers \ {h} : Quiet(handler'[g])
  BY OthersQuiet DEF SerialInv
<1>2. QED
  BY <1>1, SerialOne

LEMMA IdleFits == \A list, revs : Fits(Idle, list, revs)
BY DEF Idle, Fits, Reviewing

LEMMA AtCheckKept == AtCheck /\ UNCHANGED commits => AtCheck'
BY DEF AtCheck

\* Opening a file takes no handler on its way.
LEMMA SerialLoad ==
  ASSUME TypeInv, SerialInv, NEW h \in Handlers, NEW f \in Files, Load(h, f)
  PROVE  SerialInv'
<1>1. PICK cr : Goto(h, [Idle EXCEPT !.pc = "loaded", !.cr = cr])
  BY DEF Load
<1> DEFINE l == [Idle EXCEPT !.pc = "loaded", !.cr = cr]
<1>2. Goto(h, l) /\ Quiet(l)
  BY <1>1 DEF Idle, Quiet
<1> HIDE DEF l
<1>3. handler'[h] = l /\ \A g \in Handlers \ {h} : handler'[g] = handler[g]
  BY <1>2 DEF Goto, TypeInv, TypeOK
<1>4. UNCHANGED <<requests, rev, commits>>
  BY DEF Load
<1>5. Alone'
  BY <1>2, <1>3 DEF SerialInv, Alone, InFlight, Quiet
<1>6. \A g \in Handlers : Fits(handler'[g], requests', rev')
  BY <1>2, <1>3, <1>4, QuietFits DEF SerialInv
<1>7. QED
  BY <1>4, <1>5, <1>6, AtCheckKept DEF SerialInv, Fits

LEMMA SerialCreateFetch ==
  ASSUME ~Overlap, TypeInv, SerialInv, NEW h \in Handlers, NEW f \in Files, NEW new \in Contents,
         CreateFetch(h, f, new)
  PROVE  SerialInv'
<1>1. PICK cr : Goto(h, [Idle EXCEPT !.pc = "create", !.cr = cr])
  BY DEF CreateFetch
<1> DEFINE l == [Idle EXCEPT !.pc = "create", !.cr = cr]
<1>2. Goto(h, l) /\ Fits(l, requests', rev')
  BY <1>1 DEF Idle, Fits, Reviewing
<1> HIDE DEF l
<1>3. (\A g \in Handlers : ~InFlight(g)) /\ UNCHANGED commits
  BY DEF CreateFetch, MayEnter
<1>4. QED
  BY <1>2, <1>3, AtCheckKept, SerialGoto DEF SerialInv

LEMMA SerialReview ==
  ASSUME ~Overlap, TypeInv, SerialInv, NEW h \in Handlers, NEW i \in Ids,
         NEW step \in {"check", "save_rejected"}, StartReview(h, i, step)
  PROVE  SerialInv'
<1> DEFINE l == [Idle EXCEPT !.pc = step, !.id = i, !.cr = requests[i]]
<1>1. Goto(h, l) /\ UNCHANGED <<requests, commits>> /\ requests[i].status = "pending"
  BY DEF StartReview, IsPending
<1>2. l.pc = step /\ l.id = i /\ l.cr = requests[i]
  BY DEF Idle
<1> HIDE DEF l
<1>3. Fits(l, requests', rev')
  BY <1>1, <1>2 DEF Fits
<1>4. \A g \in Handlers : ~InFlight(g)
  BY DEF StartReview, MayEnter
<1>5. QED
  BY <1>1, <1>3, <1>4, AtCheckKept, SerialGoto DEF SerialInv

LEMMA SerialDeleteStart ==
  ASSUME ~Overlap, TypeInv, SerialInv, NEW h \in Handlers, NEW i \in Ids, DeleteStart(h, i)
  PROVE  SerialInv'
<1> DEFINE l == [Idle EXCEPT !.pc = "delete", !.id = i, !.cr = requests[i]]
<1>1. Goto(h, l) /\ Fits(l, requests', rev')
  BY DEF DeleteStart, Idle, Fits, Reviewing
<1> HIDE DEF l
<1>2. (\A g \in Handlers : ~InFlight(g)) /\ UNCHANGED commits
  BY DEF DeleteStart, MayEnter
<1>3. QED
  BY <1>1, <1>2, AtCheckKept, SerialGoto DEF SerialInv

\* The steps after which a handler is done.
LEMMA SerialIdle ==
  ASSUME TypeInv, SerialInv, NEW h \in Handlers, InFlight(h), Goto(h, Idle), UNCHANGED commits
  PROVE  SerialInv'
BY IdleFits, AtCheckKept, SerialGoto DEF SerialInv

LEMMA SerialCheck ==
  ASSUME TypeInv, SerialInv, NEW h \in Handlers, ApproveCheck(h)
  PROVE  SerialInv'
<1>1. handler[h].pc = "check" /\ handler[h] \in Local /\ InFlight(h)
  BY DEF ApproveCheck, TypeInv, TypeOK, InFlight
<1>2. PICK step \in {"probe", "save_conflict"} :
        Goto(h, [handler[h] EXCEPT !.seen = rev[handler[h].cr.file], !.pc = step])
  BY DEF ApproveCheck
<1> DEFINE l == [handler[h] EXCEPT !.seen = rev[handler[h].cr.file], !.pc = step]
<1>3. /\ l.pc = step /\ l.id = handler[h].id /\ l.cr = handler[h].cr
      /\ l.seen = rev[handler[h].cr.file]
  BY <1>1 DEF Local
<1>4. Goto(h, l) /\ UNCHANGED <<requests, rev, commits>>
  BY <1>2 DEF ApproveCheck
<1> HIDE DEF l
<1>5. Fits(l, requests', rev')
  BY <1>1, <1>3, <1>4 DEF SerialInv, Fits, Reviewing
<1>6. QED
  BY <1>1, <1>4, <1>5, AtCheckKept, SerialGoto DEF SerialInv

LEMMA SerialProbe ==
  ASSUME TypeInv, SerialInv, NEW h \in Handlers, ApproveProbe(h)
  PROVE  SerialInv'
<1>1. handler[h].pc = "probe" /\ handler[h] \in Local /\ InFlight(h)
  BY DEF ApproveProbe, TypeInv, TypeOK, InFlight
<1>2. PICK exists \in BOOLEAN : Goto(h, [handler[h] EXCEPT !.pc = "commit", !.exists = exists])
  BY DEF ApproveProbe
<1> DEFINE l == [handler[h] EXCEPT !.pc = "commit", !.exists = exists]
<1>3. /\ l.pc = "commit" /\ l.id = handler[h].id
      /\ l.cr = handler[h].cr /\ l.seen = handler[h].seen
  BY <1>1 DEF Local
<1>4. Goto(h, l) /\ UNCHANGED <<requests, rev, commits>>
  BY <1>2 DEF ApproveProbe
<1> HIDE DEF l
<1>5. Fits(l, requests', rev')
  BY <1>1, <1>3, <1>4 DEF SerialInv, Fits, Reviewing
<1>6. QED
  BY <1>1, <1>4, <1>5, AtCheckKept, SerialGoto DEF SerialInv

LEMMA SerialCommit ==
  ASSUME TypeInv, SerialInv, NEW h \in Handlers, ApproveCommit(h) \/ ApproveCommitFails(h)
  PROVE  SerialInv'
<1>1. handler[h].pc = "commit" /\ handler[h] \in Local /\ InFlight(h)
  BY DEF ApproveCommit, ApproveCommitFails, TypeInv, TypeOK, InFlight
<1>2. PICK step \in {"save_approved", "save_error"} : Goto(h, [handler[h] EXCEPT !.pc = step])
  BY DEF ApproveCommit, ApproveCommitFails
<1> DEFINE l == [handler[h] EXCEPT !.pc = step]
<1>3. l.pc = step /\ l.id = handler[h].id /\ l.cr = handler[h].cr
  BY <1>1 DEF Local
<1>4. Goto(h, l) /\ UNCHANGED requests
  BY <1>2 DEF ApproveCommit, ApproveCommitFails
<1> HIDE DEF l
<1>5. Fits(l, requests', rev')
  BY <1>1, <1>3, <1>4 DEF SerialInv, Fits, Reviewing
<1>6. AtCheck'
  <2>1. CASE ApproveCommitFails(h)
    BY <2>1, AtCheckKept DEF ApproveCommitFails, SerialInv
  <2>2. CASE ApproveCommit(h)
    <3> DEFINE e == CommitOf(handler[h])
    <3>1. commits' = commits \cup {e}
      BY <2>2 DEF ApproveCommit, Land
    <3>2. e.at = rev[handler[h].cr.file] /\ e.seen = handler[h].seen
      BY DEF CommitOf
    <3>3. handler[h].seen = rev[handler[h].cr.file]
      BY <1>1 DEF SerialInv, Fits
    <3> HIDE DEF e
    <3>4. QED
      BY <3>1, <3>2, <3>3 DEF SerialInv, AtCheck
  <2>3. QED
    BY <2>1, <2>2
<1>7. QED
  BY <1>1, <1>4, <1>5, <1>6, SerialGoto

LEMMA SerialOtherCommit ==
  ASSUME ~Overlap, TypeInv, SerialInv, NEW f \in Files, NEW c \in Contents \cup {None},
         OtherCommit(f, c)
  PROVE  SerialInv'
<1> DEFINE e == [author |-> None, file |-> f, content |-> c, base |-> Blank,
                 parent |-> repo[f], at |-> rev[f], seen |-> rev[f]]
<1>1. commits' = commits \cup {e} /\ e.author = None /\ handler' = handler
  BY DEF OtherCommit, Land
<1> HIDE DEF e
<1>2. AtCheck'
  BY <1>1 DEF SerialInv, AtCheck
<1>3. \A g \in Handlers : ~InFlight(g)
  BY DEF OtherCommit, MayEnter
<1>4. \A g \in Handlers : Quiet(handler'[g])
  BY <1>1, <1>3 DEF InFlight, Quiet, TypeInv, TypeOK
<1>5. \A g \in Handlers : Fits(handler'[g], requests', rev')
  BY <1>4, QuietFits
<1>6. QED
  BY <1>2, <1>4, <1>5 DEF SerialInv, Alone, InFlight, Quiet, Fits

LEMMA SerialRestart ==
  ASSUME TypeInv, SerialInv, NEW file, Restart(file)
  PROVE  SerialInv'
<1>1. handler' = [g \in Handlers |-> IF InFlight(g) THEN Idle ELSE handler[g]] /\ UNCHANGED commits
  BY DEF Restart
<1>2. \A g \in Handlers : Quiet(handler'[g])
  BY <1>1 DEF InFlight, Quiet, Idle
<1>3. \A g \in Handlers : Fits(handler'[g], requests', rev')
  BY <1>2, QuietFits
<1>4. QED
  BY <1>1, <1>2, <1>3, AtCheckKept DEF SerialInv, Alone, InFlight, Quiet, Fits

LEMMA SerialInvInit == Init => SerialInv
<1> SUFFICES ASSUME Init PROVE SerialInv
  OBVIOUS
<1>1. \A h \in Handlers : handler[h] = Idle
  BY DEF Init
<1>2. \A h \in Handlers : ~InFlight(h)
  BY <1>1 DEF InFlight, Idle
<1>3. QED
  BY <1>1, <1>2, IdleFits DEF Init, SerialInv, Alone, AtCheck

LEMMA SerialInvNext ==
  ASSUME ~Overlap, TypeInv, SerialInv, [Next]_vars
  PROVE  SerialInv'
<1>1. ASSUME NEW h \in Handlers, Handle(h) PROVE SerialInv'
  <2>1. ASSUME NEW f \in Files, Load(h, f) PROVE SerialInv'
    BY <2>1, SerialLoad
  <2>2. ASSUME NEW f \in Files, NEW c \in Contents, CreateFetch(h, f, c) PROVE SerialInv'
    BY <2>2, SerialCreateFetch
  <2>3. ASSUME NEW i \in Ids, ApproveStart(h, i) PROVE SerialInv'
    BY <2>3, SerialReview DEF ApproveStart
  <2>4. ASSUME NEW i \in Ids, RejectStart(h, i) PROVE SerialInv'
    BY <2>4, SerialReview DEF RejectStart
  <2>5. ASSUME NEW i \in Ids, DeleteStart(h, i) PROVE SerialInv'
    BY <2>5, SerialDeleteStart
  <2>6. CASE CreateStore(h) \/ DeleteStore(h)
    BY <2>6, SerialIdle DEF CreateStore, DeleteStore, InFlight
  <2>7. CASE ApproveCheck(h)
    BY <2>7, SerialCheck
  <2>8. CASE ApproveProbe(h)
    BY <2>8, SerialProbe
  <2>9. CASE ApproveCommit(h) \/ ApproveCommitFails(h)
    BY <2>9, SerialCommit
  <2>10. CASE ApproveConflict(h) \/ ApproveError(h) \/ ApproveSave(h) \/ RejectSave(h)
    BY <2>10, SerialIdle DEF ApproveConflict, ApproveError, ApproveSave, RejectSave, Finish, InFlight
  <2>11. QED
    BY <1>1, <2>1, <2>2, <2>3, <2>4, <2>5, <2>6, <2>7, <2>8, <2>9, <2>10 DEF Handle
<1>2. ASSUME NEW f \in Files, NEW c \in Contents \cup {None}, OtherCommit(f, c) PROVE SerialInv'
  BY <1>2, SerialOtherCommit
<1>3. CASE Crash \/ CrashWhileSaving
  BY <1>3, SerialRestart DEF Crash, CrashWhileSaving
<1>4. CASE UNCHANGED vars
  BY <1>4 DEF vars, SerialInv, Alone, InFlight, Fits, AtCheck
<1>5. QED
  BY <1>1, <1>2, <1>3, <1>4 DEF Next

\* While handlers and other writers do not interleave and no read fails, no approval replaces
\* a version other than the one its request was based on, whatever number of requests there
\* is, and also when commits fail, replies are lost and the server crashes.
THEOREM SerialApprovalsLoseNothing ==
  ASSUME ~Overlap, "read" \notin Faults
  PROVE  Spec => []NoLostUpdate
<1>1. TypeInv /\ SerialInv /\ [Next]_vars => SerialInv'
  BY SerialInvNext
<1>2. SafetyInv /\ SerialInv => NoLostUpdate
  BY DEF SafetyInv, CheckedVersionIsReplaced, SerialInv, AtCheck, Trusted, NoLostUpdate
<1>3. QED
  BY <1>1, <1>2, SerialInvInit, SafetyInvariant, PTL DEF Spec

-----------------------------------------------------------------------------
(* Decisions that do not interleave, when every reply arrives and the server  *)
(* keeps running: a request that was committed is approved.                   *)

\* The version b of file f is the current one, or a commit replaced it.
HadBase(f, b, branch, landed) ==
  \/ Version(branch[f]) = b
  \/ \E e \in landed : e.file = f /\ Version(e.parent) = b /\ Version(e.content) # b

\* A commit that is not that of request i replaced the version cr is based on.
Cause(i, cr, landed) ==
  \E e \in landed : /\ e.author # i /\ e.file = cr.file
                    /\ Version(e.parent) = cr.base /\ Version(e.content) # cr.base

\* The base a handler holds was once current; one about to store a conflict has found
\* another version.
Grounds(l, branch, landed) ==
  /\ l.pc \in {"loaded", "create"} => HadBase(l.cr.file, l.cr.base, branch, landed)
  /\ l.pc = "save_conflict" => Version(branch[l.cr.file]) # l.cr.base

StoredGrounds(list, branch, landed) ==
  \A i \in Ids : list[i] # None =>
    /\ HadBase(list[i].file, list[i].base, branch, landed)
    /\ list[i].status = "conflict" => Cause(i, list[i], landed)

Open(i, list) == list[i] # None /\ list[i].status = "pending"

\* A pending request has no commit unless its handler is about to store the approval.
Decided ==
  \A i \in Ids : Open(i, requests) /\ (\E e \in commits : e.author = i)
    => \E h \in Handlers : handler[h].pc = "save_approved" /\ handler[h].id = i

DecisionInv ==
  /\ Decided
  /\ \A h \in Handlers : Grounds(handler[h], repo, commits)
  /\ StoredGrounds(requests, repo, commits)

\* Only commits fail, and writes of the store.
Settled == Faults \subseteq {"commit", "save"}

LEMMA BranchRead ==
  ASSUME Settled, NEW f, NEW current \in BestEffortRead(f)
  PROVE  Trim[current] = Version(repo[f])
BY ContentAssumption DEF Settled, BestEffortRead, Version

\* A version that is replaced remains the parent of the commit that replaced it.
LEMMA HadBaseKept ==
  ASSUME TypeInv, NEW e, e.file \in Files, e.parent = repo[e.file], Land(e), NEW f \in Files, NEW b,
         HadBase(f, b, repo, commits)
  PROVE  HadBase(f, b, repo', commits')
<1>1. commits' = commits \cup {e}
  BY DEF Land
<1>2. repo'[e.file] = e.content /\ (f # e.file => repo'[f] = repo[f])
  BY DEF Land, TypeInv, TypeOK
<1>3. CASE \E d \in commits : d.file = f /\ Version(d.parent) = b /\ Version(d.content) # b
  BY <1>1, <1>3 DEF HadBase
<1>4. CASE Version(repo[f]) = b
  <2>1. CASE f = e.file /\ Version(e.content) # b
    BY <1>1, <1>4, <2>1 DEF HadBase
  <2>2. CASE f = e.file /\ Version(e.content) = b
    BY <1>2, <2>2 DEF HadBase
  <2>3. CASE f # e.file
    BY <1>2, <1>4, <2>3 DEF HadBase
  <2>4. QED
    BY <2>1, <2>2, <2>3
<1>5. QED
  BY <1>3, <1>4 DEF HadBase

LEMMA CauseKept ==
  ASSUME NEW i, NEW cr, NEW landed, NEW more, landed \subseteq more, Cause(i, cr, landed)
  PROVE  Cause(i, cr, more)
BY DEF Cause

LEMMA StoredGroundsKept ==
  ASSUME TypeInv, NEW e, e.file \in Files, e.parent = repo[e.file], Land(e),
         UNCHANGED requests, StoredGrounds(requests, repo, commits)
  PROVE  StoredGrounds(requests', repo', commits')
<1> SUFFICES ASSUME NEW i \in Ids, requests[i] # None
             PROVE  /\ HadBase(requests[i].file, requests[i].base, repo', commits')
                    /\ requests[i].status = "conflict" => Cause(i, requests[i], commits')
  BY DEF StoredGrounds
<1>1. requests[i].file \in Files
  <2>1. requests[i] \in ChangeRequest
    BY DEF TypeInv, TypeOK
  <2>2. QED
    BY <2>1 DEF ChangeRequest
<1>2. HadBase(requests[i].file, requests[i].base, repo', commits')
  BY <1>1, HadBaseKept DEF StoredGrounds
<1>3. commits \subseteq commits'
  BY DEF Land
<1>4. QED
  BY <1>2, <1>3, CauseKept DEF StoredGrounds

\* A step that leaves the branch and the commits alone and moves at most the handler h.
LEMMA GroundsMove ==
  ASSUME TypeInv, DecisionInv, NEW h \in Handlers, UNCHANGED <<repo, commits>>,
         \A g \in Handlers \ {h} : handler'[g] = handler[g],
         Grounds(handler'[h], repo, commits)
  PROVE  \A g \in Handlers : Grounds(handler'[g], repo', commits')
BY DEF DecisionInv

\* Before a handler commits, no pending request has a commit.
LEMMA NoneLanded ==
  ASSUME SerialInv, Decided, NEW i \in Ids, Open(i, requests),
         \/ \A g \in Handlers : ~InFlight(g)
         \/ \E h \in Handlers : InFlight(h) /\ handler[h].pc # "save_approved"
  PROVE  ~\E e \in commits : e.author = i
<1>1. \A g \in Handlers : handler[g].pc = "save_approved" => InFlight(g)
  BY DEF InFlight
<1>2. QED
  BY <1>1 DEF Decided, SerialInv, Alone

LEMMA DecidedMove ==
  ASSUME Decided, UNCHANGED <<requests, commits>>,
         \A g \in Handlers : handler[g].pc = "save_approved" => handler'[g] = handler[g]
  PROVE  Decided'
BY DEF Decided, Open

LEMMA DecisionInvPrimed ==
  ASSUME Decided', \A h \in Handlers : Grounds(handler'[h], repo', commits'),
         StoredGrounds(requests', repo', commits')
  PROVE  DecisionInv'
BY Zenon DEF DecisionInv, Grounds, StoredGrounds, HadBase, Cause, Version

\* A handler that takes a step and has not committed: requests and branch stay.
LEMMA DecisionMove ==
  ASSUME TypeInv, DecisionInv, NEW h \in Handlers, NEW l, Goto(h, l),
         handler[h].pc # "save_approved", Grounds(l, repo, commits),
         UNCHANGED <<repo, commits, requests>>
  PROVE  DecisionInv'
<1>1. handler'[h] = l /\ \A g \in Handlers \ {h} : handler'[g] = handler[g]
  BY DEF Goto, TypeInv, TypeOK
<1>2. Decided'
  <2>1. \A g \in Handlers : handler[g].pc = "save_approved" => handler'[g] = handler[g]
    BY <1>1
  <2>2. QED
    BY <2>1, DecidedMove DEF DecisionInv
<1>3. \A g \in Handlers : Grounds(handler'[g], repo', commits')
  BY <1>1, GroundsMove
<1>4. StoredGrounds(requests', repo', commits')
  BY DEF DecisionInv
<1>5. QED
  BY <1>2, <1>3, <1>4, DecisionInvPrimed

LEMMA DecisionLoad ==
  ASSUME TypeInv, DecisionInv, NEW h \in Handlers, NEW f \in Files, Load(h, f)
  PROVE  DecisionInv'
<1>1. PICK c \in Contents :
        /\ c = repo[f]
        /\ Goto(h, [Idle EXCEPT !.pc = "loaded",
                      !.cr = [file |-> f, old |-> Blank, new |-> c, base |-> Trim[c],
                              status |-> "pending", commitError |-> FALSE]])
  BY DEF Load
<1> DEFINE l == [Idle EXCEPT !.pc = "loaded",
                   !.cr = [file |-> f, old |-> Blank, new |-> c, base |-> Trim[c],
                           status |-> "pending", commitError |-> FALSE]]
<1>2. l.pc = "loaded" /\ l.cr.file = f /\ l.cr.base = Trim[c]
  BY DEF Idle
<1>3. Goto(h, l)
  BY <1>1
<1> HIDE DEF l
<1>4. Version(repo[f]) = Trim[c]
  BY <1>1, NoneAssumption DEF Version
<1>5. Grounds(l, repo, commits)
  BY <1>2, <1>4 DEF Grounds, HadBase
<1>6. handler[h].pc = "idle" /\ UNCHANGED <<repo, commits, requests>>
  BY DEF Load
<1>7. QED
  BY <1>3, <1>5, <1>6, DecisionMove

LEMMA DecisionCreateFetch ==
  ASSUME Settled, TypeInv, DecisionInv, NEW h \in Handlers, NEW f \in Files, NEW new \in Contents,
         CreateFetch(h, f, new)
  PROVE  DecisionInv'
<1>1. PICK fetched \in BestEffortRead(f) :
        Goto(h, [Idle EXCEPT !.pc = "create",
                   !.cr = [file |-> f, old |-> fetched, new |-> new,
                           base |-> BaseVersion(h, fetched),
                           status |-> "pending", commitError |-> FALSE]])
  BY DEF CreateFetch
<1> DEFINE l == [Idle EXCEPT !.pc = "create",
                   !.cr = [file |-> f, old |-> fetched, new |-> new,
                           base |-> BaseVersion(h, fetched),
                           status |-> "pending", commitError |-> FALSE]]
<1>2. l.pc = "create" /\ l.cr.file = f /\ l.cr.base = BaseVersion(h, fetched)
  BY DEF Idle
<1>3. Goto(h, l)
  BY <1>1
<1> HIDE DEF l
<1>4. /\ handler[h].pc \in {"idle", "loaded"}
      /\ handler[h].pc = "loaded" => handler[h].cr.file = f
      /\ UNCHANGED <<repo, commits, requests>>
  BY DEF CreateFetch
<1>5. HadBase(f, BaseVersion(h, fetched), repo, commits)
  <2>1. CASE handler[h].pc = "loaded"
    BY <1>4, <2>1 DEF BaseVersion, DecisionInv, Grounds
  <2>2. CASE handler[h].pc # "loaded"
    BY <2>2, BranchRead DEF BaseVersion, HadBase
  <2>3. QED
    BY <2>1, <2>2
<1>6. Grounds(l, repo, commits)
  BY <1>2, <1>5 DEF Grounds
<1>7. QED
  BY <1>3, <1>4, <1>6, DecisionMove

LEMMA DecisionStart ==
  ASSUME TypeInv, DecisionInv, NEW h \in Handlers, NEW i \in Ids,
         \/ \E step \in {"check", "save_rejected"} : StartReview(h, i, step)
         \/ DeleteStart(h, i)
  PROVE  DecisionInv'
<1>1. PICK step \in {"check", "save_rejected", "delete"} :
        Goto(h, [Idle EXCEPT !.pc = step, !.id = i, !.cr = requests[i]])
  BY DEF StartReview, DeleteStart
<1> DEFINE l == [Idle EXCEPT !.pc = step, !.id = i, !.cr = requests[i]]
<1>2. Goto(h, l) /\ Grounds(l, repo, commits)
  BY <1>1 DEF Idle, Grounds
<1> HIDE DEF l
<1>3. handler[h].pc = "idle" /\ UNCHANGED <<repo, commits, requests>>
  BY DEF StartReview, DeleteStart
<1>4. QED
  BY <1>2, <1>3, DecisionMove

LEMMA DecisionCheck ==
  ASSUME Settled, TypeInv, DecisionInv, NEW h \in Handlers, ApproveCheck(h)
  PROVE  DecisionInv'
<1>1. handler[h].pc = "check" /\ handler[h] \in Local /\ UNCHANGED <<repo, commits, requests>>
  BY DEF ApproveCheck, TypeInv, TypeOK
<1>2. PICK current \in BestEffortRead(handler[h].cr.file) :
        Goto(h, [handler[h] EXCEPT !.seen = rev[handler[h].cr.file],
                   !.pc = IF BaseMatches(handler[h].cr, current) THEN "probe"
                                                                 ELSE "save_conflict"])
  BY DEF ApproveCheck
<1> DEFINE l == [handler[h] EXCEPT !.seen = rev[handler[h].cr.file],
                   !.pc = IF BaseMatches(handler[h].cr, current) THEN "probe"
                                                                 ELSE "save_conflict"]
<1>3. /\ l.pc = IF BaseMatches(handler[h].cr, current) THEN "probe" ELSE "save_conflict"
      /\ l.cr = handler[h].cr
  BY <1>1 DEF Local
<1>4. Goto(h, l)
  BY <1>2
<1> HIDE DEF l
<1>5. l.pc = "save_conflict" => Version(repo[l.cr.file]) # l.cr.base
  BY <1>3, BranchRead DEF BaseMatches
<1>6. Grounds(l, repo, commits)
  BY <1>3, <1>5 DEF Grounds
<1>7. QED
  BY <1>1, <1>4, <1>6, DecisionMove

LEMMA DecisionProbe ==
  ASSUME TypeInv, DecisionInv, NEW h \in Handlers, ApproveProbe(h) \/ ApproveCommitFails(h)
  PROVE  DecisionInv'
<1>1. /\ handler[h].pc \in {"probe", "commit"} /\ handler[h] \in Local
      /\ UNCHANGED <<repo, commits, requests>>
  BY DEF ApproveProbe, ApproveCommitFails, TypeInv, TypeOK
<1>2. PICK step \in {"commit", "save_error"}, exists \in BOOLEAN :
        \/ Goto(h, [handler[h] EXCEPT !.pc = step, !.exists = exists])
        \/ Goto(h, [handler[h] EXCEPT !.pc = step])
  BY DEF ApproveProbe, ApproveCommitFails
<1>3. ASSUME NEW l, Goto(h, l), l.pc = step PROVE DecisionInv'
  <2>1. Grounds(l, repo, commits)
    BY <1>3 DEF Grounds
  <2>2. QED
    BY <1>1, <1>3, <2>1, DecisionMove
<1> DEFINE l1 == [handler[h] EXCEPT !.pc = step, !.exists = exists]
           l2 == [handler[h] EXCEPT !.pc = step]
<1>4. l1.pc = step /\ l2.pc = step
  BY <1>1 DEF Local
<1>5. Goto(h, l1) \/ Goto(h, l2)
  BY <1>2
<1> HIDE DEF l1, l2
<1>6. QED
  BY <1>3, <1>4, <1>5

\* The commit of a request: its handler goes on to store the approval.
LEMMA DecisionCommit ==
  ASSUME Settled, TypeInv, SerialInv, DecisionInv, NEW h \in Handlers, ApproveCommit(h)
  PROVE  DecisionInv'
<1> DEFINE e == CommitOf(handler[h])
           l == [handler[h] EXCEPT !.pc = "save_approved"]
<1>1. /\ handler[h].pc = "commit" /\ handler[h] \in Local /\ handler[h].id \in Ids
      /\ handler[h].cr \in ChangeRequest /\ InFlight(h)
  BY DEF ApproveCommit, TypeInv, TypeOK, HoldsRequest, Reviewing, InFlight
<1>2. Land(e) /\ Goto(h, l) /\ UNCHANGED requests
  BY DEF ApproveCommit, Settled
<1>3. e.author = handler[h].id /\ e.file = handler[h].cr.file /\ e.parent = repo[e.file]
  BY DEF CommitOf
<1>4. l.pc = "save_approved" /\ l.id = handler[h].id
  BY <1>1 DEF Local
<1>5. e.file \in Files
  BY <1>1, <1>3 DEF ChangeRequest
<1> HIDE DEF e, l
<1>6. handler'[h] = l /\ \A g \in Handlers \ {h} : handler'[g] = handler[g] /\ Quiet(handler'[g])
  BY <1>1, <1>2, OthersQuiet DEF SerialInv
<1>7. commits' = commits \cup {e}
  BY <1>2 DEF Land
<1>8. Decided'
  <2> SUFFICES ASSUME NEW i \in Ids, Open(i, requests), NEW d \in commits', d.author = i
               PROVE  \E g \in Handlers : handler'[g].pc = "save_approved" /\ handler'[g].id = i
    BY <1>2 DEF Decided, Open
  <2>1. CASE d \in commits
    BY <1>1, <2>1, NoneLanded DEF DecisionInv
  <2>2. CASE d = e
    BY <1>3, <1>4, <1>6, <2>2
  <2>3. QED
    BY <1>7, <2>1, <2>2
<1>9. ASSUME NEW g \in Handlers PROVE Grounds(handler'[g], repo', commits')
  <2>1. CASE g = h
    BY <1>4, <1>6, <2>1 DEF Grounds
  <2>2. CASE g # h
    <3>1. handler'[g] = handler[g] /\ Quiet(handler[g]) /\ Grounds(handler[g], repo, commits)
      BY <1>6, <2>2 DEF DecisionInv
    <3>2. CASE handler[g].pc = "loaded"
      <4>1. handler[g].cr.file \in Files
        <5>1. handler[g].cr \in ChangeRequest
          BY <3>2 DEF TypeInv, HoldsRequest
        <5>2. QED
          BY <5>1 DEF ChangeRequest
      <4>2. HadBase(handler[g].cr.file, handler[g].cr.base, repo', commits')
        BY <1>2, <1>3, <1>5, <3>1, <3>2, <4>1, HadBaseKept DEF Grounds
      <4>3. QED
        BY <3>1, <3>2, <4>2 DEF Grounds
    <3>3. CASE handler[g].pc # "loaded"
      BY <3>1, <3>3 DEF Grounds, Quiet
    <3>4. QED
      BY <3>2, <3>3
  <2>3. QED
    BY <2>1, <2>2
<1>10. StoredGrounds(requests', repo', commits')
  BY <1>2, <1>3, <1>5, StoredGroundsKept DEF DecisionInv
<1>11. QED
  BY <1>8, <1>9, <1>10, DecisionInvPrimed

LEMMA DecisionOtherCommit ==
  ASSUME ~Overlap, TypeInv, SerialInv, DecisionInv, NEW f \in Files, NEW c \in Contents \cup {None},
         OtherCommit(f, c)
  PROVE  DecisionInv'
<1> DEFINE e == [author |-> None, file |-> f, content |-> c, base |-> Blank,
                 parent |-> repo[f], at |-> rev[f], seen |-> rev[f]]
<1>1. /\ Land(e) /\ e.author = None /\ e.file \in Files /\ e.parent = repo[e.file]
      /\ UNCHANGED <<requests, handler>>
  BY DEF OtherCommit
<1> HIDE DEF e
<1>2. \A g \in Handlers : ~InFlight(g)
  BY DEF OtherCommit, MayEnter
<1>3. commits' = commits \cup {e}
  BY <1>1 DEF Land
<1>4. Decided'
  <2> SUFFICES ASSUME NEW i \in Ids, Open(i, requests), NEW d \in commits', d.author = i
               PROVE  FALSE
    BY <1>1 DEF Decided, Open
  <2>1. d # e
    BY <1>1, NoneAssumption
  <2>2. QED
    BY <1>2, <1>3, <2>1, NoneLanded DEF DecisionInv
<1>5. ASSUME NEW g \in Handlers PROVE Grounds(handler'[g], repo', commits')
  <2>1. handler'[g] = handler[g] /\ Grounds(handler[g], repo, commits) /\ ~InFlight(g)
    BY <1>1, <1>2 DEF DecisionInv
  <2>2. CASE handler[g].pc = "loaded"
    <3>1. handler[g].cr.file \in Files
      <4>1. handler[g].cr \in ChangeRequest
        BY <2>2 DEF TypeInv, HoldsRequest
      <4>2. QED
        BY <4>1 DEF ChangeRequest
    <3>2. HadBase(handler[g].cr.file, handler[g].cr.base, repo', commits')
      BY <1>1, <2>1, <2>2, <3>1, HadBaseKept DEF Grounds
    <3>3. QED
      BY <2>1, <2>2, <3>2 DEF Grounds
  <2>3. CASE handler[g].pc # "loaded"
    BY <2>1, <2>3 DEF Grounds, InFlight
  <2>4. QED
    BY <2>2, <2>3
<1>6. StoredGrounds(requests', repo', commits')
  BY <1>1, StoredGroundsKept DEF DecisionInv
<1>7. QED
  BY <1>4, <1>5, <1>6, DecisionInvPrimed

\* A new request: its id is fresh, so no commit bears it.
LEMMA DecisionCreateStore ==
  ASSUME TypeInv, SafetyInv, SerialInv, DecisionInv, NEW h \in Handlers, CreateStore(h)
  PROVE  DecisionInv'
<1> DEFINE cr == handler[h].cr
<1>1. /\ handler[h].pc = "create" /\ cr \in ChangeRequest /\ cr.status = "pending"
      /\ HadBase(cr.file, cr.base, repo, commits)
  BY DEF CreateStore, TypeInv, HoldsRequest, SafetyInv, HandlerSound, DecisionInv, Grounds
<1>2. PICK i \in Free : Save([requests EXCEPT ![i] = cr])
  BY DEF CreateStore
<1> HIDE DEF cr
<1>3. i \in Ids /\ filed[i] = None /\ UNCHANGED <<repo, commits>> /\ Goto(h, Idle)
  BY DEF Free, CreateStore
<1>4. requests'[i] = cr /\ \A j \in Ids \ {i} : requests'[j] = requests[j]
  BY <1>2, <1>3 DEF Save, TypeInv, TypeOK
<1>5. handler'[h] = Idle /\ \A g \in Handlers \ {h} : handler'[g] = handler[g]
  BY <1>3 DEF Goto, TypeInv, TypeOK
<1>6. Decided'
  <2> SUFFICES ASSUME NEW j \in Ids, Open(j, requests'), NEW e \in commits, e.author = j
               PROVE  \E g \in Handlers : handler'[g].pc = "save_approved" /\ handler'[g].id = j
    BY <1>3 DEF Decided, Open
  <2>1. j # i
    BY <1>3, NoneAssumption DEF SafetyInv, CommitSound
  <2>2. Open(j, requests)
    BY <1>4, <2>1 DEF Open
  <2>3. PICK g \in Handlers : handler[g].pc = "save_approved" /\ handler[g].id = j
    BY <2>2 DEF DecisionInv, Decided
  <2>4. QED
    BY <1>1, <1>5, <2>3
<1>7. Grounds(Idle, repo, commits)
  BY DEF Grounds, Idle
<1>8. \A g \in Handlers : Grounds(handler'[g], repo', commits')
  BY <1>3, <1>5, <1>7, GroundsMove
<1>9. StoredGrounds(requests', repo', commits')
  BY <1>1, <1>3, <1>4 DEF StoredGrounds, DecisionInv
<1>10. QED
  BY <1>6, <1>8, <1>9, DecisionInvPrimed

\* The last store call of an approval or a rejection that ran alone: it finds the record it
\* read and changes the status and the error only.
LEMMA FinishDoes ==
  ASSUME TypeInv, SerialInv, NEW h \in Handlers, NEW step \in Reviewing,
         NEW status \in {"pending", "approved", "rejected", "conflict"}, NEW failed \in BOOLEAN,
         Finish(h, step, status, failed)
  PROVE  /\ handler[h].pc = step /\ InFlight(h) /\ handler[h].id \in Ids
         /\ requests[handler[h].id] = handler[h].cr /\ Open(handler[h].id, requests)
         /\ requests'[handler[h].id] # None
         /\ requests'[handler[h].id].status = status
         /\ requests'[handler[h].id].file = handler[h].cr.file
         /\ requests'[handler[h].id].base = handler[h].cr.base
         /\ \A j \in Ids \ {handler[h].id} : requests'[j] = requests[j]
         /\ UNCHANGED <<repo, rev, commits, filed>>
         /\ handler'[h] = Idle /\ \A g \in Handlers \ {h} : handler'[g] = handler[g]
<1> DEFINE i == handler[h].id
           cr == [handler[h].cr EXCEPT !.status = status, !.commitError = failed]
<1>1. /\ handler[h].pc = step /\ Update(i, cr) /\ Goto(h, Idle)
      /\ UNCHANGED <<repo, rev, commits, filed>>
  BY DEF Finish
<1>2. i \in Ids /\ handler[h].cr \in ChangeRequest
  BY <1>1 DEF TypeInv, HoldsRequest, Reviewing
<1>3. requests[i] = handler[h].cr /\ handler[h].cr.status = "pending"
  BY <1>1 DEF SerialInv, Fits
<1>4. InFlight(h)
  BY <1>1 DEF InFlight, Reviewing
<1>5. requests[i] # None
  BY <1>2, <1>3, NoneAssumption
<1>6. cr.status = status /\ cr.file = handler[h].cr.file /\ cr.base = handler[h].cr.base
  BY <1>2 DEF ChangeRequest
<1>7. cr # None
  <2>1. cr \in ChangeRequest
    BY <1>2 DEF ChangeRequest
  <2>2. QED
    BY <2>1, NoneAssumption
<1> HIDE DEF i, cr
<1>8. requests'[i] = cr /\ \A j \in Ids \ {i} : requests'[j] = requests[j]
  BY <1>1, <1>2, <1>5 DEF Update, Save, TypeInv, TypeOK
<1>9. handler'[h] = Idle /\ \A g \in Handlers \ {h} : handler'[g] = handler[g]
  BY <1>1 DEF Goto, TypeInv, TypeOK
<1>10. QED
  BY <1>1, <1>2, <1>3, <1>4, <1>5, <1>6, <1>7, <1>8, <1>9 DEF i, Open

LEMMA FinishCopy ==
  ASSUME TypeInv, NEW h \in Handlers, NEW step \in Reviewing, NEW status, NEW failed,
         Finish(h, step, status, failed)
  PROVE  handler[h].cr.commitError \in BOOLEAN
<1>1. handler[h].cr \in ChangeRequest
  BY DEF Finish, TypeInv, HoldsRequest, Reviewing
<1>2. QED
  BY <1>1 DEF ChangeRequest

LEMMA DecisionFinish ==
  ASSUME TypeInv, SerialInv, DecisionInv, NEW h \in Handlers, NEW step \in Reviewing,
         NEW status \in {"pending", "approved", "rejected", "conflict"}, NEW failed \in BOOLEAN,
         Finish(h, step, status, failed),
         status = "conflict" => step = "save_conflict",
         status = "pending" => step # "save_approved"
  PROVE  DecisionInv'
<1> DEFINE i == handler[h].id
           cr == handler[h].cr
<1>1. /\ handler[h].pc = step /\ InFlight(h) /\ i \in Ids
      /\ requests[i] = cr /\ Open(i, requests)
      /\ requests'[i] # None /\ requests'[i].status = status
      /\ requests'[i].file = cr.file /\ requests'[i].base = cr.base
      /\ \A j \in Ids \ {i} : requests'[j] = requests[j]
      /\ UNCHANGED <<repo, commits>>
      /\ handler'[h] = Idle /\ \A g \in Handlers \ {h} : handler'[g] = handler[g]
  BY FinishDoes
<1>2. \A g \in Handlers : handler[g].pc = "save_approved" => g = h
  BY <1>1 DEF SerialInv, Alone, InFlight
<1>3. step # "save_approved" => ~\E e \in commits : e.author = i
  BY <1>1, NoneLanded DEF DecisionInv
<1>4. Decided'
  <2> SUFFICES ASSUME NEW j \in Ids, Open(j, requests'), NEW e \in commits, e.author = j
               PROVE  FALSE
    BY <1>1 DEF Decided, Open
  <2>1. CASE j = i
    BY <1>1, <1>3, <2>1 DEF Open
  <2>2. CASE j # i
    <3>1. Open(j, requests)
      BY <1>1, <2>2 DEF Open
    <3>2. QED
      BY <1>2, <2>2, <3>1 DEF DecisionInv, Decided
  <2>3. QED
    BY <2>1, <2>2
<1>5. Grounds(Idle, repo, commits)
  BY DEF Grounds, Idle
<1>6. \A g \in Handlers : Grounds(handler'[g], repo', commits')
  BY <1>1, <1>5, GroundsMove
<1>7. requests[i] # None /\ HadBase(cr.file, cr.base, repo, commits)
  BY <1>1 DEF Open, DecisionInv, StoredGrounds
<1>8. status = "conflict" => Cause(i, cr, commits)
  BY <1>1, <1>3, <1>7 DEF DecisionInv, Grounds, HadBase, Cause
<1>9. HadBase(requests'[i].file, requests'[i].base, repo, commits)
  BY <1>1, <1>7
<1>10. requests'[i].status = "conflict" => Cause(i, requests'[i], commits)
  BY <1>1, <1>8 DEF Cause
<1> HIDE DEF i, cr
<1>11. StoredGrounds(requests', repo', commits')
  <2> SUFFICES ASSUME NEW j \in Ids, requests'[j] # None
               PROVE  /\ HadBase(requests'[j].file, requests'[j].base, repo, commits)
                      /\ requests'[j].status = "conflict" => Cause(j, requests'[j], commits)
    BY <1>1 DEF StoredGrounds
  <2>1. CASE j = i
    BY <1>9, <1>10, <2>1
  <2>2. CASE j # i
    BY <1>1, <2>2 DEF DecisionInv, StoredGrounds
  <2>3. QED
    BY <2>1, <2>2
<1>12. QED
  BY <1>4, <1>6, <1>11, DecisionInvPrimed

LEMMA DecisionDeleteStore ==
  ASSUME TypeInv, DecisionInv, NEW h \in Handlers, DeleteStore(h)
  PROVE  DecisionInv'
<1>1. handler[h].pc = "delete" /\ Goto(h, Idle) /\ UNCHANGED <<repo, commits>>
  BY DEF DeleteStore
<1>2. \A j \in Ids : requests'[j] = requests[j] \/ requests'[j] = None
  BY DEF DeleteStore, Save, TypeInv, TypeOK, HoldsRequest
<1>3. handler'[h] = Idle /\ \A g \in Handlers \ {h} : handler'[g] = handler[g]
  BY <1>1 DEF Goto, TypeInv, TypeOK
<1>4. Decided'
  <2> SUFFICES ASSUME NEW j \in Ids, Open(j, requests'), NEW e \in commits, e.author = j
               PROVE  \E g \in Handlers : handler'[g].pc = "save_approved" /\ handler'[g].id = j
    BY <1>1 DEF Decided, Open
  <2>1. Open(j, requests)
    BY <1>2 DEF Open
  <2>2. PICK g \in Handlers : handler[g].pc = "save_approved" /\ handler[g].id = j
    BY <2>1 DEF DecisionInv, Decided
  <2>3. QED
    BY <1>1, <1>3, <2>2
<1>5. Grounds(Idle, repo, commits)
  BY DEF Grounds, Idle
<1>6. \A g \in Handlers : Grounds(handler'[g], repo', commits')
  BY <1>1, <1>3, <1>5, GroundsMove
<1>7. StoredGrounds(requests', repo', commits')
  BY <1>1, <1>2 DEF DecisionInv, StoredGrounds
<1>8. QED
  BY <1>4, <1>6, <1>7, DecisionInvPrimed

LEMMA DecisionInvInit == Init => DecisionInv
<1> SUFFICES ASSUME Init PROVE DecisionInv
  OBVIOUS
<1>1. \A i \in Ids : requests[i] = None
  BY DEF Init
<1>2. \A h \in Handlers : handler[h] = Idle
  BY DEF Init
<1>3. QED
  BY <1>1, <1>2 DEF DecisionInv, Decided, Open, Grounds, Idle, StoredGrounds

LEMMA DecisionInvNext ==
  ASSUME ~Overlap, Settled, TypeInv, SafetyInv, SerialInv, DecisionInv, [Next]_vars
  PROVE  DecisionInv'
<1>1. ASSUME NEW h \in Handlers, Handle(h) PROVE DecisionInv'
  <2>1. ASSUME NEW f \in Files, Load(h, f) PROVE DecisionInv'
    BY <2>1, DecisionLoad
  <2>2. ASSUME NEW f \in Files, NEW c \in Contents, CreateFetch(h, f, c) PROVE DecisionInv'
    BY <2>2, DecisionCreateFetch
  <2>3. ASSUME NEW i \in Ids, ApproveStart(h, i) PROVE DecisionInv'
    BY <2>3, DecisionStart DEF ApproveStart
  <2>4. ASSUME NEW i \in Ids, RejectStart(h, i) PROVE DecisionInv'
    BY <2>4, DecisionStart DEF RejectStart
  <2>5. ASSUME NEW i \in Ids, DeleteStart(h, i) PROVE DecisionInv'
    BY <2>5, DecisionStart
  <2>6. CASE CreateStore(h)
    BY <2>6, DecisionCreateStore
  <2>7. CASE ApproveCheck(h)
    BY <2>7, DecisionCheck
  <2>8. CASE ApproveProbe(h) \/ ApproveCommitFails(h)
    BY <2>8, DecisionProbe
  <2>9. CASE ApproveCommit(h)
    BY <2>9, DecisionCommit
  <2>10. CASE ApproveConflict(h)
    <3>1. handler[h].cr.commitError \in BOOLEAN
      BY <2>10, FinishCopy DEF ApproveConflict, Reviewing
    <3>2. QED
      BY <2>10, <3>1, DecisionFinish DEF ApproveConflict, Reviewing
  <2>11. CASE RejectSave(h)
    <3>1. handler[h].cr.commitError \in BOOLEAN
      BY <2>11, FinishCopy DEF RejectSave, Reviewing
    <3>2. QED
      BY <2>11, <3>1, DecisionFinish DEF RejectSave, Reviewing
  <2>12. CASE ApproveError(h)
    BY <2>12, DecisionFinish DEF ApproveError, Reviewing
  <2>13. CASE ApproveSave(h)
    BY <2>13, DecisionFinish DEF ApproveSave, Reviewing
  <2>14. CASE DeleteStore(h)
    BY <2>14, DecisionDeleteStore
  <2>15. QED
    BY <1>1, <2>1, <2>2, <2>3, <2>4, <2>5, <2>6, <2>7, <2>8, <2>9, <2>10, <2>11, <2>12, <2>13, <2>14
       DEF Handle
<1>2. ASSUME NEW f \in Files, NEW c \in Contents \cup {None}, OtherCommit(f, c)
      PROVE  DecisionInv'
  BY <1>2, DecisionOtherCommit
<1>3. CASE Crash \/ CrashWhileSaving
  BY <1>3 DEF Crash, CrashWhileSaving, Restart, Settled
<1>4. CASE UNCHANGED vars
  <2>1. UNCHANGED <<repo, commits, requests, handler>>
    BY <1>4 DEF vars
  <2>2. Decided'
    BY <2>1 DEF DecisionInv, Decided, Open
  <2>3. QED
    BY <2>1, <2>2, DecisionInvPrimed DEF DecisionInv
<1>5. QED
  BY <1>1, <1>2, <1>3, <1>4 DEF Next

\* While handlers and other writers do not interleave, every reply arrives and the server
\* keeps running, a request is marked as conflicting only because a commit of another request
\* or of another writer replaced the version it was based on.
THEOREM ConflictsHaveCauses ==
  ASSUME ~Overlap, Settled
  PROVE  Spec => []ConflictHasCause
<1>1. TypeInv /\ SafetyInv /\ SerialInv /\ DecisionInv /\ [Next]_vars => SerialInv' /\ DecisionInv'
  BY SerialInvNext, DecisionInvNext
<1>2. DecisionInv => ConflictHasCause
  BY DEF DecisionInv, StoredGrounds, Cause, ConflictHasCause
<1>3. QED
  BY <1>1, <1>2, SerialInvInit, DecisionInvInit, SafetyInvariant, PTL DEF Spec

-----------------------------------------------------------------------------
(* The handlers implement ReviewedEdits.                                     *)

Status(i) ==
  IF requests[i] = None THEN "withdrawn"
  ELSE IF requests[i].status = "pending" /\ CommitsOf(i) # {} THEN "approved"
  ELSE requests[i].status

View == [i \in Ids |-> Shown(i)]

LEMMA ShownIs ==
  ASSUME NEW i, filed[i] # None
  PROVE  Shown(i) = [file |-> filed[i].file, new |-> filed[i].new, base |-> filed[i].base,
                     status |-> Status(i)]
BY DEF Shown, Status

LEMMA ShownIsPrimed ==
  ASSUME NEW i, filed'[i] # None
  PROVE  Shown(i)' = [file |-> filed'[i].file, new |-> filed'[i].new, base |-> filed'[i].base,
                      status |-> Status(i)']
BY DEF Shown, Status

\* What users see of a request changes with the store's record and the commits only.
LEMMA ShownKept ==
  ASSUME NEW i, filed'[i] = filed[i], filed[i] # None => Status(i)' = Status(i)
  PROVE  Shown(i)' = Shown(i)
<1>1. CASE filed[i] = None
  BY <1>1 DEF Shown
<1>2. CASE filed[i] # None
  BY <1>2, ShownIs, ShownIsPrimed
<1>3. QED
  BY <1>1, <1>2

LEMMA StatusKept ==
  ASSUME NEW i, requests'[i] = requests[i],
         \A e \in commits' : e \in commits \/ e.author # i, commits \subseteq commits'
  PROVE  Status(i)' = Status(i)
<1>1. CommitsOf(i)' = CommitsOf(i)
  BY DEF CommitsOf
<1>2. QED
  BY <1>1 DEF Status

LEMMA ViewKept ==
  ASSUME \A i \in Ids : Shown(i)' = Shown(i)
  PROVE  View' = View
BY DEF View

\* One request gets another status.
LEMMA ViewMoved ==
  ASSUME NEW i \in Ids, NEW s, filed[i] # None, filed'[i] = filed[i], Status(i)' = s,
         \A j \in Ids \ {i} : Shown(j)' = Shown(j)
  PROVE  View' = [View EXCEPT ![i].status = s]
<1>1. Shown(i)' = [Shown(i) EXCEPT !.status = s]
  BY ShownIs, ShownIsPrimed
<1>2. View[i] = Shown(i) /\ View'[i] = Shown(i)'
  BY DEF View
<1>3. \A j \in Ids : View[j] = Shown(j)
  BY DEF View
<1>4. View' = [j \in Ids |-> IF j = i THEN [View[i] EXCEPT !.status = s] ELSE View[j]]
  BY <1>1, <1>2, <1>3 DEF View
<1>5. QED
  BY <1>4 DEF View

\* A request that is pending and has no commit is pending for its users.
LEMMA ShownPending ==
  ASSUME TypeInv, SafetyInv, NEW i \in Ids, Open(i, requests), ~\E e \in commits : e.author = i
  PROVE  /\ View[i] # None /\ View[i].status = "pending"
         /\ filed[i] # None /\ View[i].file = filed[i].file
         /\ View[i].base = filed[i].base /\ View[i].new = filed[i].new
<1>1. filed[i] # None
  BY DEF Open, SafetyInv, Agree
<1>2. Status(i) = "pending"
  BY DEF Open, Status, CommitsOf
<1>3. filed[i] \in Bodies
  BY <1>1 DEF TypeInv, TypeOK
<1>4. View[i] = [file |-> filed[i].file, new |-> filed[i].new, base |-> filed[i].base,
                 status |-> "pending"]
  BY <1>1, <1>2, ShownIs DEF View
<1>5. View[i] # None
  BY <1>3, <1>4, ViewAssumption DEF Bodies
<1>6. QED
  BY <1>1, <1>4, <1>5

\* What a step must be for ReviewedEdits: one of its steps, or none.
Reviewed == Abstract!Next \/ UNCHANGED <<repo, View>>

\* A step on which neither the branch nor any filing, record or commit changes.
LEMMA RefineMove ==
  ASSUME UNCHANGED <<repo, commits, requests, filed>>
  PROVE  Reviewed
<1>1. \A i \in Ids : Shown(i)' = Shown(i)
  BY ShownKept, StatusKept
<1>2. QED
  BY <1>1, ViewKept DEF Reviewed

\* A record is stored under a fresh id.
LEMMA RefineCreateStore ==
  ASSUME TypeInv, SafetyInv, NEW h \in Handlers, CreateStore(h)
  PROVE  Reviewed
<1> DEFINE cr == handler[h].cr
<1>1. cr \in ChangeRequest /\ cr.status = "pending"
  BY DEF CreateStore, TypeInv, HoldsRequest, SafetyInv, HandlerSound
<1>2. PICK i \in Free : Save([requests EXCEPT ![i] = cr]) /\ filed' = [filed EXCEPT ![i] = Body(cr)]
  BY DEF CreateStore
<1>3. Body(cr) \in Bodies /\ i \in Ids /\ filed[i] = None /\ UNCHANGED <<repo, commits>>
  BY <1>1, BodyType DEF Free, CreateStore
<1>4. cr # None /\ Body(cr) # None
  BY <1>1, <1>3, NoneAssumption
<1> HIDE DEF cr
<1>5. /\ filed'[i] = Body(cr) /\ requests'[i] = cr
      /\ \A j \in Ids \ {i} : filed'[j] = filed[j] /\ requests'[j] = requests[j]
  BY <1>2, <1>3 DEF Save, TypeInv, TypeOK
<1>6. ~\E e \in commits : e.author = i
  BY <1>3, NoneAssumption DEF SafetyInv, CommitSound
<1>7. Status(i)' = "pending"
  BY <1>1, <1>3, <1>4, <1>5, <1>6 DEF Status, CommitsOf
<1> DEFINE r == [file |-> filed'[i].file, new |-> filed'[i].new, base |-> filed'[i].base,
                 status |-> "pending"]
<1>8. Shown(i)' = r
  BY <1>4, <1>5, <1>7, ShownIsPrimed
<1>9. r \in Abstract!Submission
  BY <1>3, <1>5 DEF Bodies, Abstract!Submission
<1>10. \A j \in Ids \ {i} : Shown(j)' = Shown(j)
  BY <1>3, <1>5, ShownKept, StatusKept
<1> HIDE DEF r
<1>11. View' = [View EXCEPT ![i] = r]
  BY <1>8, <1>10 DEF View
<1>12. View[i] = None
  BY <1>3 DEF View, Shown
<1>13. Abstract!Submit(i)
  BY <1>3, <1>9, <1>11, <1>12 DEF Abstract!Submit, View
<1>14. QED
  BY <1>3, <1>13 DEF Abstract!Next, Reviewed

\* The commit is the approval: the request is pending, the version is the reviewed one.
LEMMA RefineCommit ==
  ASSUME Settled, TypeInv, SafetyInv, SerialInv, DecisionInv, NEW h \in Handlers, ApproveCommit(h)
  PROVE  Reviewed
<1>0. PICK i \in Ids : i = handler[h].id
  BY DEF ApproveCommit, TypeInv, HoldsRequest, Reviewing
<1> DEFINE cr == handler[h].cr
           e == CommitOf(handler[h])
<1>1. handler[h].pc = "commit" /\ cr \in ChangeRequest /\ InFlight(h)
  BY DEF ApproveCommit, TypeInv, HoldsRequest, Reviewing, InFlight
<1>2. requests[i] = cr /\ cr.status = "pending" /\ handler[h].seen = rev[cr.file]
  BY <1>0, <1>1 DEF SerialInv, Fits, Reviewing
<1>3. Open(i, requests)
  BY <1>1, <1>2, NoneAssumption DEF Open
<1>4. ~\E d \in commits : d.author = i
  BY <1>0, <1>1, <1>3, NoneLanded DEF DecisionInv
<1>5. HandlerSound(handler[h])
  BY DEF SafetyInv
<1>6. filed[i] = Body(cr) /\ Version(repo[cr.file]) = cr.base
  BY <1>0, <1>1, <1>2, <1>5 DEF HandlerSound, Fresh, Trusted, Settled, Reviewing
<1>7. cr.file = filed[i].file /\ cr.new = filed[i].new /\ cr.base = filed[i].base
  BY <1>6 DEF Body
<1>8. repo' = [repo EXCEPT ![cr.file] = cr.new] /\ commits' = commits \cup {e} /\ e.author = i
  BY <1>0 DEF ApproveCommit, Land, CommitOf
<1>9. UNCHANGED <<requests, filed>>
  BY DEF ApproveCommit
<1> HIDE DEF cr, e
<1>10. Status(i)' = "approved"
  BY <1>3, <1>8, <1>9 DEF Status, CommitsOf, Open
<1>11. \A j \in Ids \ {i} : Shown(j)' = Shown(j)
  BY <1>8, <1>9, ShownKept, StatusKept
<1>12. /\ View[i] # None /\ View[i].status = "pending" /\ filed[i] # None
       /\ View[i].file = cr.file /\ View[i].base = cr.base /\ View[i].new = cr.new
  BY <1>1, <1>3, <1>4, <1>7, ShownPending
<1>13. View' = [View EXCEPT ![i].status = "approved"]
  BY <1>1, <1>9, <1>10, <1>11, <1>12, ViewMoved
<1>14. Abstract!Version(repo[View[i].file]) = View[i].base
  BY <1>6, <1>12 DEF Abstract!Version, Version
<1>15. repo' = [repo EXCEPT ![View[i].file] = View[i].new]
  BY <1>8, <1>12
<1>16. Abstract!Approve(i)
  BY <1>12, <1>13, <1>14, <1>15
     DEF Abstract!Approve, Abstract!Pending, Abstract!Current, Abstract!Decide, View
<1>17. QED
  BY <1>1, <1>16 DEF Abstract!Next, Reviewed

\* The last store call: the decision, or for an approval nothing new.
LEMMA FinishView ==
  ASSUME TypeInv, SafetyInv, SerialInv, NEW h \in Handlers, NEW step \in Reviewing,
         NEW status \in {"pending", "approved", "rejected", "conflict"}, NEW failed \in BOOLEAN,
         Finish(h, step, status, failed)
  PROVE  /\ handler[h].id \in Ids /\ Open(handler[h].id, requests)
         /\ filed[handler[h].id] = Body(handler[h].cr) /\ filed[handler[h].id] # None
         /\ filed' = filed /\ commits' = commits /\ repo' = repo
         /\ requests'[handler[h].id] # None /\ requests'[handler[h].id].status = status
         /\ \A j \in Ids \ {handler[h].id} : Shown(j)' = Shown(j)
<1>1. /\ handler[h].id \in Ids /\ Open(handler[h].id, requests)
      /\ handler[h].pc = step
      /\ requests'[handler[h].id] # None /\ requests'[handler[h].id].status = status
      /\ \A j \in Ids \ {handler[h].id} : requests'[j] = requests[j]
      /\ UNCHANGED <<repo, commits, filed>>
  BY FinishDoes
<1>2. filed[handler[h].id] = Body(handler[h].cr) /\ filed[handler[h].id] # None
  BY <1>1 DEF SafetyInv, HandlerSound
<1>3. \A j \in Ids \ {handler[h].id} : Shown(j)' = Shown(j)
  BY <1>1, ShownKept, StatusKept
<1>4. QED
  BY <1>1, <1>2, <1>3

LEMMA RefineDecide ==
  ASSUME TypeInv, SafetyInv, SerialInv, DecisionInv, NEW h \in Handlers,
         NEW step \in {"save_conflict", "save_rejected"}, NEW status \in {"conflict", "rejected"},
         NEW failed \in BOOLEAN, Finish(h, step, status, failed),
         status = "conflict" => step = "save_conflict"
  PROVE  Reviewed
<1>0. PICK i \in Ids : i = handler[h].id
  BY FinishView DEF Reviewing
<1> DEFINE cr == handler[h].cr
<1>1. /\ i \in Ids /\ Open(i, requests) /\ filed[i] = Body(cr) /\ filed[i] # None
      /\ filed' = filed /\ commits' = commits /\ repo' = repo
      /\ requests'[i] # None /\ requests'[i].status = status
      /\ \A j \in Ids \ {i} : Shown(j)' = Shown(j)
  BY <1>0, FinishView DEF Reviewing
<1>2. handler[h].pc = step /\ InFlight(h)
  BY DEF Finish, InFlight
<1>3. ~\E e \in commits : e.author = i
  BY <1>1, <1>2, NoneLanded DEF DecisionInv
<1>4. status = "conflict" => Version(repo[cr.file]) # cr.base
  BY <1>2 DEF DecisionInv, Grounds
<1>5. cr.file = filed[i].file /\ cr.base = filed[i].base
  BY <1>1 DEF Body
<1> HIDE DEF cr
<1>6. /\ View[i] # None /\ View[i].status = "pending"
      /\ View[i].file = cr.file /\ View[i].base = cr.base
  BY <1>1, <1>3, <1>5, ShownPending
<1>7. Status(i)' = status
  BY <1>1 DEF Status
<1>8. View' = [View EXCEPT ![i].status = status]
  BY <1>1, <1>7, ViewMoved
<1>9. CASE status = "rejected"
  <2>1. Abstract!Reject(i)
    BY <1>1, <1>6, <1>8, <1>9 DEF Abstract!Reject, Abstract!Pending, Abstract!Decide, View
  <2>2. QED
    BY <1>1, <2>1 DEF Abstract!Next, Reviewed
<1>10. CASE status = "conflict"
  <2>1. Abstract!Version(repo[View[i].file]) # View[i].base
    BY <1>4, <1>6, <1>10 DEF Abstract!Version, Version
  <2>2. Abstract!Invalidate(i)
    BY <1>1, <1>6, <1>8, <1>10, <2>1
       DEF Abstract!Invalidate, Abstract!Pending, Abstract!Current, Abstract!Decide, View
  <2>3. QED
    BY <1>1, <2>2 DEF Abstract!Next, Reviewed
<1>11. QED
  BY <1>9, <1>10

\* A failed approval leaves the request pending; a successful one was shown at the commit.
LEMMA RefineApproval ==
  ASSUME TypeInv, SafetyInv, SerialInv, DecisionInv, NEW h \in Handlers,
         ApproveError(h) \/ ApproveSave(h)
  PROVE  Reviewed
<1>0. PICK i \in Ids : i = handler[h].id
  BY DEF ApproveError, ApproveSave, Finish, TypeInv, HoldsRequest, Reviewing
<1>1. CASE ApproveError(h)
  <2>1. /\ i \in Ids /\ Open(i, requests) /\ filed' = filed /\ commits' = commits /\ repo' = repo
        /\ requests'[i] # None /\ requests'[i].status = "pending"
        /\ \A j \in Ids \ {i} : Shown(j)' = Shown(j)
    BY <1>0, <1>1, FinishView DEF ApproveError, Reviewing
  <2>2. handler[h].pc = "save_error" /\ InFlight(h)
    BY <1>1 DEF ApproveError, Finish, InFlight
  <2>3. Status(i)' = Status(i)
    BY <2>1 DEF Status, CommitsOf, Open
  <2>4. Shown(i)' = Shown(i)
    BY <2>1, <2>3, ShownKept
  <2>5. View' = View
    BY <2>1, <2>4, ViewKept
  <2>6. QED
    BY <2>1, <2>5 DEF Reviewed
<1>2. CASE ApproveSave(h)
  <2>1. /\ i \in Ids /\ Open(i, requests) /\ filed' = filed /\ commits' = commits /\ repo' = repo
        /\ requests'[i] # None /\ requests'[i].status = "approved"
        /\ \A j \in Ids \ {i} : Shown(j)' = Shown(j)
    BY <1>0, <1>2, FinishView DEF ApproveSave, Reviewing
  <2>2. handler[h].pc = "save_approved" /\ HandlerSound(handler[h])
    BY <1>2 DEF ApproveSave, Finish, SafetyInv
  <2>3. CommitsOf(i) # {}
    BY <1>0, <2>2 DEF HandlerSound, CommitsOf
  <2>4. Status(i)' = "approved" /\ Status(i) = "approved"
    BY <2>1, <2>3 DEF Status, Open
  <2>5. Shown(i)' = Shown(i)
    BY <2>1, <2>4, ShownKept
  <2>6. View' = View
    BY <2>1, <2>5, ViewKept
  <2>7. QED
    BY <2>1, <2>6 DEF Reviewed
<1>3. QED
  BY <1>1, <1>2

LEMMA RefineDeleteStore ==
  ASSUME TypeInv, SafetyInv, NEW h \in Handlers, DeleteStore(h)
  PROVE  Reviewed
<1>0. PICK i \in Ids : i = handler[h].id
  BY DEF DeleteStore, TypeInv, HoldsRequest
<1>1. UNCHANGED <<repo, commits, filed>>
  BY DEF DeleteStore
<1>2. CASE requests[i] = None
  <2>1. UNCHANGED requests
    BY <1>0, <1>2 DEF DeleteStore
  <2>2. QED
    BY <1>1, <2>1, RefineMove
<1>3. CASE requests[i] # None
  <2>1. requests'[i] = None /\ \A j \in Ids \ {i} : requests'[j] = requests[j]
    BY <1>0, <1>3 DEF DeleteStore, Save, TypeInv, TypeOK
  <2>2. filed[i] # None
    BY <1>1, <1>3 DEF SafetyInv, Agree
  <2>3. \A j \in Ids \ {i} : Shown(j)' = Shown(j)
    BY <1>1, <2>1, ShownKept, StatusKept
  <2>4. Status(i)' = "withdrawn"
    BY <2>1 DEF Status
  <2>5. View' = [View EXCEPT ![i].status = "withdrawn"]
    BY <1>1, <2>2, <2>3, <2>4, ViewMoved
  <2>6. View[i] # None
    <3>1. Status(i) \in {"pending", "approved", "rejected", "conflict"}
      <4>1. requests[i] \in ChangeRequest
        BY <1>1, <1>3 DEF TypeInv, TypeOK
      <4>2. QED
        BY <1>3, <4>1 DEF Status, ChangeRequest
    <3>2. filed[i] \in Bodies
      BY <1>1, <2>2 DEF TypeInv, TypeOK
    <3>3. View[i] = [file |-> filed[i].file, new |-> filed[i].new, base |-> filed[i].base,
                     status |-> Status(i)]
      BY <1>1, <2>2, ShownIs DEF View
    <3>4. QED
      BY <3>1, <3>2, <3>3, ViewAssumption DEF Bodies
  <2>7. Abstract!Withdraw(i)
    BY <1>1, <2>5, <2>6 DEF Abstract!Withdraw, Abstract!Decide, View
  <2>8. QED
    BY <1>1, <2>7 DEF Abstract!Next, Reviewed
<1>4. QED
  BY <1>2, <1>3

LEMMA RefineOtherCommit ==
  ASSUME NEW f \in Files, NEW c \in Contents \cup {None}, OtherCommit(f, c)
  PROVE  Reviewed
<1> DEFINE e == [author |-> None, file |-> f, content |-> c, base |-> Blank,
                 parent |-> repo[f], at |-> rev[f], seen |-> rev[f]]
<1>1. /\ repo' = [repo EXCEPT ![f] = c] /\ commits' = commits \cup {e} /\ e.author = None
      /\ UNCHANGED <<requests, filed>>
  BY DEF OtherCommit, Land
<1> HIDE DEF e
<1>2. \A i \in Ids : Shown(i)' = Shown(i)
  BY <1>1, NoneAssumption, ShownKept, StatusKept
<1>3. View' = View
  BY <1>2, ViewKept
<1>4. Abstract!OtherCommit(f)
  BY <1>1, <1>3 DEF Abstract!OtherCommit, View
<1>5. QED
  BY <1>4 DEF Abstract!Next, Reviewed

LEMMA RefineNext ==
  ASSUME ~Overlap, Settled, TypeInv, SafetyInv, SerialInv, DecisionInv, [Next]_vars
  PROVE  Reviewed
<1>1. ASSUME NEW h \in Handlers, Handle(h) PROVE Reviewed
  <2>1. CASE \E f \in Files : Load(h, f) \/ (\E c \in Contents : CreateFetch(h, f, c))
    BY <2>1, RefineMove DEF Load, CreateFetch
  <2>2. CASE \E i \in Ids : ApproveStart(h, i) \/ RejectStart(h, i) \/ DeleteStart(h, i)
    BY <2>2, RefineMove DEF ApproveStart, RejectStart, StartReview, DeleteStart
  <2>3. CASE ApproveCheck(h) \/ ApproveProbe(h) \/ ApproveCommitFails(h)
    BY <2>3, RefineMove DEF ApproveCheck, ApproveProbe, ApproveCommitFails
  <2>4. CASE CreateStore(h)
    BY <2>4, RefineCreateStore
  <2>5. CASE ApproveCommit(h)
    BY <2>5, RefineCommit
  <2>6. CASE ApproveConflict(h)
    <3>1. handler[h].cr.commitError \in BOOLEAN
      BY <2>6, FinishCopy DEF ApproveConflict, Reviewing
    <3>2. QED
      BY <2>6, <3>1, RefineDecide DEF ApproveConflict
  <2>7. CASE RejectSave(h)
    <3>1. handler[h].cr.commitError \in BOOLEAN
      BY <2>7, FinishCopy DEF RejectSave, Reviewing
    <3>2. QED
      BY <2>7, <3>1, RefineDecide DEF RejectSave
  <2>8. CASE ApproveError(h) \/ ApproveSave(h)
    BY <2>8, RefineApproval
  <2>9. CASE DeleteStore(h)
    BY <2>9, RefineDeleteStore
  <2>10. QED
    BY <1>1, <2>1, <2>2, <2>3, <2>4, <2>5, <2>6, <2>7, <2>8, <2>9 DEF Handle
<1>2. ASSUME NEW f \in Files, NEW c \in Contents \cup {None}, OtherCommit(f, c) PROVE Reviewed
  BY <1>2, RefineOtherCommit
<1>3. CASE Crash \/ CrashWhileSaving
  BY <1>3 DEF Crash, CrashWhileSaving, Restart, Settled
<1>4. CASE UNCHANGED vars
  BY <1>4, RefineMove DEF vars
<1>5. QED
  BY <1>1, <1>2, <1>3, <1>4 DEF Next

\* The handlers implement ReviewedEdits, the feature as its users are told of it, while
\* handlers and other writers do not interleave, every reply arrives and the server keeps
\* running: every step of theirs is one of its steps, with the commit as the approval, or
\* changes nothing that its users see.
THEOREM HandlersImplementReviewedEdits ==
  ASSUME ~Overlap, Settled
  PROVE  Spec => ImplementsReviewedEdits
<1>1. Init => Abstract!Init
  BY DEF Init, Abstract!Init, Shown
<1>2. TypeInv /\ SafetyInv /\ SerialInv /\ DecisionInv /\ [Next]_vars
        => [Abstract!Next]_(Abstract!vars)
  BY RefineNext DEF Reviewed, View, Abstract!vars
<1>3. TypeInv /\ SafetyInv /\ SerialInv /\ DecisionInv /\ [Next]_vars => SerialInv' /\ DecisionInv'
  BY SerialInvNext, DecisionInvNext
<1>4. QED
  BY <1>1, <1>2, <1>3, SerialInvInit, DecisionInvInit, SafetyInvariant, PTL
     DEF Spec, ImplementsReviewedEdits, Abstract!Spec

=============================================================================
