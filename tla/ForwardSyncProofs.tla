------------------------- MODULE ForwardSyncProofs -------------------------
(***************************************************************************)
(* Proofs about ForwardSync, for any number of files, commits, failures    *)
(* and requests: its types, and that a reported success is true.           *)
(***************************************************************************)
EXTENDS ForwardSync, TLAPS

\* While a sync applies its changes, everything it has read is in the
\* cluster, except what is still to be applied, what has failed and what
\* others have changed since.
Progress ==
  \A s \in {"loop", "manual"} :
    at[s].pc = "apply" /\ ~at[s].failed =>
      \A f \in Files \ (at[s].todo \cup disturbed[s]) : at[s].got[f] \in {None, cluster[f]}

\* The inductive invariant.
IInv == TypeOK /\ Progress

-----------------------------------------------------------------------------

LEMMA IdleType == Idle \in SyncState
  BY DEF Idle, SyncState, Nothing

LEMMA FailsType ==
  ASSUME TypeOK, NEW fault, Fails(fault)
  PROVE  faults' \in 0..MaxFaults
  BY ForwardSyncAssumption DEF TypeOK, Fails

LEMMA DisturbedType ==
  ASSUME TypeOK, NEW f \in Files, NEW others
  PROVE  Disturbed(f, others) \in [Syncs -> SUBSET Files]
  BY DEF TypeOK, Disturbed

LEMMA FinishType ==
  ASSUME TypeOK, NEW s \in Syncs, NEW verdict \in {"success", "failed"}, Finish(s, verdict)
  PROVE  /\ at' \in [Syncs -> SyncState]
         /\ result' \in {"none", "success", "failed"}
         /\ disturbed' \in [Syncs -> SUBSET Files]
  BY IdleType DEF TypeOK, Finish

LEMMA ListTreeType ==
  ASSUME TypeOK, NEW s \in Syncs, requests' \in 0..MaxRequests,
         ListTree(s) \/ ListTreeFails(s)
  PROVE  TypeOK'
  <1>1. CASE ListTree(s)
    <2>1. [Idle EXCEPT !.pc = "read", !.todo = Tree] \in SyncState
      BY IdleType DEF SyncState, Tree
    <2>2. at' \in [Syncs -> SyncState]
      BY <1>1, <2>1 DEF TypeOK, ListTree
    <2> QED BY <1>1, <2>2 DEF TypeOK, ListTree
  <1>2. CASE ListTreeFails(s)
    <2>1. faults' \in 0..MaxFaults
      BY <1>2, FailsType DEF ListTreeFails
    <2>2. /\ at' \in [Syncs -> SyncState]
          /\ result' \in {"none", "success", "failed"}
          /\ disturbed' \in [Syncs -> SUBSET Files]
      BY <1>2, FinishType DEF TypeOK, ListTreeFails
    <2> QED BY <1>2, <2>1, <2>2 DEF TypeOK, ListTreeFails
  <1> QED BY <1>1, <1>2

LEMMA ProceedType ==
  ASSUME TypeOK, NEW s \in Syncs, Proceed(s)
  PROVE  TypeOK'
  <1>0. at[s] \in SyncState
    BY DEF TypeOK
  <1>1. ASSUME NEW f \in Files, ReadFile(s, f)
        PROVE  TypeOK'
    <2>1. WithFile(s, f) \in SyncState
      <3>1. [at[s].got EXCEPT ![f] = repo[f]] \in [Files -> Versions \cup {None}]
        BY <1>0 DEF TypeOK, SyncState
      <3> QED BY <1>0, <3>1 DEF SyncState, WithFile
    <2>2. at' \in [Syncs -> SyncState]
      BY <1>1, <2>1 DEF TypeOK, ReadFile
    <2> QED BY <1>1, <2>2 DEF TypeOK, ReadFile
  <1>2. ASSUME NEW f \in Files, ReadFileFails(s, f)
        PROVE  TypeOK'
    <2>1. at' \in [Syncs -> SyncState]
      BY <1>0, <1>2 DEF TypeOK, SyncState, ReadFileFails
    <2> QED BY <1>2, <2>1, FailsType DEF TypeOK, ReadFileFails
  <1>3. CASE Compare(s)
    <2>1. PICK lost \in SUBSET Files :
            /\ faults' = faults \/ Fails("list")
            /\ at' = [at EXCEPT ![s] = WithChanges(s, lost)]
      BY <1>3 DEF Compare
    <2>2. Changes(s, Found(lost)) \in SUBSET Files
      BY DEF Changes
    <2>3. WithChanges(s, lost) \in SyncState
      BY <1>0, <2>2 DEF SyncState, WithChanges
    <2>4. at' \in [Syncs -> SyncState]
      BY <2>1, <2>3 DEF TypeOK
    <2>5. faults' \in 0..MaxFaults
      BY <2>1, FailsType DEF TypeOK
    <2> QED BY <1>3, <2>4, <2>5 DEF TypeOK, Compare
  <1>4. ASSUME NEW f \in Files, Apply(s, f)
        PROVE  TypeOK'
    <2>1. at' \in [Syncs -> SyncState]
      BY <1>0, <1>4 DEF TypeOK, SyncState, Apply
    <2>2. cluster' \in [Files -> Versions \cup {None, Edited}]
      BY <1>0, <1>4 DEF TypeOK, SyncState, Apply
    <2> QED BY <1>4, <2>1, <2>2, DisturbedType DEF TypeOK, Apply
  <1>5. ASSUME NEW f \in Files, ApplyFails(s, f)
        PROVE  TypeOK'
    <2>1. WithFailure(s, f) \in SyncState
      BY <1>0 DEF SyncState, WithFailure
    <2>2. at' \in [Syncs -> SyncState]
      BY <1>5, <2>1 DEF TypeOK, ApplyFails
    <2>3. cluster' \in [Files -> Versions \cup {None, Edited}]
      BY <1>0, <1>5 DEF TypeOK, SyncState, ApplyFails
    <2>4. disturbed' \in [Syncs -> SUBSET Files]
      BY <1>5, DisturbedType DEF TypeOK, ApplyFails
    <2>5. faults' \in 0..MaxFaults
      BY <1>5, FailsType DEF ApplyFails
    <2> QED BY <1>5, <2>2, <2>3, <2>4, <2>5 DEF TypeOK, ApplyFails
  <1>6. CASE Done(s)
    BY <1>6, FinishType DEF TypeOK, Done
  <1> QED BY <1>1, <1>2, <1>3, <1>4, <1>5, <1>6 DEF Proceed

LEMMA TypeStep == TypeOK /\ [Next]_vars => TypeOK'
  <1> SUFFICES ASSUME TypeOK, [Next]_vars
               PROVE  TypeOK'
    OBVIOUS
  <1>1. ASSUME NEW f \in Files, Push(f)
        PROVE  TypeOK'
    BY <1>1, ForwardSyncAssumption DEF TypeOK, Push, Versions
  <1>2. ASSUME NEW f \in Files, EditByHand(f)
        PROVE  TypeOK'
    <2>1. cluster' \in [Files -> Versions \cup {None, Edited}]
      BY <1>2 DEF TypeOK, EditByHand
    <2>2. edits' \in 0..MaxEdits
      BY <1>2, ForwardSyncAssumption DEF TypeOK, EditByHand
    <2> QED BY <1>2, <2>1, <2>2, DisturbedType DEF TypeOK, EditByHand
  <1>3. CASE Tick
    BY <1>3, ListTreeType DEF Tick, Syncs, TypeOK
  <1>4. ASSUME NEW s \in Syncs, Request(s)
        PROVE  TypeOK'
    <2>1. requests' \in 0..MaxRequests
      BY <1>4, ForwardSyncAssumption DEF TypeOK, Request
    <2> QED BY <1>4, <2>1, ListTreeType DEF Request
  <1>5. ASSUME NEW s \in Syncs, Proceed(s)
        PROVE  TypeOK'
    BY <1>5, ProceedType
  <1>6. CASE Approve
    <2>0. at["review"] \in SyncState
      BY DEF TypeOK, Syncs
    <2>1. at' \in [Syncs -> SyncState]
      <3>1. PICK chosen \in SUBSET at["review"].todo :
              at' = [at EXCEPT !["review"] = [@ EXCEPT !.pc = "apply", !.todo = chosen]]
        BY <1>6 DEF Approve
      <3>2. [at["review"] EXCEPT !.pc = "apply", !.todo = chosen] \in SyncState
        BY <2>0 DEF SyncState
      <3> QED BY <3>1, <3>2 DEF TypeOK
    <2>2. requests' \in 0..MaxRequests
      BY <1>6, ForwardSyncAssumption DEF TypeOK, Approve
    <2> QED BY <1>6, <2>1, <2>2 DEF TypeOK, Approve
  <1>7. CASE Dismiss
    BY <1>7, IdleType DEF TypeOK, Dismiss
  <1>8. CASE UNCHANGED vars
    BY <1>8 DEF TypeOK, vars
  <1> QED BY <1>1, <1>2, <1>3, <1>4, <1>5, <1>6, <1>7, <1>8 DEF Next

LEMMA TypeInit == Init => TypeOK
  <1> SUFFICES ASSUME Init
               PROVE  TypeOK
    OBVIOUS
  <1>1. at \in [Syncs -> SyncState]
    BY IdleType DEF Init
  <1>2. repo \in [Files -> Versions \cup {None}]
    BY ForwardSyncAssumption DEF Init, Versions
  <1> QED BY <1>1, <1>2, ForwardSyncAssumption DEF Init, TypeOK, Versions

\* Every variable keeps its type.
THEOREM ForwardTypeCorrect == Spec => []TypeOK
  BY TypeInit, TypeStep, PTL DEF Spec

-----------------------------------------------------------------------------

\* What a step does to a sync that others carry on.
LEMMA OthersDisturb ==
  ASSUME IInv, NEW f \in Files, NEW s \in {"loop", "manual"},
         disturbed'[s] = disturbed[s] \cup {f}, at'[s] = at[s],
         \A g \in Files \ {f} : cluster'[g] = cluster[g],
         at[s].pc = "apply", ~at[s].failed
  PROVE  \A g \in Files \ (at'[s].todo \cup disturbed'[s]) : at'[s].got[g] \in {None, cluster'[g]}
  BY DEF IInv, Progress

LEMMA ProgressUnchanged ==
  ASSUME Progress, UNCHANGED <<at, cluster, disturbed>>
  PROVE  Progress'
  BY DEF Progress

\* A step of s that leaves the other syncs and the cluster alone.
LEMMA ProgressOfOne ==
  ASSUME IInv, NEW s \in Syncs, NEW new, at' = [at EXCEPT ![s] = new], cluster' = cluster,
         \A t \in Syncs \ {s} : disturbed'[t] = disturbed[t],
         s \in {"loop", "manual"} /\ new.pc = "apply" /\ ~new.failed =>
           \A f \in Files \ (new.todo \cup disturbed'[s]) : new.got[f] \in {None, cluster[f]}
  PROVE  Progress'
  <1>1. at'[s] = new /\ \A t \in Syncs \ {s} : at'[t] = at[t]
    BY DEF IInv, TypeOK
  <1>2. ASSUME NEW t \in {"loop", "manual"}, at'[t].pc = "apply", ~at'[t].failed,
               NEW f \in Files \ (at'[t].todo \cup disturbed'[t])
        PROVE  at'[t].got[f] \in {None, cluster'[f]}
    <2>1. CASE t = s
      BY <1>1, <1>2, <2>1
    <2>2. CASE t # s
      BY <1>1, <1>2, <2>2 DEF IInv, Progress, Syncs
    <2> QED BY <2>1, <2>2
  <1> QED BY <1>2 DEF Progress

LEMMA ListTreeProgress ==
  ASSUME IInv, NEW s \in Syncs, ListTree(s) \/ ListTreeFails(s)
  PROVE  Progress'
  <1>1. CASE ListTree(s)
    <2>1. [Idle EXCEPT !.pc = "read", !.todo = Tree].pc = "read"
      BY DEF Idle
    <2> QED BY <1>1, <2>1, ProgressOfOne DEF ListTree
  <1>2. CASE ListTreeFails(s) /\ Finish(s, "success")
    <2>1. Idle.pc # "apply"
      BY DEF Idle
    <2>2. \A t \in Syncs \ {s} : disturbed'[t] = disturbed[t]
      BY <1>2 DEF Finish, IInv, TypeOK
    <2> QED BY <1>2, <2>1, <2>2, ProgressOfOne DEF ListTreeFails, Finish
  <1>3. CASE ListTreeFails(s) /\ UNCHANGED <<at, disturbed>>
    BY <1>3, ProgressUnchanged DEF ListTreeFails, IInv
  <1> QED BY <1>1, <1>2, <1>3 DEF ListTreeFails

LEMMA ProceedProgress ==
  ASSUME IInv, NEW s \in Syncs, Proceed(s)
  PROVE  Progress'
  <1>0. at[s] \in SyncState
    BY DEF IInv, TypeOK
  <1>1. ASSUME NEW f \in Files, ReadFile(s, f)
        PROVE  Progress'
    <2>1. WithFile(s, f).pc = "read"
      BY <1>0, <1>1 DEF ReadFile, WithFile, SyncState
    <2> QED BY <1>1, <2>1, ProgressOfOne DEF ReadFile
  <1>2. ASSUME NEW f \in Files, ReadFileFails(s, f)
        PROVE  Progress'
    <2> DEFINE new == [at[s] EXCEPT !.todo = @ \ {f}]
    <2>1. new.pc = "read" /\ at' = [at EXCEPT ![s] = new]
      BY <1>0, <1>2 DEF ReadFileFails, SyncState
    <2> HIDE DEF new
    <2> QED BY <1>2, <2>1, ProgressOfOne DEF ReadFileFails
  <1>3. CASE Compare(s)
    <2>1. PICK lost \in SUBSET Files : at' = [at EXCEPT ![s] = WithChanges(s, lost)]
      BY <1>3 DEF Compare
    <2>2. /\ WithChanges(s, lost).todo = Changes(s, Found(lost))
          /\ WithChanges(s, lost).got = at[s].got
      BY <1>0 DEF WithChanges, SyncState
    <2>3. \A f \in Files \ Changes(s, Found(lost)) : at[s].got[f] \in {None, cluster[f]}
      BY DEF Changes, Found
    <2>4. cluster' = cluster /\ disturbed' = disturbed
      BY <1>3 DEF Compare
    <2> QED BY <2>1, <2>2, <2>3, <2>4, ProgressOfOne
  <1>4. ASSUME NEW f \in Files, Apply(s, f) \/ ApplyFails(s, f),
               cluster' = [cluster EXCEPT ![f] = at[s].got[f]], disturbed' = Disturbed(f, Syncs \ {s})
        PROVE  Progress'
    <2>1. /\ cluster'[f] = at[s].got[f] /\ \A g \in Files \ {f} : cluster'[g] = cluster[g]
          /\ \A t \in Syncs \ {s} : at'[t] = at[t]
          /\ at'[s].got = at[s].got /\ at'[s].todo = at[s].todo \ {f}
          /\ at'[s].failed \in {at[s].failed, TRUE}
          /\ at[s].pc = "apply"
      <3>1. CASE Apply(s, f)
        BY <1>0, <1>4, <3>1 DEF IInv, TypeOK, SyncState, Apply
      <3>2. CASE ApplyFails(s, f)
        <4>1. /\ WithFailure(s, f).got = at[s].got /\ WithFailure(s, f).todo = at[s].todo \ {f}
              /\ WithFailure(s, f).failed = TRUE
          BY <1>0 DEF WithFailure, SyncState
        <4> QED BY <1>4, <3>2, <4>1 DEF IInv, TypeOK, ApplyFails
      <3> QED BY <1>4, <3>1, <3>2
    <2>2. disturbed'[s] = disturbed[s]
      BY <1>4 DEF Disturbed
    <2>3. ASSUME NEW t \in {"loop", "manual"}, at'[t].pc = "apply", ~at'[t].failed,
                 NEW g \in Files \ (at'[t].todo \cup disturbed'[t])
          PROVE  at'[t].got[g] \in {None, cluster'[g]}
      <3>1. CASE t = s
        <4>1. ~at[s].failed
          BY <2>1, <2>3, <3>1
        <4>2. CASE g = f
          BY <2>1, <3>1, <4>2
        <4>3. CASE g # f
          BY <2>1, <2>2, <2>3, <3>1, <4>1, <4>3 DEF IInv, Progress
        <4> QED BY <4>2, <4>3
      <3>2. CASE t # s
        <4>1. t \in Syncs \ {s} /\ at'[t] = at[t]
          BY <2>1, <3>2 DEF Syncs
        <4>2. at[t].pc = "apply" /\ ~at[t].failed
          BY <2>3, <4>1
        <4>3. \A h \in Files \ (at'[t].todo \cup disturbed'[t]) : at'[t].got[h] \in {None, cluster'[h]}
          <5>1. disturbed'[t] = disturbed[t] \cup {f}
            BY <1>4, <4>1, <4>2 DEF Disturbed
          <5>2. \A h \in Files \ {f} : cluster'[h] = cluster[h]
            BY <2>1
          <5> QED BY <4>1, <4>2, <5>1, <5>2, OthersDisturb
        <4> QED BY <2>3, <4>3
      <3> QED BY <3>1, <3>2
    <2> QED BY <2>3 DEF Progress
  <1>5. ASSUME NEW f \in Files, ApplyFails(s, f), UNCHANGED <<cluster, disturbed>>
        PROVE  Progress'
    <2>1. WithFailure(s, f).failed
      BY <1>0 DEF WithFailure, SyncState
    <2> QED BY <1>5, <2>1, ProgressOfOne DEF ApplyFails
  <1>6. CASE Done(s)
    <2>1. Idle.pc # "apply"
      BY DEF Idle
    <2>2. \A t \in Syncs \ {s} : disturbed'[t] = disturbed[t]
      BY <1>6 DEF Done, Finish, IInv, TypeOK
    <2> QED BY <1>6, <2>1, <2>2, ProgressOfOne DEF Done, Finish
  <1>7. ASSUME NEW f \in Files, Apply(s, f) \/ ApplyFails(s, f)
        PROVE  Progress'
    BY <1>4, <1>5, <1>7 DEF Apply, ApplyFails
  <1> QED BY <1>1, <1>2, <1>3, <1>6, <1>7 DEF Proceed

LEMMA InvariantStep == IInv /\ [Next]_vars => IInv'
  <1> SUFFICES ASSUME IInv, [Next]_vars
               PROVE  IInv'
    OBVIOUS
  <1>1. TypeOK'
    BY TypeStep DEF IInv
  <1>2. Progress'
    <2>1. ASSUME NEW f \in Files, Push(f)
          PROVE  Progress'
      BY <2>1, ProgressUnchanged DEF IInv, Push
    <2>2. ASSUME NEW f \in Files, EditByHand(f)
          PROVE  Progress'
      <3>1. /\ \A g \in Files \ {f} : cluster'[g] = cluster[g]
            /\ disturbed' = Disturbed(f, Syncs) /\ at' = at
        BY <2>2 DEF EditByHand, IInv, TypeOK
      <3>2. \A t \in {"loop", "manual"} : at[t].pc = "apply" => disturbed'[t] = disturbed[t] \cup {f}
        BY <3>1 DEF Disturbed, Syncs
      <3> QED BY <3>1, <3>2, OthersDisturb DEF Progress
    <2>3. CASE Tick
      BY <2>3, ListTreeProgress DEF Tick, Syncs
    <2>4. ASSUME NEW s \in Syncs, Request(s)
          PROVE  Progress'
      BY <2>4, ListTreeProgress DEF Request
    <2>5. ASSUME NEW s \in Syncs, Proceed(s)
          PROVE  Progress'
      BY <2>5, ProceedProgress
    <2>6. CASE Approve
      <3>1. PICK chosen \in SUBSET at["review"].todo :
              at' = [at EXCEPT !["review"] = [@ EXCEPT !.pc = "apply", !.todo = chosen]]
        BY <2>6 DEF Approve
      <3>2. \A t \in {"loop", "manual"} : at'[t] = at[t]
        BY <3>1 DEF IInv, TypeOK, Syncs
      <3> QED BY <2>6, <3>2 DEF Approve, IInv, Progress
    <2>7. CASE Dismiss
      <3>1. \A t \in {"loop", "manual"} : at'[t] = at[t] /\ disturbed'[t] = disturbed[t]
        BY <2>7 DEF Dismiss, IInv, TypeOK, Syncs
      <3> QED BY <2>7, <3>1 DEF Dismiss, IInv, Progress
    <2>8. CASE UNCHANGED vars
      BY <2>8, ProgressUnchanged DEF IInv, vars
    <2> QED BY <2>1, <2>2, <2>3, <2>4, <2>5, <2>6, <2>7, <2>8 DEF Next
  <1> QED BY <1>1, <1>2 DEF IInv

LEMMA InvariantInit == Init => IInv
  <1> SUFFICES ASSUME Init
               PROVE  IInv
    OBVIOUS
  <1>1. \A s \in Syncs : at[s].pc = "idle"
    BY DEF Init, Idle
  <1> QED BY <1>1, TypeInit DEF IInv, Progress, Syncs

\* A reported success is true, for any number of files and any overlap of
\* syncs, reviews, commits and edits by hand.
THEOREM SuccessesAreTrue == Spec => SuccessIsTrue
  <1>1. ASSUME IInv
        PROVE  \A s \in {"loop", "manual"} :
                 Done(s) /\ result' = "success" =>
                   \A f \in Files \ disturbed[s] : at[s].got[f] \in {None, cluster[f]}
    <2> SUFFICES ASSUME NEW s \in {"loop", "manual"}, Done(s), result' = "success",
                        NEW f \in Files \ disturbed[s]
                 PROVE  at[s].got[f] \in {None, cluster[f]}
      OBVIOUS
    <2>1. at[s].failed \in BOOLEAN
      BY <1>1 DEF IInv, TypeOK, SyncState, Syncs
    <2>2. at[s].pc = "apply" /\ at[s].todo = {} /\ ~at[s].failed
      BY <2>1 DEF Done, Finish
    <2> QED BY <1>1, <2>2 DEF IInv, Progress
  <1>2. IInv =>
          [\A s \in {"loop", "manual"} :
             Done(s) /\ result' = "success" =>
               \A f \in Files \ disturbed[s] : at[s].got[f] \in {None, cluster[f]}]_vars
    BY <1>1
  <1>3. Spec => []IInv
    BY InvariantInit, InvariantStep, PTL DEF Spec
  <1> QED BY <1>2, <1>3, PTL DEF SuccessIsTrue
=============================================================================
