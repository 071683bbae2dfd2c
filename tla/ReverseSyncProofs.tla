------------------------- MODULE ReverseSyncProofs -------------------------
(***************************************************************************)
(* Proofs about ReverseSync, for all objects, namespaces, channel sizes    *)
(* and combinations of failures: its types, and that no change of a        *)
(* watched object is forgotten while syncs do not overlap.                 *)
(***************************************************************************)
EXTENDS ReverseSync, FiniteSetTheorems, TLAPS

\* One sync at a time.
Serial == \A s, t \in Syncs : s # t => at[s].pc = "idle" \/ at[t].pc = "idle"

\* The loop will hear that an object of n changed, or its watch is lost.
WillHear(n) == Announced(n) \/ SyncIsDue \/ watch[n] # "open"

\* A sync that is not under way holds nothing.
IdleHoldsNothing == \A s \in Syncs : at[s].pc = "idle" => at[s] = Idle

\* A sync commits when every List has returned.
CommitsAfterLists == \A s \in Syncs : at[s].pc = "commit" => Unanswered(s) = {}

\* What a sync knows of a file is true: no other sync writes.
ReadIsCurrent ==
  \A s \in Syncs : at[s].pc # "idle" => \A o \in Objects : at[s].read[o] \in {None, files[o]}

\* When an object changes after a sync has listed it, the loop will hear.
FoundOrHeard ==
  \A s \in Syncs : \A o \in ConfigMaps :
    /\ NamespaceOf[o] \in at[s].listed
    /\ cluster[o] # None
    /\ at[s].found[o] # cluster[o]
    => WillHear(NamespaceOf[o])

\* The inductive invariant.
IInv ==
  /\ TypeOK
  /\ Serial
  /\ IdleHoldsNothing
  /\ CommitsAfterLists
  /\ ReadIsCurrent
  /\ FoundOrHeard
  /\ NothingForgotten

-----------------------------------------------------------------------------

LEMMA IdleType == Idle \in SyncState
  BY DEF Idle, SyncState, Nothing, Values

LEMMA FinishType ==
  ASSUME TypeOK, NEW s \in Syncs, NEW verdict \in {"success", "failed"}, Finish(s, verdict)
  PROVE  /\ at' \in [Syncs -> SyncState]
         /\ result' \in {"none", "success", "failed"}
         /\ unlisted' \subseteq Namespaces
         /\ timer' \in BOOLEAN
  <1>1. at' \in [Syncs -> SyncState]
    BY IdleType DEF TypeOK, Finish
  <1>2. unlisted' \subseteq Namespaces
    BY DEF TypeOK, Finish, SyncState
  <1> QED BY <1>1, <1>2 DEF TypeOK, Finish

LEMMA WrittenType ==
  ASSUME TypeOK, NEW s \in Syncs
  PROVE  Written(s) \in [Objects -> Values]
  BY DEF TypeOK, Written, SyncState

LEMMA FailsType ==
  ASSUME TypeOK, NEW fault, Fails(fault)
  PROVE  faults' \in 0..MaxFaults
  BY ReverseSyncAssumption DEF TypeOK, Fails

LEMMA FetchType ==
  ASSUME TypeOK, NEW s \in Syncs, Fetch(s)
  PROVE  TypeOK'
  <1>1. PICK lost \in SUBSET Objects :
          /\ faults' = faults \/ Fails("read")
          /\ at' = [at EXCEPT ![s] = WithFiles(lost)]
    BY DEF Fetch
  <1>2. WithFiles(lost) \in SyncState
    <2>1. [o \in Objects |-> IF o \in lost THEN None ELSE files[o]] \in [Objects -> Values]
      BY DEF TypeOK, Values
    <2> QED BY <2>1, IdleType DEF SyncState, WithFiles
  <1>3. at' \in [Syncs -> SyncState]
    BY <1>1, <1>2 DEF TypeOK
  <1>4. faults' \in 0..MaxFaults
    BY <1>1, FailsType DEF TypeOK
  <1> QED BY <1>3, <1>4 DEF TypeOK, Fetch, watching

LEMMA WatchType ==
  ASSUME TypeOK, NEW n \in Namespaces, Watching(n) \/ Close(n)
  PROVE  TypeOK'
  <1> USE DEF TypeOK, counters
  <1>1. CASE Open(n)
    <2>1. [i \in 1..Cardinality(Existing(n)) |-> "ADDED"] \in Seq({"ADDED", "MODIFIED", "DELETED"})
      <3>1. IsFiniteSet(Existing(n))
        BY ReverseSyncAssumption, FS_Subset DEF Existing
      <3>2. Cardinality(Existing(n)) \in Nat
        BY <3>1, FS_CardinalityType
      <3> QED BY <3>2
    <2> QED BY <1>1, <2>1 DEF Open
  <1>2. CASE OpenFails(n)
    BY <1>2, FailsType DEF OpenFails
  <1>3. CASE Close(n)
    BY <1>3, FailsType DEF Close
  <1>4. CASE Deliver(n)
    <2>1. Sent(events[n]) \in 0..ChannelSize
      BY ReverseSyncAssumption DEF Sent
    <2>2. stream' \in [Namespaces -> Seq({"ADDED", "MODIFIED", "DELETED"})]
      BY <1>4 DEF Deliver
    <2> QED BY <1>4, <2>1, <2>2 DEF Deliver
  <1>5. CASE Forward(n)
    BY <1>5, ReverseSyncAssumption DEF Forward
  <1> QED BY <1>1, <1>2, <1>3, <1>4, <1>5 DEF Watching

LEMMA ProceedType ==
  ASSUME TypeOK, NEW s \in Syncs, Proceed(s)
  PROVE  TypeOK'
  <1>1. ASSUME NEW n \in Namespaces, List(s, n)
        PROVE  TypeOK'
    <2>1. WithList(s, n) \in SyncState
      <3>1. [o \in Objects |-> IF NamespaceOf[o] = n THEN cluster[o] ELSE at[s].found[o]]
              \in [Objects -> Values]
        BY DEF TypeOK, SyncState
      <3>2. at[s] \in SyncState
        BY DEF TypeOK
      <3> QED BY <3>1, <3>2 DEF SyncState, WithList
    <2>2. at' \in [Syncs -> SyncState]
      BY <1>1, <2>1 DEF TypeOK, List
    <2> QED BY <1>1, <2>2 DEF TypeOK, List, watching, counters
  <1>2. ASSUME NEW n \in Namespaces, ListFails(s, n)
        PROVE  TypeOK'
    <2>1. WithFailure(s, n) \in SyncState
      <3>1. at[s] \in SyncState
        BY DEF TypeOK
      <3> QED BY <3>1 DEF SyncState, WithFailure
    <2>2. at' \in [Syncs -> SyncState]
      BY <1>2, <2>1 DEF TypeOK, ListFails
    <2> QED BY <1>2, <2>2, FailsType DEF TypeOK, ListFails, watching
  <1>3. CASE NothingPending(s)
    BY <1>3, FinishType DEF TypeOK, NothingPending, watching, counters
  <1>4. CASE Probe(s)
    <2>1. PICK lost \in SUBSET Pending(s) :
            /\ faults' = faults \/ Fails("probe")
            /\ at' = [at EXCEPT ![s] = WithProbes(s, lost)]
      BY <1>4 DEF Probe
    <2>2. WithProbes(s, lost) \in SyncState
      <3>1. {o \in Pending(s) \ lost : files[o] # None} \in SUBSET Objects
        BY DEF Pending
      <3>2. at[s] \in SyncState
        BY DEF TypeOK
      <3> QED BY <3>1, <3>2 DEF SyncState, WithProbes
    <2>3. at' \in [Syncs -> SyncState]
      BY <2>1, <2>2 DEF TypeOK
    <2>4. faults' \in 0..MaxFaults
      BY <2>1, FailsType DEF TypeOK
    <2> QED BY <1>4, <2>3, <2>4 DEF TypeOK, Probe, watching
  <1>5. CASE Commit(s)
    BY <1>5, FinishType, WrittenType DEF TypeOK, Commit, watching, counters
  <1>6. CASE CommitRefused(s)
    BY <1>6, FinishType DEF TypeOK, CommitRefused, watching, counters
  <1>7. CASE CommitFails(s)
    <2>1. faults' \in 0..MaxFaults /\ files' \in [Objects -> Values]
      BY <1>7, FailsType, WrittenType DEF TypeOK, CommitFails
    <2> QED BY <1>7, <2>1, FinishType DEF TypeOK, CommitFails, watching
  <1> QED BY <1>1, <1>2, <1>3, <1>4, <1>5, <1>6, <1>7 DEF Proceed

LEMMA TypeStep == TypeOK /\ [Next]_vars => TypeOK'
  <1> SUFFICES ASSUME TypeOK, [Next]_vars
               PROVE  TypeOK'
    OBVIOUS
  <1>1. ASSUME NEW o \in Objects, NEW c \in Values, Change(o, c)
        PROVE  TypeOK'
    <2>1. cluster' \in [Objects -> Values]
      BY <1>1 DEF TypeOK, Change
    <2>2. edits' \in 0..MaxEdits
      BY <1>1, ReverseSyncAssumption DEF TypeOK, Change
    <2>3. stream' \in [Namespaces -> Seq({"ADDED", "MODIFIED", "DELETED"})]
      <3>1. EventType(cluster[o], c) \in {"ADDED", "MODIFIED", "DELETED"}
        BY DEF EventType
      <3>2. NamespaceOf[o] \in Namespaces
        BY ReverseSyncAssumption
      <3> QED BY <1>1, <3>1, <3>2 DEF TypeOK, Change
    <2> QED BY <1>1, <2>1, <2>2, <2>3 DEF TypeOK, Change
  <1>2. ASSUME NEW n \in Namespaces, Watching(n) \/ Close(n)
        PROVE  TypeOK'
    BY <1>2, WatchType
  <1>3. CASE Debounce
    BY <1>3 DEF TypeOK, Debounce, counters
  <1>4. CASE Fire
    BY <1>4, FetchType DEF Fire, Syncs
  <1>5. CASE TriggerSync
    BY <1>5, FetchType DEF TriggerSync, Syncs
  <1>6. ASSUME NEW s \in Syncs, Proceed(s)
        PROVE  TypeOK'
    BY <1>6, ProceedType
  <1>7. CASE UNCHANGED vars
    BY <1>7 DEF TypeOK, vars, watching, counters
  <1> QED BY <1>1, <1>2, <1>3, <1>4, <1>5, <1>6, <1>7 DEF Next

LEMMA TypeInit == Init => TypeOK
  <1> SUFFICES ASSUME Init
               PROVE  TypeOK
    OBVIOUS
  <1>1. at \in [Syncs -> SyncState]
    BY IdleType DEF Init
  <1>2. stream \in [Namespaces -> Seq({"ADDED", "MODIFIED", "DELETED"})]
    BY DEF Init
  <1>3. events \in [Namespaces -> 0..ChannelSize] /\ edits \in 0..MaxEdits /\ faults \in 0..MaxFaults
    BY ReverseSyncAssumption DEF Init
  <1> QED BY <1>1, <1>2, <1>3 DEF Init, TypeOK

\* Every variable keeps its type; in particular the channel of a watch never
\* holds more than its capacity.
THEOREM ReverseTypeCorrect == Spec => []TypeOK
  BY TypeInit, TypeStep, PTL DEF Spec

-----------------------------------------------------------------------------

\* The conjuncts of the invariant that speak of the syncs alone.
SyncsInv ==
  /\ Serial
  /\ IdleHoldsNothing
  /\ CommitsAfterLists
  /\ ReadIsCurrent

LEMMA SyncsUnchanged ==
  ASSUME SyncsInv, UNCHANGED <<at, files>>
  PROVE  SyncsInv'
  BY DEF SyncsInv, Serial, IdleHoldsNothing, CommitsAfterLists, ReadIsCurrent, Unanswered

\* Between the cluster and the loop: nothing is forgotten as long as the
\* loop will hear of every object that it would have heard of.
LEMMA HearingSuffices ==
  ASSUME FoundOrHeard, NothingForgotten,
         UNCHANGED <<cluster, files, at, result, unlisted>>,
         \A o \in ConfigMaps :
           cluster[o] # None /\ WillHear(NamespaceOf[o]) => WillHear(NamespaceOf[o])'
  PROVE  FoundOrHeard' /\ NothingForgotten'
  <1>1. FoundOrHeard'
    BY DEF FoundOrHeard
  <1>2. ASSUME NEW o \in ConfigMaps, Behind(o)'
        PROVE  \/ WillHear(NamespaceOf[o])'
               \/ \E s \in Syncs : WillWrite(s, o)'
               \/ \E s \in Syncs : (at[s].pc # "idle" /\ NamespaceOf[o] \in at[s].failed)'
               \/ Excused(NamespaceOf[o])'
    <2>1. Behind(o) /\ cluster[o] # None
      BY <1>2 DEF Behind
    <2>2. \/ WillHear(NamespaceOf[o])
          \/ \E s \in Syncs : WillWrite(s, o)
          \/ \E s \in Syncs : at[s].pc # "idle" /\ NamespaceOf[o] \in at[s].failed
          \/ result = "failed" \/ NamespaceOf[o] \in unlisted
      BY <2>1 DEF NothingForgotten, WillHear, Excused
    <2>3. CASE WillHear(NamespaceOf[o])
      BY <2>1, <2>3
    <2>4. CASE \E s \in Syncs : WillWrite(s, o)
      BY <2>4 DEF WillWrite, Unanswered, Pending
    <2>5. CASE \E s \in Syncs : at[s].pc # "idle" /\ NamespaceOf[o] \in at[s].failed
      BY <2>5
    <2>6. CASE result = "failed" \/ NamespaceOf[o] \in unlisted
      BY <2>6 DEF Excused
    <2> QED BY <2>2, <2>3, <2>4, <2>5, <2>6
  <1> QED BY <1>1, <1>2 DEF NothingForgotten, WillHear, Excused

LEMMA WatchStep ==
  ASSUME IInv, NEW n \in Namespaces, Watching(n) \/ Close(n)
  PROVE  FoundOrHeard' /\ NothingForgotten'
  <1> USE DEF IInv
  <1>1. UNCHANGED <<cluster, files, at, result, unlisted>>
    BY DEF Watching, Close, Open, OpenFails, Deliver, Forward
  <1>2. ASSUME NEW o \in ConfigMaps, cluster[o] # None, WillHear(NamespaceOf[o])
        PROVE  WillHear(NamespaceOf[o])'
    <2> DEFINE m == NamespaceOf[o]
    <2>0. m \in Namespaces
      BY ReverseSyncAssumption
    <2>1. CASE Open(n)
      <3>1. CASE m = n
        <4>1. IsFiniteSet(Existing(n)) /\ o \in Existing(n)
          BY <1>2, <3>1, ReverseSyncAssumption, FS_Subset DEF Existing
        <4>2. Cardinality(Existing(n)) \in Nat \ {0}
          BY <4>1, FS_CardinalityType, FS_EmptySet
        <4>3. stream'[n] = [i \in 1..Cardinality(Existing(n)) |-> "ADDED"]
          BY <2>1 DEF Open, TypeOK
        <4>4. 1 \in DOMAIN stream'[n] /\ stream'[n][1] = "ADDED"
          BY <4>2, <4>3
        <4> QED BY <3>1, <4>4 DEF WillHear, Announced, IsChange
      <3>2. CASE m # n
        BY <1>2, <2>0, <2>1, <3>2 DEF WillHear, Announced, SyncIsDue, Open, TypeOK
      <3> QED BY <3>1, <3>2
    <2>2. CASE OpenFails(n)
      BY <1>2, <2>0, <2>2 DEF WillHear, Announced, SyncIsDue, OpenFails, TypeOK
    <2>3. CASE Close(n)
      <3>1. CASE m = n
        BY <2>3, <3>1 DEF WillHear, Close, TypeOK
      <3>2. CASE m # n
        BY <1>2, <2>0, <2>3, <3>2 DEF WillHear, Announced, SyncIsDue, Close, TypeOK
      <3> QED BY <3>1, <3>2
    <2>4. CASE Deliver(n)
      <3>1. CASE m # n \/ SyncIsDue \/ watch[m] # "open"
        BY <1>2, <2>0, <2>4, <3>1 DEF WillHear, Announced, SyncIsDue, Deliver, TypeOK
      <3>2. CASE m = n /\ events[n] > 0
        <4>1. events'[n] > 0
          BY <2>4, <3>2, ReverseSyncAssumption DEF Deliver, Sent, TypeOK
        <4> QED BY <3>2, <4>1 DEF WillHear, Announced
      <3>3. CASE m = n /\ IsChange(Head(stream[n]))
        <4>1. events'[n] = Sent(events[n]) /\ events[n] \in 0..ChannelSize
          BY <2>4, <3>3 DEF Deliver, TypeOK
        <4>2. events'[n] > 0
          BY <4>1, ReverseSyncAssumption DEF Sent
        <4> QED BY <3>3, <4>2 DEF WillHear, Announced
      <3>4. ASSUME m = n, ~IsChange(Head(stream[n])),
                   NEW i \in DOMAIN stream[n], IsChange(stream[n][i])
            PROVE  WillHear(m)'
        <4>1. stream[n] \in Seq({"ADDED", "MODIFIED", "DELETED"}) /\ stream[n] # <<>>
          BY <2>4 DEF Deliver, TypeOK
        <4>2. i # 1 /\ i \in 1..Len(stream[n])
          BY <3>4, <4>1
        <4>3. stream'[n] = Tail(stream[n])
          BY <2>4 DEF Deliver, TypeOK
        <4>4. i - 1 \in DOMAIN Tail(stream[n]) /\ Tail(stream[n])[i - 1] = stream[n][i]
          BY <4>1, <4>2
        <4>5. i - 1 \in DOMAIN stream'[n] /\ IsChange(stream'[n][i - 1])
          BY <3>4, <4>3, <4>4
        <4> QED BY <3>4, <4>5 DEF WillHear, Announced, IsChange
      <3> QED BY <1>2, <3>1, <3>2, <3>3, <3>4 DEF WillHear, Announced
    <2>5. CASE Forward(n)
      BY <2>5 DEF WillHear, SyncIsDue, Forward
    <2> QED BY <2>1, <2>2, <2>3, <2>4, <2>5 DEF Watching
  <1> QED BY <1>1, <1>2, HearingSuffices

LEMMA DebounceStep ==
  ASSUME IInv, Debounce
  PROVE  FoundOrHeard' /\ NothingForgotten'
  <1>1. UNCHANGED <<cluster, files, at, result, unlisted>>
    BY DEF Debounce
  <1>2. SyncIsDue'
    BY DEF Debounce, InLoop, SyncIsDue
  <1> QED BY <1>1, <1>2, HearingSuffices DEF IInv, WillHear

LEMMA ChangeStep ==
  ASSUME IInv, NEW o \in Objects, NEW c \in Values, Change(o, c)
  PROVE  FoundOrHeard' /\ NothingForgotten'
  <1> USE DEF IInv
  \* Of the object that changed the loop will hear.
  <1>1. ASSUME o \in ConfigMaps, cluster'[o] # None
        PROVE  WillHear(NamespaceOf[o])'
    <2> DEFINE n == NamespaceOf[o]
    <2>0. n \in Namespaces
      BY ReverseSyncAssumption
    <2>1. CASE watch[n] # "open"
      BY <2>1 DEF WillHear, Change
    <2>2. CASE watch[n] = "open"
      <3>1. stream'[n] = Append(stream[n], EventType(cluster[o], c))
        BY <1>1, <2>0, <2>2 DEF Change, TypeOK
      <3>2. stream[n] \in Seq({"ADDED", "MODIFIED", "DELETED"})
        BY <2>0 DEF TypeOK
      <3>3. cluster'[o] = c
        BY DEF Change, TypeOK
      <3>4. IsChange(EventType(cluster[o], c))
        BY <1>1, <3>3 DEF IsChange, EventType
      <3>5. Len(stream[n]) + 1 \in DOMAIN stream'[n] /\ stream'[n][Len(stream[n]) + 1] = EventType(cluster[o], c)
        BY <3>1, <3>2, <3>4 DEF IsChange
      <3> QED BY <3>4, <3>5 DEF WillHear, Announced, IsChange
    <2> QED BY <2>1, <2>2
  \* Of the others it hears as before.
  <1>2. ASSUME NEW n \in Namespaces, WillHear(n)
        PROVE  WillHear(n)'
    <2>1. CASE \E i \in DOMAIN stream[n] : IsChange(stream[n][i])
      <3>1. PICK i \in DOMAIN stream[n] : IsChange(stream[n][i])
        BY <2>1
      <3>2. stream[n] \in Seq({"ADDED", "MODIFIED", "DELETED"})
        BY DEF TypeOK
      <3>3. \/ stream'[n] = stream[n]
            \/ stream'[n] = Append(stream[n], EventType(cluster[o], c))
        BY ReverseSyncAssumption DEF Change, TypeOK
      <3>4. EventType(cluster[o], c) \in {"ADDED", "MODIFIED", "DELETED"}
        BY DEF EventType
      <3>5. i \in DOMAIN stream'[n] /\ stream'[n][i] = stream[n][i]
        <4>1. CASE stream'[n] = stream[n]
          BY <3>1, <4>1
        <4>2. CASE stream'[n] = Append(stream[n], EventType(cluster[o], c))
          <5>1. i \in 1..Len(stream[n]) /\ Len(stream[n]) \in Nat
            BY <3>1, <3>2
          <5>2. DOMAIN stream'[n] = 1..(Len(stream[n]) + 1) /\ stream'[n][i] = stream[n][i]
            BY <3>2, <3>4, <4>2, <5>1
          <5> QED BY <5>1, <5>2
        <4> QED BY <3>3, <4>1, <4>2
      <3> QED BY <3>1, <3>5 DEF WillHear, Announced, IsChange
    <2>2. CASE events[n] > 0 \/ SyncIsDue \/ watch[n] # "open"
      BY <2>2 DEF WillHear, Announced, SyncIsDue, Change
    <2> QED BY <1>2, <2>1, <2>2 DEF WillHear, Announced
  <1>3. \A p \in ConfigMaps : NamespaceOf[p] \in Namespaces
    BY ReverseSyncAssumption
  <1>4. \A p \in Objects \ {o} : cluster'[p] = cluster[p]
    BY DEF Change, TypeOK
  <1>5. FoundOrHeard'
    BY <1>1, <1>2, <1>3, <1>4, ReverseSyncAssumption DEF FoundOrHeard, Change
  <1>6. ASSUME NEW p \in ConfigMaps, Behind(p)', ~WillHear(NamespaceOf[p])'
        PROVE  \/ \E s \in Syncs : WillWrite(s, p)'
               \/ \E s \in Syncs : (at[s].pc # "idle" /\ NamespaceOf[p] \in at[s].failed)'
               \/ Excused(NamespaceOf[p])'
    <2>1. p # o /\ p \in Objects
      BY <1>1, <1>6, ReverseSyncAssumption DEF Behind
    <2>2. Behind(p) /\ ~WillHear(NamespaceOf[p]) /\ cluster'[p] = cluster[p]
      BY <1>2, <1>3, <1>4, <1>6, <2>1 DEF Behind, Change
    <2>3. \/ \E s \in Syncs : WillWrite(s, p)
          \/ \E s \in Syncs : at[s].pc # "idle" /\ NamespaceOf[p] \in at[s].failed
          \/ Excused(NamespaceOf[p])
      BY <2>2 DEF NothingForgotten, WillHear
    <2>4. UNCHANGED <<at, watch, result, unlisted>>
      BY DEF Change
    <2>5. ASSUME NEW s \in Syncs, WillWrite(s, p)
          PROVE  WillWrite(s, p)'
      BY <2>2, <2>4, <2>5 DEF WillWrite, Unanswered, Pending
    <2>6. CASE \E s \in Syncs : WillWrite(s, p)
      BY <2>5, <2>6
    <2>7. CASE \E s \in Syncs : at[s].pc # "idle" /\ NamespaceOf[p] \in at[s].failed
      BY <2>4, <2>7
    <2>8. CASE Excused(NamespaceOf[p])
      BY <2>4, <2>8 DEF Excused
    <2> QED BY <2>3, <2>6, <2>7, <2>8
  <1> QED BY <1>5, <1>6 DEF NothingForgotten, WillHear, Excused

-----------------------------------------------------------------------------

\* A sync that starts will read everything.
LEMMA FetchStep ==
  ASSUME IInv, ~Overlap, NEW s \in Syncs, Fetch(s)
  PROVE  SyncsInv' /\ FoundOrHeard' /\ NothingForgotten'
  <1> USE DEF IInv
  <1>1. PICK lost \in SUBSET Objects : at' = [at EXCEPT ![s] = WithFiles(lost)]
    BY DEF Fetch
  <1>2. \A t \in Syncs : at[t].pc = "idle"
    BY DEF Fetch, MayStart
  <1>3. \A t \in Syncs \ {s} : at'[t] = at[t]
    BY <1>1 DEF TypeOK
  <1>4. at'[s] = WithFiles(lost)
    BY <1>1 DEF TypeOK
  <1>5. /\ at'[s].pc = "list"
        /\ at'[s].read = [o \in Objects |-> IF o \in lost THEN None ELSE files[o]]
        /\ at'[s].listed = {} /\ at'[s].failed = {}
    BY <1>4 DEF WithFiles, Idle
  <1>6. UNCHANGED <<cluster, files, watching>>
    BY DEF Fetch
  <1>7. SyncsInv'
    <2>1. Serial'
      BY <1>2, <1>3, <1>5 DEF Serial
    <2>2. IdleHoldsNothing'
      BY <1>3, <1>5 DEF IdleHoldsNothing, Idle, Nothing
    <2>3. CommitsAfterLists'
      BY <1>2, <1>3, <1>5 DEF CommitsAfterLists
    <2>4. ReadIsCurrent'
      BY <1>2, <1>3, <1>5, <1>6 DEF ReadIsCurrent
    <2> QED BY <2>1, <2>2, <2>3, <2>4 DEF SyncsInv
  <1>8. FoundOrHeard'
    <2>1. \A t \in Syncs : at'[t].listed = {}
      BY <1>2, <1>3, <1>5 DEF IdleHoldsNothing, Idle
    <2> QED BY <2>1 DEF FoundOrHeard
  <1>9. ASSUME NEW o \in ConfigMaps
        PROVE  WillWrite(s, o)'
    <2>1. NamespaceOf[o] \in Namespaces
      BY ReverseSyncAssumption
    <2> QED BY <1>5, <2>1 DEF WillWrite, Unanswered
  <1> QED BY <1>7, <1>8, <1>9 DEF NothingForgotten

\* What a sync that has listed every namespace knows of an object whose file
\* is behind.
LEMMA AllListed ==
  ASSUME IInv, NEW s \in Syncs, at[s].pc # "idle", Unanswered(s) = {},
         NEW o \in ConfigMaps, Behind(o), NamespaceOf[o] \notin at[s].failed
  PROVE  WillHear(NamespaceOf[o]) \/ (o \in Pending(s) /\ at[s].found[o] = cluster[o])
  <1> USE DEF IInv
  <1>1. NamespaceOf[o] \in at[s].listed /\ o \in Objects
    BY ReverseSyncAssumption DEF Unanswered
  <1>2. CASE at[s].found[o] # cluster[o]
    BY <1>1, <1>2 DEF FoundOrHeard, Behind
  <1>3. CASE at[s].found[o] = cluster[o]
    <2>1. at[s].read[o] \in {None, files[o]}
      BY <1>1 DEF ReadIsCurrent
    <2> QED BY <1>1, <1>3, <2>1 DEF Pending, Behind
  <1> QED BY <1>2, <1>3

\* The end of a sync, whatever became of its commit.
LEMMA FinishStep ==
  ASSUME IInv, NEW s \in Syncs, at[s].pc # "idle", Unanswered(s) = {},
         NEW verdict, Finish(s, verdict), UNCHANGED <<cluster, watching>>,
         \/ verdict = "failed"
         \/ files' = files /\ Pending(s) = {}
         \/ files' = Written(s)
  PROVE  SyncsInv' /\ FoundOrHeard' /\ NothingForgotten'
  <1> USE DEF IInv
  <1>1. at'[s] = Idle /\ \A t \in Syncs \ {s} : at'[t] = at[t] /\ at[t].pc = "idle"
    BY DEF Finish, TypeOK, Serial
  <1>2. \A t \in Syncs : at'[t] = Idle
    BY <1>1 DEF IdleHoldsNothing
  <1>3. SyncsInv'
    <2>1. Idle.pc = "idle"
      BY DEF Idle
    <2>2. Serial' /\ IdleHoldsNothing' /\ CommitsAfterLists' /\ ReadIsCurrent'
      BY <1>2, <2>1 DEF Serial, IdleHoldsNothing, CommitsAfterLists, ReadIsCurrent
    <2> QED BY <2>2 DEF SyncsInv
  <1>4. FoundOrHeard'
    BY <1>2 DEF FoundOrHeard, Idle
  <1>5. ASSUME NEW n \in Namespaces, WillHear(n)
        PROVE  WillHear(n)'
    <2>1. SyncIsDue => SyncIsDue'
      BY <1>1 DEF SyncIsDue, Finish, watching, Syncs
    <2> QED BY <1>5, <2>1 DEF WillHear, Announced, watching
  <1>6. ASSUME NEW o \in ConfigMaps, Behind(o)'
        PROVE  WillHear(NamespaceOf[o])' \/ Excused(NamespaceOf[o])'
    <2>0. NamespaceOf[o] \in Namespaces /\ o \in Objects
      BY ReverseSyncAssumption
    <2>1. CASE verdict = "failed"
      BY <2>1 DEF Finish, Excused
    <2>2. CASE NamespaceOf[o] \in at[s].failed
      BY <2>2 DEF Finish, Excused
    <2>3. CASE NamespaceOf[o] \notin at[s].failed /\ files' = files /\ Pending(s) = {}
      <3>1. Behind(o)
        BY <1>6, <2>3 DEF Behind
      <3> QED BY <1>5, <2>0, <2>3, <3>1, AllListed
    <2>4. CASE NamespaceOf[o] \notin at[s].failed /\ files' = Written(s)
      <3>1. CASE o \in Pending(s)
        <4>1. files'[o] = at[s].found[o]
          BY <2>0, <2>4, <3>1 DEF Written
        <4>2. NamespaceOf[o] \in at[s].listed
          BY <2>0, <2>4 DEF Unanswered
        <4>3. cluster[o] # None /\ at[s].found[o] # cluster[o]
          BY <1>6, <4>1 DEF Behind
        <4> QED BY <1>5, <2>0, <4>2, <4>3 DEF FoundOrHeard
      <3>2. CASE o \notin Pending(s)
        <4>1. Behind(o)
          BY <1>6, <2>0, <2>4, <3>2 DEF Written, Behind
        <4> QED BY <1>5, <2>0, <2>4, <3>2, <4>1, AllListed
      <3> QED BY <3>1, <3>2
    <2> QED BY <2>1, <2>2, <2>3, <2>4
  <1> QED BY <1>3, <1>4, <1>6 DEF NothingForgotten, WillHear, Excused

LEMMA ListStep ==
  ASSUME IInv, NEW s \in Syncs, NEW n \in Namespaces, List(s, n)
  PROVE  SyncsInv' /\ FoundOrHeard' /\ NothingForgotten'
  <1> USE DEF IInv
  <1>1. /\ at'[s] = WithList(s, n)
        /\ \A t \in Syncs \ {s} : at'[t] = at[t] /\ at[t].pc = "idle"
    BY DEF List, TypeOK, Serial
  <1>2. /\ at[s].pc = "list" /\ at'[s].pc = "list"
        /\ at'[s].read = at[s].read /\ at'[s].failed = at[s].failed
        /\ at'[s].listed = at[s].listed \cup {n}
        /\ at'[s].found = [o \in Objects |-> IF NamespaceOf[o] = n THEN cluster[o] ELSE at[s].found[o]]
    BY <1>1 DEF List, WithList, TypeOK, SyncState
  <1>3. UNCHANGED <<cluster, files, watching, timer, result, unlisted>>
    BY DEF List
  <1>4. SyncsInv'
    <2>1. Serial' /\ IdleHoldsNothing' /\ CommitsAfterLists'
      BY <1>1, <1>2 DEF Serial, IdleHoldsNothing, CommitsAfterLists
    <2>2. ReadIsCurrent'
      BY <1>1, <1>2, <1>3 DEF ReadIsCurrent
    <2> QED BY <2>1, <2>2 DEF SyncsInv
  <1>5. ASSUME NEW m \in Namespaces
        PROVE  WillHear(m) => WillHear(m)'
    <2>1. SyncIsDue => SyncIsDue'
      BY <1>1, <1>2, <1>3 DEF SyncIsDue, Syncs, watching
    <2> QED BY <1>3, <2>1 DEF WillHear, Announced, watching
  <1>6. \A o \in ConfigMaps : NamespaceOf[o] \in Namespaces /\ o \in Objects
    BY ReverseSyncAssumption
  <1>7. FoundOrHeard'
    <2> SUFFICES ASSUME NEW t \in Syncs, NEW o \in ConfigMaps,
                        NamespaceOf[o] \in at'[t].listed, cluster[o] # None, at'[t].found[o] # cluster[o]
                 PROVE  WillHear(NamespaceOf[o])'
      BY <1>3 DEF FoundOrHeard
    <2>1. CASE t # s
      BY <1>1, <1>5, <1>6, <2>1 DEF FoundOrHeard
    <2>2. CASE t = s
      <3>1. NamespaceOf[o] # n /\ at'[s].found[o] = at[s].found[o]
        BY <1>2, <1>6, <2>2
      <3> QED BY <1>2, <1>5, <1>6, <2>2, <3>1 DEF FoundOrHeard
    <2> QED BY <2>1, <2>2
  <1>8. NothingForgotten'
    <2> SUFFICES ASSUME NEW o \in ConfigMaps, Behind(o)'
                 PROVE  \/ WillHear(NamespaceOf[o])'
                        \/ \E t \in Syncs : WillWrite(t, o)'
                        \/ \E t \in Syncs : (at[t].pc # "idle" /\ NamespaceOf[o] \in at[t].failed)'
                        \/ Excused(NamespaceOf[o])'
      BY DEF NothingForgotten, WillHear, Excused
    <2>1. Behind(o)
      BY <1>3 DEF Behind
    <2>2. CASE NamespaceOf[o] = n
      <3>1. at[s].read[o] \in {None, files[o]}
        BY <1>2, <1>6 DEF ReadIsCurrent
      <3>2. at'[s].found[o] = cluster[o] /\ at'[s].read[o] # cluster[o] /\ cluster[o] # None
        BY <1>2, <1>6, <2>1, <2>2, <3>1 DEF Behind
      <3>3. WillWrite(s, o)'
        BY <1>2, <1>3, <1>6, <3>2 DEF WillWrite, Pending
      <3> QED BY <3>3
    <2>3. CASE NamespaceOf[o] # n
      <3>1. at'[s].found[o] = at[s].found[o]
        BY <1>2, <1>6, <2>3
      <3>2. WillWrite(s, o) => WillWrite(s, o)'
        BY <1>2, <1>3, <1>6, <2>3, <3>1 DEF WillWrite, Pending, Unanswered
      <3>3. \A t \in Syncs : WillWrite(t, o) => t = s
        BY <1>1 DEF WillWrite
      <3>4. Excused(NamespaceOf[o]) => Excused(NamespaceOf[o])'
        BY <1>3 DEF Excused, watching
      <3>5. \A t \in Syncs : at[t].pc # "idle" /\ NamespaceOf[o] \in at[t].failed
              => at'[t].pc # "idle" /\ NamespaceOf[o] \in at'[t].failed
        BY <1>1, <1>2
      <3>6. \/ WillHear(NamespaceOf[o])
            \/ \E t \in Syncs : WillWrite(t, o)
            \/ \E t \in Syncs : at[t].pc # "idle" /\ NamespaceOf[o] \in at[t].failed
            \/ Excused(NamespaceOf[o])
        BY <2>1 DEF NothingForgotten, WillHear
      <3> QED BY <1>5, <1>6, <3>2, <3>3, <3>4, <3>5, <3>6
    <2> QED BY <2>2, <2>3
  <1> QED BY <1>4, <1>7, <1>8

\* A List that fails, and the probes of CommitFiles: nothing that the sync
\* knows of the cluster or of the files changes.
LEMMA OtherStep ==
  ASSUME IInv, NEW s \in Syncs, at[s].pc = "list",
         \/ \E n \in Unanswered(s) : at' = [at EXCEPT ![s] = WithFailure(s, n)]
         \/ /\ Unanswered(s) = {}
            /\ \E lost \in SUBSET Pending(s) : at' = [at EXCEPT ![s] = WithProbes(s, lost)],
         UNCHANGED <<cluster, files, watching, timer, result, unlisted>>
  PROVE  SyncsInv' /\ FoundOrHeard' /\ NothingForgotten'
  <1> USE DEF IInv
  <1>1. /\ \A t \in Syncs \ {s} : at'[t] = at[t] /\ at[t].pc = "idle"
        /\ at'[s].pc # "idle"
        /\ at'[s].read = at[s].read /\ at'[s].found = at[s].found /\ at'[s].listed = at[s].listed
        /\ at[s].failed \subseteq at'[s].failed
    <2>1. at[s] \in SyncState
      BY DEF TypeOK
    <2>2. \A n : /\ WithFailure(s, n).pc = at[s].pc
                 /\ WithFailure(s, n).read = at[s].read /\ WithFailure(s, n).found = at[s].found
                 /\ WithFailure(s, n).listed = at[s].listed
                 /\ WithFailure(s, n).failed = at[s].failed \cup {n}
      BY <2>1 DEF WithFailure, SyncState
    <2>3. \A lost : /\ WithProbes(s, lost).pc = "commit"
                    /\ WithProbes(s, lost).read = at[s].read /\ WithProbes(s, lost).found = at[s].found
                    /\ WithProbes(s, lost).listed = at[s].listed
                    /\ WithProbes(s, lost).failed = at[s].failed
      BY <2>1 DEF WithProbes, SyncState
    <2> QED BY <2>2, <2>3 DEF TypeOK, Serial
  <1>2. \/ /\ at'[s].pc = "list"
           /\ \A m \in Unanswered(s) : m \in Unanswered(s)' \/ m \in at'[s].failed
        \/ Unanswered(s) = {} /\ Unanswered(s)' = {}
    <2>1. CASE \E n \in Unanswered(s) : at' = [at EXCEPT ![s] = WithFailure(s, n)]
      BY <2>1 DEF TypeOK, SyncState, WithFailure, Unanswered
    <2>2. CASE /\ Unanswered(s) = {}
               /\ \E lost \in SUBSET Pending(s) : at' = [at EXCEPT ![s] = WithProbes(s, lost)]
      BY <1>1, <2>2 DEF Unanswered
    <2> QED BY <2>1, <2>2
  <1>3. SyncsInv'
    <2>1. Serial' /\ IdleHoldsNothing'
      BY <1>1 DEF Serial, IdleHoldsNothing
    <2>2. CommitsAfterLists'
      BY <1>1, <1>2 DEF CommitsAfterLists
    <2>3. ReadIsCurrent'
      BY <1>1 DEF ReadIsCurrent
    <2> QED BY <2>1, <2>2, <2>3 DEF SyncsInv
  <1>4. ASSUME NEW m \in Namespaces
        PROVE  WillHear(m) => WillHear(m)'
    <2>1. SyncIsDue => SyncIsDue'
      BY <1>1 DEF SyncIsDue, Syncs, watching
    <2> QED BY <2>1 DEF WillHear, Announced, watching
  <1>5. \A o \in ConfigMaps : NamespaceOf[o] \in Namespaces /\ o \in Objects
    BY ReverseSyncAssumption
  <1>6. FoundOrHeard'
    BY <1>1, <1>4, <1>5 DEF FoundOrHeard
  <1>7. NothingForgotten'
    <2> SUFFICES ASSUME NEW o \in ConfigMaps, Behind(o)'
                 PROVE  \/ WillHear(NamespaceOf[o])'
                        \/ WillWrite(s, o)'
                        \/ \E t \in Syncs : (at[t].pc # "idle" /\ NamespaceOf[o] \in at[t].failed)'
                        \/ Excused(NamespaceOf[o])'
      BY DEF NothingForgotten, WillHear, Excused
    <2>1. Behind(o)
      BY DEF Behind
    <2>2. CASE WillHear(NamespaceOf[o])
      BY <1>4, <1>5, <2>2
    <2>3. CASE \E t \in Syncs : WillWrite(t, o)
      <3>1. WillWrite(s, o)
        BY <1>1, <2>3 DEF WillWrite
      <3>2. CASE o \in Pending(s) /\ at[s].found[o] = cluster[o]
        BY <1>1, <3>2 DEF WillWrite, Pending
      <3>3. CASE NamespaceOf[o] \in Unanswered(s)
        BY <1>1, <1>2, <3>3 DEF WillWrite
      <3> QED BY <3>1, <3>2, <3>3 DEF WillWrite
    <2>4. CASE \E t \in Syncs : at[t].pc # "idle" /\ NamespaceOf[o] \in at[t].failed
      BY <1>1, <2>4
    <2>5. CASE Excused(NamespaceOf[o])
      BY <2>5 DEF Excused, watching
    <2> QED BY <2>1, <2>2, <2>3, <2>4, <2>5 DEF NothingForgotten, WillHear
  <1> QED BY <1>3, <1>6, <1>7

LEMMA ProceedStep ==
  ASSUME IInv, NEW s \in Syncs, Proceed(s)
  PROVE  SyncsInv' /\ FoundOrHeard' /\ NothingForgotten'
  <1>1. ASSUME NEW n \in Namespaces, List(s, n)
        PROVE  SyncsInv' /\ FoundOrHeard' /\ NothingForgotten'
    BY <1>1, ListStep
  <1>2. ASSUME NEW n \in Namespaces, ListFails(s, n)
        PROVE  SyncsInv' /\ FoundOrHeard' /\ NothingForgotten'
    BY <1>2, OtherStep DEF ListFails
  <1>3. CASE NothingPending(s)
    BY <1>3, FinishStep DEF NothingPending
  <1>4. CASE Probe(s)
    BY <1>4, OtherStep DEF Probe
  <1>5. at[s].pc = "commit" => Unanswered(s) = {}
    BY DEF IInv, CommitsAfterLists
  <1>6. CASE Commit(s)
    BY <1>5, <1>6, FinishStep DEF Commit
  <1>7. CASE CommitRefused(s)
    BY <1>5, <1>7, FinishStep DEF CommitRefused
  <1>8. CASE CommitFails(s)
    BY <1>5, <1>8, FinishStep DEF CommitFails
  <1> QED BY <1>1, <1>2, <1>3, <1>4, <1>6, <1>7, <1>8 DEF Proceed

-----------------------------------------------------------------------------

LEMMA InvariantInit == Init => IInv
  <1> SUFFICES ASSUME Init
               PROVE  IInv
    OBVIOUS
  <1>1. TypeOK
    BY TypeInit
  <1>2. \A s \in Syncs : at[s] = Idle /\ at[s].pc = "idle" /\ at[s].listed = {}
    BY DEF Init, Idle
  <1>3. Serial /\ IdleHoldsNothing /\ CommitsAfterLists /\ ReadIsCurrent /\ FoundOrHeard
    BY <1>2 DEF Serial, IdleHoldsNothing, CommitsAfterLists, ReadIsCurrent, FoundOrHeard
  <1>4. NothingForgotten
    BY ReverseSyncAssumption DEF Init, NothingForgotten, Excused
  <1> QED BY <1>1, <1>3, <1>4 DEF IInv

LEMMA InvariantStep == ~Overlap /\ IInv /\ [Next]_vars => IInv'
  <1> SUFFICES ASSUME ~Overlap, IInv, [Next]_vars
               PROVE  IInv'
    OBVIOUS
  <1>1. TypeOK'
    BY TypeStep DEF IInv
  <1>2. SyncsInv
    BY DEF IInv, SyncsInv
  <1>3. SyncsInv' /\ FoundOrHeard' /\ NothingForgotten'
    <2>1. ASSUME NEW o \in Objects, NEW c \in Values, Change(o, c)
          PROVE  SyncsInv' /\ FoundOrHeard' /\ NothingForgotten'
      <3>1. UNCHANGED <<at, files>>
        BY <2>1 DEF Change
      <3> QED BY <1>2, <2>1, <3>1, SyncsUnchanged, ChangeStep
    <2>2. ASSUME NEW n \in Namespaces, Watching(n) \/ Close(n)
          PROVE  SyncsInv' /\ FoundOrHeard' /\ NothingForgotten'
      <3>1. UNCHANGED <<at, files>>
        BY <2>2 DEF Watching, Close, Open, OpenFails, Deliver, Forward
      <3> QED BY <1>2, <2>2, <3>1, SyncsUnchanged, WatchStep
    <2>3. CASE Debounce
      <3>1. UNCHANGED <<at, files>>
        BY <2>3 DEF Debounce
      <3> QED BY <1>2, <2>3, <3>1, SyncsUnchanged, DebounceStep
    <2>4. CASE Fire
      BY <2>4, FetchStep DEF Fire, Syncs
    <2>5. CASE TriggerSync
      BY <2>5, FetchStep DEF TriggerSync, Syncs
    <2>6. ASSUME NEW s \in Syncs, Proceed(s)
          PROVE  SyncsInv' /\ FoundOrHeard' /\ NothingForgotten'
      BY <2>6, ProceedStep
    <2>7. CASE UNCHANGED vars
      <3>1. SyncsInv'
        BY <1>2, <2>7, SyncsUnchanged DEF vars
      <3>2. \A n : WillHear(n) => WillHear(n)'
        BY <2>7 DEF vars, watching, WillHear, Announced, SyncIsDue
      <3>3. UNCHANGED <<cluster, files, at, result, unlisted>>
        BY <2>7 DEF vars
      <3> QED BY <3>1, <3>2, <3>3, HearingSuffices DEF IInv
    <2> QED BY <2>1, <2>2, <2>3, <2>4, <2>5, <2>6, <2>7 DEF Next
  <1> QED BY <1>1, <1>3 DEF IInv, SyncsInv

\* No change of a watched object is forgotten, however many objects,
\* namespaces and events there are, however small the channels, and whatever
\* fails: as long as syncs do not overlap.
THEOREM ReverseForgetsNothing ==
  ASSUME ~Overlap
  PROVE  Spec => []NothingForgotten
  <1>1. IInv /\ [Next]_vars => IInv'
    BY InvariantStep
  <1>2. IInv => NothingForgotten
    BY DEF IInv
  <1> QED BY <1>1, <1>2, InvariantInit, PTL DEF Spec
=============================================================================
