--------------------------- MODULE HistoryProofs ---------------------------
(***************************************************************************)
(* Proofs about History, for any number of syncs, any length of the window *)
(* and of the pages, and any number of failing writes and restarts.        *)
(***************************************************************************)
EXTENDS History, FiniteSetTheorems, TLAPS

\* A record that is about to be saved is new, and no two syncs save the same.
InFlightIsNew ==
  \A p \in Procs : at[p] # None =>
    /\ at[p] \notin records \cup expired \cup disk
    /\ \A q \in Procs : at[q] = at[p] => q = p

\* What a cleanup has dropped is too old to be kept by any later cleanup.
ExpiredIsOld == \A r \in expired : r < now - Window

\* How many records of the listing a client reads are newer than r.
Newer(r) == Cardinality({q \in Match(records, walk.filter) : q > r})

\* A client has seen every record that is on the pages it has read.
PagesReadAreSeen ==
  walk # NoWalk =>
    \A r \in walk.due \cap records :
      /\ r \in Match(records, walk.filter)
      /\ Newer(r) < (walk.page - 1) * PageSize => r \in walk.seen

\* What is still to be saved is not among the records a client waits for.
DueIsSaved == \A p \in Procs : at[p] # None => at[p] \notin walk.due

\* The inductive invariant.
IInv ==
  /\ TypeOK
  /\ UnsavedIsPending
  /\ InFlightIsNew /\ ExpiredIsOld /\ ExpiredStaysGone
  /\ DueIsSaved /\ PagesReadAreSeen /\ PagesMissNothing

-----------------------------------------------------------------------------
LEMMA KeptIsSubset ==
  ASSUME NEW S, NEW T, S \subseteq T
  PROVE  Kept(S) \subseteq T
  BY DEF Kept

LEMMA RecordsAreFinite ==
  ASSUME NEW n \in Int, NEW S \in SUBSET (1..n)
  PROVE  IsFiniteSet(S) /\ Cardinality(S) \in Nat
  <1>1. IsFiniteSet(1..n)
    BY FS_Interval
  <1> QED BY <1>1, FS_Subset, FS_CardinalityType

\* What a successful, a failing and a truncating write leave in the file.
LEMMA WrittenResult ==
  ASSUME NEW file, NEW S, NEW w \in Outcomes
  PROVE  /\ w = "ok" => Written(file, S, w) = S
         /\ w = "open" => Written(file, S, w) = file
         /\ w = "cut" => Written(file, S, w) = {}
  BY DEF Written, Outcomes

LEMMA WrittenSubset ==
  ASSUME NEW file, NEW S, NEW w \in Outcomes
  PROVE  Written(file, S, w) \subseteq file \cup S
  <1>1. Written(file, S, w) \in {file, S, {}}
    BY WrittenResult DEF Outcomes
  <1> QED BY <1>1

LEMMA NoWalkPage == NoWalk.page = 0 /\ NoWalk.done = FALSE
  BY DEF NoWalk, None

-----------------------------------------------------------------------------
(* Types. *)
LEMMA TypeInit == Init => TypeOK
  <1> SUFFICES ASSUME Init
               PROVE  TypeOK
    OBVIOUS
  <1>1. now \in 1..MaxClock /\ now - 1 = 0
    BY HistoryAssumption DEF Init
  <1>2. at \in [Procs -> 0..(now - 1)]
    BY <1>1 DEF Init, None
  <1>3. faults \in 0..MaxFaults /\ restarts \in 0..MaxRestarts
    BY HistoryAssumption DEF Init
  <1> QED BY <1>1, <1>2, <1>3 DEF Init, TypeOK

LEMMA WalkLater ==
  ASSUME TypeOK, now' \in {now, now + 1}, walk' = walk
  PROVE  \/ walk' = NoWalk
         \/ walk' \in [page: Nat \ {0}, filter: Filters, due: SUBSET (1..(now' - 1)),
                     seen: SUBSET (1..(now' - 1)), done: BOOLEAN]
  <1>1. 1..(now - 1) \subseteq 1..(now' - 1)
    <2>1. now \in Int
      BY HistoryAssumption DEF TypeOK
    <2>2. CASE now' = now
      BY <2>2
    <2>3. CASE now' = now + 1
      BY <2>1, <2>3
    <2> QED BY <2>2, <2>3
  <1> QED BY <1>1 DEF TypeOK

LEMMA ClockType ==
  ASSUME TypeOK, Tick \/ (\E p \in Procs : Stamp(p))
  PROVE  TypeOK'
  <1>1. /\ now \in 1..MaxClock /\ now' = now + 1 /\ now' \in 1..MaxClock
        /\ MaxClock \in Nat
    BY HistoryAssumption DEF TypeOK, Tick, Stamp
  <1>2. 1..(now - 1) \subseteq 1..(now' - 1) /\ 0..(now - 1) \subseteq 0..(now' - 1)
    BY <1>1
  <1>3. at' \in [Procs -> 0..(now' - 1)]
    <2>1. CASE Tick
      BY <1>2, <2>1 DEF TypeOK, Tick
    <2>2. ASSUME NEW p \in Procs, Stamp(p)
          PROVE  at' \in [Procs -> 0..(now' - 1)]
      <3>1. now \in 0..(now' - 1)
        BY <1>1
      <3> QED BY <1>2, <2>2, <3>1 DEF TypeOK, Stamp
    <2> QED BY <2>1, <2>2
  <1>4. walk' = walk
    BY DEF Tick, Stamp
  <1>5. /\ records' \subseteq 1..(now' - 1) /\ disk' \subseteq 1..(now' - 1)
        /\ pending' \subseteq 1..(now' - 1) /\ expired' \subseteq 1..(now' - 1)
    BY <1>2 DEF TypeOK, Tick, Stamp
  <1>6. /\ stopping' \in BOOLEAN /\ unsaved' \in BOOLEAN
        /\ faults' \in 0..MaxFaults /\ restarts' \in 0..MaxRestarts
    BY DEF TypeOK, Tick, Stamp
  <1> QED BY <1>1, <1>3, <1>4, <1>5, <1>6, WalkLater DEF TypeOK

LEMMA FaultsType ==
  ASSUME TypeOK, NEW w1 \in Outcomes, NEW w2 \in Outcomes
  PROVE  /\ faults + Failures(w1) + Failures(w2) <= MaxFaults =>
              faults + Failures(w1) + Failures(w2) \in 0..MaxFaults
         /\ faults + Failures(w1) <= MaxFaults => faults + Failures(w1) \in 0..MaxFaults
  <1>1. Failures(w1) \in Nat /\ Failures(w2) \in Nat
    BY DEF Failures
  <1> QED BY <1>1, HistoryAssumption DEF TypeOK

\* What one save does, with its local definitions spelled out.
SaveStep(p, added, kept, cleaned, w2) ==
  /\ added = records \cup {at[p]}
  /\ kept = added \/ kept = Kept(added)
  /\ cleaned \subseteq disk \cup kept
  /\ SaveResult(p, kept, cleaned, w2)
  /\ at' = [at EXCEPT ![p] = None]
  /\ expired' = expired \cup (added \ kept)
  /\ faults' \in 0..MaxFaults
  /\ UNCHANGED <<now, stopping, walk, restarts>>

LEMMA SaveAsStep ==
  ASSUME TypeOK, NEW p \in Procs, Save(p)
  PROVE  at[p] # None /\ \E w2, added, kept, cleaned : w2 \in Outcomes /\ SaveStep(p, added, kept, cleaned, w2)
  <1>1. PICK w1 \in Outcomes, w2 \in Outcomes :
          LET added   == records \cup {at[p]}
              kept    == IF Cardinality(added) % CleanEvery = 0 THEN Kept(added) ELSE added
              cleaned == IF kept = added THEN disk ELSE Written(disk, kept, w1)
          IN  /\ at[p] # None
              /\ faults + Failures(w1) + Failures(w2) <= MaxFaults
              /\ faults' = faults + Failures(w1) + Failures(w2)
              /\ SaveResult(p, kept, cleaned, w2)
              /\ at' = [at EXCEPT ![p] = None]
              /\ expired' = expired \cup (added \ kept)
              /\ UNCHANGED <<now, stopping, walk, restarts>>
    BY DEF Save
  <1> DEFINE added   == records \cup {at[p]}
             kept    == IF Cardinality(added) % CleanEvery = 0 THEN Kept(added) ELSE added
             cleaned == IF kept = added THEN disk ELSE Written(disk, kept, w1)
  <1>2. cleaned \subseteq disk \cup kept
    <2> HIDE DEF kept
    <2>1. Written(disk, kept, w1) \subseteq disk \cup kept
      BY WrittenSubset
    <2> QED BY <2>1
  <1>3. kept = added \/ kept = Kept(added)
    OBVIOUS
  <1>4. faults' \in 0..MaxFaults
    BY <1>1, FaultsType
  <1>5. SaveStep(p, added, kept, cleaned, w2)
    BY <1>1, <1>2, <1>3, <1>4 DEF SaveStep
  <1> QED BY <1>1, <1>5

LEMMA SaveType ==
  ASSUME TypeOK, NEW p \in Procs, Save(p)
  PROVE  TypeOK'
  <1>1. at[p] # None
    BY SaveAsStep
  <1>2. PICK w2, added, kept, cleaned : w2 \in Outcomes /\ SaveStep(p, added, kept, cleaned, w2)
    BY SaveAsStep
  <1>3. at[p] \in 1..(now - 1)
    BY <1>1 DEF TypeOK, None
  <1>4. added \subseteq 1..(now - 1) /\ kept \subseteq added
    BY <1>2, <1>3 DEF SaveStep, TypeOK, Kept
  <1>5. Written(cleaned, kept, w2) \subseteq 1..(now - 1)
    <2>1. cleaned \subseteq 1..(now - 1) /\ kept \subseteq 1..(now - 1)
      BY <1>2, <1>4 DEF SaveStep, TypeOK
    <2> QED BY <1>2, <2>1, WrittenSubset
  <1>6. at' \in [Procs -> 0..(now - 1)]
    BY <1>2, <1>3 DEF SaveStep, TypeOK, None
  <1>7. /\ records' \subseteq 1..(now - 1) /\ disk' \subseteq 1..(now - 1)
        /\ pending' \subseteq 1..(now - 1) /\ expired' \subseteq 1..(now - 1)
        /\ unsaved' \in BOOLEAN
    BY <1>2, <1>3, <1>4, <1>5 DEF SaveStep, SaveResult, TypeOK
  <1>8. UNCHANGED <<now, stopping, walk, restarts>> /\ faults' \in 0..MaxFaults
    BY <1>2 DEF SaveStep
  <1> QED BY <1>6, <1>7, <1>8 DEF TypeOK

LEMMA FlushType ==
  ASSUME TypeOK, Flush
  PROVE  TypeOK'
  <1>1. PICK w \in Outcomes :
          /\ faults + Failures(w) <= MaxFaults
          /\ faults' = faults + Failures(w)
          /\ IF pending = {} THEN UNCHANGED <<pending, disk, unsaved>> ELSE FlushResult(w)
    BY DEF Flush
  <1>2. Written(disk, records, w) \subseteq 1..(now - 1)
    <2>1. disk \subseteq 1..(now - 1) /\ records \subseteq 1..(now - 1)
      BY DEF TypeOK
    <2> QED BY <2>1, WrittenSubset
  <1>3. /\ disk' \subseteq 1..(now - 1) /\ pending' \subseteq 1..(now - 1)
        /\ unsaved' \in BOOLEAN
    BY <1>1, <1>2 DEF FlushResult, TypeOK
  <1>4. faults' \in 0..MaxFaults
    BY <1>1, FaultsType
  <1>5. stopping' = TRUE /\ UNCHANGED <<now, records, at, walk, expired, restarts>>
    BY DEF Flush
  <1> QED BY <1>3, <1>4, <1>5 DEF TypeOK

\* What a restart finds and keeps.
RestartStep(file, kept, w) ==
  /\ file \subseteq disk
  /\ kept = Kept(file)
  /\ records' = kept
  /\ disk' = IF kept = file THEN file ELSE Written(file, kept, w)
  /\ unsaved' = (w = "cut")
  /\ pending' = {}
  /\ at' = [p \in Procs |-> None]
  /\ stopping' = FALSE
  /\ walk' = NoWalk
  /\ expired' = expired \cup (file \ kept)
  /\ faults' \in 0..MaxFaults /\ restarts' \in 0..MaxRestarts
  /\ now' = now

LEMMA RestartAsStep ==
  ASSUME TypeOK, Restart
  PROVE  \E w, file, kept : w \in Outcomes /\ RestartStep(file, kept, w)
  <1>1. PICK file \in LeftBehind, w \in Outcomes :
          LET kept == Loaded(file)
          IN  /\ restarts < MaxRestarts
              /\ restarts' = restarts + 1
              /\ faults + Failures(w) <= MaxFaults
              /\ faults' = faults + Failures(w)
              /\ records' = kept
              /\ disk' = IF kept = file THEN file ELSE Written(file, kept, w)
              /\ unsaved' = (w = "cut")
              /\ pending' = {}
              /\ at' = [p \in Procs |-> None]
              /\ stopping' = FALSE
              /\ walk' = NoWalk
              /\ expired' = expired \cup (file \ kept)
              /\ UNCHANGED now
    BY DEF Restart
  <1>2. file \subseteq disk
    BY DEF LeftBehind
  <1>3. faults' \in 0..MaxFaults
    BY <1>1, FaultsType
  <1>4. restarts' \in 0..MaxRestarts
    BY <1>1, HistoryAssumption DEF TypeOK
  <1>5. RestartStep(file, Loaded(file), w)
    BY <1>1, <1>2, <1>3, <1>4 DEF RestartStep, Loaded
  <1> QED BY <1>5

LEMMA RestartType ==
  ASSUME TypeOK, Restart
  PROVE  TypeOK'
  <1>1. PICK w, file, kept : w \in Outcomes /\ RestartStep(file, kept, w)
    BY RestartAsStep
  <1>2. file \subseteq 1..(now - 1) /\ kept \subseteq file
    BY <1>1 DEF RestartStep, TypeOK, Kept
  <1>3. Written(file, kept, w) \subseteq 1..(now - 1)
    BY <1>1, <1>2, WrittenSubset
  <1>4. 0 \in 0..(now - 1)
    BY DEF TypeOK
  <1>5. /\ records' \subseteq 1..(now - 1) /\ disk' \subseteq 1..(now - 1)
        /\ pending' \subseteq 1..(now - 1) /\ expired' \subseteq 1..(now - 1)
        /\ at' \in [Procs -> 0..(now - 1)]
    BY <1>1, <1>2, <1>3, <1>4 DEF RestartStep, TypeOK, None
  <1>6. /\ walk' = NoWalk /\ stopping' \in BOOLEAN /\ unsaved' \in BOOLEAN
        /\ faults' \in 0..MaxFaults /\ restarts' \in 0..MaxRestarts /\ now' = now
    BY <1>1 DEF RestartStep
  <1> QED BY <1>5, <1>6 DEF TypeOK

(* A listing without a page begins with the first. *)
LEMMA FirstPageIsOne == PageOf(0) = 1
  BY DEF PageOf

LEMMA WalkType ==
  ASSUME TypeOK, StartWalk \/ NextPage
  PROVE  TypeOK'
  <1> DEFINE Walks == [page: Nat \ {0}, filter: Filters, due: SUBSET (1..(now - 1)),
                       seen: SUBSET (1..(now - 1)), done: BOOLEAN]
  <1>1. walk' \in Walks
    <2>1. CASE StartWalk
      <3>1. PICK f \in Filters :
              walk' = [page |-> 1, filter |-> f, due |-> Match(records, f), seen |-> {}, done |-> FALSE]
        BY <2>1, FirstPageIsOne DEF StartWalk
      <3>2. Match(records, f) \subseteq 1..(now - 1)
        BY DEF Match, TypeOK
      <3> QED BY <3>1, <3>2
    <2>2. CASE NextPage
      <3>1. walk \in Walks
        BY <2>2 DEF NextPage, TypeOK
      <3>2. Page(Match(records, walk.filter), walk.page) \subseteq 1..(now - 1)
        BY DEF Page, Match, TypeOK
      <3>3. walk' = [walk EXCEPT
              !.page = @ + 1,
              !.seen = @ \cup Page(Match(records, walk.filter), walk.page),
              !.done = walk.page * PageSize >= Cardinality(Match(records, walk.filter))]
        BY <2>2 DEF NextPage
      <3>4. walk.page + 1 \in Nat \ {0} /\ walk.seen \cup Page(Match(records, walk.filter), walk.page) \subseteq 1..(now - 1)
        BY <3>1, <3>2
      <3>5. (walk.page * PageSize >= Cardinality(Match(records, walk.filter))) \in BOOLEAN
        OBVIOUS
      <3> QED BY <3>1, <3>3, <3>4, <3>5
    <2> QED BY <2>1, <2>2
  <1>2. UNCHANGED <<now, records, pending, disk, at, stopping, expired, unsaved, faults, restarts>>
    BY DEF StartWalk, NextPage
  <1> QED BY <1>1, <1>2 DEF TypeOK

LEMMA TypeStep == TypeOK /\ [Next]_vars => TypeOK'
  <1> SUFFICES ASSUME TypeOK, [Next]_vars
               PROVE  TypeOK'
    OBVIOUS
  <1>1. CASE UNCHANGED vars
    BY <1>1 DEF TypeOK, vars
  <1> QED BY <1>1, ClockType, SaveType, FlushType, RestartType, WalkType DEF Next

\* Every variable keeps its type.
THEOREM TypesHold == Spec => []TypeOK
  BY TypeInit, TypeStep, PTL DEF Spec

-----------------------------------------------------------------------------
(* What is in memory and what is in the file. *)
LEMMA UnsavedStep == TypeOK /\ UnsavedIsPending /\ [Next]_vars => UnsavedIsPending'
  <1> SUFFICES ASSUME TypeOK, UnsavedIsPending, [Next]_vars
               PROVE  UnsavedIsPending'
    OBVIOUS
  <1>1. CASE Tick \/ (\E p \in Procs : Stamp(p)) \/ StartWalk \/ NextPage \/ UNCHANGED vars
    BY <1>1 DEF UnsavedIsPending, Tick, Stamp, StartWalk, NextPage, vars
  <1>2. ASSUME NEW p \in Procs, Save(p)
        PROVE  UnsavedIsPending'
    <2>1. PICK w2, added, kept, cleaned : w2 \in Outcomes /\ SaveStep(p, added, kept, cleaned, w2)
      BY <1>2, SaveAsStep
    <2>2. CASE w2 = "ok"
      BY <2>1, <2>2, WrittenResult DEF SaveStep, SaveResult, UnsavedIsPending
    <2>3. CASE w2 # "ok"
      BY <2>1, <2>3 DEF SaveStep, SaveResult, UnsavedIsPending
    <2> QED BY <2>2, <2>3
  <1>3. CASE Flush
    <2>1. PICK w \in Outcomes :
            IF pending = {} THEN UNCHANGED <<pending, disk, unsaved>> ELSE FlushResult(w)
      BY <1>3 DEF Flush
    <2>2. records' = records
      BY <1>3 DEF Flush
    <2>3. CASE pending = {}
      BY <2>1, <2>2, <2>3 DEF UnsavedIsPending
    <2>4. CASE pending # {} /\ w = "ok"
      BY <2>1, <2>2, <2>4, WrittenResult DEF FlushResult, UnsavedIsPending
    <2>5. CASE pending # {} /\ w # "ok"
      BY <2>1, <2>5 DEF FlushResult, UnsavedIsPending
    <2> QED BY <2>3, <2>4, <2>5
  <1>4. CASE Restart
    <2>1. PICK w, file, kept : w \in Outcomes /\ RestartStep(file, kept, w)
      BY <1>4, RestartAsStep
    <2>2. kept \subseteq file
      BY <2>1 DEF RestartStep, Kept
    <2>3. w # "cut" => kept \subseteq Written(file, kept, w)
      BY <2>1, <2>2, WrittenResult DEF Outcomes
    <2> QED BY <2>1, <2>2, <2>3 DEF RestartStep, UnsavedIsPending
  <1> QED BY <1>1, <1>2, <1>3, <1>4 DEF Next

-----------------------------------------------------------------------------
(* What has expired stays gone. *)
Expiry == InFlightIsNew /\ ExpiredIsOld /\ ExpiredStaysGone

LEMMA ExpiryOfClock ==
  ASSUME TypeOK, Expiry, Tick \/ (\E p \in Procs : Stamp(p))
  PROVE  Expiry'
  <1>1. now' = now + 1 /\ UNCHANGED <<records, disk, expired>>
    BY DEF Tick, Stamp
  <1>2. ExpiredIsOld'
    BY <1>1, HistoryAssumption DEF Expiry, ExpiredIsOld, TypeOK
  <1>3. InFlightIsNew'
    <2>1. CASE Tick
      BY <1>1, <2>1 DEF Tick, Expiry, InFlightIsNew
    <2>2. ASSUME NEW p \in Procs, Stamp(p)
          PROVE  InFlightIsNew'
      <3>1. /\ at' = [at EXCEPT ![p] = now]
            /\ now \notin records \cup expired \cup disk
            /\ \A q \in Procs : at[q] # now
        BY <2>2 DEF Stamp, TypeOK
      <3>2. \A q \in Procs : at'[q] = IF q = p THEN now ELSE at[q]
        BY <3>1 DEF TypeOK
      <3> QED BY <1>1, <3>1, <3>2 DEF Expiry, InFlightIsNew
    <2> QED BY <2>1, <2>2
  <1> QED BY <1>1, <1>2, <1>3 DEF Expiry, ExpiredStaysGone

LEMMA ExpiryOfSave ==
  ASSUME TypeOK, Expiry, NEW p \in Procs, Save(p)
  PROVE  Expiry'
  <1>1. at[p] # None
    BY SaveAsStep
  <1>2. PICK w2, added, kept, cleaned : w2 \in Outcomes /\ SaveStep(p, added, kept, cleaned, w2)
    BY SaveAsStep
  <1>3. /\ added = records \cup {at[p]} /\ kept \subseteq added /\ records' = kept
        /\ expired' = expired \cup (added \ kept) /\ now' = now
    BY <1>2 DEF SaveStep, SaveResult, Kept
  <1>4. disk' \subseteq disk \cup added
    <2>1. cleaned \subseteq disk \cup added /\ kept \subseteq disk \cup added
      BY <1>2, <1>3 DEF SaveStep
    <2>2. Written(cleaned, kept, w2) \subseteq disk \cup added
      BY <1>2, <2>1, WrittenSubset
    <2> QED BY <1>2, <2>2 DEF SaveStep, SaveResult
  <1>5. \A r \in added \ kept : r < now - Window
    <2>1. kept = added \/ kept = Kept(added)
      BY <1>2 DEF SaveStep
    <2>2. \A r \in added : r \in Int
      BY <1>3 DEF TypeOK
    <2> QED BY <2>1, <2>2, HistoryAssumption DEF Kept, TypeOK
  <1>6. ExpiredIsOld'
    BY <1>3, <1>5 DEF Expiry, ExpiredIsOld
  <1>7. ExpiredStaysGone'
    BY <1>1, <1>3 DEF Expiry, ExpiredStaysGone, InFlightIsNew
  <1>8. \A q \in Procs : at'[q] = IF q = p THEN None ELSE at[q]
    BY <1>2 DEF SaveStep, TypeOK
  <1>9. \A q \in Procs : at'[q] # None => at'[q] \notin added
    BY <1>1, <1>3, <1>8 DEF Expiry, InFlightIsNew
  <1>10. InFlightIsNew'
    BY <1>3, <1>4, <1>8, <1>9 DEF Expiry, InFlightIsNew
  <1> QED BY <1>6, <1>7, <1>10 DEF Expiry

LEMMA ExpiryOfRestart ==
  ASSUME TypeOK, Expiry, Restart
  PROVE  Expiry'
  <1>1. PICK w, file, kept : w \in Outcomes /\ RestartStep(file, kept, w)
    BY RestartAsStep
  <1>2. \A r \in file : r \in Int
    BY <1>1 DEF RestartStep, TypeOK
  <1>3. ExpiredIsOld'
    BY <1>1, <1>2, HistoryAssumption DEF RestartStep, Expiry, ExpiredIsOld, Kept, TypeOK
  <1>4. ExpiredStaysGone'
    <2>1. \A r \in kept : ~ (r < now - Window)
      BY <1>1, <1>2, HistoryAssumption DEF RestartStep, Kept, TypeOK
    <2> QED BY <1>1, <2>1 DEF RestartStep, Expiry, ExpiredIsOld, ExpiredStaysGone
  <1>5. InFlightIsNew'
    BY <1>1 DEF RestartStep, InFlightIsNew
  <1> QED BY <1>3, <1>4, <1>5 DEF Expiry

LEMMA ExpiryOfFlush ==
  ASSUME TypeOK, Expiry, Flush
  PROVE  Expiry'
  <1>1. UNCHANGED <<now, records, at, expired>>
    BY DEF Flush
  <1>2. disk' \subseteq disk \cup records
    <2>1. \A w \in Outcomes : Written(disk, records, w) \subseteq disk \cup records
      BY WrittenSubset
    <2> QED BY <2>1 DEF Flush, FlushResult
  <1>3. \A p \in Procs : at[p] # None => at[p] \notin disk'
    BY <1>2 DEF Expiry, InFlightIsNew
  <1> QED BY <1>1, <1>3 DEF Expiry, InFlightIsNew, ExpiredIsOld, ExpiredStaysGone

LEMMA ExpiryStep == TypeOK /\ Expiry /\ [Next]_vars => Expiry'
  <1> SUFFICES ASSUME TypeOK, Expiry, [Next]_vars
               PROVE  Expiry'
    OBVIOUS
  <1>1. CASE StartWalk \/ NextPage \/ UNCHANGED vars
    BY <1>1 DEF StartWalk, NextPage, vars, Expiry, InFlightIsNew, ExpiredIsOld, ExpiredStaysGone
  <1> QED BY <1>1, ExpiryOfClock, ExpiryOfSave, ExpiryOfFlush, ExpiryOfRestart DEF Next

-----------------------------------------------------------------------------
(* Reading page by page. *)
Paging == DueIsSaved /\ PagesReadAreSeen /\ PagesMissNothing

LEMMA NewerIsFinite ==
  ASSUME TypeOK, NEW f, NEW r
  PROVE  /\ IsFiniteSet(Match(records, f))
         /\ IsFiniteSet({q \in Match(records, f) : q > r})
         /\ Cardinality(Match(records, f)) \in Nat
         /\ Cardinality({q \in Match(records, f) : q > r}) \in Nat
  <1>1. now - 1 \in Int
    BY HistoryAssumption DEF TypeOK
  <1>2. Match(records, f) \in SUBSET (1..(now - 1)) /\ {q \in Match(records, f) : q > r} \in SUBSET (1..(now - 1))
    BY DEF TypeOK, Match
  <1> QED BY <1>1, <1>2, RecordsAreFinite

\* A record of the listing has fewer newer ones than the listing is long.
LEMMA NewerThanOne ==
  ASSUME TypeOK, NEW f, NEW r \in Match(records, f)
  PROVE  Cardinality({q \in Match(records, f) : q > r}) < Cardinality(Match(records, f))
  <1> DEFINE S == Match(records, f)
             T == {q \in Match(records, f) : q > r}
  <1>1. IsFiniteSet(S) /\ Cardinality(S) \in Nat /\ Cardinality(T) \in Nat
    BY NewerIsFinite
  <1>2. T \in SUBSET S
    OBVIOUS
  <1>3. r \in S /\ r \notin T
    <2>1. r \in Int
      BY DEF TypeOK, Match
    <2> QED BY <2>1
  <1>4. T # S
    BY <1>3
  <1> HIDE DEF S, T
  <1>5. Cardinality(T) <= Cardinality(S) /\ Cardinality(T) # Cardinality(S)
    BY <1>1, <1>2, <1>4, FS_Subset
  <1> QED BY <1>1, <1>5 DEF S, T

\* A save never brings a record that stays to an earlier page: what it
\* appends adds to the newer ones, and what it drops is older.
LEMMA SaveKeepsNewer ==
  ASSUME TypeOK, TypeOK', NEW f, NEW added, NEW r,
         added \subseteq 1..(now - 1), records \subseteq added,
         records' = added \/ records' = Kept(added),
         r \in records, r \in records'
  PROVE  Cardinality({q \in Match(records, f) : q > r}) <= Cardinality({q \in Match(records', f) : q > r})
  <1> DEFINE T == {q \in Match(records, f) : q > r}
             U == {q \in Match(records', f) : q > r}
  <1>1. T \in SUBSET U
    <2> SUFFICES ASSUME NEW q \in records, q > r
                 PROVE  q \in records'
      BY DEF Match
    <2>1. q \in added /\ q \in Int /\ r \in Int /\ now \in Int
      BY HistoryAssumption DEF TypeOK
    <2>2. CASE records' = added
      BY <2>1, <2>2
    <2>3. CASE records' = Kept(added)
      BY <2>1, <2>3, HistoryAssumption DEF Kept
    <2> QED BY <2>2, <2>3
  <1>2. IsFiniteSet(U)
    <2>1. now' - 1 \in Int
      BY HistoryAssumption DEF TypeOK
    <2>2. U \in SUBSET (1..(now' - 1))
      BY DEF TypeOK, Match
    <2> QED BY <2>1, <2>2, RecordsAreFinite
  <1> HIDE DEF T, U
  <1>3. Cardinality(T) <= Cardinality(U)
    BY <1>1, <1>2, FS_Subset
  <1> QED BY <1>3 DEF T, U

LEMMA PagingOfSave ==
  ASSUME TypeOK, TypeOK', Paging, NEW p \in Procs, Save(p)
  PROVE  Paging'
  <1>1. at[p] # None
    BY SaveAsStep
  <1>2. PICK w2, added, kept, cleaned : w2 \in Outcomes /\ SaveStep(p, added, kept, cleaned, w2)
    BY SaveAsStep
  <1>3. /\ added = records \cup {at[p]} /\ walk' = walk /\ now' = now
        /\ records' = added \/ records' = Kept(added)
    BY <1>2 DEF SaveStep, SaveResult
  <1>4. added \subseteq 1..(now - 1)
    <2>1. at[p] \in 1..(now - 1)
      BY <1>1 DEF TypeOK, None
    <2> QED BY <1>3, <2>1 DEF TypeOK
  <1>5. DueIsSaved'
    <2>1. \A q \in Procs : at'[q] = IF q = p THEN None ELSE at[q]
      BY <1>2 DEF SaveStep, TypeOK
    <2> QED BY <1>3, <2>1 DEF Paging, DueIsSaved
  <1>6. walk.due \cap records' \subseteq records
    BY <1>1, <1>3 DEF Paging, DueIsSaved, Kept
  <1>7. PagesMissNothing'
    BY <1>3, <1>6 DEF Paging, PagesMissNothing
  <1>8. ASSUME walk # NoWalk, NEW r \in walk.due \cap records'
        PROVE  /\ r \in Match(records', walk.filter)
               /\ Cardinality({q \in Match(records', walk.filter) : q > r}) < (walk.page - 1) * PageSize
                    => r \in walk.seen
    <2>1. r \in walk.due \cap records
      BY <1>6, <1>8
    <2>2. r \in Match(records, walk.filter)
      BY <1>8, <2>1 DEF Paging, PagesReadAreSeen
    <2>3. r \in Match(records', walk.filter)
      BY <1>8, <2>2 DEF Match
    <2>4. Newer(r) <= Cardinality({q \in Match(records', walk.filter) : q > r})
      BY <1>3, <1>4, <1>8, <2>1, SaveKeepsNewer DEF Newer
    <2>5. /\ Newer(r) \in Int
          /\ Cardinality({q \in Match(records', walk.filter) : q > r}) \in Int
      <3>1. Newer(r) \in Nat
        BY NewerIsFinite DEF Newer
      <3>2. now' - 1 \in Int
        BY HistoryAssumption DEF TypeOK
      <3>3. {q \in Match(records', walk.filter) : q > r} \in SUBSET (1..(now' - 1))
        BY DEF TypeOK, Match
      <3>4. Cardinality({q \in Match(records', walk.filter) : q > r}) \in Nat
        BY <3>2, <3>3, RecordsAreFinite
      <3> QED BY <3>1, <3>4
    <2>6. walk.page \in Int /\ (walk.page - 1) * PageSize \in Int
      BY <1>8, HistoryAssumption DEF TypeOK
    <2>7. Newer(r) < (walk.page - 1) * PageSize => r \in walk.seen
      BY <1>8, <2>1 DEF Paging, PagesReadAreSeen
    <2> HIDE DEF Newer
    <2> QED BY <2>3, <2>4, <2>5, <2>6, <2>7
  <1>9. PagesReadAreSeen'
    BY <1>3, <1>8 DEF PagesReadAreSeen, Newer
  <1> QED BY <1>5, <1>7, <1>9 DEF Paging

LEMMA PagingOfNextPage ==
  ASSUME TypeOK, Paging, NextPage
  PROVE  Paging'
  <1> DEFINE found == Match(records, walk.filter)
  <1>1. /\ walk # NoWalk
        /\ walk' = [walk EXCEPT
             !.page = @ + 1,
             !.seen = @ \cup Page(found, walk.page),
             !.done = walk.page * PageSize >= Cardinality(found)]
        /\ UNCHANGED <<records, at>>
    BY DEF NextPage
  <1>2. walk \in [page: Nat \ {0}, filter: Filters, due: SUBSET (1..(now - 1)),
                 seen: SUBSET (1..(now - 1)), done: BOOLEAN]
    BY <1>1 DEF TypeOK
  <1>3. /\ walk'.page = walk.page + 1 /\ walk'.filter = walk.filter /\ walk'.due = walk.due
        /\ walk'.seen = walk.seen \cup Page(found, walk.page)
        /\ walk'.done = (walk.page * PageSize >= Cardinality(found))
    BY <1>1, <1>2
  <1>4. \A r \in walk.due \cap records :
          /\ r \in found
          /\ Newer(r) < (walk.page - 1) * PageSize => r \in walk.seen
    BY <1>1 DEF Paging, PagesReadAreSeen
  <1>5. ASSUME NEW r \in walk.due \cap records, Newer(r) < walk.page * PageSize
        PROVE  r \in walk'.seen
    <2>1. Newer(r) \in Int /\ (walk.page - 1) * PageSize \in Int
      <3>1. Newer(r) \in Nat
        BY NewerIsFinite DEF Newer
      <3>2. (walk.page - 1) * PageSize \in Int
        BY <1>2, HistoryAssumption
      <3> QED BY <3>1, <3>2
    <2>2. CASE Newer(r) < (walk.page - 1) * PageSize
      BY <1>3, <1>4, <2>2
    <2>3. CASE (walk.page - 1) * PageSize <= Newer(r)
      <3>1. r \in Page(found, walk.page)
        BY <1>4, <1>5, <2>3 DEF Page, Newer
      <3> QED BY <1>3, <3>1
    <2> HIDE DEF Newer
    <2> QED BY <2>1, <2>2, <2>3
  <1>6. DueIsSaved'
    BY <1>1, <1>3 DEF Paging, DueIsSaved
  <1>7. PagesReadAreSeen'
    <2>1. (walk'.page - 1) * PageSize = walk.page * PageSize
      <3>1. walk'.page - 1 = walk.page
        BY <1>2, <1>3
      <3> QED BY <3>1
    <2> SUFFICES ASSUME NEW r \in walk.due \cap records
                 PROVE  /\ r \in found
                        /\ Newer(r) < walk.page * PageSize => r \in walk'.seen
      BY <1>1, <1>3, <2>1 DEF PagesReadAreSeen, Newer
    <2> QED BY <1>4, <1>5
  <1>8. PagesMissNothing'
    <2> SUFFICES ASSUME walk.page * PageSize >= Cardinality(found), NEW r \in walk.due \cap records
                 PROVE  r \in walk'.seen
      BY <1>1, <1>3 DEF PagesMissNothing
    <2>1. r \in found
      BY <1>4
    <2>2. Newer(r) < Cardinality(found)
      BY <2>1, NewerThanOne DEF Newer
    <2>3. Newer(r) \in Int /\ Cardinality(found) \in Int /\ walk.page * PageSize \in Int
      <3>1. Newer(r) \in Nat /\ Cardinality(found) \in Nat
        BY NewerIsFinite DEF Newer
      <3>2. walk.page * PageSize \in Int
        BY <1>2, HistoryAssumption
      <3> QED BY <3>1, <3>2
    <2>4. Newer(r) < walk.page * PageSize
      <3> HIDE DEF Newer, found
      <3> QED BY <2>2, <2>3
    <2> QED BY <1>5, <2>4
  <1> QED BY <1>6, <1>7, <1>8 DEF Paging

LEMMA PagingOfStart ==
  ASSUME TypeOK, Expiry, Paging, StartWalk
  PROVE  Paging'
  <1>1. PICK f \in Filters :
          walk' = [page |-> 1, filter |-> f, due |-> Match(records, f), seen |-> {}, done |-> FALSE]
    BY FirstPageIsOne DEF StartWalk
  <1>2. UNCHANGED <<records, at>>
    BY DEF StartWalk
  <1>3. DueIsSaved'
    BY <1>1, <1>2 DEF DueIsSaved, Match, Expiry, InFlightIsNew
  <1>4. PagesMissNothing'
    BY <1>1 DEF PagesMissNothing
  <1>5. PagesReadAreSeen'
    <2>1. (walk'.page - 1) * PageSize = 0
      BY <1>1, HistoryAssumption
    <2>2. \A r : Cardinality({q \in Match(records, f) : q > r}) \in Nat
      BY NewerIsFinite
    <2>3. \A r : ~ (Cardinality({q \in Match(records, f) : q > r}) < 0)
      BY <2>2
    <2> QED BY <1>1, <1>2, <2>1, <2>3 DEF PagesReadAreSeen, Newer
  <1> QED BY <1>3, <1>4, <1>5 DEF Paging

LEMMA PagingStep == TypeOK /\ Expiry /\ Paging /\ [Next]_vars => Paging'
  <1> SUFFICES ASSUME TypeOK, Expiry, Paging, [Next]_vars
               PROVE  Paging'
    OBVIOUS
  <1>1. CASE Tick \/ Flush \/ UNCHANGED vars
    <2>1. UNCHANGED <<records, at, walk>>
      BY <1>1 DEF Tick, Flush, vars
    <2> QED BY <2>1 DEF Paging, DueIsSaved, PagesReadAreSeen, PagesMissNothing, Newer
  <1>2. ASSUME NEW p \in Procs, Stamp(p)
        PROVE  Paging'
    <2>1. UNCHANGED <<records, walk>> /\ at' = [at EXCEPT ![p] = now]
      BY <1>2 DEF Stamp
    <2>2. now \notin walk.due
      <3>1. walk.due \subseteq 1..(now - 1)
        BY DEF TypeOK, NoWalk
      <3>2. now \in Int
        BY HistoryAssumption DEF TypeOK
      <3> QED BY <3>1, <3>2
    <2>3. DueIsSaved'
      BY <2>1, <2>2 DEF TypeOK, Paging, DueIsSaved
    <2> QED BY <2>1, <2>3 DEF Paging, PagesReadAreSeen, PagesMissNothing, Newer
  <1>3. ASSUME NEW p \in Procs, Save(p)
        PROVE  Paging'
    <2>1. TypeOK'
      BY TypeStep
    <2> QED BY <1>3, <2>1, PagingOfSave
  <1>4. CASE Restart
    <2>1. walk' = NoWalk
      BY <1>4 DEF Restart
    <2> QED BY <2>1 DEF Paging, DueIsSaved, PagesReadAreSeen, PagesMissNothing, NoWalk
  <1> QED BY <1>1, <1>2, <1>3, <1>4, PagingOfStart, PagingOfNextPage DEF Next

-----------------------------------------------------------------------------
LEMMA InvariantInit == Init => IInv
  <1> SUFFICES ASSUME Init
               PROVE  IInv
    OBVIOUS
  <1>1. UnsavedIsPending /\ InFlightIsNew /\ ExpiredIsOld /\ ExpiredStaysGone
    BY DEF Init, UnsavedIsPending, InFlightIsNew, ExpiredIsOld, ExpiredStaysGone
  <1>2. DueIsSaved /\ PagesReadAreSeen /\ PagesMissNothing
    BY DEF Init, DueIsSaved, PagesReadAreSeen, PagesMissNothing, NoWalk
  <1> QED BY <1>1, <1>2, TypeInit DEF IInv

LEMMA InvariantStep == IInv /\ [Next]_vars => IInv'
  BY TypeStep, UnsavedStep, ExpiryStep, PagingStep DEF IInv, Expiry, Paging

LEMMA InvariantHolds == Spec => []IInv
  BY InvariantInit, InvariantStep, PTL DEF Spec

\* When nothing waits to be written, the file has every record, so that a
\* flush that does nothing loses nothing: whatever writes fail, at any length
\* of the list.
THEOREM NothingUnsavedIsForgotten == Spec => []UnsavedIsPending
  BY InvariantHolds, PTL DEF IInv

\* A restart without failed writes and saves under way loses no record that
\* has not expired.
THEOREM RestartsKeepRecords == Spec => RestartKeepsRecords
  <1>1. IInv /\ [Next]_vars =>
          [restarts' # restarts /\ pending = {} /\ ~unsaved /\ (\A p \in Procs : at[p] = None)
             => Kept(records) \subseteq records']_vars
    <2> SUFFICES ASSUME IInv, Next, restarts' # restarts, pending = {}, ~unsaved,
                        \A p \in Procs : at[p] = None
                 PROVE  Kept(records) \subseteq records'
      OBVIOUS
    <2>1. restarts \in Int
      BY HistoryAssumption DEF IInv, TypeOK
    <2>2. Restart
      <3>1. \A p \in Procs : ~Save(p)
        BY DEF Save
      <3> QED BY <3>1 DEF Next, Tick, Stamp, Flush, StartWalk, NextPage
    <2>3. LeftBehind = {disk}
      BY DEF LeftBehind
    <2>4. records' = Kept(disk)
      BY <2>2, <2>3 DEF Restart, Loaded
    <2> QED BY <2>4 DEF IInv, UnsavedIsPending, Kept
  <1> QED BY <1>1, InvariantHolds, PTL DEF Spec, RestartKeepsRecords

\* A record that a cleanup dropped never comes back, although the cleanup's
\* write may fail and the file keep the record over a restart.
THEOREM ExpiredRecordsStayGone == Spec => []ExpiredStaysGone
  BY InvariantHolds, PTL DEF IInv

\* A client that reads page by page misses no record that was there when it
\* began and still is, whatever is saved and dropped meanwhile, for any page
\* size.
THEOREM ReadersMissNothing == Spec => []PagesMissNothing
  BY InvariantHolds, PTL DEF IInv
=============================================================================
