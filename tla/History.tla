------------------------------ MODULE History ------------------------------
(***************************************************************************)
(* The history of synchronizations (src/internal/history/history.go).     *)
(*                                                                         *)
(* Every finished sync saves one record (finishTask in task_manager.go);   *)
(* the records live in memory and the whole list is written to one file,   *)
(* in place, by every save.  A record is represented by its timestamp,     *)
(* which is unique; the other fields are data, and a filter is the         *)
(* interval of timestamps it asks for.  A write fails before it touches    *)
(* the file ("open") or after it has truncated it ("cut"); a file that was *)
(* cut does not parse, so that nothing is loaded from it: it counts as     *)
(* empty.                                                                  *)
(***************************************************************************)
EXTENDS Integers, FiniteSets

CONSTANTS
    Procs,        \* the syncs that may be finishing at the same time
    Window,       \* how long a record is kept (30 days in the code)
    CleanEvery,   \* a save cleans up when it makes the list this long (100)
    PageSize,     \* records on one page of a listing (50 unless asked)
    Filters,      \* the intervals [since, until] that readers ask for
    MaxClock,     \* bound on the clock
    MaxFaults,    \* bound on failing writes
    MaxRestarts   \* bound on restarts of the server

ASSUME HistoryAssumption ==
    /\ Window \in Nat /\ CleanEvery \in Nat \ {0} /\ PageSize \in Nat \ {0}
    /\ Filters \subseteq [since: Nat, until: Nat]
    /\ MaxClock \in Nat \ {0} /\ MaxFaults \in Nat /\ MaxRestarts \in Nat

VARIABLES
    now,        \* the clock
    records,    \* fileStore.records
    pending,    \* fileStore.pending: records whose write failed
    disk,       \* what loadRecords would find in history.json
    at,         \* at[p]: the timestamp of the record that sync p is about to save
    stopping,   \* StopAll has returned and the store was flushed
    walk,       \* a client that reads a listing page by page
    expired,    \* history: the records a cleanup has dropped
    unsaved,    \* history: the cleanup at the start cut the file
    faults, restarts

vars == <<now, records, pending, disk, at, stopping, walk, expired, unsaved, faults, restarts>>

None == 0
Outcomes == {"ok", "open", "cut"}
NoWalk == [page |-> None, filter |-> [since |-> 0, until |-> 0], due |-> {}, seen |-> {}, done |-> FALSE]

(* What the file holds after a write of S with outcome w. *)
Written(file, S, w) ==
    CASE w = "ok" -> S [] w = "open" -> file [] w = "cut" -> {}

Failures(w) == IF w = "ok" THEN 0 ELSE 1

(* cleanupLocked: what it keeps. *)
Kept(S) == {r \in S : r >= now - Window}

(* Query: the records a filter selects, and one page of them, newest first. *)
Match(S, f) == {r \in S : f.since <= r /\ r <= f.until}
(* MUTANT of Page: the oldest record first. *)
PageOldestFirst(S, k) ==
    {r \in S : LET before == Cardinality({q \in S : q < r})
               IN  (k - 1) * PageSize <= before /\ before < k * PageSize}
Page(S, k) ==
    {r \in S : LET before == Cardinality({q \in S : q > r})
               IN  (k - 1) * PageSize <= before /\ before < k * PageSize}

Init ==
    /\ now = 1
    /\ records = {} /\ pending = {} /\ disk = {}
    /\ at = [p \in Procs |-> None]
    /\ stopping = FALSE
    /\ walk = NoWalk
    /\ expired = {} /\ unsaved = FALSE
    /\ faults = 0 /\ restarts = 0

Tick ==
    /\ now < MaxClock
    /\ now' = now + 1
    /\ UNCHANGED <<records, pending, disk, at, stopping, walk, expired, unsaved, faults, restarts>>

(* finishTask: a sync is done and its record gets its timestamp. *)
Stamp(p) ==
    /\ at[p] = None
    /\ now < MaxClock
    /\ now' = now + 1
    /\ at' = [at EXCEPT ![p] = now]
    /\ UNCHANGED <<records, pending, disk, stopping, walk, expired, unsaved, faults, restarts>>

(* MUTANT of SaveResult: the failed record is not cached. *)
SaveResultForgets(p, kept, cleaned, w) ==
    /\ records' = kept
    /\ disk' = Written(cleaned, kept, w)
    /\ pending' = pending
    /\ unsaved' = (unsaved /\ w # "ok")

(* Save: append, clean up now and then (a write of its own, whose error is *)
(* dropped), write everything; a failure is remembered, not reported.      *)
SaveResult(p, kept, cleaned, w) ==
    /\ records' = kept
    /\ disk' = Written(cleaned, kept, w)
    /\ pending' = IF w = "ok" THEN pending ELSE pending \cup {at[p]}
    /\ unsaved' = (unsaved /\ w # "ok")

Save(p) == \E w1, w2 \in Outcomes :
    LET added   == records \cup {at[p]}
        kept    == IF Cardinality(added) % CleanEvery = 0 THEN Kept(added) ELSE added
        cleaned == IF kept = added THEN disk ELSE Written(disk, kept, w1)
    IN  /\ at[p] # None
        /\ (kept = added) => (w1 = "ok")
        /\ faults + Failures(w1) + Failures(w2) <= MaxFaults
        /\ faults' = faults + Failures(w1) + Failures(w2)
        /\ SaveResult(p, kept, cleaned, w2)
        /\ at' = [at EXCEPT ![p] = None]
        /\ expired' = expired \cup (added \ kept)
        /\ UNCHANGED <<now, stopping, walk, restarts>>

(* MUTANT of FlushResult: the cache is emptied before the write is tried. *)
FlushResultEmpties(w) ==
    /\ disk' = Written(disk, records, w)
    /\ pending' = {}
    /\ unsaved' = (unsaved /\ w # "ok")

(* main: after StopAll the store is flushed.  Syncs that were under way are *)
(* not waited for and may still save.                                       *)
FlushResult(w) ==
    /\ disk' = Written(disk, records, w)
    /\ pending' = IF w = "ok" THEN {} ELSE pending
    /\ unsaved' = (unsaved /\ w # "ok")

Flush == \E w \in Outcomes :
    /\ ~stopping
    /\ stopping' = TRUE
    /\ (pending = {}) => (w = "ok")
    /\ faults + Failures(w) <= MaxFaults
    /\ faults' = faults + Failures(w)
    /\ IF pending = {} THEN UNCHANGED <<pending, disk, unsaved>> ELSE FlushResult(w)
    /\ UNCHANGED <<now, records, at, walk, expired, restarts>>

(* What is left in the file when the process ends: a save or a flush that   *)
(* is cut short has truncated it.                                           *)
LeftBehind ==
    {disk} \cup (IF pending # {} \/ (\E p \in Procs : at[p] # None) THEN {{}} ELSE {})

(* MUTANT of Loaded: NewStore does not clean up. *)
LoadedAsIs(file) == file
(* NewStore: what is in memory after loadRecords and cleanup30Days. *)
Loaded(file) == Kept(file)

(* The process ends, gracefully or not, and starts again. *)
Restart == \E file \in LeftBehind, w \in Outcomes :
    LET kept == Loaded(file)
    IN  /\ restarts < MaxRestarts
        /\ restarts' = restarts + 1
        /\ (kept = file) => (w = "ok")
        /\ faults + Failures(w) <= MaxFaults
        /\ faults' = faults + Failures(w)
        /\ records' = kept
        /\ disk' = IF kept = file THEN file ELSE Written(file, kept, w)
        /\ unsaved' = (w = "cut")
        /\ pending' = {}
        /\ at' = [p \in Procs |-> None]
        /\ stopping' = FALSE
        /\ walk' = NoWalk
        /\ expired' = expired \cup (file \ kept)
        /\ UNCHANGED now

(* MUTANT of PageOf: the number is taken as it comes. *)
PageAsIs(page) == page
(* A page below 1 means the first. *)
PageOf(page) == IF page <= 0 THEN 1 ELSE page

(* A client begins to read a listing without naming a page. *)
StartWalk == \E f \in Filters :
    /\ walk = NoWalk
    /\ walk' = [page |-> PageOf(0), filter |-> f, due |-> Match(records, f), seen |-> {}, done |-> FALSE]
    /\ UNCHANGED <<now, records, pending, disk, at, stopping, expired, unsaved, faults, restarts>>

(* getHistory and Query: the next page, until the total is reached. *)
NextPage ==
    LET found == Match(records, walk.filter)
    IN  /\ walk # NoWalk /\ ~walk.done
        /\ walk' = [walk EXCEPT
             !.page = @ + 1,
             !.seen = @ \cup Page(found, walk.page),
             !.done = walk.page * PageSize >= Cardinality(found)]
        /\ UNCHANGED <<now, records, pending, disk, at, stopping, expired, unsaved, faults, restarts>>

Next ==
    \/ Tick
    \/ \E p \in Procs : Stamp(p) \/ Save(p)
    \/ Flush
    \/ Restart
    \/ StartWalk
    \/ NextPage

Spec == Init /\ [][Next]_vars

-----------------------------------------------------------------------------
(* The types of the variables: timestamps lie in the past. *)
TypeOK ==
    /\ now \in 1..MaxClock
    /\ records \subseteq 1..(now - 1) /\ disk \subseteq 1..(now - 1)
    /\ pending \subseteq 1..(now - 1) /\ expired \subseteq 1..(now - 1)
    /\ at \in [Procs -> 0..(now - 1)]
    /\ \/ walk = NoWalk
       \/ walk \in [page: Nat \ {0}, filter: Filters, due: SUBSET (1..(now - 1)),
                   seen: SUBSET (1..(now - 1)), done: BOOLEAN]
    /\ stopping \in BOOLEAN /\ unsaved \in BOOLEAN
    /\ faults \in 0..MaxFaults /\ restarts \in 0..MaxRestarts

(* When no record waits to be written, the file has every record: Flush,   *)
(* which does nothing when none waits, may be skipped, and a shutdown then *)
(* loses nothing.  The only exception is a start whose cleanup cut the     *)
(* file: cleanupLocked drops that error and remembers no record.           *)
UnsavedIsPending == pending = {} /\ ~unsaved => records \subseteq disk

(* A restart loses nothing but records that have expired, when no record's *)
(* write had failed and no save was under way.                             *)
RestartKeepsRecords ==
    [][restarts' # restarts /\ pending = {} /\ ~unsaved /\ (\A p \in Procs : at[p] = None)
         => Kept(records) \subseteq records']_vars

(* A record that a cleanup has dropped is never listed again, although the *)
(* write of the cleanup may fail and leave it in the file over a restart.  *)
ExpiredStaysGone == expired \cap records = {}

(* A client that reads page after page while syncs save new records, in an *)
(* order that is not the order of their timestamps, and cleanups drop old  *)
(* ones has seen every record that was there when it began and still is.   *)
PagesMissNothing == walk.done => walk.due \cap records \subseteq walk.seen
=============================================================================
