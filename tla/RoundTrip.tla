----------------------------- MODULE RoundTrip -----------------------------
(***************************************************************************)
(* One resource that is kept both as a file in GitLab and as an object of  *)
(* a cluster, between a forward task (file to cluster) and a reverse task  *)
(* (cluster to file) of internal/engine/generic_syncer.go, which decide    *)
(* with the comparison of Cleaner whether there is anything to do.         *)
(*                                                                         *)
(* The API server is external.  It fills in defaults, and it applies a     *)
(* configuration by ownership of fields (server-side apply): a field that  *)
(* the sync applied earlier and no longer sends is removed, unless others  *)
(* own it too; a field that only others have set stays.                    *)
(*                                                                         *)
(* A sync is one step here: ForwardSync and ReverseSync model what happens *)
(* between the steps of one.                                               *)
(***************************************************************************)
EXTENDS Cleaner

CONSTANTS
  None,      \* no file, no object
  Broken,    \* a file that does not parse
  Drafts,    \* the objects that a file or an object is created with
  MaxEdits   \* bound on what users change

ASSUME RoundTripAssumption ==
  /\ None \notin Objects /\ Broken \notin Objects /\ None # Broken
  /\ Drafts \subseteq Objects
  /\ MaxEdits \in Nat

VARIABLES
  file,     \* the file on the branch
  live,     \* the object in the cluster
  mine,     \* the fields that the sync owns in the object
  theirs,   \* the fields that other managers own in the object
  settled,  \* history: exported or found equal, and no compared field edited since
  edits     \* how often users have changed something

vars == <<file, live, mine, theirs, settled, edits>>

----------------------------------------------------------------------------
(* The API server. *)

(* The defaults; rollingUpdate has one beside the default type only. *)
Filled(o, f) ==
  CASE f \in Known \cup Unknown \cup Ignored \cup {Type} -> Default
    [] f \in Blank -> Empty
    [] f = Rolling /\ (Unset(o[Type]) \/ o[Type] = Default) -> Default
    [] OTHER -> Absent

Materialise(o) ==
  [f \in Fields |-> IF Unset(o[f]) THEN Filled(o, f) ELSE o[f]]

HasDefaults(o) == \A f \in Fields \ Hidden : Unset(o[f]) => o[f] = Filled(o, f)

(* What is not RollingUpdate admits no rollingUpdate. *)
Valid(o) == o[Type] = Other => o[Rolling] = Absent

----------------------------------------------------------------------------
(* Apply of internal/k8s/dynamic/client.go: it sends the file as it was    *)
(* read, less what the server assigns.                                     *)

(* MUTANT of Sent: Apply removes nothing from the file. *)
SentAll(o) == {f \in Fields : ~Unset(o[f])}
Sent(o) == {f \in Fields \ (Runtime \cup Assigned) : ~Unset(o[f])}

(* MUTANT of Merged: nothing is ever removed. *)
MergedOver(base, o) == [f \in Fields |-> IF f \in Sent(o) THEN o[f] ELSE base[f]]
Merged(base, o) ==
  [f \in Fields |-> CASE f \in Sent(o) -> o[f]
                      [] f \notin Sent(o) /\ f \in mine \ theirs -> Absent
                      [] OTHER -> base[f]]

Applied(o) ==
  Materialise(IF live = None THEN Without(o, Runtime \cup Assigned) ELSE Merged(live, o))

Init ==
  /\ \/ file \in Drafts /\ live = None /\ theirs = {}
     \/ /\ file = None
        /\ \E o \in Drafts : /\ live = Materialise(o)
                             /\ Valid(live)
                             /\ theirs = {f \in Fields : ~Unset(o[f])}
  /\ mine = {}
  /\ settled = FALSE
  /\ edits = 0

(* The filter of Sync and the comparison of PreviewSync. *)
Differs(o) == live = None \/ ~Same(live, o)

(* Sync.  A file that does not parse, or whose application the server      *)
(* refuses, is reported and changes nothing.                               *)
Forward ==
  /\ file \notin {None, Broken}
  /\ IF Differs(file)
       THEN /\ Valid(Applied(file))
            /\ live' = Applied(file)
            /\ mine' = Sent(file)
            /\ theirs' = {f \in theirs : live'[f] = live[f]}
            /\ UNCHANGED settled
       ELSE settled' = TRUE /\ UNCHANGED <<live, mine, theirs>>
  /\ UNCHANGED <<file, edits>>

(* What ReverseSync leaves in the file. *)
Exported == IF file \notin {None, Broken} /\ Same(file, live) THEN file ELSE Clean(live)

Reverse ==
  /\ live # None
  /\ file' = Exported
  /\ settled' = TRUE
  /\ UNCHANGED <<live, mine, theirs, edits>>

----------------------------------------------------------------------------
(* Everybody else. *)

(* A user commits a new version of the file. *)
AuthorEdits(f, v) ==
  /\ file \notin {None, Broken} /\ edits < MaxEdits
  /\ file[f] # v
  /\ file' = [file EXCEPT ![f] = v]
  /\ settled' = (settled /\ f \in Hidden)
  /\ edits' = edits + 1
  /\ UNCHANGED <<live, mine, theirs>>

(* A user adds the file, breaks it, repairs it or removes it. *)
AuthorReplaces(o) ==
  /\ edits < MaxEdits
  /\ file # o
  /\ file' = o
  /\ settled' = FALSE
  /\ edits' = edits + 1
  /\ UNCHANGED <<live, mine, theirs>>

(* Somebody edits the object, and owns the field; what is not              *)
(* RollingUpdate must come without a rollingUpdate.                        *)
Overwritten(f, v) ==
  [g \in Fields |-> CASE g = f -> v
                      [] g = Rolling /\ f = Type /\ v = Other -> Absent
                      [] OTHER -> live[g]]

LiveEdits(f, v) ==
  LET new == Materialise(Overwritten(f, v))
      changed == {g \in Fields : new[g] # live[g]}
  IN  /\ live # None /\ edits < MaxEdits
      /\ Valid(new) /\ changed # {}
      /\ live' = new
      /\ mine' = mine \ changed
      /\ theirs' = (theirs \ changed) \cup IF Unset(v) THEN {} ELSE {f}
      /\ settled' = (settled /\ f \in Hidden)
      /\ edits' = edits + 1
      /\ UNCHANGED file

LiveDelete ==
  /\ live # None /\ edits < MaxEdits
  /\ live' = None
  /\ mine' = {} /\ theirs' = {}
  /\ settled' = FALSE
  /\ edits' = edits + 1
  /\ UNCHANGED file

(* The server and its controllers: status, generation, addresses. *)
Controller(f) ==
  /\ live # None /\ live[f] # Other
  /\ live' = [live EXCEPT ![f] = Other]
  /\ UNCHANGED <<file, mine, theirs, settled, edits>>

Next ==
  \/ Forward \/ Reverse
  \/ \E f \in Fields, v \in Values : AuthorEdits(f, v) \/ LiveEdits(f, v)
  \/ \E o \in Drafts \cup {None, Broken} : AuthorReplaces(o)
  \/ LiveDelete
  \/ \E f \in Runtime \cup Assigned : Controller(f)

Spec == Init /\ [][Next]_vars

----------------------------------------------------------------------------
(* The file and the object are well formed, the object has its defaults,   *)
(* only an object has owners, and the sync owns nothing the server assigns.*)
TypeOK ==
  /\ file \in Objects \cup {None, Broken}
  /\ live \in Objects \cup {None}
  /\ mine \subseteq Fields \ (Runtime \cup Assigned) /\ theirs \subseteq Fields
  /\ settled \in BOOLEAN
  /\ edits \in 0..MaxEdits
  /\ live = None => mine = {} /\ theirs = {}
  /\ live # None => Valid(live) /\ HasDefaults(live)

(* A resource that a sync skips needs no sync: when the comparison finds   *)
(* no difference, the object has in every field but the dropped ones the   *)
(* value that it would get from the file.  This is what the reverse sync's *)
(* skip and the forward sync's filter of unchanged resources rest on: what *)
(* the cleaner takes away must be what the server puts back.               *)
SkipMissesNothing ==
  file \notin {None, Broken} /\ live # None /\ Same(file, live) =>
    \A f \in Fields \ Hidden : Materialise(file)[f] = live[f]

(* Round-trip stability (cleaner.go:12-15): once a resource was exported,  *)
(* or found equal, neither direction finds a difference before a user      *)
(* changes a field that is compared, whatever controllers write into the   *)
(* object and however often the two tasks run.                             *)
ExportSettles ==
  settled => file \notin {None, Broken} /\ live # None /\ Same(file, live)

(* A field that differs between the file and the object that it was just   *)
(* applied to has one of four causes: others own it, and it is not in the  *)
(* file; it is a default that the cleaner does not know; the file has a    *)
(* rollingUpdate without its type; or the type stays beside a              *)
(* rollingUpdate of others.  Where there is a cause, every later forward   *)
(* sync applies the file again.                                            *)
Cause(f) ==
  \/ f \in theirs' /\ Unset(file[f])
  \/ f \in Unknown /\ Unset(file[f])
  \/ f \in {Type, Rolling} /\ Unset(file[Type]) /\ ~Unset(file[Rolling])
  \/ f = Type /\ Rolling \in theirs' /\ Unset(file[Rolling])

ApplySettles ==
  [][Forward => \A f \in Fields : Compared(file)[f] # Compared(live')[f] => Cause(f)]_vars
=============================================================================
