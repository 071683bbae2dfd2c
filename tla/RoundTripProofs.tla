-------------------------- MODULE RoundTripProofs --------------------------
(***************************************************************************)
(* Proofs about RoundTrip, for any set of fields of every class.           *)
(*                                                                         *)
(* First what Clean and the comparison do to one field, then the types,    *)
(* and from them the three properties.                                     *)
(***************************************************************************)
EXTENDS RoundTrip, TLAPS

Visible == Kept \cup Known \cup Unknown \cup Blank

USE CleanerAssumption, RoundTripAssumption

-----------------------------------------------------------------------------
(* The comparison, field by field.                                         *)

Plain(v) == IF v = Empty THEN Absent ELSE v

LEMMA FieldClasses ==
  /\ Fields = Visible \cup Hidden \cup {Type, Rolling}
  /\ Visible \cap Hidden = {} /\ {Type, Rolling} \cap (Visible \cup Hidden) = {}
  /\ Type \in Fields /\ Rolling \in Fields /\ Type # Rolling
  /\ Hidden = Runtime \cup DroppedByKind
BY DEF Fields, Visible, Hidden, DroppedByKind

(* An object keeps its domain under Without. *)
LEMMA WithoutType ==
  ASSUME NEW o \in Objects, NEW S
  PROVE  /\ Without(o, S) \in Objects
         /\ \A f \in Fields : Without(o, S)[f] = IF f \in S THEN Absent ELSE o[f]
BY DEF Without, Objects, Values

LEMMA CleanType == ASSUME NEW o \in Objects PROVE Clean(o) \in Objects
BY WithoutType DEF Clean

LEMMA ComparedType == ASSUME NEW o \in Objects PROVE Compared(o) \in Objects
BY CleanType DEF Compared, Objects, Values

LEMMA ComparedHidden ==
  ASSUME NEW o \in Objects, NEW f \in Hidden
  PROVE  Compared(o)[f] = Absent
<1>1. f \in Fields /\ f \in Runtime \cup DroppedByKind
  BY FieldClasses
<1>2. Clean(o)[f] = Absent
  BY <1>1, WithoutType DEF Clean
<1> QED BY <1>1, <1>2 DEF Compared

LEMMA ComparedVisible ==
  ASSUME NEW o \in Objects, NEW f \in Visible
  PROVE  Compared(o)[f] = IF f \in Known /\ o[f] = Default THEN Absent ELSE Plain(o[f])
<1>1. f \in Fields /\ f \notin Runtime \cup DroppedByKind /\ f \notin {Type, Rolling}
  BY FieldClasses
<1>2. f \notin DroppedStrategy(o)
  BY <1>1 DEF DroppedStrategy
<1>3. Clean(o)[f] = IF f \in DroppedDefaults(o) THEN Absent ELSE o[f]
  BY <1>1, <1>2, WithoutType DEF Clean
<1>4. f \in Known => f \notin Blank
  OBVIOUS
<1>5. f \in DroppedDefaults(o) <=> (f \in Known /\ o[f] = Default) \/ (f \in Blank /\ o[f] = Empty)
  BY DEF DroppedDefaults
<1> QED BY <1>1, <1>3, <1>4, <1>5 DEF Compared, Plain

LEMMA ComparedStrategy ==
  ASSUME NEW o \in Objects, NEW f \in {Type, Rolling}
  PROVE  Compared(o)[f] = IF o[Type] = Default /\ o[Rolling] # Other THEN Absent ELSE Plain(o[f])
<1>1. f \in Fields /\ f \notin Runtime \cup DroppedByKind /\ f \notin DroppedDefaults(o)
  BY FieldClasses DEF DroppedDefaults, Visible
<1>2. Clean(o)[f] = IF f \in DroppedStrategy(o) THEN Absent ELSE o[f]
  BY <1>1, WithoutType DEF Clean
<1> QED BY <1>1, <1>2 DEF Compared, Plain, DroppedStrategy

(* Two objects that agree where the cleaner looks are the same. *)
LEMMA AgreeingAreSame ==
  ASSUME NEW a \in Objects, NEW b \in Objects, \A f \in Fields \ Hidden : a[f] = b[f]
  PROVE  Compared(a) = Compared(b)
<1>1. ASSUME NEW f \in Fields PROVE Compared(a)[f] = Compared(b)[f]
  <2>1. CASE f \in Hidden
    BY <2>1, ComparedHidden
  <2>2. CASE f \in Visible
    BY <2>2, FieldClasses, ComparedVisible
  <2>3. CASE f \in {Type, Rolling}
    BY <2>3, FieldClasses, ComparedStrategy
  <2> QED BY <2>1, <2>2, <2>3, FieldClasses
<1> QED BY <1>1, ComparedType DEF Objects

(* Cleaning again changes nothing that is compared. *)
LEMMA CleanIsSame ==
  ASSUME NEW o \in Objects
  PROVE  Compared(Clean(o)) = Compared(o)
<1> DEFINE c == Clean(o)
<1>1. c \in Objects
  BY CleanType
<1>2. \A f \in Fields : c[f] = Absent \/ c[f] = o[f]
  BY WithoutType DEF Clean
<1>3. \A f \in Fields : Compared(o)[f] = Plain(c[f])
  BY CleanType DEF Compared, Plain
<1>4. ASSUME NEW f \in Fields PROVE Compared(c)[f] = Compared(o)[f]
  <2>1. CASE f \in Hidden
    BY <2>1, <1>1, ComparedHidden
  <2>2. CASE f \in Visible
    <3>1. Compared(o)[f] = IF f \in Known /\ o[f] = Default THEN Absent ELSE Plain(o[f])
      BY <2>2, ComparedVisible
    <3>2. Compared(c)[f] = IF f \in Known /\ c[f] = Default THEN Absent ELSE Plain(c[f])
      BY <2>2, <1>1, ComparedVisible
    <3> QED BY <3>1, <3>2, <1>2, <1>3 DEF Plain
  <2>3. CASE f \in {Type, Rolling}
    <3>1. c[Type] = Default /\ c[Rolling] # Other => c[Type] = Absent
      <4>1. ASSUME c[Type] = Default PROVE o[Type] = Default
        BY <4>1, <1>2, FieldClasses
      <4>2. ASSUME o[Type] = Default, o[Rolling] # Other PROVE c[Type] = Absent
        BY <4>2, FieldClasses, WithoutType DEF Clean, DroppedStrategy
      <4>3. ASSUME o[Type] = Default, o[Rolling] = Other PROVE c[Rolling] = Other
        BY <4>3, FieldClasses, WithoutType DEF Clean, DroppedStrategy, DroppedDefaults, Visible
      <4> QED BY <4>1, <4>2, <4>3
    <3>2. Compared(c)[f] = Plain(c[f])
      BY <3>1, <2>3, <1>1, ComparedStrategy
    <3> QED BY <3>2, <1>3
  <2> QED BY <2>1, <2>2, <2>3, FieldClasses
<1> QED BY <1>4, <1>1, ComparedType DEF Objects

-----------------------------------------------------------------------------
(* What the server makes of an object.                                     *)

LEMMA FilledCases ==
  ASSUME NEW o \in Objects, NEW f \in Fields
  PROVE  /\ Filled(o, f) \in {Default, Empty, Absent}
         /\ f \in Known \cup Unknown \cup {Type} => Filled(o, f) = Default
         /\ f \in Blank => Filled(o, f) = Empty
         /\ f \in Kept => Filled(o, f) = Absent
         /\ f = Rolling => Filled(o, f) = IF Unset(o[Type]) \/ o[Type] = Default
                                         THEN Default ELSE Absent
BY FieldClasses DEF Filled, Visible, Hidden

LEMMA MaterialiseType ==
  ASSUME NEW o \in Objects
  PROVE  /\ Materialise(o) \in Objects
         /\ \A f \in Fields : Materialise(o)[f] = IF Unset(o[f]) THEN Filled(o, f) ELSE o[f]
<1>1. \A f \in Fields : Filled(o, f) \in Values /\ o[f] \in Values
  BY FilledCases DEF Objects, Values
<1> QED BY <1>1 DEF Materialise, Objects

(* What is filled in does not depend on what was filled in before. *)
LEMMA FilledAgain ==
  ASSUME NEW o \in Objects, NEW f \in Fields \ Hidden
  PROVE  Filled(Materialise(o), f) = Filled(o, f)
<1> DEFINE m == Materialise(o)
<1>1. m \in Objects
  BY MaterialiseType
<1>2. m[Type] = IF Unset(o[Type]) THEN Default ELSE o[Type]
  BY MaterialiseType, FilledCases, FieldClasses
<1>3. CASE f = Rolling
  BY <1>1, <1>2, <1>3, FilledCases DEF Unset
<1>4. CASE f # Rolling
  BY <1>1, <1>4, FieldClasses, FilledCases DEF Visible
<1> QED BY <1>3, <1>4

(* Filling in again fills in nothing. *)
LEMMA MaterialiseHasDefaults ==
  ASSUME NEW o \in Objects
  PROVE  HasDefaults(Materialise(o))
<1> SUFFICES ASSUME NEW f \in Fields \ Hidden, Unset(Materialise(o)[f])
             PROVE  Materialise(o)[f] = Filled(Materialise(o), f)
  BY DEF HasDefaults
<1>1. Unset(o[f]) /\ Materialise(o)[f] = Filled(o, f)
  BY MaterialiseType
<1> QED BY <1>1, FilledAgain

LEMMA SameHasSameValues ==
  ASSUME NEW a \in Objects, NEW b \in Objects, HasDefaults(b), Compared(a) = Compared(b),
         NEW f \in Fields \ Hidden
  PROVE  Materialise(a)[f] = b[f]
<1>1. Materialise(a)[f] = IF Unset(a[f]) THEN Filled(a, f) ELSE a[f]
  BY MaterialiseType
<1>2. Unset(b[f]) => b[f] = Filled(b, f)
  BY DEF HasDefaults
<1>3. a[f] \in Values /\ b[f] \in Values
  BY DEF Objects
<1>4. CASE f \in Visible
  <2>1. (IF f \in Known /\ a[f] = Default THEN Absent ELSE Plain(a[f]))
          = (IF f \in Known /\ b[f] = Default THEN Absent ELSE Plain(b[f]))
    BY <1>4, ComparedVisible
  <2> QED BY <1>1, <1>2, <1>3, <1>4, <2>1, FilledCases DEF Visible, Unset, Plain, Values
<1>5. CASE f \in {Type, Rolling}
  <2> DEFINE Strategy(o, g) == IF o[Type] = Default /\ o[Rolling] # Other THEN Absent ELSE Plain(o[g])
  <2>1. \A g \in {Type, Rolling} : Strategy(a, g) = Strategy(b, g)
    BY ComparedStrategy
  <2>2. /\ a[Type] \in Values /\ a[Rolling] \in Values
        /\ b[Type] \in Values /\ b[Rolling] \in Values
    BY FieldClasses DEF Objects
  <2>3. /\ Unset(b[Type]) => b[Type] = Default
        /\ Unset(b[Rolling]) => b[Rolling] = IF Unset(b[Type]) \/ b[Type] = Default
                                              THEN Default ELSE Absent
    BY FieldClasses, FilledCases DEF HasDefaults
  <2>4. /\ Filled(a, Type) = Default
        /\ Filled(a, Rolling) = IF Unset(a[Type]) \/ a[Type] = Default THEN Default ELSE Absent
    BY FieldClasses, FilledCases
  <2> HIDE DEF Strategy
  <2>5. CASE f = Type
    BY <1>1, <2>1, <2>2, <2>3, <2>4, <2>5 DEF Strategy, Unset, Plain, Values
  <2>6. CASE f = Rolling
    BY <1>1, <2>1, <2>2, <2>3, <2>4, <2>6 DEF Strategy, Unset, Plain, Values
  <2> QED BY <1>5, <2>5, <2>6
<1> QED BY <1>4, <1>5, FieldClasses

-----------------------------------------------------------------------------
(* The types.                                                              *)

LEMMA MergedType ==
  ASSUME NEW b \in Objects, NEW o \in Objects
  PROVE  /\ Merged(b, o) \in Objects
         /\ \A f \in Fields : Merged(b, o)[f] = IF f \in Sent(o) THEN o[f]
                                               ELSE IF f \in mine \ theirs THEN Absent ELSE b[f]
BY DEF Merged, Objects, Values

LEMMA OverwrittenType ==
  ASSUME live \in Objects, NEW f \in Fields, NEW v \in Values
  PROVE  /\ Overwritten(f, v) \in Objects
         /\ \A g \in Fields : Overwritten(f, v)[g] =
              IF g = f THEN v
              ELSE IF g = Rolling /\ f = Type /\ v = Other THEN Absent ELSE live[g]
BY DEF Overwritten, Objects, Values

LEMMA LiveEditType ==
  ASSUME live \in Objects, NEW f \in Fields, NEW v \in Values, LiveEdits(f, v)
  PROVE  live' \in Objects /\ Valid(live') /\ HasDefaults(live')
BY OverwrittenType, MaterialiseType, MaterialiseHasDefaults DEF LiveEdits, Valid, HasDefaults

LEMMA AppliedType ==
  ASSUME TypeOK, file \in Objects
  PROVE  Applied(file) \in Objects /\ HasDefaults(Applied(file))
<1> DEFINE o == IF live = None THEN Without(file, Runtime \cup Assigned) ELSE Merged(live, file)
<1>1. o \in Objects
  BY MergedType, WithoutType DEF TypeOK
<1> QED BY <1>1, MaterialiseType, MaterialiseHasDefaults DEF Applied

LEMMA InitType == Init => TypeOK
<1> SUFFICES ASSUME Init PROVE TypeOK
  OBVIOUS
<1>0. settled \in BOOLEAN
  BY Zenon DEF Init
<1>1. CASE live = None
  BY <1>0, <1>1, MaterialiseType DEF Init, TypeOK
<1>2. CASE live # None
  BY <1>0, <1>2, MaterialiseType, MaterialiseHasDefaults DEF Init, TypeOK
<1> QED BY <1>1, <1>2

LEMMA TypeStep == TypeOK /\ [Next]_vars => TypeOK'
<1> SUFFICES ASSUME TypeOK, [Next]_vars PROVE TypeOK'
  OBVIOUS
<1>1. CASE Forward
  <2>1. file \in Objects
    BY <1>1 DEF Forward, TypeOK
  <2>2. Sent(file) \subseteq Fields \ (Runtime \cup Assigned)
    BY DEF Sent
  <2> QED BY <1>1, <2>1, <2>2, AppliedType DEF Forward, TypeOK
<1>2. CASE Reverse
  BY <1>2, CleanType DEF Reverse, Exported, TypeOK
<1>3. ASSUME NEW f \in Fields, NEW v \in Values, AuthorEdits(f, v) PROVE TypeOK'
  BY <1>3 DEF AuthorEdits, TypeOK, Objects
<1>4. ASSUME NEW f \in Fields, NEW v \in Values, LiveEdits(f, v) PROVE TypeOK'
  <2>1. live \in Objects
    BY <1>4 DEF LiveEdits, TypeOK
  <2>2. live' \in Objects /\ Valid(live') /\ HasDefaults(live')
    BY <1>4, <2>1, LiveEditType
  <2> QED BY <1>4, <2>1, <2>2 DEF LiveEdits, TypeOK
<1>5. ASSUME NEW o \in Drafts \cup {None, Broken}, AuthorReplaces(o) PROVE TypeOK'
  <2>1. settled' \in BOOLEAN
    BY <1>5, Zenon DEF AuthorReplaces
  <2> QED BY <1>5, <2>1 DEF AuthorReplaces, TypeOK
<1>6. CASE LiveDelete
  <2>1. settled' \in BOOLEAN
    BY <1>6, Zenon DEF LiveDelete
  <2> QED BY <1>6, <2>1 DEF LiveDelete, TypeOK
<1>7. ASSUME NEW f \in Runtime \cup Assigned, Controller(f) PROVE TypeOK'
  <2>1. f \in Hidden /\ f \in Fields /\ live \in Objects
    BY <1>7 DEF Controller, TypeOK, Hidden, Fields
  <2>2. live' \in Objects /\ \A g \in Fields : live'[g] = IF g = f THEN Other ELSE live[g]
    BY <1>7, <2>1 DEF Controller, Objects, Values
  <2>3. live'[Type] = live[Type] /\ live'[Rolling] = live[Rolling]
    BY <2>1, <2>2, FieldClasses
  <2>4. Valid(live') /\ HasDefaults(live')
    <3>1. \A g \in Fields : Filled(live', g) = Filled(live, g)
      BY <2>3 DEF Filled
    <3> QED BY <1>7, <2>1, <2>2, <2>3, <3>1 DEF TypeOK, HasDefaults, Valid, Controller
  <2> QED BY <1>7, <2>2, <2>4 DEF Controller, TypeOK
<1>8. CASE UNCHANGED vars
  BY <1>8 DEF vars, TypeOK
<1> QED BY <1>1, <1>2, <1>3, <1>4, <1>5, <1>6, <1>7, <1>8 DEF Next

(* The file and the object stay well formed, the object keeps its defaults. *)
THEOREM RoundTripTypes == Spec => []TypeOK
BY InitType, TypeStep, PTL DEF Spec

(* A sync that is skipped would change no visible field of the object.     *)
THEOREM SkippedSyncsMissNothing == Spec => []SkipMissesNothing
<1>1. TypeOK => SkipMissesNothing
  BY SameHasSameValues DEF TypeOK, SkipMissesNothing, Same
<1> QED BY <1>1, RoundTripTypes, PTL

-----------------------------------------------------------------------------
(* An export settles the resource.                                         *)

(* What controllers and users write into a hidden field is not compared.   *)
LEMMA HiddenEditIsSame ==
  ASSUME TypeOK, NEW f \in Hidden, NEW v \in Values, LiveEdits(f, v)
  PROVE  live \in Objects /\ live' \in Objects /\ Compared(live') = Compared(live)
<1>1. live \in Objects /\ live # None /\ f \in Fields /\ f \notin {Type, Rolling}
  BY FieldClasses DEF LiveEdits, TypeOK
<1>2. Overwritten(f, v) \in Objects
  BY <1>1, OverwrittenType
<1>3. \A g \in Fields \ {f} : Overwritten(f, v)[g] = live[g]
  BY <1>1, OverwrittenType
<1>4. live' = Materialise(Overwritten(f, v))
  BY DEF LiveEdits
<1>5. ASSUME NEW g \in Fields \ Hidden PROVE live'[g] = live[g]
  <2>1. Overwritten(f, v)[g] = live[g] /\ Overwritten(f, v)[Type] = live[Type]
    BY <1>1, <1>3, FieldClasses
  <2>2. Filled(Overwritten(f, v), g) = Filled(live, g)
    BY <2>1 DEF Filled
  <2>3. Unset(live[g]) => live[g] = Filled(live, g)
    BY <1>1 DEF TypeOK, HasDefaults
  <2> QED BY <1>2, <1>4, <2>1, <2>2, <2>3, MaterialiseType
<1>6. live' \in Objects
  BY <1>2, <1>4, MaterialiseType
<1> QED BY <1>1, <1>5, <1>6, AgreeingAreSame

LEMMA SettledStep == TypeOK /\ ExportSettles /\ [Next]_vars => ExportSettles'
<1> SUFFICES ASSUME TypeOK, ExportSettles, [Next]_vars, settled' PROVE
             file' \notin {None, Broken} /\ live' # None /\ Compared(file') = Compared(live')
  BY DEF ExportSettles, Same
<1> DEFINE Held == file \notin {None, Broken} /\ live # None /\ Compared(file) = Compared(live)
<1>0. settled => Held
  BY DEF ExportSettles, Same
<1>1. CASE Forward
  <2>1. ~Differs(file)
    BY <1>0, <1>1 DEF Forward, Differs, Same
  <2> QED BY <1>1, <2>1 DEF Forward, Differs, Same
<1>2. CASE Reverse
  <2>1. live \in Objects /\ live # None /\ live' = live /\ file' = Exported
    BY <1>2 DEF Reverse, TypeOK
  <2>2. Clean(live) \in Objects /\ Compared(Clean(live)) = Compared(live)
    BY <2>1, CleanType, CleanIsSame
  <2> QED BY <2>1, <2>2 DEF Exported, Same
<1>3. ASSUME NEW f \in Fields, NEW v \in Values, AuthorEdits(f, v)
      PROVE  file' \notin {None, Broken} /\ live' # None /\ Compared(file') = Compared(live')
  <2>1. settled /\ f \in Hidden /\ live' = live /\ file \in Objects
    BY <1>3 DEF AuthorEdits, TypeOK
  <2>2. file' \in Objects /\ \A g \in Fields \ Hidden : file'[g] = file[g]
    BY <1>3, <2>1 DEF AuthorEdits, Objects
  <2>3. Compared(file') = Compared(file)
    BY <2>1, <2>2, AgreeingAreSame
  <2> QED BY <1>0, <2>1, <2>2, <2>3
<1>4. ASSUME NEW f \in Fields, NEW v \in Values, LiveEdits(f, v)
      PROVE  file' \notin {None, Broken} /\ live' # None /\ Compared(file') = Compared(live')
  <2>1. settled /\ f \in Hidden /\ file' = file
    BY <1>4 DEF LiveEdits
  <2> QED BY <1>0, <1>4, <2>1, HiddenEditIsSame
<1>5. ASSUME NEW o \in Drafts \cup {None, Broken}, AuthorReplaces(o) PROVE FALSE
  BY <1>5 DEF AuthorReplaces
<1>6. CASE LiveDelete
  BY <1>6 DEF LiveDelete
<1>7. ASSUME NEW f \in Runtime \cup Assigned, Controller(f)
      PROVE  file' \notin {None, Broken} /\ live' # None /\ Compared(file') = Compared(live')
  <2>1. settled /\ file' = file /\ live \in Objects /\ f \in Hidden
    BY <1>7 DEF Controller, TypeOK, Hidden
  <2>2. live' \in Objects /\ \A g \in Fields \ Hidden : live'[g] = live[g]
    BY <1>7, <2>1 DEF Controller, Objects, Values
  <2>3. Compared(live') = Compared(live)
    BY <2>1, <2>2, AgreeingAreSame
  <2> QED BY <1>0, <2>1, <2>2, <2>3
<1>8. CASE UNCHANGED vars
  BY <1>0, <1>8 DEF vars
<1> QED BY <1>1, <1>2, <1>3, <1>4, <1>5, <1>6, <1>7, <1>8 DEF Next

(* After an export nothing differs until somebody edits a compared field.  *)
THEOREM ExportsSettle == Spec => []ExportSettles
<1>1. Init => ExportSettles
  BY DEF Init, ExportSettles
<1> QED BY <1>1, SettledStep, RoundTripTypes, PTL DEF Spec

-----------------------------------------------------------------------------
(* What an application leaves different.                                   *)

(* A visible value that is not the default was set by somebody. *)
OwnedOrDefault ==
  live # None =>
    \A f \in Fields \ Hidden : live[f] = Filled(live, f) \/ f \in mine \cup theirs

(* A field that the file does not have is at its default, or of others. *)
LEMMA AppliedLeftover ==
  ASSUME TypeOK, OwnedOrDefault, Forward, Differs(file), NEW f \in Fields \ Hidden
  PROVE  /\ ~Unset(file[f]) => live'[f] = file[f] /\ f \in mine'
         /\ Unset(file[f]) => live'[f] = Filled(live', f) \/ f \in theirs'
<1> DEFINE m == IF live = None THEN Without(file, Runtime \cup Assigned) ELSE Merged(live, file)
<1>1. /\ file \in Objects /\ live' = Materialise(m) /\ Valid(live') /\ mine' = Sent(file)
      /\ theirs' = {g \in theirs : live'[g] = live[g]}
  BY DEF Forward, Applied, TypeOK
<1>2. m \in Objects
  BY <1>1, MergedType, WithoutType DEF TypeOK
<1>3. \A g \in Fields \ Hidden : g \in Sent(file) <=> ~Unset(file[g])
  BY DEF Sent, Hidden
<1>4. live'[f] = IF Unset(m[f]) THEN Filled(m, f) ELSE m[f]
  BY <1>1, <1>2, MaterialiseType
<1>5. Filled(live', f) = Filled(m, f)
  BY <1>1, <1>2, FilledAgain
<1> HIDE DEF m
<1>6. CASE live = None
  <2>1. m[f] = file[f]
    BY <1>1, <1>6, WithoutType DEF m, Hidden
  <2> QED BY <1>1, <1>3, <1>4, <1>5, <2>1
<1>7. CASE live # None
  <2>1. live \in Objects /\ HasDefaults(live)
    BY <1>7 DEF TypeOK
  <2>2. \A g \in Fields : m[g] = IF g \in Sent(file) THEN file[g]
                                ELSE IF g \in mine \ theirs THEN Absent ELSE live[g]
    BY <1>1, <1>7, <2>1, MergedType DEF m
  <2>3. CASE f \in Sent(file)
    BY <1>1, <1>3, <1>4, <2>2, <2>3
  <2>4. CASE f \notin Sent(file) /\ f \in mine \ theirs
    BY <1>3, <1>4, <1>5, <2>2, <2>4 DEF Unset
  <2>5. CASE f \notin Sent(file) /\ f \notin mine \ theirs
    <3>1. m[f] = live[f]
      BY <2>2, <2>5
    <3>2. Unset(m[f]) => live'[f] = Filled(live', f)
      BY <1>4, <1>5
    <3>3. CASE ~Unset(m[f]) /\ f \in theirs
      BY <1>1, <1>3, <1>4, <2>5, <3>1, <3>3
    <3>4. CASE ~Unset(m[f]) /\ f \notin theirs
      <4>1. live[f] = Filled(live, f) /\ live'[f] = live[f]
        BY <1>4, <1>7, <2>5, <3>1, <3>4 DEF OwnedOrDefault
      <4>2. CASE f # Rolling
        <5>1. Filled(live', f) = Filled(live, f)
          BY <4>2 DEF Filled
        <5> QED BY <1>3, <2>5, <4>1, <5>1
      <4>3. CASE f = Rolling
        <5>1. live'[f] = Default
          BY <2>1, <3>1, <3>4, <4>1, <4>3, FilledCases DEF Unset
        <5>2. live' \in Objects
          BY <1>1, <1>2, MaterialiseType
        <5>3. live'[Type] \in Values
          BY <5>2, FieldClasses DEF Objects
        <5>4. live'[Type] # Other
          BY <1>1, <4>3, <5>1 DEF Valid
        <5>5. Filled(live', f) = Default
          BY <4>3, <5>2, <5>3, <5>4, FilledCases DEF Values, Unset
        <5> QED BY <1>3, <2>5, <5>1, <5>5
      <4> QED BY <4>2, <4>3
    <3> QED BY <1>3, <2>5, <3>2, <3>3, <3>4
  <2> QED BY <2>3, <2>4, <2>5
<1> QED BY <1>6, <1>7

LEMMA OwnedInit == Init => OwnedOrDefault
<1> SUFFICES ASSUME Init, live # None, NEW f \in Fields \ Hidden
             PROVE  live[f] = Filled(live, f) \/ f \in theirs
  BY DEF OwnedOrDefault
<1>1. PICK o \in Drafts : live = Materialise(o) /\ theirs = {g \in Fields : ~Unset(o[g])}
  BY DEF Init
<1> QED BY <1>1, MaterialiseType, FilledAgain

LEMMA OwnedStep == TypeOK /\ OwnedOrDefault /\ [Next]_vars => OwnedOrDefault'
<1> SUFFICES ASSUME TypeOK, OwnedOrDefault, [Next]_vars, live' # None, NEW f \in Fields \ Hidden
             PROVE  live'[f] = Filled(live', f) \/ f \in mine' \cup theirs'
  BY DEF OwnedOrDefault
<1>0. live # None => live[f] = Filled(live, f) \/ f \in mine \cup theirs
  BY DEF OwnedOrDefault
<1>1. CASE Forward
  <2>1. CASE Differs(file)
    BY <1>1, <2>1, AppliedLeftover
  <2>2. CASE ~Differs(file)
    BY <1>0, <1>1, <2>2 DEF Forward
  <2> QED BY <2>1, <2>2
<1>2. ASSUME UNCHANGED <<live, mine, theirs>>
      PROVE  live'[f] = Filled(live', f) \/ f \in mine' \cup theirs'
  BY <1>0, <1>2
<1>3. ASSUME NEW g \in Fields, NEW v \in Values, LiveEdits(g, v)
      PROVE  live'[f] = Filled(live', f) \/ f \in mine' \cup theirs'
  <2> DEFINE o == Overwritten(g, v)
             changed == {h \in Fields : live'[h] # live[h]}
  <2>1. /\ live \in Objects /\ HasDefaults(live) /\ live' = Materialise(o) /\ Valid(live')
        /\ mine' = mine \ changed
        /\ theirs' = (theirs \ changed) \cup IF Unset(v) THEN {} ELSE {g}
    BY <1>3 DEF LiveEdits, TypeOK
  <2>2. /\ o \in Objects
        /\ \A h \in Fields : o[h] = IF h = g THEN v
                                   ELSE IF h = Rolling /\ g = Type /\ v = Other THEN Absent
                                   ELSE live[h]
    BY <2>1, OverwrittenType
  <2>3. /\ live'[f] = IF Unset(o[f]) THEN Filled(o, f) ELSE o[f]
        /\ Filled(live', f) = Filled(o, f)
    BY <2>1, <2>2, MaterialiseType, FilledAgain
  <2> HIDE DEF o
  <2>4. CASE Unset(o[f])
    BY <2>3, <2>4
  <2>5. CASE ~Unset(o[f]) /\ f = g
    BY <2>1, <2>2, <2>5
  <2>6. CASE ~Unset(o[f]) /\ f # g
    <3>1. o[f] = live[f] /\ live'[f] = live[f]
      BY <2>2, <2>3, <2>6 DEF Unset
    <3>2. CASE f \in mine \cup theirs
      BY <2>1, <3>1, <3>2
    <3>3. CASE live[f] = Filled(live, f) /\ f # Rolling
      BY <3>1, <3>3 DEF Filled
    <3>4. CASE live[f] = Filled(live, f) /\ f = Rolling
      <4>1. live[f] = Default
        BY <2>1, <2>6, <3>1, <3>4, FilledCases DEF Unset
      <4>2. live' \in Objects
        BY <2>1, <2>2, MaterialiseType
      <4>3. live'[Type] \in Values
        BY <4>2, FieldClasses DEF Objects
      <4>4. live'[Type] # Other
        BY <2>1, <3>1, <3>4, <4>1 DEF Valid
      <4>5. Filled(live', f) = Default
        BY <3>4, <4>2, <4>3, <4>4, FilledCases DEF Values, Unset
      <4> QED BY <3>1, <4>1, <4>5
    <3> QED BY <1>0, <1>3, <3>2, <3>3, <3>4 DEF LiveEdits
  <2> QED BY <2>4, <2>5, <2>6
<1>4. ASSUME NEW g \in Runtime \cup Assigned, Controller(g)
      PROVE  live'[f] = Filled(live', f) \/ f \in mine' \cup theirs'
  <2>1. live \in Objects /\ live # None /\ g # f /\ g # Type
    BY <1>4, FieldClasses DEF Controller, TypeOK, Hidden
  <2>2. live'[f] = live[f] /\ live'[Type] = live[Type]
    BY <1>4, <2>1, FieldClasses DEF Controller, Objects
  <2>3. Filled(live', f) = Filled(live, f)
    BY <2>2 DEF Filled
  <2> QED BY <1>0, <1>4, <2>1, <2>2, <2>3 DEF Controller
<1> QED BY <1>1, <1>2, <1>3, <1>4
        DEF Next, Reverse, AuthorEdits, AuthorReplaces, LiveDelete, vars

LEMMA AppliedDifferences ==
  ASSUME TypeOK, OwnedOrDefault, Forward, NEW f \in Fields,
         Compared(file)[f] # Compared(live')[f]
  PROVE  Cause(f)
<1>1. file \in Objects /\ Differs(file)
  BY DEF Forward, Differs, Same, TypeOK
<1>2. live' \in Objects /\ HasDefaults(live') /\ Valid(live')
  BY <1>1, AppliedType DEF Forward, HasDefaults
<1>3. \A g \in Fields \ Hidden :
        /\ ~Unset(file[g]) => live'[g] = file[g]
        /\ Unset(file[g]) => live'[g] = Filled(live', g) \/ g \in theirs'
  BY <1>1, AppliedLeftover
<1>4. f \notin Hidden
  BY <1>1, <1>2, ComparedHidden
<1>5. CASE f \in Visible
  <2>1. (IF f \in Known /\ file[f] = Default THEN Absent ELSE Plain(file[f]))
          # (IF f \in Known /\ live'[f] = Default THEN Absent ELSE Plain(live'[f]))
    BY <1>1, <1>2, <1>5, ComparedVisible
  <2>2. Unset(file[f])
    BY <1>3, <1>4, <2>1
  <2>3. CASE f \in theirs'
    BY <2>2, <2>3 DEF Cause
  <2>4. CASE live'[f] = Filled(live', f)
    <3>1. f \in Unknown
      BY <1>2, <1>5, <2>1, <2>2, <2>4, FilledCases DEF Visible, Plain, Unset
    <3> QED BY <2>2, <3>1 DEF Cause
  <2> QED BY <1>3, <1>4, <2>2, <2>3, <2>4
<1>6. CASE f \in {Type, Rolling}
  <2>1. /\ Type \in Fields \ Hidden /\ Rolling \in Fields \ Hidden
        /\ file[Type] \in Values /\ file[Rolling] \in Values
        /\ live'[Type] \in Values /\ live'[Rolling] \in Values
    BY <1>1, <1>2, FieldClasses DEF Objects
  <2>2. (IF file[Type] = Default /\ file[Rolling] # Other THEN Absent ELSE Plain(file[f]))
          # (IF live'[Type] = Default /\ live'[Rolling] # Other THEN Absent ELSE Plain(live'[f]))
    BY <1>1, <1>2, <1>6, ComparedStrategy
  <2>3. Filled(live', Type) = Default
    BY <1>2, <2>1, FilledCases
  <2>4. Filled(live', Rolling) = IF Unset(live'[Type]) \/ live'[Type] = Default
                                 THEN Default ELSE Absent
    BY <1>2, <2>1, FilledCases
  <2>5. live'[Type] = Other => live'[Rolling] = Absent
    BY <1>2 DEF Valid
  <2>6. Unset(live'[Type]) => live'[Type] = Default
    BY <1>2, <2>1, <2>3 DEF HasDefaults
  <2>7. CASE ~Unset(file[Rolling])
    BY <1>3, <1>6, <2>1, <2>2, <2>7 DEF Cause
  <2>8. CASE Unset(file[Rolling]) /\ Rolling \in theirs'
    <3>1. CASE f = Rolling
      BY <2>8, <3>1 DEF Cause
    <3>2. CASE f = Type
      BY <2>8, <3>2 DEF Cause
    <3> QED BY <1>6, <3>1, <3>2
  <2>9. CASE Unset(file[Rolling]) /\ Rolling \notin theirs'
    <3>1. live'[Rolling] = IF live'[Type] = Default THEN Default ELSE Absent
      BY <1>3, <2>1, <2>4, <2>6, <2>9 DEF Values, Unset
    <3>2. ~Unset(file[Type]) => live'[Type] = file[Type]
      BY <1>3, <2>1
    <3>3. Unset(file[Type]) => live'[Type] = Default \/ Type \in theirs'
      BY <1>3, <2>1, <2>3
    <3>4. CASE f = Rolling
      BY <2>1, <2>2, <2>9, <3>1, <3>2, <3>4 DEF Plain, Unset, Values
    <3>5. CASE f = Type
      <4>1. Unset(file[Type]) /\ live'[Type] # Default
        BY <2>1, <2>2, <2>9, <3>1, <3>2, <3>5 DEF Plain, Unset, Values
      <4> QED BY <3>3, <3>5, <4>1 DEF Cause
    <3> QED BY <1>6, <3>4, <3>5
  <2> QED BY <2>7, <2>8, <2>9
<1> QED BY <1>4, <1>5, <1>6, FieldClasses

(* What an application leaves different has one of the four causes.        *)
THEOREM ApplicationsSettle == Spec => ApplySettles
<1>1. TypeOK /\ OwnedOrDefault /\ [Next]_vars =>
        [Forward => \A f \in Fields : Compared(file)[f] # Compared(live')[f] => Cause(f)]_vars
  BY AppliedDifferences
<1>2. Spec => []OwnedOrDefault
  BY OwnedInit, OwnedStep, RoundTripTypes, PTL DEF Spec
<1> QED BY <1>1, <1>2, RoundTripTypes, PTL DEF Spec, ApplySettles
=============================================================================
