------------------------------ MODULE Cleaner ------------------------------
(***************************************************************************)
(* What the two directions of a sync compare: cleaner.Clean                *)
(* (internal/k8s/cleaner/cleaner.go) and diff.IsSameContent                *)
(* (internal/diff/differ.go).                                              *)
(*                                                                         *)
(* An object is a function from fields to values; name and namespace are   *)
(* the same on both sides and left out.  What the code does to a field     *)
(* depends on its class only, so that a class stands for all its fields.   *)
(* Every field has one value that the API server would fill in, Default;   *)
(* Other is any other value and Empty an empty map or list, or null.       *)
(***************************************************************************)
EXTENDS Naturals

CONSTANTS
  Kept,      \* user fields without a default: image, env, data, labels
  Known,     \* defaulted, and dropped at the default: restartPolicy, protocol
  Unknown,   \* defaulted, and not known to the cleaner: replicas, updateStrategy
  Blank,     \* the server fills in {}, the cleaner drops it: resources
  Runtime,   \* status, uid, generation: dropped for every kind, never applied
  Assigned,  \* clusterIP, nodePort, volumeName: dropped by kind, never applied
  Ignored,   \* sessionAffinity, externalTrafficPolicy: dropped, but applied
  Type,      \* strategy.type of a Deployment
  Rolling,   \* strategy.rollingUpdate of a Deployment
  Default, Other, Empty, Absent

Hidden == Runtime \cup Assigned \cup Ignored
Fields == Kept \cup Known \cup Unknown \cup Blank \cup Hidden \cup {Type, Rolling}
Values == {Default, Other, Empty, Absent}
Objects == [Fields -> Values]

ASSUME CleanerAssumption ==
  /\ Default # Other /\ Default # Empty /\ Default # Absent
  /\ Other # Empty /\ Other # Absent /\ Empty # Absent
  /\ Kept \cap Known = {} /\ (Kept \cup Known) \cap Unknown = {}
  /\ (Kept \cup Known \cup Unknown) \cap Blank = {}
  /\ (Kept \cup Known \cup Unknown \cup Blank) \cap Hidden = {}
  /\ Type # Rolling
  /\ {Type, Rolling} \cap (Kept \cup Known \cup Unknown \cup Blank \cup Hidden) = {}

Unset(v) == v \in {Empty, Absent}

Without(o, S) == [f \in Fields |-> IF f \in S THEN Absent ELSE o[f]]

(* MUTANT of DroppedByKind: the fields that a controller assigns are kept. *)
IgnoredOnly == Ignored
(* cleanByKind: dropped whatever the value is. *)
DroppedByKind == Assigned \cup Ignored

(* MUTANT of DroppedDefaults: whatever the user's value is. *)
AnyKnown(o) == Known \cup {f \in Blank : o[f] = Empty}
(* dropDefaultedPodSpec, cleanContainer and the ports of a Service. *)
DroppedDefaults(o) ==
  {f \in Known : o[f] = Default} \cup {f \in Blank : o[f] = Empty}

(* dropDeploymentDefaults: rollingUpdate goes at its default, beside the   *)
(* default type only, and the type goes when nothing is left beside it.    *)
DroppedStrategy(o) ==
  IF o[Type] = Default /\ o[Rolling] # Other THEN {Type, Rolling} ELSE {}

(* Clean, which begins with what every kind has. *)
Clean(o) ==
  Without(o, Runtime \cup DroppedByKind \cup DroppedDefaults(o) \cup DroppedStrategy(o))

(* extractComparableFields and normalize: an empty value is no value. *)
Compared(o) ==
  LET c == Clean(o)
  IN  [f \in Fields |-> IF c[f] = Empty THEN Absent ELSE c[f]]

(* IsSameContent. *)
Same(a, b) == Compared(a) = Compared(b)
=============================================================================
