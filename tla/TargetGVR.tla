----------------------------- MODULE TargetGVR ------------------------------
(***************************************************************************)
(* From the kind and API version a TTLReaper names to the resource the     *)
(* controller lists and watches.  The code converts twice: getResourceName *)
(* and ParseGroupVersion for the list (ttlreaper.go), parseTargetGVR for   *)
(* the watch (controller.go).                                              *)
(*                                                                         *)
(* A kind is a record [stem, ending, cased]: its ending decides its        *)
(* plural ("s" stands for s, x and z), cased is FALSE when it is written   *)
(* without its capitals.                                                   *)
(* A resource name is a stem and the text that follows it.                 *)
(* An API version is a record [form, group]: "core" is a bare version,     *)
(* "grouped" is group/version, "malformed" has more than one slash, and    *)
(* "empty" is the empty string.                                            *)
(***************************************************************************)

\* The plural the API server serves the kind under (names.plural of its CRD).
ServedName(kind) ==
  [stem |-> kind.stem,
   text |-> CASE kind.ending = "plain" -> "s"
              [] kind.ending = "y"     -> "ies"
              [] kind.ending = "ay"    -> "ays"
              [] kind.ending = "s"     -> "ses"
              [] kind.ending = "ch"    -> "ches"]

\* y becomes ies, a final s, x or z takes es, all else takes s.
GetResourceName(kind) ==
  [stem |-> kind.stem,
   text |-> CASE kind.ending = "plain" -> "s"
              [] kind.ending = "y"     -> "ies"
              [] kind.ending = "ay"    -> "aies"
              [] kind.ending = "s"     -> "ses"
              [] kind.ending = "ch"    -> "chs"]

\* strings.ToLower(targetKind) + "s".
WatchResourceName(kind) ==
  [stem |-> kind.stem,
   text |-> CASE kind.ending = "plain" -> "s"
              [] kind.ending = "y"     -> "ys"
              [] kind.ending = "ay"    -> "ays"
              [] kind.ending = "s"     -> "ss"
              [] kind.ending = "ch"    -> "chs"]

\* The API version objects of a group carry.
VersionOf(group, core) ==
  [form |-> IF group = core THEN "core" ELSE "grouped", group |-> group]

ListGVR(spec)  == [group |-> spec.version.group, resource |-> GetResourceName(spec.kind)]
WatchGVR(spec) == [group |-> spec.version.group, resource |-> WatchResourceName(spec.kind)]
ServedGVR(obj) == [group |-> obj.group, resource |-> ServedName(obj.kind)]

\* schema.ParseGroupVersion accepts a bare version, parseTargetGVR does not;
\* neither accepts the "malformed" or an "empty" one (reconcileTTLReaper
\* rejects the latter itself).
ListParses(spec)  == spec.version.form \in {"core", "grouped"}
WatchParses(spec) == spec.version.form = "grouped"
=============================================================================
