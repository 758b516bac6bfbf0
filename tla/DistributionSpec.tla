--------------------------- MODULE DistributionSpec ---------------------------
(***************************************************************************)
(* Specs of cmd/distrogen (distribution.go) as they are loaded, stored and *)
(* compared.  Of the fields in the yaml file those are kept that the       *)
(* generators tell apart; "valid" stands for the combinations of fields    *)
(* that NewDistributionSpec accepts.                                       *)
(***************************************************************************)
CONSTANTS
  OTelVersions,       \* values of opentelemetry_version
  GoVersions,         \* values of go_version
  DistrogenVersions,  \* values of distrogen_version
  Binaries,           \* values of binary_name
  None,               \* no value
  Empty,              \* a file that was truncated and not written yet
  Garbled             \* a file whose write was cut off and that does not parse

ASSUME NoneAssumption ==
  None \notin OTelVersions \cup GoVersions \cup DistrogenVersions \cup Binaries

SpecFiles ==
  [otel : OTelVersions, go : GoVersions, distrogen : DistrogenVersions,
   binary : Binaries, valid : BOOLEAN]

(* What an empty yaml file unmarshals to.                                  *)
EmptySpec == [otel |-> None, go |-> None, distrogen |-> None, binary |-> None, valid |-> TRUE]

(* What a spec file holds whose write was cut off, if it still parses: the *)
(* fields that had been written, in the order of the struct.               *)
Parts(file) ==
  LET noDistrogen == [file EXCEPT !.distrogen = None]
      noBinary    == [noDistrogen EXCEPT !.binary = None]
      noGo        == [noBinary EXCEPT !.go = None]
  IN {noDistrogen, noBinary, noGo, [noGo EXCEPT !.otel = None]}

StoredSpecs ==
  [otel : OTelVersions \cup {None}, go : GoVersions \cup {None},
   distrogen : DistrogenVersions \cup {None}, binary : Binaries \cup {None}, valid : BOOLEAN]

(* A spec in memory: the fields of the file and two that no file holds     *)
(* (yaml:"-"), which NewDistributionSpec sets and a plain unmarshal does   *)
(* not.                                                                    *)
NewDistributionSpec(file) == [stored |-> file, Path |-> "spec.yaml", OCBOutputDir |-> "_build"]
Unmarshal(file)           == [stored |-> file, Path |-> "", OCBOutputDir |-> ""]

(* A slip for the mutation runs: only what files hold is compared.         *)
DiffStored(s, s2) == s.stored # s2.stored

Diff(s, s2) == s # s2

(* A slip for the mutation runs: one of the two versions.                  *)
DetectOTelChange(s, original) ==
  Diff(s, original) /\ s.stored.otel # original.stored.otel

DetectDistributionToolChange(s, original) ==
  /\ Diff(s, original)
  /\ \/ s.stored.otel # original.stored.otel
     \/ s.stored.go # original.stored.go

DetectProjectToolChange(s, original) ==
  /\ Diff(s, original)
  /\ \/ s.stored.otel # original.stored.otel
     \/ s.stored.distrogen # original.stored.distrogen
=============================================================================
