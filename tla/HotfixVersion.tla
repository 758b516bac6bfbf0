---------------------------- MODULE HotfixVersion ----------------------------
(***************************************************************************)
(* The version of a spec under distrogen bump_hotfix (BumpHotfix) and      *)
(* edits by update_spec or by hand.  A version is major.minor.patch with   *)
(* an optional -identifier.counter; major and minor, which no bump         *)
(* changes, are one number.                                                *)
(***************************************************************************)
EXTENDS Naturals

CONSTANTS
  Identifiers,   \* pre-release identifiers
  Default,       \* DefaultPrereleaseIdentifier
  Dotted,        \* identifiers with a dot, which VersionRegex does not match
  NoIdentifier,  \* no identifier
  Malformed,     \* a version that is none
  MaxMinor, MaxPatch, MaxCounter  \* bounds on the state space

ASSUME HotfixAssumption ==
  /\ Default \in Identifiers \ Dotted
  /\ NoIdentifier \notin Identifiers
  /\ {MaxMinor, MaxPatch, MaxCounter} \subseteq Nat

(* VersionRegex.                                                           *)
Versions == [minor : Nat, patch : Nat, id : Identifiers \cup {NoIdentifier}, counter : Nat]

ASSUME MalformedAssumption == Malformed \notin Versions

VARIABLES
  version,      \* field version of the spec
  identifier,   \* field prerelease_identifier; NoIdentifier if it is absent
  issued,       \* history: versions that bumps wrote since the last edit
  bumped        \* history: the last step was a bump

hotfixVars == <<version, identifier, issued, bumped>>

Small ==
  {v \in [minor : 0..MaxMinor, patch : 0..MaxPatch, id : Identifiers \cup {NoIdentifier},
          counter : 0..MaxCounter] : v.id = NoIdentifier => v.counter = 0}

HotfixInit ==
  /\ version \in Small \cup {Malformed}
  /\ identifier \in Identifiers \cup {NoIdentifier}
  /\ issued = {}
  /\ bumped = FALSE

(* update_spec checks that the field exists, not what is written to it.    *)
UpdateVersion ==
  /\ version' \in Small \cup {Malformed}
  /\ issued' = {}
  /\ bumped' = FALSE
  /\ UNCHANGED identifier

UpdateIdentifier ==
  /\ identifier' \in Identifiers \cup {NoIdentifier}
  /\ bumped' = FALSE
  /\ UNCHANGED <<version, issued>>

-----------------------------------------------------------------------------
(* VersionRegex: the identifier ends at the first dot.                     *)
Matches(v) == v # Malformed /\ v.id \notin Dotted

(* The identifier to use: that of the command, of the spec, or the default.*)
Chosen(override) ==
  IF override # NoIdentifier THEN override
  ELSE IF identifier # NoIdentifier THEN identifier
  ELSE Default

(* A slip for the mutation runs: the patch number stays.                   *)
NextSamePatch(v, id) ==
  IF v.id = id THEN [v EXCEPT !.counter = v.counter + 1]
               ELSE [v EXCEPT !.id = id, !.counter = 0]

NextVersion(v, id) ==
  IF v.id = id THEN [v EXCEPT !.counter = v.counter + 1]
               ELSE [v EXCEPT !.patch = v.patch + 1, !.id = id, !.counter = 0]

(* BumpHotfix, for an override (NoIdentifier: the flag is not given).              *)
BumpHotfix ==
  /\ Matches(version)
  /\ version.patch < MaxPatch /\ version.counter < MaxCounter
  /\ \E override \in Identifiers \cup {NoIdentifier} :
       version' = NextVersion(version, Chosen(override))
  /\ issued' = issued \cup {version'}
  /\ bumped' = TRUE
  /\ UNCHANGED identifier

HotfixNext == UpdateVersion \/ UpdateIdentifier \/ BumpHotfix

HotfixSpec == HotfixInit /\ [][HotfixNext]_hotfixVars
-----------------------------------------------------------------------------
(* Every variable stays in its type; a version without identifier has no   *)
(* counter after a bump (distribution.go:741, 748).                        *)
HotfixTypeOK ==
  /\ version \in Versions \cup {Malformed}
  /\ identifier \in Identifiers \cup {NoIdentifier}
  /\ issued \subseteq Versions
  /\ bumped \in BOOLEAN
  /\ bumped => version \in issued /\ version.id # NoIdentifier

(* The order of semantic versions: a pre-release is before its release.    *)
Precedes(v, w) ==
  \/ v.minor < w.minor
  \/ v.minor = w.minor /\ v.patch < w.patch
  \/ /\ v.minor = w.minor /\ v.patch = w.patch
     /\ \/ v.id # NoIdentifier /\ w.id = NoIdentifier
        \/ v.id # NoIdentifier /\ v.id = w.id /\ v.counter < w.counter

(* A bump gives a later version, for every identifier, of the command, of  *)
(* the spec or by default (distribution.go:739-749).                       *)
BumpIncreases == [][bumped' => Precedes(version, version')]_hotfixVars

(* However identifiers change between bumps, no bump gives a version that  *)
(* one before it gave (distribution.go:739-749).                           *)
NeverReissued == [][bumped' => version' \notin issued]_hotfixVars
=============================================================================
