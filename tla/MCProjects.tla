----------------------------- MODULE MCProjects -----------------------------
(* The commands project, component and registry (ProjectGenerator), or the *)
(* command bump_hotfix (HotfixVersion).  They share no state: the first    *)
(* three do not read the version, and a bump changes nothing else, so each *)
(* behaviour of this model runs one of the two.                            *)
EXTENDS ProjectGenerator, HotfixVersion

VARIABLE bumping  \* which of the two this behaviour is

NoVersion == version = Malformed /\ identifier = NoIdentifier /\ issued = {} /\ bumped = FALSE

OneProject ==
  /\ specFile = CHOOSE s \in SpecFiles : s.valid
  /\ cached = None /\ registry = {} /\ tools = NoTools /\ pc = "idle" /\ run = None
  /\ outcome = "none" /\ toolsKnown = FALSE /\ registered = {} /\ cutOff = FALSE

MCInit ==
  \/ bumping = FALSE /\ Init /\ NoVersion
  \/ bumping = TRUE /\ OneProject /\ HotfixInit

MCNext ==
  /\ UNCHANGED bumping
  /\ \/ ~bumping /\ Next /\ UNCHANGED hotfixVars
     \/ bumping /\ HotfixNext /\ UNCHANGED vars

MCSpec == MCInit /\ [][MCNext]_<<vars, hotfixVars, bumping>>

=============================================================================
