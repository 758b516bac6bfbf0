-------------------------- MODULE ProjectGenerator --------------------------
(***************************************************************************)
(* The distrogen commands project, component and registry (project.go,     *)
(* component.go, components_registry_generator.go), which write into the   *)
(* project itself.  A command may fail or be killed anywhere.  Between     *)
(* commands users edit the spec and make installs tools.  Rendered files   *)
(* other than the registry and the stored spec are left out.               *)
(***************************************************************************)
EXTENDS DistributionSpec

CONSTANT Components  \* names of custom components

(* What a generator of one command holds.                                  *)
Runs ==
  [command : {"project", "component", "registry"}, component : Components \cup {None},
   spec : SpecFiles, cleanTools : BOOLEAN, registry : SUBSET Components]

ASSUME AbsentAssumption ==
  /\ None \notin {Empty, Garbled} /\ Empty # Garbled
  /\ {None, Empty, Garbled} \cap StoredSpecs = {}
  /\ None \notin Runs
  /\ \A names \in SUBSET Components : names # Garbled

(* mdatagen, which has OpenTelemetry's version, and distrogen itself.      *)
Tools   == [otel : OTelVersions \cup {None}, distrogen : DistrogenVersions \cup {None}]
NoTools == [otel |-> None, distrogen |-> None]

(* No tool of t has another version than spec says.                        *)
Fit(t, spec) == t.otel \in {None, spec.otel} /\ t.distrogen \in {None, spec.distrogen}

VARIABLES
  specFile,    \* the spec given with --spec
  cached,      \* .distrogen/spec.yaml
  registry,    \* components/registry.yaml: the names in it
  tools,       \* the directory .tools
  pc,          \* where the command is; "idle" between commands
  run,         \* the generator of this command
  outcome,     \* how the last command ended; "none" after an edit, an
               \* installation or a start
  toolsKnown,  \* history: since they last changed, the tools fitted the stored
               \* spec, and no command found it unreadable
  registered,  \* history: components whose command succeeded
  cutOff       \* history: the registry was truncated and not written

history == <<toolsKnown, registered, cutOff>>
vars == <<specFile, cached, registry, tools, pc, run, outcome, history>>

Init ==
  /\ specFile \in SpecFiles
  /\ cached = None
  /\ registry = {}
  /\ tools = NoTools
  /\ pc = "idle"
  /\ run = None
  /\ outcome = "none"
  /\ toolsKnown = FALSE
  /\ registered = {}
  /\ cutOff = FALSE

-----------------------------------------------------------------------------
EditSpec ==
  /\ pc = "idle"
  /\ specFile' \in SpecFiles \ {specFile}
  /\ outcome' = "none"
  /\ UNCHANGED <<cached, registry, tools, pc, run, history>>

(* What was just installed is known if it fits a stored spec.              *)
Install(t) ==
  /\ pc = "idle"
  /\ tools' = t
  /\ toolsKnown' = (cached \notin {None, Empty, Garbled} /\ Fit(t, cached))
  /\ outcome' = "none"
  /\ UNCHANGED <<specFile, cached, registry, pc, run, registered, cutOff>>

(* The target distrogen replaces one that is not of the spec's version.    *)
(* Where there is none, that of the binary installs the latest, and other  *)
(* targets need no more than that.                                         *)
InstallDistrogen ==
  \E version \in DistrogenVersions :
    /\ version = specFile.distrogen \/ tools.distrogen = None
    /\ Install([tools EXCEPT !.distrogen = version])

(* The target mdatagen always installs the version of the spec.            *)
InstallMdatagen == Install([tools EXCEPT !.otel = specFile.otel])

-----------------------------------------------------------------------------
Finish(o) ==
  /\ pc' = "idle"
  /\ run' = None
  /\ outcome' = o

Begin(command, component, clean, known) ==
  /\ pc = "idle"
  /\ run' = [command |-> command, component |-> component, spec |-> specFile,
             cleanTools |-> clean, registry |-> {}]
  /\ pc' = "load"
  /\ outcome' = "none"
  /\ toolsKnown' = known
  /\ UNCHANGED <<specFile, cached, registry, tools, registered, cutOff>>

ReadCachedSpec == Unmarshal(IF cached = Empty THEN EmptySpec ELSE cached)

(* A stored spec that cannot be read is not an error: no change is seen.   *)
NewProjectGenerator ==
  /\ specFile.valid
  /\ Begin("project", None,
           /\ cached \notin {None, Garbled}
           /\ DetectProjectToolChange(NewDistributionSpec(specFile), ReadCachedSpec),
           toolsKnown /\ cached # Garbled)

NewComponentGenerator ==
  specFile.valid /\ \E c \in Components : Begin("component", c, FALSE, toolsKnown)

RegistryCommand == Begin("registry", None, FALSE, toolsKnown)

(* A slip for the mutation runs: a new registry in place of the saved one. *)
LoadNewRegistry ==
  /\ pc = "load" /\ registry # Garbled
  /\ run' = [run EXCEPT !.registry = {run.component} \ {None}]
  /\ registry' = {}
  /\ pc' = "save"
  /\ UNCHANGED <<specFile, cached, tools, outcome, history>>

(* LoadRegistry, whose error ends the command, and Add; then Save opens    *)
(* the file, which truncates it.  An empty file loads as a registry        *)
(* without components.                                                     *)
LoadRegistry ==
  /\ pc = "load"
  /\ \/ registry = Garbled /\ Finish("failed") /\ UNCHANGED registry
     \/ /\ registry # Garbled
        /\ run' = [run EXCEPT !.registry = registry \cup ({run.component} \ {None})]
        /\ registry' = {}
        /\ pc' = "save"
        /\ UNCHANGED outcome
  /\ UNCHANGED <<specFile, cached, tools, history>>

Save ==
  /\ pc = "save"
  /\ registry' = run.registry
  /\ registered' = registered \cup ({run.component} \ {None})
  /\ IF run.command = "component"
       THEN Finish("ok")
       ELSE pc' = "render" /\ UNCHANGED <<run, outcome>>
  /\ UNCHANGED <<specFile, cached, tools, toolsKnown, cutOff>>

(* A slip for the mutation runs: the spec is stored before the tools go.   *)
CacheThenClean ==
  /\ pc = "render"
  /\ \/ run.command = "registry" /\ Finish("ok") /\ UNCHANGED cached
     \/ /\ run.command = "project"
        /\ pc' = IF run.cleanTools THEN "clean" ELSE "cache"
        /\ cached' = run.spec
        /\ UNCHANGED <<run, outcome>>
  /\ UNCHANGED <<specFile, registry, tools, history>>

(* The template sets, straight into the project; the registry command has  *)
(* only that of the components and ends here.                              *)
Render ==
  /\ pc = "render"
  /\ \/ run.command = "registry" /\ Finish("ok")
     \/ /\ run.command = "project"
        /\ pc' = IF run.cleanTools THEN "clean" ELSE "cache"
        /\ UNCHANGED <<run, outcome>>
  /\ UNCHANGED <<specFile, cached, registry, tools, history>>

RemoveTools ==
  /\ pc = "clean"
  /\ tools' = NoTools
  /\ toolsKnown' = FALSE
  /\ pc' = "cache"
  /\ UNCHANGED <<specFile, cached, registry, run, outcome, registered, cutOff>>

(* CacheSpec truncates and writes; if it cannot, the command still         *)
(* succeeds.                                                               *)
CacheSpec ==
  /\ pc = "cache"
  /\ \/ cached' = Empty /\ pc' = "write" /\ UNCHANGED <<run, outcome>>
     \/ Finish("generated") /\ UNCHANGED cached
  /\ UNCHANGED <<specFile, registry, tools, history>>

WriteSpec ==
  /\ pc = "write"
  /\ cached' \in {run.spec, Empty, Garbled} \cup Parts(run.spec)
  /\ toolsKnown' = (toolsKnown \/ (cached' = run.spec /\ Fit(tools, run.spec)))
  /\ Finish("generated")
  /\ UNCHANGED <<specFile, registry, tools, registered, cutOff>>

(* An error of the file system, or the end of the process, perhaps in the  *)
(* middle of a write or of the removal of the tools.                       *)
Fail ==
  /\ pc # "idle"
  /\ Finish("failed")
  /\ IF pc = "write" THEN cached' \in {Empty, Garbled} \cup Parts(run.spec)
                     ELSE UNCHANGED cached
  /\ IF pc = "save" THEN registry' \in {Garbled} \cup SUBSET run.registry
                    ELSE UNCHANGED registry
  /\ IF pc = "clean" THEN tools' \in {t \in Tools : Fit(t, tools)} ELSE UNCHANGED tools
  /\ cutOff' = (cutOff \/ pc = "save")
  /\ UNCHANGED <<specFile, toolsKnown, registered>>

Next ==
  \/ EditSpec \/ InstallDistrogen \/ InstallMdatagen
  \/ NewProjectGenerator \/ NewComponentGenerator \/ RegistryCommand
  \/ LoadRegistry \/ Save \/ Render \/ RemoveTools \/ CacheSpec \/ WriteSpec
  \/ Fail

Spec == Init /\ [][Next]_vars
-----------------------------------------------------------------------------
(* Every variable stays in its type; a generator exists exactly while its  *)
(* command runs (project.go:66-152).                                       *)
TypeOK ==
  /\ specFile \in SpecFiles
  /\ cached \in StoredSpecs \cup {None, Empty, Garbled}
  /\ registry = Garbled \/ registry \subseteq Components
  /\ tools \in Tools
  /\ pc \in {"idle", "load", "save", "render", "clean", "cache", "write"}
  /\ run \in Runs \cup {None}
  /\ pc = "idle" <=> run = None
  /\ outcome \in {"none", "ok", "generated", "failed"}
  /\ toolsKnown \in BOOLEAN /\ cutOff \in BOOLEAN
  /\ registered \subseteq Components

(* Tools that fitted the stored spec never outlive a project command for   *)
(* other versions, although commands are cut off anywhere and storing the  *)
(* spec may fail: the tools go before the spec is stored                   *)
(* (project.go:133-149).  Only a stored spec that cannot be read hides the *)
(* change, once (51-58); a truncated one, or a part of one, shows it.      *)
KnownToolsAreCurrent ==
  outcome = "generated" /\ toolsKnown => Fit(tools, specFile)

(* A component that was added stays in the registry through every later    *)
(* command, unless one was cut off while it wrote the registry             *)
(* (component.go:90-110, components_registry_generator.go:46-66).          *)
ComponentsKept == pc = "idle" /\ ~ cutOff => registry # Garbled /\ registered \subseteq registry
=============================================================================
