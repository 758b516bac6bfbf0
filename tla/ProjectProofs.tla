--------------------------- MODULE ProjectProofs ---------------------------
(***************************************************************************)
(* Proofs about the commands that write into a project: project, component *)
(* and registry (ProjectGenerator) for all versions and components, and    *)
(* bump_hotfix (HotfixVersion) for all identifiers and without its bounds. *)
(***************************************************************************)
EXTENDS ProjectGenerator, HotfixVersion, TLAPS

(* The generator works on the spec as it is: nothing edits it meanwhile.   *)
RunHasSpec == pc # "idle" => run.spec = specFile

(* Only the command project comes past the rendering (project.go:128-149). *)
OnlyProjectsStore == pc \in {"clean", "cache", "write"} => run.command = "project"

(* Tools that are known go with the stored spec, as far as that was        *)
(* written.                                                                *)
KnownToolsFitStored ==
  toolsKnown =>
    /\ cached # None
    /\ cached \notin {Empty, Garbled} =>
         /\ cached.otel # None => tools.otel \in {None, cached.otel}
         /\ cached.distrogen # None => tools.distrogen \in {None, cached.distrogen}

(* A project command that found no change of tools need not remove them... *)
KeptToolsAreCurrent ==
  pc # "idle" /\ run.command = "project" /\ ~ run.cleanTools /\ toolsKnown
     => Fit(tools, specFile)

(* ... and one that found a change has removed them before it stores the   *)
(* spec (project.go:133-149).                                              *)
ChangedToolsAreGone == pc \in {"cache", "write"} /\ run.cleanTools => ~ toolsKnown

(* While Save has the file truncated, the generator holds what was in it,  *)
(* and the component it adds.                                              *)
RegistryHeld ==
  /\ pc = "save" => {run.component} \ {None} \subseteq run.registry
  /\ ~ cutOff => registry # Garbled
  /\ ~ cutOff => registered \subseteq (IF pc = "save" THEN run.registry ELSE registry)

ProjectInv ==
  /\ TypeOK
  /\ RunHasSpec
  /\ OnlyProjectsStore
  /\ KnownToolsFitStored
  /\ KeptToolsAreCurrent
  /\ ChangedToolsAreGone
  /\ RegistryHeld
  /\ KnownToolsAreCurrent

(* A project command that cleans no tools found the two versions of the    *)
(* stored spec in its own (distribution.go:132-147); a spec that was       *)
(* truncated has none.                                                     *)
LEMMA NoChangeMeansSameTools ==
  ASSUME NEW s \in SpecFiles, NEW c \in StoredSpecs \cup {Empty},
         ~ DetectProjectToolChange(NewDistributionSpec(s),
                                   Unmarshal(IF c = Empty THEN EmptySpec ELSE c))
  PROVE  /\ c # Empty
         /\ c.otel = s.otel /\ c.distrogen = s.distrogen
         /\ s.otel # None /\ s.distrogen # None
<1> DEFINE o == IF c = Empty THEN EmptySpec ELSE c
<1>1. NewDistributionSpec(s).Path # Unmarshal(o).Path
  BY DEF NewDistributionSpec, Unmarshal
<1>2. Diff(NewDistributionSpec(s), Unmarshal(o))
  BY <1>1 DEF Diff
<1>3. s.otel = o.otel /\ s.distrogen = o.distrogen
  BY <1>2 DEF DetectProjectToolChange, NewDistributionSpec, Unmarshal
<1>4. s.otel # None /\ s.distrogen # None
  BY NoneAssumption DEF SpecFiles
<1>5. c # Empty
  BY <1>3, <1>4 DEF EmptySpec
<1> QED BY <1>3, <1>4, <1>5

(* A write that is cut off leaves each of the two versions or none.        *)
LEMMA PartsHaveSameTools ==
  ASSUME NEW s \in SpecFiles, NEW part \in {s} \cup Parts(s)
  PROVE  /\ part \in StoredSpecs
         /\ part.otel \in {None, s.otel} /\ part.distrogen \in {None, s.distrogen}
BY DEF Parts, SpecFiles, StoredSpecs

LEMMA ProjectInitInv == Init => ProjectInv
<1> SUFFICES ASSUME Init PROVE ProjectInv
  OBVIOUS
<1>1. NoTools \in Tools /\ {} # Garbled
  BY AbsentAssumption DEF Tools, NoTools
<1>2. TypeOK /\ RegistryHeld
  BY <1>1 DEF Init, TypeOK, RegistryHeld
<1>3. RunHasSpec /\ OnlyProjectsStore /\ KnownToolsFitStored /\ KeptToolsAreCurrent
      /\ ChangedToolsAreGone /\ KnownToolsAreCurrent
  BY DEF Init, RunHasSpec, OnlyProjectsStore, KnownToolsFitStored, KeptToolsAreCurrent,
         ChangedToolsAreGone, KnownToolsAreCurrent
<1> QED BY <1>2, <1>3 DEF ProjectInv

(* What every command begins with.                                         *)
LEMMA BeginKeeps ==
  ASSUME ProjectInv,
         NEW command \in {"project", "component", "registry"},
         NEW component \in Components \cup {None},
         NEW clean \in BOOLEAN, NEW known \in BOOLEAN, known => toolsKnown,
         command = "project" /\ ~ clean /\ known => Fit(tools, specFile),
         Begin(command, component, clean, known)
  PROVE  ProjectInv'
<1>1. run' \in Runs /\ run'.spec = specFile /\ run'.command = command /\ run'.cleanTools = clean
  BY DEF Begin, Runs, ProjectInv, TypeOK
<1>2. pc = "idle" /\ pc' = "load" /\ outcome' = "none"
  BY DEF Begin
<1>3. /\ UNCHANGED <<specFile, cached, registry, tools, registered, cutOff>>
      /\ toolsKnown' = known
  BY DEF Begin
<1>4. TypeOK'
  BY <1>1, <1>2, <1>3, AbsentAssumption DEF ProjectInv, TypeOK
<1>5. RunHasSpec' /\ OnlyProjectsStore' /\ KnownToolsFitStored' /\ KeptToolsAreCurrent'
  BY <1>1, <1>2, <1>3 DEF ProjectInv, RunHasSpec, OnlyProjectsStore, KnownToolsFitStored,
       KeptToolsAreCurrent
<1>6. ChangedToolsAreGone' /\ RegistryHeld' /\ KnownToolsAreCurrent'
  BY <1>1, <1>2, <1>3 DEF ProjectInv, ChangedToolsAreGone, RegistryHeld, KnownToolsAreCurrent
<1> QED BY <1>4, <1>5, <1>6 DEF ProjectInv

LEMMA NewProjectGeneratorKeeps == ProjectInv /\ NewProjectGenerator => ProjectInv'
<1> SUFFICES ASSUME ProjectInv, NewProjectGenerator PROVE ProjectInv'
  OBVIOUS
<1> DEFINE clean == /\ cached \notin {None, Garbled}
                    /\ DetectProjectToolChange(NewDistributionSpec(specFile), ReadCachedSpec)
           known == toolsKnown /\ cached # Garbled
<1>1. Begin("project", None, clean, known)
  BY DEF NewProjectGenerator
<1>2. ~ clean /\ known => Fit(tools, specFile)
  <2> SUFFICES ASSUME ~ clean, known PROVE Fit(tools, specFile)
    OBVIOUS
  <2>1. cached \notin {None, Garbled}
    BY DEF ProjectInv, KnownToolsFitStored
  <2>2. specFile \in SpecFiles /\ cached \in StoredSpecs \cup {Empty}
    BY <2>1 DEF ProjectInv, TypeOK
  <2>3. ~ DetectProjectToolChange(NewDistributionSpec(specFile), ReadCachedSpec)
    BY <2>1
  <2>4. /\ cached # Empty
        /\ cached.otel = specFile.otel /\ cached.distrogen = specFile.distrogen
        /\ specFile.otel # None /\ specFile.distrogen # None
    BY <2>2, <2>3, NoChangeMeansSameTools DEF ReadCachedSpec
  <2> QED BY <2>1, <2>4 DEF ProjectInv, KnownToolsFitStored, Fit
<1>3. clean \in BOOLEAN /\ known \in BOOLEAN /\ (known => toolsKnown)
  BY DEF ProjectInv, TypeOK
<1> HIDE DEF clean, known
<1> QED BY <1>1, <1>2, <1>3, BeginKeeps

(* The two steps with the registry: what LoadRegistry takes from the file  *)
(* before Save truncates it, Save writes (registry.go:80-127).  *)
LEMMA LoadRegistryKeeps == ProjectInv /\ LoadRegistry => ProjectInv'
<1> SUFFICES ASSUME ProjectInv, LoadRegistry PROVE ProjectInv'
  OBVIOUS
<1>0. pc = "load" /\ UNCHANGED <<specFile, cached, tools, toolsKnown, registered, cutOff>>
  BY DEF LoadRegistry, history
<1>1. CASE pc' = "idle" /\ run' = None /\ outcome' = "failed" /\ registry' = registry
  BY <1>0, <1>1 DEF ProjectInv, TypeOK, RunHasSpec, OnlyProjectsStore, KnownToolsFitStored,
       KeptToolsAreCurrent, ChangedToolsAreGone, RegistryHeld, KnownToolsAreCurrent
<1>2. CASE /\ registry # Garbled
           /\ run' = [run EXCEPT !.registry = registry \cup ({run.component} \ {None})]
           /\ registry' = {} /\ pc' = "save" /\ outcome' = outcome
  <2>1. run \in Runs /\ registry \subseteq Components /\ registered \subseteq Components
    BY <1>0, <1>2 DEF ProjectInv, TypeOK
  <2> DEFINE r == registry \cup ({run.component} \ {None})
  <2>2. r \subseteq Components
    BY <2>1 DEF Runs
  <2>3. run' = [run EXCEPT !.registry = r]
    BY <1>2
  <2>4. /\ run' \in Runs /\ run'.registry = r /\ run'.spec = run.spec
        /\ run'.command = run.command /\ run'.cleanTools = run.cleanTools
        /\ run'.component = run.component
    <3> HIDE DEF r
    <3> QED BY <2>1, <2>2, <2>3 DEF Runs
  <2>5. {} # Garbled
    BY AbsentAssumption
  <2>6. TypeOK'
    BY <1>0, <1>2, <2>4, AbsentAssumption DEF ProjectInv, TypeOK
  <2>7. RunHasSpec' /\ OnlyProjectsStore' /\ KnownToolsFitStored' /\ KeptToolsAreCurrent'
    BY <1>0, <1>2, <2>4 DEF ProjectInv, RunHasSpec, OnlyProjectsStore, KnownToolsFitStored,
         KeptToolsAreCurrent
  <2>8. ChangedToolsAreGone' /\ KnownToolsAreCurrent'
    BY <1>0, <1>2, <2>4 DEF ProjectInv, ChangedToolsAreGone, KnownToolsAreCurrent
  <2>9. RegistryHeld'
    BY <1>0, <1>2, <2>4, <2>5 DEF ProjectInv, RegistryHeld
  <2> QED BY <2>6, <2>7, <2>8, <2>9 DEF ProjectInv
<1> QED BY <1>1, <1>2 DEF LoadRegistry, Finish

LEMMA SaveKeeps == ProjectInv /\ Save => ProjectInv'
<1> SUFFICES ASSUME ProjectInv, Save PROVE ProjectInv'
  OBVIOUS
<1>1. run \in Runs /\ registered \subseteq Components /\ pc = "save"
  BY DEF Save, ProjectInv, TypeOK
<1>2. /\ registry' = run.registry /\ registered' = registered \cup ({run.component} \ {None})
      /\ UNCHANGED <<specFile, cached, tools, toolsKnown, cutOff>>
  BY DEF Save
<1>3. \/ pc' = "idle" /\ run' = None /\ outcome' = "ok"
      \/ pc' = "render" /\ run' = run /\ outcome' = outcome
  BY DEF Save, Finish
<1>r. run.registry \subseteq Components /\ run.registry # Garbled
  BY <1>1, AbsentAssumption DEF Runs
<1>4. TypeOK'
  BY <1>1, <1>2, <1>3, <1>r, AbsentAssumption DEF ProjectInv, TypeOK, Runs
<1>5. RunHasSpec' /\ OnlyProjectsStore' /\ KnownToolsFitStored' /\ KeptToolsAreCurrent'
  BY <1>1, <1>2, <1>3 DEF ProjectInv, RunHasSpec, OnlyProjectsStore, KnownToolsFitStored,
       KeptToolsAreCurrent
<1>6. ChangedToolsAreGone' /\ KnownToolsAreCurrent'
  BY <1>1, <1>2, <1>3 DEF ProjectInv, ChangedToolsAreGone, KnownToolsAreCurrent
<1>7. RegistryHeld'
  BY <1>1, <1>2, <1>3, <1>r DEF ProjectInv, RegistryHeld
<1> QED BY <1>4, <1>5, <1>6, <1>7 DEF ProjectInv

LEMMA InstallKeeps ==
  ASSUME ProjectInv, NEW t \in Tools, Install(t)
  PROVE  ProjectInv'
<1>1. /\ pc = "idle" /\ pc' = "idle" /\ tools' = t /\ outcome' = "none"
      /\ toolsKnown' = (cached \notin {None, Empty, Garbled} /\ Fit(t, cached))
      /\ UNCHANGED <<specFile, cached, registry, run, registered, cutOff>>
  BY DEF Install
<1>2. TypeOK'
  BY <1>1 DEF ProjectInv, TypeOK
<1>3. KnownToolsFitStored'
  BY <1>1 DEF KnownToolsFitStored, Fit
<1>4. /\ RunHasSpec' /\ OnlyProjectsStore' /\ KeptToolsAreCurrent' /\ ChangedToolsAreGone'
      /\ RegistryHeld' /\ KnownToolsAreCurrent'
  BY <1>1 DEF ProjectInv, RunHasSpec, OnlyProjectsStore, KeptToolsAreCurrent, ChangedToolsAreGone,
       RegistryHeld, KnownToolsAreCurrent
<1> QED BY <1>2, <1>3, <1>4 DEF ProjectInv

LEMMA ToolsStepsKeep == ProjectInv /\ (InstallDistrogen \/ InstallMdatagen \/ RemoveTools) => ProjectInv'
<1> SUFFICES ASSUME ProjectInv, InstallDistrogen \/ InstallMdatagen \/ RemoveTools PROVE ProjectInv'
  OBVIOUS
<1>0. tools \in Tools /\ specFile \in SpecFiles
  BY DEF ProjectInv, TypeOK
<1>1. CASE InstallDistrogen
  <2>1. PICK v \in DistrogenVersions : Install([tools EXCEPT !.distrogen = v])
    BY <1>1 DEF InstallDistrogen
  <2>2. [tools EXCEPT !.distrogen = v] \in Tools
    BY <1>0 DEF Tools
  <2> QED BY <2>1, <2>2, InstallKeeps
<1>2. CASE InstallMdatagen
  <2>1. [tools EXCEPT !.otel = specFile.otel] \in Tools
    BY <1>0 DEF Tools, SpecFiles
  <2> QED BY <1>2, <2>1, InstallKeeps DEF InstallMdatagen
<1>3. CASE RemoveTools
  <2>1. pc = "clean" /\ pc' = "cache" /\ tools' = NoTools /\ toolsKnown' = FALSE
    BY <1>3 DEF RemoveTools
  <2>2. UNCHANGED <<specFile, cached, registry, run, outcome, registered, cutOff>>
    BY <1>3 DEF RemoveTools
  <2>3. NoTools \in Tools
    BY DEF Tools, NoTools
  <2> QED BY <2>1, <2>2, <2>3 DEF ProjectInv, TypeOK, RunHasSpec, OnlyProjectsStore, KnownToolsFitStored,
       KeptToolsAreCurrent, ChangedToolsAreGone, RegistryHeld, KnownToolsAreCurrent
<1> QED BY <1>1, <1>2, <1>3

(* Storing the spec after the tools of other versions are gone: the step   *)
(* that KnownToolsAreCurrent is about (project.go:133-149).                *)
LEMMA StoreStepsKeep == ProjectInv /\ (CacheSpec \/ WriteSpec) => ProjectInv'
<1> SUFFICES ASSUME ProjectInv, CacheSpec \/ WriteSpec PROVE ProjectInv'
  OBVIOUS
<1>1. UNCHANGED <<specFile, registry, tools, registered, cutOff>>
  BY DEF CacheSpec, WriteSpec, history
<1>2. /\ pc \in {"cache", "write"} /\ run \in Runs /\ run.command = "project" /\ run.spec = specFile
      /\ specFile \in SpecFiles
  BY DEF CacheSpec, WriteSpec, ProjectInv, TypeOK, RunHasSpec, OnlyProjectsStore
<1>3. toolsKnown => Fit(tools, specFile)
  <2>1. run.cleanTools \in BOOLEAN
    BY <1>2 DEF Runs
  <2> QED BY <1>2, <2>1 DEF ProjectInv, KeptToolsAreCurrent, ChangedToolsAreGone
<1>4. /\ toolsKnown' => toolsKnown \/ (cached' = specFile /\ Fit(tools, specFile))
      /\ toolsKnown' \in BOOLEAN
  <2>1. toolsKnown \in BOOLEAN
    BY DEF ProjectInv, TypeOK
  <2>2. CASE CacheSpec
    BY <2>1, <2>2 DEF CacheSpec, history
  <2>3. CASE WriteSpec
    <3>1. toolsKnown' = (toolsKnown \/ (cached' = specFile /\ Fit(tools, specFile)))
      BY <1>2, <2>3 DEF WriteSpec
    <3> QED BY <2>1, <3>1
  <2> QED BY <2>2, <2>3
<1>5. toolsKnown' => Fit(tools, specFile)
  BY <1>3, <1>4
<1>6. CASE pc' = "write" /\ cached' = Empty /\ run' = run /\ outcome' = outcome /\ pc = "cache" /\ toolsKnown' = toolsKnown
  BY <1>1, <1>2, <1>5, <1>6, AbsentAssumption DEF ProjectInv, TypeOK, RunHasSpec, OnlyProjectsStore,
       KnownToolsFitStored, KeptToolsAreCurrent, ChangedToolsAreGone, RegistryHeld, KnownToolsAreCurrent
<1>7. CASE /\ pc' = "idle" /\ run' = None /\ outcome' = "generated"
           /\ \/ cached' = cached /\ toolsKnown' = toolsKnown
              \/ cached' \in {specFile, Empty, Garbled} \cup Parts(specFile)
  <2>1. cached' \in {specFile} \cup Parts(specFile) =>
          /\ cached' \in StoredSpecs
          /\ cached'.otel \in {None, specFile.otel}
          /\ cached'.distrogen \in {None, specFile.distrogen}
    BY <1>2, PartsHaveSameTools
  <2>3. TypeOK'
    BY <1>1, <1>4, <1>7, <2>1 DEF ProjectInv, TypeOK
  <2>4. KnownToolsFitStored'
    <3>1. CASE cached' = cached /\ toolsKnown' = toolsKnown
      BY <1>1, <3>1 DEF ProjectInv, KnownToolsFitStored
    <3>2. CASE cached' \in {specFile, Empty, Garbled} \cup Parts(specFile)
      <4>1. cached' # None
        BY <2>1, <3>2, AbsentAssumption
      <4>2. cached' \notin {Empty, Garbled} =>
              cached'.otel \in {None, specFile.otel} /\ cached'.distrogen \in {None, specFile.distrogen}
        BY <2>1, <3>2
      <4> QED BY <1>1, <1>5, <4>1, <4>2 DEF KnownToolsFitStored, Fit
    <3> QED BY <1>7, <3>1, <3>2
  <2>5. KnownToolsAreCurrent'
    BY <1>1, <1>5 DEF KnownToolsAreCurrent
  <2>6. RunHasSpec' /\ OnlyProjectsStore' /\ KeptToolsAreCurrent' /\ ChangedToolsAreGone' /\ RegistryHeld'
    BY <1>1, <1>2, <1>7 DEF ProjectInv, RunHasSpec, OnlyProjectsStore, KeptToolsAreCurrent,
         ChangedToolsAreGone, RegistryHeld
  <2> QED BY <2>3, <2>4, <2>5, <2>6 DEF ProjectInv
<1>8. CASE CacheSpec
  BY <1>6, <1>7, <1>8 DEF CacheSpec, Finish, history
<1>9. CASE WriteSpec
  <2>1. /\ pc' = "idle" /\ run' = None /\ outcome' = "generated"
        /\ cached' \in {specFile, Empty, Garbled} \cup Parts(specFile)
    BY <1>2, <1>9 DEF WriteSpec, Finish
  <2> QED BY <1>7, <2>1
<1> QED BY <1>8, <1>9

(* Where a command fails in the middle of a write, the rest of what the    *)
(* file held is that of the command's spec or registry.                    *)
LEMMA FailKeeps == ProjectInv /\ Fail => ProjectInv'
<1> SUFFICES ASSUME ProjectInv, Fail PROVE ProjectInv'
  OBVIOUS
<1>1. /\ pc # "idle" /\ pc' = "idle" /\ run' = None /\ outcome' = "failed"
      /\ cutOff' = (cutOff \/ pc = "save")
      /\ UNCHANGED <<specFile, toolsKnown, registered>>
      /\ run \in Runs /\ run.spec = specFile /\ specFile \in SpecFiles
  BY DEF Fail, Finish, ProjectInv, TypeOK, RunHasSpec
<1>2. /\ tools' \in Tools /\ tools'.otel \in {None, tools.otel}
      /\ tools'.distrogen \in {None, tools.distrogen}
      /\ pc = "write" => tools' = tools
  BY DEF Fail, Fit, ProjectInv, TypeOK
<1>3. \/ cached' = cached
      \/ pc = "write" /\ cached' \in {Empty, Garbled}
      \/ /\ pc = "write" /\ cached' \in StoredSpecs
         /\ cached'.otel \in {None, specFile.otel}
         /\ cached'.distrogen \in {None, specFile.distrogen}
  BY <1>1, PartsHaveSameTools DEF Fail
<1>4. pc = "write" /\ toolsKnown => Fit(tools, specFile)
  <2>1. run.cleanTools \in BOOLEAN
    BY <1>1 DEF Runs
  <2> QED BY <1>1, <2>1 DEF ProjectInv, KeptToolsAreCurrent, ChangedToolsAreGone, OnlyProjectsStore
<1>5. /\ pc # "save" => registry' = registry
      /\ registry' = Garbled \/ registry' \subseteq Components
  BY <1>1 DEF Fail, ProjectInv, TypeOK, Runs
<1>6. TypeOK'
  BY <1>1, <1>2, <1>3, <1>5 DEF ProjectInv, TypeOK
<1>7. KnownToolsFitStored'
  <2>1. CASE cached' = cached
    BY <1>1, <1>2, <2>1 DEF ProjectInv, KnownToolsFitStored
  <2>2. CASE pc = "write" /\ cached' \in {Empty, Garbled}
    BY <1>1, <2>2, AbsentAssumption DEF KnownToolsFitStored
  <2>3. CASE /\ pc = "write" /\ cached' \in StoredSpecs
             /\ cached'.otel \in {None, specFile.otel}
             /\ cached'.distrogen \in {None, specFile.distrogen}
    <3>1. cached' # None
      BY <2>3, AbsentAssumption
    <3>2. tools' = tools
      BY <1>2, <2>3
    <3> QED BY <1>1, <1>4, <2>3, <3>1, <3>2 DEF KnownToolsFitStored, Fit
  <2> QED BY <1>3, <2>1, <2>2, <2>3
<1>8. RegistryHeld'
  BY <1>1, <1>5 DEF ProjectInv, RegistryHeld
<1>9. RunHasSpec' /\ OnlyProjectsStore' /\ KeptToolsAreCurrent' /\ ChangedToolsAreGone' /\ KnownToolsAreCurrent'
  BY <1>1 DEF RunHasSpec, OnlyProjectsStore, KeptToolsAreCurrent, ChangedToolsAreGone, KnownToolsAreCurrent
<1> QED BY <1>6, <1>7, <1>8, <1>9 DEF ProjectInv

LEMMA OtherStepsKeep == ProjectInv /\ (EditSpec \/ Render \/ Fail \/ UNCHANGED vars) => ProjectInv'
<1> SUFFICES ASSUME ProjectInv, EditSpec \/ Render \/ Fail \/ UNCHANGED vars PROVE ProjectInv'
  OBVIOUS
<1> USE DEF ProjectInv, TypeOK, RunHasSpec, OnlyProjectsStore, KnownToolsFitStored,
            KeptToolsAreCurrent, ChangedToolsAreGone, RegistryHeld, KnownToolsAreCurrent
<1>1. CASE EditSpec
  BY <1>1 DEF EditSpec, history
<1>2. CASE Render
  <2>1. UNCHANGED <<specFile, cached, registry, tools, toolsKnown, registered, cutOff>> /\ pc = "render"
    BY <1>2 DEF Render, history
  <2>2. CASE pc' = "idle" /\ run' = None /\ outcome' = "ok"
    BY <2>1, <2>2
  <2>3. CASE /\ run.command = "project" /\ UNCHANGED <<run, outcome>>
             /\ pc' = IF run.cleanTools THEN "clean" ELSE "cache"
    BY <2>1, <2>3
  <2> QED BY <1>2, <2>2, <2>3 DEF Render, Finish
<1>3. CASE Fail
  BY <1>3, FailKeeps
<1>4. CASE UNCHANGED vars
  BY <1>4 DEF vars, history
<1> QED BY <1>1, <1>2, <1>3, <1>4

LEMMA ProjectInvAlways == Spec => []ProjectInv
<1>1. ProjectInv /\ [Next]_vars => ProjectInv'
  <2> SUFFICES ASSUME ProjectInv, [Next]_vars PROVE ProjectInv'
    OBVIOUS
  <2>0. toolsKnown \in BOOLEAN
    BY DEF ProjectInv, TypeOK
  <2>1. CASE NewComponentGenerator
    <3>1. PICK c \in Components : Begin("component", c, FALSE, toolsKnown)
      BY <2>1 DEF NewComponentGenerator
    <3> QED BY <2>0, <3>1, BeginKeeps
  <2>2. CASE RegistryCommand
    BY <2>0, <2>2, BeginKeeps DEF RegistryCommand
  <2> QED BY <2>1, <2>2, NewProjectGeneratorKeeps, LoadRegistryKeeps, SaveKeeps, ToolsStepsKeep,
             StoreStepsKeep, OtherStepsKeep DEF Next
<1> QED BY <1>1, ProjectInitInv, PTL DEF Spec

(* For all versions and components: wherever commands are cut off and      *)
(* whatever users edit in between, every variable keeps its type, and a    *)
(* generator exists exactly while its command runs (project.go:66-152).    *)
THEOREM ProjectTypeCorrect == Spec => []TypeOK
<1>1. ProjectInv => TypeOK
  BY DEF ProjectInv
<1> QED BY <1>1, ProjectInvAlways, PTL

(* For all versions: after a project command, tools that fitted a stored   *)
(* spec fit the one at hand, wherever commands were cut off, unless one    *)
(* found a stored spec that it could not read (project.go:51-58, 133-149). *)
THEOREM ToolsStayCurrent == Spec => []KnownToolsAreCurrent
<1>1. ProjectInv => KnownToolsAreCurrent
  BY DEF ProjectInv
<1> QED BY <1>1, ProjectInvAlways, PTL

(* For all components: while no command was cut off between the truncation *)
(* of the registry and the write, what was added to it stays               *)
(* (component.go:90-110, registry.go:80-127).                              *)
THEOREM RegistryKeepsComponents == Spec => []ComponentsKept
<1>1. ProjectInv => ComponentsKept
  BY DEF ProjectInv, RegistryHeld, ComponentsKept
<1> QED BY <1>1, ProjectInvAlways, PTL

-----------------------------------------------------------------------------
(* What a bump with a well-formed version can only do: a later version     *)
(* that has an identifier (distribution.go:739-749).                       *)
LEMMA NextVersionIsLater ==
  ASSUME NEW v \in Versions, NEW id \in Identifiers
  PROVE  /\ NextVersion(v, id) \in Versions
         /\ NextVersion(v, id).id = id
         /\ Precedes(v, NextVersion(v, id))
<1>1. CASE v.id = id
  <2>1. NextVersion(v, id) = [v EXCEPT !.counter = v.counter + 1]
    BY <1>1 DEF NextVersion
  <2>2. v.id # NoIdentifier
    BY <1>1, HotfixAssumption
  <2> QED BY <1>1, <2>1, <2>2 DEF Versions, Precedes
<1>2. CASE v.id # id
  <2>1. NextVersion(v, id) = [v EXCEPT !.patch = v.patch + 1, !.id = id, !.counter = 0]
    BY <1>2 DEF NextVersion
  <2> DEFINE w == NextVersion(v, id)
  <2>2. w = [minor |-> v.minor, patch |-> v.patch + 1, id |-> id, counter |-> 0]
    BY <2>1 DEF Versions
  <2>3. w \in Versions /\ w.id = id
    BY <2>2 DEF Versions
  <2>4. v.minor = w.minor /\ v.patch < w.patch
    BY <2>2 DEF Versions
  <2> QED BY <2>3, <2>4 DEF Precedes
<1> QED BY <1>1, <1>2

(* The identifier of a bump is never missing (distribution.go:717-724).    *)
LEMMA ChosenIsIdentifier ==
  ASSUME NEW override \in Identifiers \cup {NoIdentifier}, identifier \in Identifiers \cup {NoIdentifier}
  PROVE  Chosen(override) \in Identifiers
BY HotfixAssumption DEF Chosen

(* Versions that have identifiers are ordered transitively.                *)
LEMMA PrecedesTransitive ==
  ASSUME NEW u \in Versions, NEW v \in Versions, NEW w \in Versions,
         v.id # NoIdentifier, w.id # NoIdentifier, Precedes(u, v), Precedes(v, w)
  PROVE  Precedes(u, w)
BY DEF Versions, Precedes

LEMMA PrecedesIrreflexive ==
  ASSUME NEW v \in Versions
  PROVE  ~ Precedes(v, v)
BY DEF Versions, Precedes

(* What bumps have issued lies before the version at hand, which has an    *)
(* identifier once there was a bump.                                       *)
IssuedBefore ==
  issued # {} =>
    /\ version \in Versions /\ version.id # NoIdentifier
    /\ \A v \in issued : v = version \/ Precedes(v, version)

HotfixInv == HotfixTypeOK /\ IssuedBefore

LEMMA BumpStep ==
  ASSUME HotfixInv, BumpHotfix
  PROVE  HotfixInv' /\ Precedes(version, version') /\ version' \notin issued
<1>1. version \in Versions
  BY DEF HotfixInv, HotfixTypeOK, BumpHotfix, Matches
<1>2. PICK override \in Identifiers \cup {NoIdentifier} :
        version' = NextVersion(version, Chosen(override))
  BY DEF BumpHotfix
<1>3. Chosen(override) \in Identifiers
  BY ChosenIsIdentifier DEF HotfixInv, HotfixTypeOK
<1>4. version' \in Versions /\ version'.id \in Identifiers /\ Precedes(version, version')
  BY <1>1, <1>2, <1>3, NextVersionIsLater
<1>5. version'.id # NoIdentifier
  BY <1>4, HotfixAssumption
<1>6. issued' = issued \cup {version'} /\ bumped' = TRUE /\ identifier' = identifier
  BY DEF BumpHotfix
<1>7. \A v \in issued : Precedes(v, version')
  <2> TAKE v \in issued
  <2>1. v \in Versions /\ version.id # NoIdentifier /\ (v = version \/ Precedes(v, version))
    BY DEF HotfixInv, HotfixTypeOK, IssuedBefore
  <2> QED BY <2>1, <1>1, <1>4, <1>5, PrecedesTransitive
<1>8. version' \notin issued
  BY <1>4, <1>7, PrecedesIrreflexive
<1>9. HotfixTypeOK'
  BY <1>4, <1>5, <1>6 DEF HotfixInv, HotfixTypeOK
<1>10. IssuedBefore'
  BY <1>4, <1>5, <1>6, <1>7 DEF IssuedBefore
<1> QED BY <1>4, <1>8, <1>9, <1>10 DEF HotfixInv

LEMMA SmallAreVersions == Small \subseteq Versions
BY HotfixAssumption DEF Small, Versions

LEMMA HotfixInitInv == HotfixInit => HotfixInv
BY SmallAreVersions DEF HotfixInit, HotfixInv, HotfixTypeOK, IssuedBefore

LEMMA HotfixNextInv == HotfixInv /\ [HotfixNext]_hotfixVars => HotfixInv'
<1> SUFFICES ASSUME HotfixInv, [HotfixNext]_hotfixVars PROVE HotfixInv'
  OBVIOUS
<1>1. CASE UpdateVersion
  BY <1>1, SmallAreVersions DEF HotfixInv, HotfixTypeOK, IssuedBefore, UpdateVersion
<1>2. CASE UpdateIdentifier
  BY <1>2 DEF HotfixInv, HotfixTypeOK, IssuedBefore, UpdateIdentifier
<1>3. CASE BumpHotfix
  BY <1>3, BumpStep
<1>4. CASE UNCHANGED hotfixVars
  BY <1>4 DEF HotfixInv, HotfixTypeOK, IssuedBefore, hotfixVars
<1> QED BY <1>1, <1>2, <1>3, <1>4 DEF HotfixNext

LEMMA HotfixInvAlways == HotfixSpec => []HotfixInv
BY HotfixInitInv, HotfixNextInv, PTL DEF HotfixSpec

(* For all identifiers every variable keeps its type: in particular a      *)
(* version that a bump wrote has an identifier (distribution.go:711-752).  *)
THEOREM VersionTypeCorrect == HotfixSpec => []HotfixTypeOK
<1>1. HotfixInv => HotfixTypeOK
  BY DEF HotfixInv
<1> QED BY <1>1, HotfixInvAlways, PTL

(* A step that leaves bumped TRUE and changes something is a bump.         *)
LEMMA OnlyBumps ==
  ASSUME [HotfixNext]_hotfixVars, bumped', ~ UNCHANGED hotfixVars
  PROVE  BumpHotfix
BY DEF HotfixNext, UpdateVersion, UpdateIdentifier, hotfixVars

(* For all identifiers, a bump gives a later version                       *)
(* (distribution.go:739-749).                                              *)
THEOREM BumpsIncrease == HotfixSpec => BumpIncreases
<1>1. HotfixInv /\ [HotfixNext]_hotfixVars => [bumped' => Precedes(version, version')]_hotfixVars
  BY OnlyBumps, BumpStep
<1> QED BY <1>1, HotfixInvAlways, PTL DEF HotfixSpec, BumpIncreases

(* However identifiers change, no bump gives a version twice               *)
(* (distribution.go:739-749).                                              *)
THEOREM BumpsNeverReissue == HotfixSpec => NeverReissued
<1>1. HotfixInv /\ [HotfixNext]_hotfixVars => [bumped' => version' \notin issued]_hotfixVars
  BY OnlyBumps, BumpStep
<1> QED BY <1>1, HotfixInvAlways, PTL DEF HotfixSpec, NeverReissued
=============================================================================
