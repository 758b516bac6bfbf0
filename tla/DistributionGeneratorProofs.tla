--------------------- MODULE DistributionGeneratorProofs ---------------------
(***************************************************************************)
(* Proofs about DistributionGenerator, for all specs, inputs and orders of *)
(* the files.                                                              *)
(***************************************************************************)
EXTENDS DistributionGenerator, TLAPS

(* A spec that was loaded always differs from one that was stored: the     *)
(* stored one lacks the fields that no file holds (distribution.go:109,    *)
(* 206, 217-221, 335).                                                     *)
LEMMA AlwaysDiff ==
  \A f, g : Diff(NewDistributionSpec(f), Unmarshal(g))
<1> TAKE f, g
<1>1. NewDistributionSpec(f).Path = "spec.yaml" /\ Unmarshal(g).Path = ""
  BY DEF NewDistributionSpec, Unmarshal
<1>2. "spec.yaml" # ""
  OBVIOUS
<1> QED BY <1>1, <1>2 DEF Diff

-----------------------------------------------------------------------------
(* While a generator runs it has the spec that is on disk.                 *)
RunOfSpec == run # None => run.spec = specFile /\ outcome = "none"

(* What is copied is as it should be.                                      *)
Copied ==
  /\ pc = "write" => ~ settled
  /\ pc \in {"copy", "write", "clean"} =>
    /\ left \subseteq Managed(specFile, inputs)
    /\ \A f \in Managed(specFile, inputs) \ left : files[f] = Content(f, specFile, inputs)

(* What was written was made for a spec and in a state of the inputs that  *)
(* make such a file.                                                       *)
MadeFor(f, content) ==
  content \notin {None, Empty, Garbled} /\ f # "spec.yaml" =>
    /\ content.spec \in SpecFiles
    /\ f = "Makefile" \/ f = content.spec.binary \/ f \in CustomOf[content.input]
Made == \A f \in Files : MadeFor(f, files[f])

(* No run ends with ErrNoDiff; one that ends well, or is settled, has all  *)
(* its files.                                                              *)
Complete ==
  /\ outcome # "nodiff"
  /\ outcome = "ok" \/ settled =>
       \A f \in Managed(specFile, inputs) : files[f] = Content(f, specFile, inputs)

(* Between copies that were not cut off, Makefile, stored spec and tools   *)
(* have the same versions.                                                 *)
Agreement ==
  pc \in {"idle", "render"} /\ interrupted = "no" =>
    \/ files["Makefile"] = None /\ files["spec.yaml"] = None /\ tools = None
    \/ /\ files["Makefile"] \notin {None, Empty, Garbled}
       /\ files["spec.yaml"] \notin {None, Empty, Garbled}
       /\ files["Makefile"].spec = files["spec.yaml"].spec
       /\ tools \in {None, ToolsFor(files["spec.yaml"].spec)}

(* A run that has to keeps in mind to remove the tools.                    *)
WillClean ==
  run # None /\ interrupted = "no" =>
    tools \in {None, ToolsFor(run.spec)} \/ run.cleanTools

Inv ==
  /\ TypeOK
  /\ RunOfSpec /\ Copied /\ Made /\ Complete /\ Agreement /\ WillClean
  /\ CompareAfterGenerate /\ ToolsOfSpec

USE DEF Managed

LEMMA StoredParts ==
  ASSUME NEW spec \in SpecFiles
  PROVE  spec \in StoredSpecs /\ Parts(spec) \subseteq StoredSpecs
BY DEF SpecFiles, StoredSpecs, Parts

LEMMA ContentType ==
  ASSUME NEW f \in Files, NEW spec \in SpecFiles, NEW input \in Inputs
  PROVE  /\ Content(f, spec, input) \in Contents
         /\ Content(f, spec, input) \notin {None, Empty, Garbled}
         /\ Content(f, spec, input).spec = spec
<1>1. Content(f, spec, input) \in Contents /\ Content(f, spec, input).spec = spec
  BY StoredParts DEF Content, Contents
<1> QED BY <1>1, GeneratorAssumption

LEMMA ManagedFiles ==
  ASSUME NEW spec \in SpecFiles, NEW input \in Inputs
  PROVE  /\ Managed(spec, input) \subseteq Files
         /\ "Makefile" \in Managed(spec, input) /\ "spec.yaml" \in Managed(spec, input)
BY GeneratorAssumption DEF SpecFiles, Files

LEMMA ContentMade ==
  ASSUME NEW spec \in SpecFiles, NEW input \in Inputs, NEW f \in Managed(spec, input)
  PROVE  MadeFor(f, Content(f, spec, input))
BY DEF MadeFor, Content

LEMMA InitInv == Init => Inv
<1> SUFFICES ASSUME Init PROVE Inv
  OBVIOUS
<1> USE DEF Init
<1>1. TypeOK
  <2>1. files \in [Files -> Contents \cup {None, Empty, Garbled}]
    OBVIOUS
  <2> QED BY <2>1 DEF TypeOK
<1>2. RunOfSpec /\ Copied /\ Made /\ Complete /\ WillClean /\ CompareAfterGenerate /\ ToolsOfSpec
  BY DEF RunOfSpec, Copied, Made, MadeFor, Complete, WillClean, CompareAfterGenerate, ToolsOfSpec
<1>3. Agreement
  BY DEF Agreement, Files
<1> QED BY <1>1, <1>2, <1>3 DEF Inv

(* An edit of the spec or of the other inputs.                             *)
LEMMA EditStep ==
  ASSUME Inv, EditSpec \/ EditInputs
  PROVE  Inv'
<1>1. /\ pc = "idle" /\ pc' = pc /\ run' = run /\ left' = left
      /\ files' = files /\ tools' = tools
      /\ outcome' = "none" /\ settled' = FALSE
      /\ specFile' \in SpecFiles /\ inputs' \in Inputs
      /\ interrupted' \in {"no", "yes"}
      /\ interrupted' = "no" => interrupted = "no"
  BY DEF EditSpec, EditInputs, Inv, TypeOK
<1>2. run = None
  BY <1>1 DEF Inv, TypeOK
<1>3. TypeOK'
  BY <1>1 DEF Inv, TypeOK
<1>4. RunOfSpec' /\ Copied' /\ Made' /\ Complete' /\ WillClean' /\ CompareAfterGenerate' /\ ToolsOfSpec'
  BY <1>1, <1>2 DEF Inv, RunOfSpec, Copied, Made, Complete, WillClean, CompareAfterGenerate, ToolsOfSpec
<1>5. Agreement'
  BY <1>1 DEF Inv, Agreement
<1> QED BY <1>3, <1>4, <1>5 DEF Inv

LEMMA InstallStep ==
  ASSUME Inv, InstallTools
  PROVE  Inv'
<1> USE DEF InstallTools, userVars, runVars
<1>0. /\ "Makefile" \in Files /\ specFile \in SpecFiles /\ inputs \in Inputs
      /\ files["Makefile"].spec \in SpecFiles
  BY DEF Inv, TypeOK, Files, Made, MadeFor
<1>1. tools' \in Tools
  BY <1>0 DEF SpecFiles, Tools, ToolsFor
<1>2. TypeOK'
  BY <1>1 DEF Inv, TypeOK
<1>3. run = None
  BY DEF Inv, TypeOK
<1>4. RunOfSpec' /\ Copied' /\ Made' /\ Complete' /\ WillClean' /\ CompareAfterGenerate'
  BY <1>3 DEF Inv, RunOfSpec, Copied, Made, Complete, WillClean, CompareAfterGenerate
<1>5. Agreement'
  BY DEF Inv, Agreement
<1>6. ToolsOfSpec'
  <2> SUFFICES ASSUME outcome = "ok", interrupted = "no" PROVE tools' = ToolsFor(specFile)
    BY DEF ToolsOfSpec
  <2>1. files["Makefile"] = Content("Makefile", specFile, inputs)
    BY DEF Inv, Complete
  <2> QED BY <1>0, <2>1, ContentType DEF Inv, TypeOK
<1> QED BY <1>2, <1>4, <1>5, <1>6 DEF Inv

(* The two ways in which NewDistributionGenerator can end: the third,      *)
(* ErrNoDiff, is excluded by AlwaysDiff.                                   *)
LEMMA NewStep ==
  ASSUME Inv, NewDistributionGenerator
  PROVE  Inv'
<1> USE DEF userVars
<1>0. /\ pc = "idle" /\ run = None /\ left = {}
      /\ UNCHANGED <<specFile, inputs, files, tools, settled, interrupted>>
  BY DEF NewDistributionGenerator, Inv, TypeOK
<1>1. CASE Finish("rejected")
  <2>1. TypeOK'
    BY <1>0, <1>1 DEF Inv, TypeOK, Finish
  <2>2. RunOfSpec' /\ Copied' /\ Made' /\ Complete' /\ WillClean' /\ CompareAfterGenerate' /\ ToolsOfSpec'
    BY <1>0, <1>1 DEF Inv, RunOfSpec, Copied, Made, Complete, WillClean, CompareAfterGenerate,
                      ToolsOfSpec, Finish
  <2>3. Agreement'
    BY <1>0, <1>1 DEF Inv, Agreement, Finish
  <2> QED BY <2>1, <2>2, <2>3 DEF Inv
<1>2. CASE /\ pc' = "render" /\ outcome' = "none" /\ left' = left
           /\ \E compare, templates \in BOOLEAN :
                run' = [spec       |-> specFile,
                        compare    |-> compare,
                        templates  |-> templates,
                        cleanTools |-> CachedSpecExists
                                         /\ DetectDistributionToolChange(
                                              NewDistributionSpec(specFile), ReadCachedSpec)]
  <2>1. /\ run' \in Runs /\ run'.spec = specFile
        /\ run'.cleanTools = (CachedSpecExists
                                /\ DetectDistributionToolChange(
                                     NewDistributionSpec(specFile), ReadCachedSpec))
    <3>1. specFile \in SpecFiles
      BY DEF Inv, TypeOK
    <3>2. DetectDistributionToolChange(NewDistributionSpec(specFile), ReadCachedSpec) \in BOOLEAN
      BY DEF DetectDistributionToolChange
    <3> QED BY <1>2, <3>1, <3>2 DEF Runs, CachedSpecExists
  <2>2. run' # None
    BY <2>1, GeneratorAssumption
  <2>3. TypeOK'
    BY <1>0, <1>2, <2>1, <2>2 DEF Inv, TypeOK
  <2>4. RunOfSpec' /\ Copied' /\ Made' /\ Complete' /\ CompareAfterGenerate' /\ ToolsOfSpec'
    BY <1>0, <1>2, <2>1 DEF Inv, RunOfSpec, Copied, Made, Complete, CompareAfterGenerate, ToolsOfSpec
  <2>5. Agreement'
    BY <1>0, <1>2 DEF Inv, Agreement
  <2>6. WillClean'
    <3> SUFFICES ASSUME interrupted = "no", tools # None, ~ run'.cleanTools
                 PROVE  tools = ToolsFor(run'.spec)
      BY <1>0 DEF WillClean
    <3>1. /\ files["spec.yaml"] \notin {None, Empty, Garbled}
          /\ tools = ToolsFor(files["spec.yaml"].spec)
      BY <1>0 DEF Inv, Agreement
    <3>2. /\ CachedSpecExists
          /\ ReadCachedSpec = Unmarshal(files["spec.yaml"].spec)
      BY <3>1 DEF CachedSpecExists, ReadCachedSpec
    <3>3. ~ DetectDistributionToolChange(NewDistributionSpec(specFile),
                                         Unmarshal(files["spec.yaml"].spec))
      BY <2>1, <3>2
    <3>4. /\ specFile.otel = files["spec.yaml"].spec.otel
          /\ specFile.go = files["spec.yaml"].spec.go
      BY <3>3, AlwaysDiff DEF DetectDistributionToolChange, NewDistributionSpec, Unmarshal
    <3> QED BY <2>1, <3>1, <3>4 DEF ToolsFor
  <2> QED BY <2>3, <2>4, <2>5, <2>6 DEF Inv
<1>3. CachedSpecExists => Diff(NewDistributionSpec(specFile), ReadCachedSpec)
  BY AlwaysDiff DEF ReadCachedSpec
<1>4. PICK force, compare, templates \in BOOLEAN :
        \/ Finish("rejected")
        \/ /\ ~ force /\ CachedSpecExists
           /\ ~ Diff(NewDistributionSpec(specFile), ReadCachedSpec)
        \/ /\ run' = [spec       |-> specFile,
                       compare    |-> compare,
                       templates  |-> templates,
                       cleanTools |-> CachedSpecExists
                                        /\ DetectDistributionToolChange(
                                             NewDistributionSpec(specFile), ReadCachedSpec)]
           /\ pc' = "render" /\ outcome' = "none" /\ left' = left
  BY Zenon DEF NewDistributionGenerator
<1> QED BY <1>1, <1>2, <1>3, <1>4, Zenon

LEMMA GenerateStep ==
  ASSUME Inv, Generate
  PROVE  Inv'
<1> USE DEF userVars
<1>0. /\ pc = "render" /\ run # None /\ run \in Runs /\ run.spec = specFile
      /\ specFile \in SpecFiles /\ inputs \in Inputs
      /\ UNCHANGED <<specFile, inputs, files, tools, settled, interrupted>>
  BY DEF Generate, Inv, TypeOK, RunOfSpec
<1>1. ASSUME NEW o \in {"rejected", "same", "differs"}, Finish(o),
             o = "differs" => ~ SameFiles(run.spec)
      PROVE  Inv'
  <2>1. TypeOK'
    BY <1>0, <1>1 DEF Inv, TypeOK, Finish
  <2>2. RunOfSpec' /\ Copied' /\ Made' /\ Complete' /\ WillClean' /\ ToolsOfSpec'
    BY <1>0, <1>1 DEF Inv, RunOfSpec, Copied, Made, Complete, WillClean, ToolsOfSpec, Finish
  <2>3. Agreement'
    BY <1>0, <1>1 DEF Inv, Agreement, Finish
  <2>4. CompareAfterGenerate'
    <3> SUFFICES ASSUME settled, outcome' = "differs"
                 PROVE  \E f \in Files \ Managed(specFile, inputs) :
                          /\ files[f] # None
                          /\ files[f] \notin {Empty, Garbled} =>
                               f = files[f].spec.binary \/ f \in CustomOf[files[f].input]
      BY <1>0 DEF CompareAfterGenerate
    <3>1. \A f \in Managed(specFile, inputs) : files[f] = Content(f, specFile, inputs)
      BY DEF Inv, Complete
    <3>2. ~ SameFiles(specFile)
      BY <1>0, <1>1 DEF Finish
    <3>3. PICK f \in Files \ Managed(specFile, inputs) : files[f] # None
      BY <3>1, <3>2, Zenon DEF SameFiles
    <3>4. f # "Makefile" /\ f # "spec.yaml"
      BY <1>0, ManagedFiles
    <3>5. files[f] \notin {Empty, Garbled} =>
            f = files[f].spec.binary \/ f \in CustomOf[files[f].input]
      BY <3>3, <3>4 DEF Inv, Made, MadeFor
    <3> QED BY <3>3, <3>5
  <2> QED BY <2>1, <2>2, <2>3, <2>4 DEF Inv
<1>2. CASE /\ pc' = "copy" /\ left' = Managed(run.spec, inputs)
           /\ run' = run /\ outcome' = outcome
  <2>1. Managed(specFile, inputs) \subseteq Files /\ Managed(specFile, inputs) # {}
    BY <1>0, ManagedFiles
  <2>2. TypeOK'
    BY <1>0, <1>2, <2>1 DEF Inv, TypeOK
  <2>3. /\ RunOfSpec' /\ Copied' /\ Made' /\ Complete' /\ Agreement' /\ WillClean'
        /\ CompareAfterGenerate' /\ ToolsOfSpec'
    BY <1>0, <1>2 DEF Inv, RunOfSpec, Copied, Made, Complete, Agreement, WillClean,
                      CompareAfterGenerate, ToolsOfSpec
  <2> QED BY <2>2, <2>3 DEF Inv
<1> QED BY <1>1, <1>2 DEF Generate

LEMMA OpenStep ==
  ASSUME Inv, OpenFile
  PROVE  Inv'
<1> USE DEF userVars
<1>0. /\ pc = "copy" /\ pc' = "write" /\ settled' = FALSE
      /\ UNCHANGED <<specFile, inputs, tools, run, left, outcome, interrupted>>
  BY DEF OpenFile
<1>s. specFile \in SpecFiles /\ inputs \in Inputs
  BY DEF Inv, TypeOK
<1>1. PICK f \in Files : f \in left /\ files' = [files EXCEPT ![f] = Empty]
  BY DEF OpenFile, First
<1>2. TypeOK'
  BY <1>0, <1>1 DEF Inv, TypeOK
<1>3. Copied'
  <2>1. left \subseteq Managed(specFile, inputs)
    BY <1>0 DEF Inv, Copied
  <2>2. ASSUME NEW g \in Managed(specFile, inputs) \ left
        PROVE  files'[g] = Content(g, specFile, inputs)
    <3>1. g \in Files /\ g # f /\ files[g] = Content(g, specFile, inputs)
      BY <1>0, <1>s, <1>1, ManagedFiles DEF Inv, Copied
    <3> QED BY <1>1, <3>1 DEF Inv, TypeOK
  <2> QED BY <1>0, <2>1, <2>2 DEF Copied
<1>m. Made'
  <2> SUFFICES ASSUME NEW g \in Files PROVE MadeFor(g, files'[g])
    BY DEF Made
  <2>1. files'[g] = Empty \/ files'[g] = files[g]
    BY <1>1 DEF Inv, TypeOK
  <2> QED BY <2>1 DEF Inv, Made, MadeFor
<1>4. /\ RunOfSpec' /\ Complete' /\ Agreement' /\ WillClean'
      /\ CompareAfterGenerate' /\ ToolsOfSpec'
  <2>1. run # None /\ outcome = "none"
    BY <1>0 DEF Inv, TypeOK, RunOfSpec
  <2> QED BY <1>0, <2>1 DEF Inv, RunOfSpec, Complete, Agreement, WillClean,
                            CompareAfterGenerate, ToolsOfSpec
<1> QED BY <1>2, <1>3, <1>m, <1>4 DEF Inv

(* The last file may end the run, or leave the tools to be removed.        *)
LEMMA WriteStep ==
  ASSUME Inv, WriteFile
  PROVE  Inv'
<1> USE DEF userVars
<1>0. /\ pc = "write" /\ run # None /\ run \in Runs /\ run.spec = specFile
      /\ outcome = "none" /\ specFile \in SpecFiles /\ inputs \in Inputs
      /\ UNCHANGED <<specFile, inputs, tools, interrupted>>
  BY DEF WriteFile, Inv, TypeOK, RunOfSpec
<1>1. PICK f \in Files :
        /\ f \in left
        /\ files' = [files EXCEPT ![f] = Content(f, specFile, inputs)]
        /\ \/ /\ left # {f} /\ pc' = "copy" /\ left' = left \ {f}
              /\ UNCHANGED <<run, outcome, settled>>
           \/ /\ left = {f} /\ pc' = "clean" /\ left' = {}
              /\ UNCHANGED <<run, outcome, settled>>
           \/ /\ left = {f} /\ ~ run.cleanTools
              /\ pc' = "idle" /\ run' = None /\ left' = {} /\ outcome' = "ok"
              /\ settled' = TRUE
  BY <1>0 DEF WriteFile, First, Finish
<1>2. TypeOK'
  <2>1. files' \in [Files -> Contents \cup {None, Empty, Garbled}]
    BY <1>0, <1>1, ContentType DEF Inv, TypeOK
  <2> QED BY <1>0, <1>1, <2>1 DEF Inv, TypeOK
<1>3. /\ left' = left \ {f} /\ left \subseteq Managed(specFile, inputs)
      /\ \A g \in Managed(specFile, inputs) \ left' : files'[g] = Content(g, specFile, inputs)
  <2>1. left' = left \ {f} /\ left \subseteq Managed(specFile, inputs)
    BY <1>0, <1>1 DEF Inv, Copied
  <2>2. ASSUME NEW g \in Managed(specFile, inputs) \ left'
        PROVE  files'[g] = Content(g, specFile, inputs)
    <3>1. g \in Files /\ (g = f \/ files[g] = Content(g, specFile, inputs))
      BY <1>0, <2>1, ManagedFiles DEF Inv, Copied
    <3> QED BY <1>1, <3>1 DEF Inv, TypeOK
  <2> QED BY <2>1, <2>2
<1>4. Copied'
  BY <1>0, <1>1, <1>3 DEF Copied
<1>m. Made'
  <2> SUFFICES ASSUME NEW g \in Files PROVE MadeFor(g, files'[g])
    BY DEF Made
  <2>1. (g = f /\ files'[g] = Content(f, specFile, inputs)) \/ files'[g] = files[g]
    BY <1>1 DEF Inv, TypeOK
  <2>2. f \in Managed(specFile, inputs)
    BY <1>1, <1>3
  <2>3. MadeFor(f, Content(f, specFile, inputs))
    BY <1>0, <2>2, ContentMade
  <2>4. MadeFor(g, files[g])
    BY DEF Inv, Made
  <2> QED BY <2>1, <2>3, <2>4
<1>5. Complete'
  <2>1. ASSUME settled, NEW g \in Managed(specFile, inputs)
        PROVE  files'[g] = Content(g, specFile, inputs)
    <3>1. g \in Files /\ files[g] = Content(g, specFile, inputs)
      BY <1>0, <2>1, ManagedFiles DEF Inv, Complete
    <3> QED BY <1>1, <3>1 DEF Inv, TypeOK
  <2>2. CASE left' # {}
    <3>1. settled' = settled /\ outcome' = "none"
      BY <1>0, <1>1, <2>2
    <3> QED BY <1>0, <2>1, <3>1 DEF Complete
  <2>3. CASE left' = {}
    <3>1. outcome' # "nodiff"
      BY <1>0, <1>1
    <3> QED BY <1>0, <1>3, <2>3, <3>1 DEF Complete
  <2> QED BY <2>2, <2>3
<1>6. RunOfSpec' /\ WillClean' /\ CompareAfterGenerate'
  BY <1>0, <1>1 DEF Inv, RunOfSpec, WillClean, CompareAfterGenerate
<1>7. pc' = "idle" /\ interrupted = "no" => tools \in {None, ToolsFor(specFile)}
  BY <1>0, <1>1 DEF Inv, WillClean
<1>8. ToolsOfSpec'
  BY <1>0, <1>1, <1>7 DEF ToolsOfSpec
<1>9. Agreement'
  <2> SUFFICES ASSUME pc' = "idle", interrupted = "no" PROVE Agreement'
    BY <1>0, <1>1 DEF Agreement
  <2>1. \A g \in Managed(specFile, inputs) : files'[g] = Content(g, specFile, inputs)
    BY <1>1, <1>3
  <2>2. \A g \in {"Makefile", "spec.yaml"} :
          files'[g] \notin {None, Empty, Garbled} /\ files'[g].spec = specFile
    BY <1>0, <2>1, ManagedFiles, ContentType
  <2> QED BY <1>0, <1>7, <2>2 DEF Agreement
<1> QED BY <1>2, <1>4, <1>m, <1>5, <1>6, <1>8, <1>9 DEF Inv

LEMMA RemoveStep ==
  ASSUME Inv, RemoveTools
  PROVE  Inv'
<1> USE DEF userVars
<1>0. /\ pc = "clean" /\ pc' = "idle" /\ run' = None /\ left' = {} /\ outcome' = "ok"
      /\ tools' = None /\ interrupted' = "no" /\ settled' = TRUE
      /\ UNCHANGED <<specFile, inputs, files>>
  BY DEF RemoveTools, Finish
<1>1. left = {} /\ specFile \in SpecFiles /\ inputs \in Inputs
  BY <1>0 DEF Inv, TypeOK
<1>2. \A g \in Managed(specFile, inputs) : files[g] = Content(g, specFile, inputs)
  BY <1>0, <1>1 DEF Inv, Copied
<1>3. TypeOK'
  BY <1>0 DEF Inv, TypeOK
<1>4. RunOfSpec' /\ Copied' /\ Made' /\ Complete' /\ WillClean' /\ CompareAfterGenerate' /\ ToolsOfSpec'
  BY <1>0, <1>2 DEF Inv, RunOfSpec, Copied, Made, Complete, WillClean, CompareAfterGenerate, ToolsOfSpec
<1>5. Agreement'
  <2>1. \A g \in {"Makefile", "spec.yaml"} :
          files[g] \notin {None, Empty, Garbled} /\ files[g].spec = specFile
    BY <1>1, <1>2, ManagedFiles, ContentType
  <2> QED BY <1>0, <2>1 DEF Agreement
<1> QED BY <1>3, <1>4, <1>5 DEF Inv

(* What a run that is cut off leaves, from the copy on, is no longer       *)
(* assumed to agree: interrupted says so.                                  *)
LEMMA FailStep ==
  ASSUME Inv, Fail
  PROVE  Inv'
<1> USE DEF userVars
<1>0. /\ pc' = "idle" /\ run' = None /\ left' = {} /\ outcome' = "failed"
      /\ UNCHANGED <<specFile, inputs, tools, settled>>
      /\ interrupted' \in {"no", "yes"}
      /\ interrupted' = "no" => interrupted = "no" /\ pc = "render"
  BY DEF Fail, Finish, Inv, TypeOK
<1>1. \/ files' = files
      \/ /\ pc = "write" /\ interrupted' = "yes" /\ ~ settled
         /\ \E f \in Files, part \in {Garbled} \cup [spec : StoredSpecs, input : {None}] :
              /\ files' = [files EXCEPT ![f] = part]
              /\ part = Garbled \/ f = "spec.yaml"
  <2> SUFFICES ASSUME files' # files
               PROVE  /\ pc = "write" /\ interrupted' = "yes" /\ ~ settled
                      /\ \E f \in Files, part \in {Garbled} \cup [spec : StoredSpecs, input : {None}] :
                           /\ files' = [files EXCEPT ![f] = part]
                           /\ part = Garbled \/ f = "spec.yaml"
    OBVIOUS
  <2>1. /\ pc = "write"
        /\ \E f \in Files : \E part \in PartlyWritten(f, run.spec) :
             files' = [files EXCEPT ![f] = part]
    BY DEF Fail
  <2>2. interrupted' = "yes" /\ ~ settled
    BY <2>1 DEF Fail, Inv, Copied
  <2>3. run.spec \in SpecFiles
    BY <2>1 DEF Inv, TypeOK, RunOfSpec
  <2>4. PICK f \in Files : \E part \in PartlyWritten(f, run.spec) :
          files' = [files EXCEPT ![f] = part]
    BY <2>1
  <2>p. PICK part \in PartlyWritten(f, run.spec) : files' = [files EXCEPT ![f] = part]
    BY <2>4
  <2>5. /\ part \in {Garbled} \cup [spec : StoredSpecs, input : {None}]
        /\ part = Garbled \/ f = "spec.yaml"
    BY <2>3, StoredParts DEF PartlyWritten
  <2> QED BY <2>1, <2>2, <2>p, <2>5
<1>2. files' \in [Files -> Contents \cup {None, Empty, Garbled}]
  BY <1>1 DEF Inv, TypeOK, Contents
<1>3. TypeOK'
  BY <1>0, <1>2 DEF Inv, TypeOK
<1>4. RunOfSpec' /\ Copied' /\ WillClean' /\ CompareAfterGenerate' /\ ToolsOfSpec'
  BY <1>0 DEF Inv, RunOfSpec, Copied, WillClean, CompareAfterGenerate, ToolsOfSpec
<1>5. Made'
  <2> SUFFICES ASSUME NEW g \in Files PROVE MadeFor(g, files'[g])
    BY DEF Made
  <2>1. \/ files'[g] = Garbled \/ g = "spec.yaml" \/ files'[g] = files[g]
    BY <1>1 DEF Inv, TypeOK
  <2> QED BY <2>1 DEF Inv, Made, MadeFor
<1>6. Complete'
  BY <1>0, <1>1 DEF Inv, Complete
<1>7. Agreement'
  BY <1>0, <1>1 DEF Inv, Agreement
<1> QED BY <1>3, <1>4, <1>5, <1>6, <1>7 DEF Inv

LEMMA NextInv == Inv /\ [Next]_vars => Inv'
<1> SUFFICES ASSUME Inv, [Next]_vars PROVE Inv'
  OBVIOUS
<1>1. CASE Next
  BY <1>1, EditStep, InstallStep, NewStep, GenerateStep, OpenStep, WriteStep, RemoveStep,
     FailStep, Zenon DEF Next
<1>2. CASE UNCHANGED vars
  BY <1>2 DEF Inv, TypeOK, RunOfSpec, Copied, Made, Complete, Agreement, WillClean,
              CompareAfterGenerate, ToolsOfSpec, vars, userVars, runVars
<1> QED BY <1>1, <1>2

LEMMA InvAlways == Spec => []Inv
BY InitInv, NextInv, PTL DEF Spec

-----------------------------------------------------------------------------
(* Type correctness of the generator, whatever users and failures do       *)
(* between its steps (distribution.go:255-364).                            *)
THEOREM TypeCorrect == Spec => []TypeOK
<1>1. Inv => TypeOK
  BY DEF Inv
<1> QED BY <1>1, InvAlways, PTL

(* generate reports success only over a complete distribution of the spec, *)
(* whatever runs that were cut off left behind (distribution.go:271-279,   *)
(* 341-364).                                                               *)
THEOREM SuccessGenerates == Spec => []SuccessMeansGenerated
<1>1. Inv => SuccessMeansGenerated
  BY DEF Inv, Complete, SuccessMeansGenerated
<1> QED BY <1>1, InvAlways, PTL

(* What a comparison reports after a generation is only what another name  *)
(* of the binary, or a custom template that is gone, left                  *)
(* (distribution.go:302-313, 376-448).                                     *)
THEOREM CompareFindsLeftovers == Spec => []CompareAfterGenerate
<1>1. Inv => CompareAfterGenerate
  BY DEF Inv
<1> QED BY <1>1, InvAlways, PTL

(* Installed tools follow the spec as long as no copy is cut off           *)
(* (distribution.go:278, 354-361).                                         *)
THEOREM ToolsMatchSpec == Spec => []ToolsOfSpec
<1>1. Inv => ToolsOfSpec
  BY DEF Inv
<1> QED BY <1>1, InvAlways, PTL
=============================================================================
