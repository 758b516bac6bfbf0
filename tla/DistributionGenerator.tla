------------------------ MODULE DistributionGenerator ------------------------
(***************************************************************************)
(* distrogen generate (main.go:154-194, distribution.go): a distribution   *)
(* is rendered in a temporary directory and then copied, file by file,     *)
(* over the one that exists; the spec it was made from is one of the files.*)
(* A run may fail or be killed anywhere.  Between runs users edit the spec *)
(* and the other inputs, and make installs tools.                          *)
(***************************************************************************)
EXTENDS DistributionSpec, Naturals

CONSTANTS
  Inputs,    \* states of registries and templates
  Broken,    \* one of them: an unknown component, or a template in error
  Customs,   \* names of files that only custom templates make
  CustomOf,  \* the files for which a state of the inputs has custom templates
  Rank       \* the order in which WalkDir visits the files

Files == {"Makefile", "spec.yaml"} \cup Binaries \cup Customs

(* The files of a distribution: the systemd unit is named after the binary,*)
(* and custom templates are merged with the embedded ones.                 *)
Managed(spec, input) == {"Makefile", "spec.yaml", spec.binary} \cup CustomOf[input]

(* What a file holds depends on the spec and, the stored spec apart, on    *)
(* the other inputs.                                                       *)
Content(f, spec, input) == [spec |-> spec, input |-> IF f = "spec.yaml" THEN None ELSE input]
Contents == [spec : StoredSpecs, input : Inputs \cup {None}]

(* What a file may hold when its write is cut off.                         *)
PartlyWritten(f, spec) ==
  {Garbled} \cup {[spec |-> part, input |-> None] : part \in IF f = "spec.yaml" THEN Parts(spec) ELSE {}}

Tools == [otel : OTelVersions, go : GoVersions]
ToolsFor(spec) == [otel |-> spec.otel, go |-> spec.go]
Runs ==
  [spec : SpecFiles, compare : BOOLEAN, templates : BOOLEAN, cleanTools : BOOLEAN]

ASSUME GeneratorAssumption ==
  /\ Broken \in Inputs
  /\ CustomOf \in [Inputs -> SUBSET Files]
  /\ None \notin {Empty, Garbled} /\ {None, Empty, Garbled} \cap Contents = {}
  /\ None \notin Runs
  /\ Rank \in [Files -> Nat]
  /\ \A f, g \in Files : Rank[f] = Rank[g] => f = g

VARIABLES
  specFile,     \* the spec given with --spec
  inputs,       \* registries and templates
  files,        \* the directory of the distribution
  tools,        \* its directory .tools
  pc,           \* where generate is; "idle" between runs
  run,          \* the generator of this run
  left,         \* files that are not copied yet
  outcome,      \* how the last run ended; "none" after an edit or a start
  settled,      \* history: generated, and nothing edited since
  interrupted   \* history: since the tools were last removed a copy was cut
                \* off ("yes")

userVars == <<specFile, inputs>>
runVars  == <<pc, run, left, outcome>>
vars == <<userVars, files, tools, runVars, settled, interrupted>>

Init ==
  /\ specFile \in SpecFiles
  /\ inputs \in Inputs
  /\ files = [f \in Files |-> None]
  /\ tools = None
  /\ pc = "idle"
  /\ run = None
  /\ left = {}
  /\ outcome = "none"
  /\ settled = FALSE
  /\ interrupted = "no"

-----------------------------------------------------------------------------
EditSpec ==
  /\ pc = "idle"
  /\ specFile' \in SpecFiles \ {specFile}
  /\ outcome' = "none"
  /\ settled' = FALSE
  /\ UNCHANGED <<inputs, files, tools, pc, run, left, interrupted>>

EditInputs ==
  /\ pc = "idle"
  /\ inputs' \in Inputs \ {inputs}
  /\ outcome' = "none"
  /\ settled' = FALSE
  /\ UNCHANGED <<specFile, files, tools, pc, run, left, interrupted>>

(* make install-tools: the versions are those of the Makefile, and a tool  *)
(* that is there is not installed again.                                   *)
InstallTools ==
  /\ pc = "idle"
  /\ tools = None
  /\ files["Makefile"] \notin {None, Empty, Garbled}
  /\ tools' = ToolsFor(files["Makefile"].spec)
  /\ UNCHANGED <<userVars, files, runVars, settled, interrupted>>

-----------------------------------------------------------------------------
Finish(o) ==
  /\ pc' = "idle"
  /\ run' = None
  /\ left' = {}
  /\ outcome' = o

CachedSpecExists == files["spec.yaml"] # None
ReadCachedSpec ==
  Unmarshal(IF files["spec.yaml"] = Empty THEN EmptySpec ELSE files["spec.yaml"].spec)

(* NewDistributionGenerator, for the flags of the command: it stops when   *)
(* there is a stored spec that cannot be read, even if forced, or one that *)
(* shows no difference, unless forced.                                     *)
NewDistributionGenerator ==
  /\ pc = "idle"
  /\ \E force, compare, templates \in BOOLEAN :
       LET spec == NewDistributionSpec(specFile)
       IN \/ (~ specFile.valid \/ files["spec.yaml"] = Garbled) /\ Finish("rejected")
          \/ /\ specFile.valid /\ files["spec.yaml"] # Garbled
             /\ ~ force /\ CachedSpecExists /\ ~ Diff(spec, ReadCachedSpec)
             /\ Finish("nodiff")
          \/ /\ specFile.valid /\ files["spec.yaml"] # Garbled
             /\ CachedSpecExists => force \/ Diff(spec, ReadCachedSpec)
             /\ run' = [spec       |-> specFile,
                        compare    |-> compare,
                        templates  |-> templates,
                        cleanTools |-> CachedSpecExists
                                         /\ DetectDistributionToolChange(spec, ReadCachedSpec)]
             /\ pc' = "render"
             /\ outcome' = "none"
             /\ UNCHANGED left
  /\ UNCHANGED <<userVars, files, tools, settled, interrupted>>

(* A slip for the mutation runs: tools are compared too.                   *)
SameFilesAndTools(spec) ==
  /\ tools = None
  /\ \A f \in Managed(spec, inputs) : files[f] = Content(f, spec, inputs)
  /\ \A f \in Files \ Managed(spec, inputs) : files[f] = None

(* Compare: every file is there, as it would be generated, and no other.   *)
SameFiles(spec) ==
  /\ \A f \in Managed(spec, inputs) : files[f] = Content(f, spec, inputs)
  /\ \A f \in Files \ Managed(spec, inputs) : files[f] = None

(* Generate into the temporary directory.  Without --templates the custom  *)
(* templates are those of os.DirFS(""), which cannot be walked.            *)
Generate ==
  /\ pc = "render"
  /\ \/ (inputs = Broken \/ ~ run.templates) /\ Finish("rejected")
     \/ /\ inputs # Broken /\ run.templates /\ run.compare
        /\ Finish(IF SameFiles(run.spec) THEN "same" ELSE "differs")
     \/ /\ inputs # Broken /\ run.templates /\ ~ run.compare
        /\ pc' = "copy"
        /\ left' = Managed(run.spec, inputs)
        /\ UNCHANGED <<run, outcome>>
  /\ UNCHANGED <<userVars, files, tools, settled, interrupted>>

-----------------------------------------------------------------------------
(* copyDir, one file at a time: opened, which truncates it, then written.  *)
First(f) == f \in left /\ \A g \in left : Rank[f] <= Rank[g]

OpenFile ==
  /\ pc = "copy"
  /\ \E f \in Files : First(f) /\ files' = [files EXCEPT ![f] = Empty]
  /\ pc' = "write"
  /\ settled' = FALSE
  /\ UNCHANGED <<userVars, tools, run, left, outcome, interrupted>>

WriteFile ==
  /\ pc = "write"
  /\ \E f \in Files :
       /\ First(f)
       /\ files' = [files EXCEPT ![f] = Content(f, run.spec, inputs)]
       /\ \/ /\ left # {f}
             /\ pc' = "copy" /\ left' = left \ {f}
             /\ UNCHANGED <<run, outcome, settled>>
          \/ /\ left = {f} /\ run.cleanTools
             /\ pc' = "clean" /\ left' = {}
             /\ UNCHANGED <<run, outcome, settled>>
          \/ /\ left = {f} /\ ~ run.cleanTools
             /\ Finish("ok")
             /\ settled' = TRUE
  /\ UNCHANGED <<userVars, tools, interrupted>>

RemoveTools ==
  /\ pc = "clean"
  /\ tools' = None
  /\ interrupted' = "no"
  /\ settled' = TRUE
  /\ Finish("ok")
  /\ UNCHANGED <<userVars, files>>

(* An error of the file system, or the end of the process, perhaps in the  *)
(* middle of a write: nothing is undone.                                   *)
Fail ==
  /\ pc # "idle"
  /\ Finish("failed")
  /\ \/ UNCHANGED files
     \/ /\ pc = "write"
        /\ \E f \in Files : First(f) /\ \E part \in PartlyWritten(f, run.spec) :
             files' = [files EXCEPT ![f] = part]
  /\ interrupted' = IF pc # "render" THEN "yes" ELSE interrupted
  /\ UNCHANGED <<userVars, tools, settled>>

Next ==
  \/ EditSpec \/ EditInputs \/ InstallTools
  \/ NewDistributionGenerator \/ Generate \/ OpenFile \/ WriteFile \/ RemoveTools
  \/ Fail

Spec == Init /\ [][Next]_vars
-----------------------------------------------------------------------------
(* Every variable stays in its type; files are left to copy exactly while  *)
(* they are copied (distribution.go:341-364).                              *)
TypeOK ==
  /\ specFile \in SpecFiles
  /\ inputs \in Inputs
  /\ files \in [Files -> Contents \cup {None, Empty, Garbled}]
  /\ tools \in Tools \cup {None}
  /\ pc \in {"idle", "render", "copy", "write", "clean"}
  /\ run \in Runs \cup {None}
  /\ left \subseteq Files
  /\ pc = "idle" <=> run = None
  /\ left # {} <=> pc \in {"copy", "write"}
  /\ outcome \in {"none", "ok", "nodiff", "rejected", "failed", "same", "differs"}
  /\ settled \in BOOLEAN
  /\ interrupted \in {"no", "yes"}

(* When generate returns without an error, the distribution is the one of  *)
(* the spec, whatever earlier runs left behind; only a run that found no   *)
(* difference may miss other inputs (distribution.go:271-279, 350).        *)
SuccessMeansGenerated ==
  /\ outcome = "ok" =>
       \A f \in Managed(specFile, inputs) : files[f] = Content(f, specFile, inputs)
  /\ outcome = "nodiff" =>
       \A f \in {"Makefile", "spec.yaml", specFile.binary} :
         files[f] \in Contents /\ files[f].spec = specFile

(* A comparison right after a generation finds a difference only if a file *)
(* is left that no template of this spec and these inputs makes: one of    *)
(* another binary name, or of a custom template that is gone               *)
(* (distribution.go:302-311, 313).  No generation removes such a file, so  *)
(* that it fails every later comparison (423-427, 616).                    *)
CompareAfterGenerate ==
  settled /\ outcome = "differs" =>
    \E f \in Files \ Managed(specFile, inputs) :
      /\ files[f] # None
      /\ files[f] \notin {Empty, Garbled} =>
           f = files[f].spec.binary \/ f \in CustomOf[files[f].input]

(* Tools that are left after a generation have the versions of the spec,   *)
(* if no copy was cut off (distribution.go:278, 356).  If one was, after   *)
(* the stored spec, repeating the run does not help: it compares with the  *)
(* spec that is stored, and finds nothing to remove.                       *)
ToolsOfSpec ==
  outcome = "ok" /\ interrupted = "no" => tools \in {None, ToolsFor(specFile)}

=============================================================================
