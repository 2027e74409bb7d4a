---------------------- MODULE ProtocolArtifactsProofs ----------------------
(***************************************************************************)
(* What the two maintenance scripts guarantee of the files they keep, for  *)
(* any releases, schemas and classes and however many runs are cut short.  *)
(***************************************************************************)
EXTENDS ProtocolArtifacts, TLAPS

-----------------------------------------------------------------------------
(* The inductive invariant                                                  *)

\* A run has what its earlier steps computed.
Locals ==
  /\ run.script = "vendor" /\ run.at \in VendorSteps \ {"version"} => run.version \in Versions
  /\ run.script = "vendor" /\ run.at \in VendorSteps \ {"version", "renderStable"}
       => run.rendered["stable"] \in Schemas
  /\ run.script = "vendor" /\ run.at \in VendorSteps \ {"version", "renderStable", "renderExperimental"}
       => run.rendered["experimental"] \in Schemas
  /\ At("generate", "codegen") => run.pin \in Generators
  /\ run.script = "generate" /\ run.at \in Outputs => run.text \in Texts

\* A check that saw one binary compares with what that binary writes.
OneBinary ==
  run.clean /\ run.script = "vendor" =>
    /\ run.at \in VendorSteps \ {"version"} => run.version = codex
    /\ run.at \in {"renderExperimental", "verify"}
         => run.rendered["stable"] = Emits[codex]["stable"]
    /\ run.at = "verify" => run.rendered["experimental"] = Emits[codex]["experimental"]

\* The rendering of the files and the lock as they are.
Current == [schema |-> snapshot["stable"], gen |-> lock,
            sha |-> manifest.sha["stable"], pin |-> lock]

\* A check that saw one generator and one lock compares with their rendering.
OneGenerator ==
  run.clean /\ run.script = "generate" =>
    /\ run.at = "codegen" => run.pin = lock /\ generator = lock
    /\ run.at \in Outputs => CodegenInputs /\ run.text = Current

\* The files before the one at hand are those of the run's rendering.
Progressed ==
  run.script = "generate" =>
    /\ run.at \in {"notifications", "requests"} => output["stable"] = run.text
    /\ run.at = "requests" =>
         /\ output["notifications"] = Registry(run.text)
         /\ Handwritten \subseteq Models[run.text.schema]

Vendored ==
  /\ manifest \notin Lost
  /\ snapshot = Emits[manifest.pin]
  /\ manifest.sha = snapshot

Generated == CodegenInputs /\ output = Rendered(Current) /\ Importable(output)

Certified ==
  /\ "vendor" \in certified => Vendored
  /\ "generate" \in certified => Generated

\* Once the release was compared it is the manifest's, unless the flag is set.
Expected ==
  run.script = "vendor" /\ run.at \in VendorSteps \ {"version"} /\ manifest \notin Lost
    => manifest.pin = run.version \/ run.allow

IInv ==
  /\ TypeOK
  /\ Locals
  /\ OneBinary
  /\ OneGenerator
  /\ Progressed
  /\ Certified
  /\ Expected
  /\ RefreshIsWhole

-----------------------------------------------------------------------------
(* Type correctness                                                         *)

RunType ==
  [script : {"none", "vendor", "generate"}, check : BOOLEAN, allow : BOOLEAN,
   at : Ends \cup VendorSteps \cup GenerateSteps, clean : BOOLEAN,
   version : Versions \cup {Nil}, rendered : [Modes -> Schemas \cup {Nil}],
   pin : Generators \cup {Nil}, text : Texts \cup {Nil}]

FilesOK ==
  /\ snapshot \in [Modes -> Schemas \cup Lost]
  /\ manifest \in Manifests \cup Lost
  /\ output = [f \in Outputs |-> output[f]]
  /\ output["stable"] \in Texts \cup Lost
  /\ output["notifications"] \in Registries \cup Lost
  /\ output["requests"] \in RequestRegistries \cup Lost

AroundOK ==
  /\ codex \in Versions /\ generator \in Generators /\ lock \in Generators
  /\ certified \subseteq {"vendor", "generate"}
  /\ accidents \in 0..MaxAccidents /\ replaced \in 0..MaxReplaced

LEMMA TypeParts == TypeOK <=> AroundOK /\ FilesOK /\ run \in RunType
BY DEF TypeOK, AroundOK, FilesOK, RunType

\* What a rendering is made of, file by file.
LEMMA RenderedFiles ==
  ASSUME NEW t \in Texts
  PROVE  /\ Rendered(t) = [f \in Outputs |-> Rendered(t)[f]]
         /\ Rendered(t)["stable"] = t
         /\ Rendered(t)["notifications"] = Registry(t)
         /\ Rendered(t)["requests"] = RequestRegistry(t)
         /\ Registry(t) \in Registries
         /\ RequestRegistry(t) \in RequestRegistries
<1>1. /\ Rendered(t) = [f \in Outputs |-> Rendered(t)[f]]
      /\ Rendered(t)["stable"] = t
      /\ Rendered(t)["notifications"] = Registry(t)
      /\ Rendered(t)["requests"] = RequestRegistry(t)
  BY DEF Rendered, Outputs
<1>2. Wrappers[t.schema] \in SUBSET Specs /\ t.sha \in Schemas /\ t.pin \in Generators
  BY ArtifactAssumption DEF Texts
<1>3. QED
  BY <1>1, <1>2 DEF Registry, RequestRegistry, Registries, RequestRegistries

\* A rendering imports when the handwritten modules find their classes in it:
\* the registry of a schema names classes of that schema.
LEMMA RenderedImports ==
  ASSUME NEW t \in Texts, Handwritten \subseteq Models[t.schema]
  PROVE  Importable(Rendered(t))
<1>1. /\ Rendered(t)["stable"] \notin Lost
      /\ Rendered(t)["notifications"] \notin Lost
      /\ Rendered(t)["requests"] \notin Lost
  BY RenderedFiles, ArtifactAssumption
<1>2. t.schema \in Schemas /\ Registry(t).specs = Wrappers[t.schema]
  BY DEF Texts, Registry
<1>3. \A w \in Wrappers[t.schema] : {w.envelope, w.params} \subseteq Models[t.schema]
  BY <1>2, ArtifactAssumption
<1>4. QED
  BY <1>1, <1>2, <1>3, RenderedFiles DEF Importable, MayImport, Lost, Outputs

LEMMA InitTyped == Init => TypeOK
<1> SUFFICES ASSUME Init PROVE TypeOK
  OBVIOUS
<1> DEFINE v == Checkout.version
           e == Emits[v]
<1>1. v \in Versions /\ Checkout.generator \in Generators /\ e \in [Modes -> Schemas]
  BY ArtifactAssumption
<1>2. Committed \in Texts
  BY <1>1 DEF Committed, Texts, Modes
<1>3. FilesOK
  <2>1. snapshot \in [Modes -> Schemas \cup Lost]
    BY <1>1 DEF Init
  <2>2. manifest \in Manifests
    BY <1>1 DEF Init, Manifests, BuildManifest
  <2>3. QED
    BY <2>1, <2>2, <1>2, RenderedFiles DEF Init, FilesOK
<1>4. run \in RunType
  BY DEF Init, NoRun, NewRun, RunType, Ends
<1>5. AroundOK
  BY <1>1, ArtifactAssumption DEF Init, AroundOK
<1>6. QED
  BY <1>3, <1>4, <1>5, TypeParts

LEMMA RenderedMode ==
  ASSUME NEW r \in [Modes -> Schemas \cup {Nil}], NEW m \in Modes, NEW v \in Versions
  PROVE  [r EXCEPT ![m] = Emits[v][m]] \in [Modes -> Schemas \cup {Nil}]
BY ArtifactAssumption

LEMMA RunRendered ==
  ASSUME run \in RunType, NEW m \in Modes, NEW v \in Versions,
         NEW step \in Ends \cup VendorSteps \cup GenerateSteps,
         run' = [run EXCEPT !.rendered[m] = Emits[v][m], !.at = step]
  PROVE  run' \in RunType
<1> DEFINE r == [run.rendered EXCEPT ![m] = Emits[v][m]]
<1>1. r \in [Modes -> Schemas \cup {Nil}]
  BY RenderedMode DEF RunType
<1>2. run' = [run EXCEPT !.rendered = r, !.at = step]
  BY DEF RunType
<1> HIDE DEF r
<1>3. QED
  BY <1>1, <1>2 DEF RunType

LEMMA StepTyped == TypeOK /\ Locals /\ [Next]_vars => TypeOK'
<1> SUFFICES ASSUME AroundOK, FilesOK, run \in RunType, Locals, [Next]_vars
             PROVE  AroundOK' /\ FilesOK' /\ run' \in RunType
  BY TypeParts DEF TypeOK, AroundOK, FilesOK, RunType
<1>1. run' \in RunType
  <2>1. CASE UNCHANGED vars
    BY <2>1 DEF vars
  <2>2. ASSUME NEW script \in {"vendor", "generate"}, NEW check \in BOOLEAN,
               NEW allow \in BOOLEAN, Start(script, check, allow)
        PROVE  run' \in RunType
    BY <2>2 DEF Start, NewRun, RunType, VendorSteps, GenerateSteps
  <2>3. ASSUME NEW step \in Ends \cup VendorSteps \cup GenerateSteps, Goto(step)
        PROVE  run' \in RunType
    BY <2>3 DEF Goto, RunType
  <2>4. CASE ReadVersion
    BY <2>4 DEF ReadVersion, RunType, VendorSteps, AroundOK
  <2>5. CASE RenderStable
    BY <2>5, RunRendered DEF RenderStable, VendorSteps, AroundOK, Modes
  <2>6. CASE RenderExperimental
    BY <2>6, RunRendered DEF RenderExperimental, VendorSteps, AroundOK, Modes
  <2>7. CASE EnsurePin
    BY <2>7 DEF EnsurePin, RunType, GenerateSteps, AroundOK
  <2>8. CASE RunCodegen
    <3>1. [schema |-> snapshot["stable"], gen |-> generator,
           sha |-> manifest.sha["stable"], pin |-> run.pin] \in Texts
      BY <2>8 DEF RunCodegen, CodegenInputs, FilesOK, AroundOK, Locals, Manifests, Texts, Modes
    <3>2. QED
      BY <2>8, <3>1 DEF RunCodegen, RunType, GenerateSteps, Outputs
  <2>9. CASE Remove
    BY <2>9 DEF Remove, NoRun, NewRun, RunType, Ends
  <2>10. CASE Replace
    BY <2>10 DEF Replace, RunType
  <2>11. CASE Abort
    BY <2>11, <2>3 DEF Abort, Ends
  <2>12. CASE RefuseVersion \/ RefuseSnapshots \/ RefusePin \/ RefuseInputs \/ RefuseOutput
               \/ RefuseRegistry
    BY <2>12, <2>3 DEF RefuseVersion, RefuseSnapshots, RefusePin, RefuseInputs, RefuseOutput,
       RefuseRegistry, Refuse, Ends
  <2>13. CASE VerifySnapshots \/ VerifyRequests
    BY <2>13, <2>3 DEF VerifySnapshots, VerifyRequests, Pass, Ends
  <2>14. CASE VerifyStable \/ VerifyRegistry
    BY <2>14, <2>3 DEF VerifyStable, VerifyRegistry, Verified, GenerateSteps, Outputs
  <2>15. CASE \/ WriteSnapshot("stable", "writeStable", "writeExperimental")
              \/ WriteSnapshot("experimental", "writeExperimental", "writeManifest")
              \/ WriteManifest
    BY <2>15, <2>3 DEF WriteSnapshot, WriteManifest, VendorSteps, Ends
  <2>16. CASE WriteStable \/ WriteRegistry \/ WriteRequests
    BY <2>16, <2>3 DEF WriteStable, WriteRegistry, WriteRequests, WriteOutput, GenerateSteps,
       Outputs, Ends
  <2>17. QED
    BY <2>1, <2>2, <2>4, <2>5, <2>6, <2>7, <2>8, <2>9, <2>10, <2>11, <2>12, <2>13, <2>14, <2>15,
       <2>16 DEF Next, Vendor, Generate
<1>2. FilesOK'
  <2>1. CASE UNCHANGED files
    BY <2>1 DEF files, FilesOK
  <2>2. ASSUME NEW m \in Modes, NEW t \in Schemas \cup Lost,
               snapshot' = [snapshot EXCEPT ![m] = t], UNCHANGED <<manifest, output>>
        PROVE  FilesOK'
    BY <2>2 DEF FilesOK
  <2>3. ASSUME manifest' \in Manifests \cup Lost, UNCHANGED <<snapshot, output>>
        PROVE  FilesOK'
    BY <2>3 DEF FilesOK
  <2>4. ASSUME NEW f \in Outputs, NEW t,
               output' = [output EXCEPT ![f] = t], UNCHANGED <<snapshot, manifest>>,
               \/ t \in Lost
               \/ run.text \in Texts /\ t = Rendered(run.text)[f]
        PROVE  FilesOK'
    <3>1. CASE t \in Lost
      BY <2>4, <3>1 DEF FilesOK, Outputs
    <3>2. CASE run.text \in Texts /\ t = Rendered(run.text)[f]
      <4>1. /\ f = "stable" => t \in Texts
            /\ f = "notifications" => t \in Registries
            /\ f = "requests" => t \in RequestRegistries
        BY <3>2, RenderedFiles
      <4>2. QED
        BY <2>4, <4>1 DEF FilesOK, Outputs
    <3>3. QED
      BY <2>4, <3>1, <3>2
  <2>5. CASE WriteSnapshot("stable", "writeStable", "writeExperimental")
    BY <2>5, <2>2 DEF WriteSnapshot, Locals, At, Modes, VendorSteps
  <2>6. CASE WriteSnapshot("experimental", "writeExperimental", "writeManifest")
    BY <2>6, <2>2 DEF WriteSnapshot, Locals, At, Modes, VendorSteps
  <2>7. CASE WriteManifest
    <3>1. run.version \in Versions /\ run.rendered \in [Modes -> Schemas]
      BY <2>7 DEF WriteManifest, At, Locals, VendorSteps, Modes, RunType
    <3>2. manifest' \in Manifests
      BY <2>7, <3>1 DEF WriteManifest, BuildManifest, Manifests
    <3>3. QED
      BY <2>7, <3>2, <2>3 DEF WriteManifest
  <2>8. CASE WriteStable \/ WriteRegistry \/ WriteRequests
    <3>1. ASSUME NEW f \in Outputs, NEW next, WriteOutput(f, next)
          PROVE  FilesOK'
      <4>1. run.text \in Texts
        BY <3>1 DEF WriteOutput, At, Locals
      <4>2. QED
        BY <3>1, <4>1, <2>4 DEF WriteOutput
    <3>2. QED
      BY <2>8, <3>1 DEF WriteStable, WriteRegistry, WriteRequests, Outputs
  <2>9. CASE Abort
    BY <2>9, <2>1, <2>2, <2>3, <2>4 DEF Abort, Lost
  <2>10. CASE Remove
    BY <2>10, <2>2, <2>3, <2>4 DEF Remove, Lost
  <2>11. QED
    BY <2>1, <2>5, <2>6, <2>7, <2>8, <2>9, <2>10 DEF Next, Vendor, Generate, vars, files, Start,
       ReadVersion, RefuseVersion, RenderStable, RenderExperimental, VerifySnapshots,
       RefuseSnapshots, EnsurePin, RefusePin, RunCodegen, RefuseInputs, VerifyStable,
       VerifyRegistry, Verified, VerifyRequests, RefuseOutput, RefuseRegistry, Refuse, Pass,
       Replace
<1>3. AroundOK'
  <2>1. CASE UNCHANGED <<around, certified>>
    BY <2>1 DEF around, tools, AroundOK
  <2>2. ASSUME UNCHANGED around, certified' = {}
        PROVE  AroundOK'
    BY <2>2 DEF around, tools, AroundOK
  <2>3. CASE VerifySnapshots \/ VerifyRequests
    BY <2>3 DEF VerifySnapshots, VerifyRequests, Checking, At, Pass, around, tools, AroundOK
  <2>4. CASE Abort
    <3>1. accidents' \in 0..MaxAccidents /\ replaced' = replaced
      BY <2>4, ArtifactAssumption DEF Abort, AroundOK
    <3>2. certified' = certified \/ certified' = {}
      BY <2>4 DEF Abort
    <3>3. UNCHANGED tools
      BY <2>4 DEF Abort
    <3>4. QED
      BY <3>1, <3>2, <3>3 DEF tools, AroundOK
  <2>5. CASE Remove
    BY <2>5, ArtifactAssumption DEF Remove, tools, AroundOK
  <2>6. CASE Replace
    BY <2>6, ArtifactAssumption DEF Replace, AroundOK
  <2>7. QED
    BY <2>1, <2>2, <2>3, <2>4, <2>5, <2>6 DEF Next, Vendor, Generate, vars, around, tools, Start,
       ReadVersion, RefuseVersion, RenderStable, RenderExperimental, WriteSnapshot, WriteManifest,
       RefuseSnapshots, EnsurePin, RefusePin, RunCodegen, RefuseInputs, VerifyStable,
       VerifyRegistry, Verified, RefuseOutput, WriteStable, WriteRegistry, WriteRequests,
       WriteOutput, RefuseRegistry, Refuse
<1>4. QED
  BY <1>1, <1>2, <1>3

-----------------------------------------------------------------------------
(* The other conjuncts                                                      *)

OfTheRun ==
  Locals /\ OneBinary /\ OneGenerator /\ Progressed /\ Expected /\ RefreshIsWhole

\* The steps after which no run is between two of its own.
LEMMA EndedLocals ==
  ASSUME run'.at \in Ends \cup {"version", "pin"}, At("generate", "written")' => FALSE
  PROVE  OfTheRun'
BY DEF OfTheRun, Locals, OneBinary, OneGenerator, Progressed, Expected, RefreshIsWhole, At, Ends,
   VendorSteps, Outputs

\* A refusal, a check that passed, a run cut short, a new run, a removal.
Between ==
  \/ \E script \in {"vendor", "generate"}, check, allow \in BOOLEAN : Start(script, check, allow)
  \/ RefuseVersion
  \/ RefuseSnapshots
  \/ RefusePin
  \/ RefuseInputs
  \/ RefuseOutput
  \/ RefuseRegistry
  \/ VerifySnapshots
  \/ VerifyRequests
  \/ WriteManifest
  \/ Abort
  \/ Remove

LEMMA BetweenRuns ==
  ASSUME run \in RunType, Between
  PROVE  run'.at \in Ends \cup {"version", "pin"} /\ ~At("generate", "written")'
<1>1. ASSUME NEW step, Goto(step) PROVE run'.at = step /\ run'.script = run.script
  BY <1>1 DEF Goto, RunType
<1>2. CASE \E script \in {"vendor", "generate"}, check, allow \in BOOLEAN :
             Start(script, check, allow)
  BY <1>2 DEF Start, NewRun, At
<1>3. CASE Remove
  BY <1>3 DEF Remove, NoRun, NewRun, At, Ends
<1>4. CASE Abort
  BY <1>4, <1>1 DEF Abort, At, Ends
<1>5. CASE WriteManifest
  BY <1>5, <1>1 DEF WriteManifest, At, Ends
<1>6. CASE VerifySnapshots \/ VerifyRequests
  BY <1>6, <1>1 DEF VerifySnapshots, VerifyRequests, Pass, At, Ends
<1>7. CASE RefuseVersion \/ RefuseSnapshots \/ RefusePin \/ RefuseInputs \/ RefuseOutput
           \/ RefuseRegistry
  BY <1>7, <1>1 DEF RefuseVersion, RefuseSnapshots, RefusePin, RefuseInputs, RefuseOutput,
     RefuseRegistry, Refuse, At, Ends
<1>8. QED
  BY <1>2, <1>3, <1>4, <1>5, <1>6, <1>7 DEF Between

LEMMA StepCertified == IInv /\ [Next]_vars => Certified'
<1> SUFFICES ASSUME AroundOK, FilesOK, run \in RunType, IInv, [Next]_vars
             PROVE  Certified'
  BY TypeParts DEF IInv, TypeOK, AroundOK, FilesOK, RunType
<1>1. CASE certified' = {}
  BY <1>1 DEF Certified
<1>2. ASSUME UNCHANGED files, certified' \subseteq certified,
             "generate" \in certified' => lock' = lock
      PROVE  Certified'
  BY <1>2 DEF IInv, Certified, Vendored, Generated, files, Current, CodegenInputs
<1>3. CASE VerifySnapshots
  <2>1. UNCHANGED <<files, lock>>
    BY <1>3 DEF VerifySnapshots, Pass, around, tools
  <2>2. CASE ~run.clean
    BY <1>3, <2>1, <2>2, <1>2 DEF VerifySnapshots, Pass
  <2>3. CASE run.clean
    <3>1. /\ run.version = codex
          /\ run.rendered["stable"] = Emits[codex]["stable"]
          /\ run.rendered["experimental"] = Emits[codex]["experimental"]
      BY <1>3, <2>3 DEF VerifySnapshots, At, IInv, OneBinary, VendorSteps
    <3>2. run.rendered = Emits[codex] /\ Emits[codex] \in [Modes -> Schemas]
      BY <3>1, ArtifactAssumption DEF RunType, AroundOK, Modes
    <3>3. /\ snapshot = Emits[codex]
          /\ manifest = BuildManifest(codex, Emits[codex])
      BY <1>3, <3>1, <3>2 DEF VerifySnapshots, SnapshotsMatch, FilesOK
    <3>4. manifest \in Manifests
      BY <3>2, <3>3 DEF BuildManifest, Manifests, AroundOK
    <3>5. Vendored
      BY <3>3, <3>4, ArtifactAssumption DEF Vendored, BuildManifest
    <3>6. certified' = certified \cup {"vendor"}
      BY <1>3, <2>3 DEF VerifySnapshots, At, Pass
    <3>7. QED
      BY <2>1, <3>5, <3>6 DEF IInv, Certified, Vendored, Generated, files, Current, CodegenInputs
  <2>4. QED
    BY <2>2, <2>3
<1>4. CASE VerifyRequests
  <2>1. UNCHANGED <<files, lock>>
    BY <1>4 DEF VerifyRequests, Pass, around, tools
  <2>2. CASE ~run.clean
    BY <1>4, <2>1, <2>2, <1>2 DEF VerifyRequests, Pass
  <2>3. CASE run.clean
    <3>1. At("generate", "requests") /\ output["requests"] = Rendered(run.text)["requests"]
      BY <1>4 DEF VerifyRequests, Checking, Matches
    <3>2. /\ CodegenInputs /\ run.text = Current /\ run.text \in Texts
          /\ output["stable"] = run.text
          /\ output["notifications"] = Registry(run.text)
          /\ Handwritten \subseteq Models[run.text.schema]
      BY <2>3, <3>1 DEF At, IInv, OneGenerator, Progressed, Locals, Outputs
    <3>3. output = Rendered(run.text)
      BY <3>1, <3>2, RenderedFiles DEF FilesOK, Outputs
    <3>4. Importable(output)
      BY <3>2, <3>3, RenderedImports
    <3>5. certified' = certified \cup {"generate"}
      BY <1>4, <2>3, <3>1 DEF VerifyRequests, At, Pass
    <3>6. QED
      BY <2>1, <3>2, <3>3, <3>4, <3>5
      DEF IInv, Certified, Vendored, Generated, files, Current, CodegenInputs
  <2>4. QED
    BY <2>2, <2>3
<1>5. CASE Replace
  BY <1>5, <1>2 DEF Replace
<1>6. QED
  BY <1>1, <1>2, <1>3, <1>4, <1>5 DEF Next, Vendor, Generate, vars, files, around, tools, Start,
     ReadVersion, RefuseVersion, RenderStable, RenderExperimental, WriteSnapshot, WriteManifest,
     RefuseSnapshots, EnsurePin, RefusePin, RunCodegen, RefuseInputs, VerifyStable,
     VerifyRegistry, Verified, RefuseOutput, WriteStable, WriteRegistry, WriteRequests,
     WriteOutput, RefuseRegistry, Refuse, Abort, Remove

LEMMA StepOfTheRun == IInv /\ [Next]_vars => OfTheRun'
<1> SUFFICES ASSUME AroundOK, FilesOK, run \in RunType, OfTheRun, [Next]_vars
             PROVE  OfTheRun'
  BY TypeParts DEF IInv, OfTheRun, TypeOK, AroundOK, FilesOK, RunType
<1> USE DEF OfTheRun
<1>1. CASE UNCHANGED vars
  BY <1>1 DEF vars, Locals, OneBinary, OneGenerator, Progressed, Expected, RefreshIsWhole, At,
     Current, CodegenInputs, Importable, MayImport
<1>2. CASE Between
  BY <1>2, BetweenRuns, EndedLocals
<1>3. CASE Replace
  <2>1. UNCHANGED files /\ run' = IF Running THEN [run EXCEPT !.clean = FALSE] ELSE run
    BY <1>3 DEF Replace
  <2>2. CASE Running
    <3>1. /\ run'.script = run.script /\ run'.at = run.at /\ run'.version = run.version
          /\ run'.rendered = run.rendered /\ run'.pin = run.pin /\ run'.text = run.text
          /\ run'.allow = run.allow /\ run'.check = run.check /\ ~run'.clean
      BY <2>1, <2>2 DEF RunType
    <3>2. QED
      BY <2>1, <3>1 DEF files, Locals, OneBinary, OneGenerator, Progressed, Expected,
         RefreshIsWhole, At, Importable, MayImport
  <2>3. CASE ~Running
    BY <2>1, <2>3 DEF Running, files, Locals, OneBinary, OneGenerator, Progressed, Expected,
       RefreshIsWhole, At, Importable, MayImport, Ends, VendorSteps, Outputs
  <2>4. QED
    BY <2>2, <2>3
<1>4. CASE ReadVersion
  <2>1. /\ run'.script = "vendor" /\ run'.at = "renderStable" /\ run'.version = codex
        /\ run'.allow = run.allow /\ UNCHANGED <<codex, manifest>>
    BY <1>4 DEF ReadVersion, At, RunType, files, around, tools
  <2>2. manifest \notin Lost => manifest.pin = codex \/ run.allow
    BY <1>4 DEF ReadVersion, VersionExpected, Lost
  <2>3. QED
    BY <2>1, <2>2 DEF Locals, OneBinary, OneGenerator, Progressed, Expected, RefreshIsWhole, At,
       AroundOK, VendorSteps
<1>5. CASE RenderStable
  <2>1. /\ run'.script = "vendor" /\ run'.at = "renderExperimental"
        /\ run'.version = run.version /\ run'.allow = run.allow /\ run'.clean = run.clean
        /\ run'.rendered["stable"] = Emits[codex]["stable"]
        /\ UNCHANGED <<codex, manifest>>
    BY <1>5 DEF RenderStable, At, RunType, files, around, tools, Modes
  <2>2. Emits[codex]["stable"] \in Schemas
    BY ArtifactAssumption DEF AroundOK, Modes
  <2>3. QED
    BY <1>5, <2>1, <2>2 DEF RenderStable, Locals, OneBinary, OneGenerator, Progressed, Expected,
       RefreshIsWhole, At, VendorSteps
<1>6. CASE RenderExperimental
  <2>1. /\ run'.script = "vendor" /\ run'.at \in {"verify", "writeStable"}
        /\ run'.version = run.version /\ run'.allow = run.allow /\ run'.clean = run.clean
        /\ run'.rendered["stable"] = run.rendered["stable"]
        /\ run'.rendered["experimental"] = Emits[codex]["experimental"]
        /\ UNCHANGED <<codex, manifest>>
    BY <1>6 DEF RenderExperimental, At, RunType, files, around, tools, Modes
  <2>2. Emits[codex]["experimental"] \in Schemas
    BY ArtifactAssumption DEF AroundOK, Modes
  <2>3. QED
    BY <1>6, <2>1, <2>2 DEF RenderExperimental, Locals, OneBinary, OneGenerator, Progressed,
       Expected, RefreshIsWhole, At, VendorSteps
<1>7. ASSUME NEW m, NEW step \in {"writeStable", "writeExperimental"},
             NEW next \in {"writeExperimental", "writeManifest"}, WriteSnapshot(m, step, next)
      PROVE  OfTheRun'
  <2>1. /\ run'.script = "vendor" /\ run'.at = next
        /\ run'.version = run.version /\ run'.allow = run.allow /\ run'.clean = run.clean
        /\ run'.rendered = run.rendered /\ UNCHANGED <<codex, manifest>>
    BY <1>7 DEF WriteSnapshot, Goto, At, RunType, around, tools
  <2>2. QED
    BY <1>7, <2>1 DEF WriteSnapshot, Locals, OneBinary, OneGenerator, Progressed,
       Expected, RefreshIsWhole, At, VendorSteps
<1>8. CASE EnsurePin
  <2>1. /\ run'.script = "generate" /\ run'.at = "codegen" /\ run'.pin = lock
        /\ generator = lock /\ UNCHANGED <<generator, lock>>
    BY <1>8 DEF EnsurePin, At, RunType, around, tools
  <2>2. QED
    BY <2>1 DEF Locals, OneBinary, OneGenerator, Progressed, Expected, RefreshIsWhole, At,
       AroundOK, Outputs
<1>9. CASE RunCodegen
  <2> DEFINE t == [schema |-> snapshot["stable"], gen |-> generator,
                   sha |-> manifest.sha["stable"], pin |-> run.pin]
  <2>1. /\ run'.script = "generate" /\ run'.at = "stable" /\ run'.text = t
        /\ run'.clean = run.clean /\ UNCHANGED <<files, lock>>
    BY <1>9 DEF RunCodegen, At, RunType, around, tools
  <2>2. t \in Texts /\ CodegenInputs
    BY <1>9 DEF RunCodegen, CodegenInputs, FilesOK, AroundOK, Locals, Manifests, Texts, Modes
  <2>3. run.clean => t = Current
    BY <1>9 DEF RunCodegen, At, OneGenerator, Current
  <2>4. Current' = Current /\ CodegenInputs' = CodegenInputs
    BY <2>1 DEF files, Current, CodegenInputs
  <2>5. QED
    BY <2>1, <2>2, <2>3, <2>4 DEF Locals, OneBinary, OneGenerator, Progressed, Expected,
       RefreshIsWhole, At, Outputs
<1>10. ASSUME NEW f \in Outputs, NEW next \in {"notifications", "requests"}, Verified(f, next),
              next = "notifications" => f = "stable",
              next = "requests" => f = "notifications"
       PROVE  OfTheRun'
  <2>1. /\ run'.script = "generate" /\ run'.at = next /\ run'.text = run.text
        /\ run'.clean = run.clean /\ UNCHANGED <<files, lock>>
    BY <1>10 DEF Verified, Checking, Goto, At, RunType, around, tools
  <2>2. Current' = Current /\ CodegenInputs' = CodegenInputs
    BY <2>1 DEF files, Current, CodegenInputs
  <2>3. run.text \in Texts /\ output[f] = Rendered(run.text)[f]
    BY <1>10 DEF Verified, Checking, At, Matches, Locals
  <2>4. Progressed'
    <3>1. CASE next = "notifications"
      BY <1>10, <2>1, <2>3, <3>1, RenderedFiles DEF files, Progressed
    <3>2. CASE next = "requests"
      <4>1. output["stable"] = run.text /\ output["notifications"] = Registry(run.text)
        BY <1>10, <2>3, <3>2, RenderedFiles DEF Verified, Checking, At, Progressed
      <4>2. Handwritten \subseteq Models[run.text.schema]
        BY <1>10, <2>3, <3>2, <4>1, ArtifactAssumption DEF Verified, Matches, CanRenderRegistry, MayImport, Lost
      <4>3. QED
        BY <2>1, <3>2, <4>1, <4>2 DEF files, Progressed
    <3>3. QED
      BY <1>10, <3>1, <3>2
  <2>5. QED
    BY <1>10, <2>1, <2>2, <2>3, <2>4 DEF Verified, Checking, Locals, OneBinary, OneGenerator,
       Expected, RefreshIsWhole, At, Outputs
<1>11. ASSUME NEW f \in Outputs, NEW next \in {"notifications", "requests", "written"},
              WriteOutput(f, next), f = "notifications" => CanRenderRegistry(output, run.text),
              next = "notifications" => f = "stable",
              next = "requests" => f = "notifications",
              next = "written" => f = "requests"
       PROVE  OfTheRun'
  <2>1. /\ run'.script = "generate" /\ run'.at = next /\ run'.text = run.text
        /\ run'.clean = run.clean /\ UNCHANGED <<snapshot, manifest, lock>>
    BY <1>11 DEF WriteOutput, Goto, At, RunType, around, tools
  <2>2. Current' = Current /\ CodegenInputs' = CodegenInputs
    BY <2>1 DEF Current, CodegenInputs
  <2>3. run.text \in Texts /\ run.script = "generate" /\ run.at = f
    BY <1>11 DEF WriteOutput, At, Locals
  <2>4. /\ output'[f] = Rendered(run.text)[f]
        /\ \A g \in Outputs \ {f} : output'[g] = output[g]
        /\ output' = [g \in Outputs |-> output'[g]]
    BY <1>11 DEF WriteOutput, FilesOK
  <2>5. Progressed' /\ RefreshIsWhole'
    <3>1. CASE next = "notifications"
      BY <1>11, <2>1, <2>3, <2>4, <3>1, RenderedFiles DEF Progressed, RefreshIsWhole, At
    <3>2. CASE next = "requests"
      <4>1. output["stable"] = run.text /\ f = "notifications"
        BY <1>11, <2>3, <3>2 DEF Progressed
      <4>2. Handwritten \subseteq Models[run.text.schema]
        BY <1>11, <2>3, <4>1, ArtifactAssumption DEF CanRenderRegistry, MayImport, Lost
      <4>3. output'["stable"] = run.text /\ output'["notifications"] = Registry(run.text)
        BY <2>3, <2>4, <4>1, RenderedFiles DEF Outputs
      <4>4. QED
        BY <2>1, <3>2, <4>2, <4>3 DEF Progressed, RefreshIsWhole, At
    <3>3. CASE next = "written"
      <4>1. /\ output["stable"] = run.text /\ output["notifications"] = Registry(run.text)
            /\ Handwritten \subseteq Models[run.text.schema] /\ f = "requests"
        BY <1>11, <2>3, <3>3 DEF Progressed
      <4>2. output' = Rendered(run.text)
        BY <2>3, <2>4, <4>1, RenderedFiles DEF Outputs
      <4>3. QED
        BY <2>1, <2>3, <3>3, <4>1, <4>2, RenderedImports DEF Progressed, RefreshIsWhole, At
    <3>4. QED
      BY <1>11, <3>1, <3>2, <3>3
  <2>6. QED
    BY <2>1, <2>2, <2>3, <2>5 DEF Locals, OneBinary, OneGenerator, Expected, At, Outputs
<1>12. CASE \/ VerifyStable \/ VerifyRegistry \/ WriteStable \/ WriteRegistry \/ WriteRequests
            \/ WriteSnapshot("stable", "writeStable", "writeExperimental")
            \/ WriteSnapshot("experimental", "writeExperimental", "writeManifest")
  BY <1>7, <1>10, <1>11, <1>12 DEF VerifyStable, VerifyRegistry, WriteStable, WriteRegistry,
     WriteRequests, Outputs
<1>13. QED
  BY <1>1, <1>2, <1>3, <1>4, <1>5, <1>6, <1>8, <1>9, <1>12 DEF Next, Vendor, Generate, Between

-----------------------------------------------------------------------------
(* The theorems                                                             *)

LEMMA InitIInv == Init => IInv
<1> SUFFICES ASSUME Init PROVE IInv
  OBVIOUS
<1>1. run.script = "none" /\ run.at = "idle" /\ certified = {}
  BY DEF Init, NoRun, NewRun
<1>2. QED
  BY <1>1, InitTyped DEF IInv, Locals, OneBinary, OneGenerator, Progressed, Certified, Expected,
     RefreshIsWhole, At

LEMMA StepIInv == IInv /\ [Next]_vars => IInv'
BY StepTyped, StepCertified, StepOfTheRun DEF IInv, OfTheRun

LEMMA Invariance == Spec => []IInv
BY InitIInv, StepIInv, PTL DEF Spec

\* Every file the scripts keep holds what one of them rendered, is missing or torn.
THEOREM TypeCorrect == Spec => []TypeOK
<1>1. IInv => TypeOK
  BY DEF IInv
<1>2. QED
  BY <1>1, Invariance, PTL

\* verify_outputs() and the three verify_* functions together: a tree on which
\* both checks passed since its last change is consistent, whatever was cut
\* short, mixed or replaced before.
THEOREM ChecksCertify == Spec => []CertifiedIsConsistent
<1>1. IInv => CertifiedIsConsistent
  <2> SUFFICES ASSUME IInv, certified = {"vendor", "generate"} PROVE Consistent
    BY DEF CertifiedIsConsistent
  <2>1. Vendored /\ Generated
    BY DEF IInv, Certified
  <2>2. QED
    BY <2>1 DEF Consistent, Vendored, Generated, Current
<1>2. QED
  BY <1>1, Invariance, PTL

\* main() of the generator: a refresh that reports success leaves three files of
\* one rendering and a package that imports.
THEOREM RefreshesAreWhole == Spec => []RefreshIsWhole
<1>1. IInv => RefreshIsWhole
  BY DEF IInv
<1>2. QED
  BY <1>1, Invariance, PTL

\* ensure_version_is_expected(): the release that the manifest pins moves in a
\* run with --allow-version-change only.
THEOREM PinsMoveOnRequest == Spec => PinMovesOnRequest
<1>1. IInv /\ [Next]_vars
        => [manifest \notin Lost /\ manifest' \notin Lost /\ manifest'.pin # manifest.pin
              => run.allow]_vars
  <2> SUFFICES ASSUME IInv, Next, manifest \notin Lost, manifest' \notin Lost,
                      manifest'.pin # manifest.pin
               PROVE  run.allow
    OBVIOUS
  <2>1. CASE WriteManifest
    BY <2>1 DEF WriteManifest, BuildManifest, At, IInv, Expected, VendorSteps
  <2>2. CASE manifest' = manifest \/ manifest' \in Lost
    BY <2>2
  <2>3. QED
    BY <2>1, <2>2 DEF Next, Vendor, Generate, files, Start, ReadVersion, RefuseVersion,
       RenderStable, RenderExperimental, VerifySnapshots, RefuseSnapshots, WriteSnapshot,
       EnsurePin, RefusePin, RunCodegen, RefuseInputs, VerifyStable, VerifyRegistry, Verified,
       VerifyRequests, RefuseOutput, WriteStable, WriteRegistry, WriteRequests, WriteOutput,
       RefuseRegistry, Refuse, Pass, Abort, Remove, Replace, Lost
<1>2. QED
  BY <1>1, Invariance, PTL DEF Spec, PinMovesOnRequest
=============================================================================
