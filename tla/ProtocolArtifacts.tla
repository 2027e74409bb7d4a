------------------------- MODULE ProtocolArtifacts -------------------------
(***************************************************************************)
(* The vendored schema snapshots and the Python modules generated from     *)
(* them, and the two maintenance scripts that refresh or verify them:      *)
(* scripts/vendor_protocol_schema.py and scripts/generate_protocol_models  *)
(* .py.  A maintainer runs one script at a time on one working tree, in    *)
(* any order and with any of its flags.  The tools the scripts call may be *)
(* replaced at any moment, and a run may be cut short anywhere.            *)
(*                                                                         *)
(* A file is the value it was rendered from, Missing, or Torn: a write     *)
(* that was cut short, which json.loads does not accept.  A Python module  *)
(* that is torn between two statements may still import.                   *)
(***************************************************************************)
EXTENDS Naturals

CONSTANTS
  Versions,     \* releases of the codex binary
  Generators,   \* releases of datamodel-code-generator
  Schemas,      \* canonical schema texts
  Emits,        \* Emits[v][m]: what release v writes for mode m
  Names,        \* class names
  Models,       \* Models[s]: the classes stable.py has for schema s
  Wrappers,     \* Wrappers[s]: its ServerNotification* classes, as specs
  Handwritten,  \* the classes the handwritten modules import from stable.py
  Checkout,     \* the release and the generator the checked-in files are of
  MaxAccidents, \* bound: runs cut short and files removed
  MaxReplaced,  \* bound: tools replaced
  Missing, Torn, Nil

Modes == {"stable", "experimental"}
Outputs == {"stable", "notifications", "requests"}
Lost == {Missing, Torn}

\* One entry of the notification registry (class NotificationRegistrySpec).
Specs == [method : STRING, envelope : Names, params : Names]

VARIABLES
  codex,      \* the codex binary on the maintainer's PATH
  generator,  \* the generator that is installed
  lock,       \* the generator that uv.lock pins
  snapshot,   \* the vendored schema of each mode
  manifest,   \* vendor_manifest.json
  output,     \* the generated modules
  run,        \* the script that runs, or the last one that ran
  certified,  \* the scripts whose --check passed on the files as they are
  accidents,  \* runs cut short and files removed so far
  replaced    \* tools replaced so far

vars == <<codex, generator, lock, snapshot, manifest, output, run, certified,
          accidents, replaced>>
files == <<snapshot, manifest, output>>
tools == <<codex, generator, lock>>
around == <<tools, accidents, replaced>>  \* what no script changes

Ends == {"idle", "passed", "written", "refused", "aborted"}
VendorSteps == {"version", "renderStable", "renderExperimental", "verify",
                "writeStable", "writeExperimental", "writeManifest"}
GenerateSteps == {"pin", "codegen"} \cup Outputs
Running == run.at \notin Ends

-----------------------------------------------------------------------------
(* What the files hold.                                                     *)

\* build_manifest(): the release that was asked, and the hash of each text.
Manifests == [pin : Versions, sha : [Modes -> Schemas]]
BuildManifest(version, rendered) == [pin |-> version, sha |-> rendered]

\* postprocess_rendered_output(): the classes of a schema as one generator
\* renders them, under a header with the hash that the manifest has and the
\* generator that the lock pins.
Texts == [schema : Schemas, gen : Generators, sha : Schemas, pin : Generators]

\* build_registry_header() over the rendered specs.
Registries == [specs : SUBSET Specs, sha : Schemas, pin : Generators]
RequestRegistries == [sha : Schemas, pin : Generators]

\* extract_notification_registry_specs(): it refuses a schema without
\* notifications and one that has two for a method.
Extractable(s) ==
  /\ Wrappers[s] # {}
  /\ \A w1, w2 \in Wrappers[s] : w1.method = w2.method => w1 = w2

\* render_notification_registry() and render_server_request_registry(); the
\* specs of the second are constants of the script over handwritten classes.
Registry(text) == [specs |-> Wrappers[text.schema], sha |-> text.sha, pin |-> text.pin]
RequestRegistry(text) == [sha |-> text.sha, pin |-> text.pin]

Rendered(text) ==
  [f \in Outputs |-> CASE f = "stable" -> text
                       [] f = "notifications" -> Registry(text)
                       [] f = "requests" -> RequestRegistry(text)]

\* Whether `import codex_agent_sdk` may succeed on the files out: the package
\* imports both registries, which name classes of stable.py, and handwritten
\* modules that import more of them.  What a torn module has left is anything.
MayImport(out) ==
  /\ \A f \in Outputs : out[f] # Missing
  /\ out["stable"] # Torn => Handwritten \subseteq Models[out["stable"].schema]
  /\ Torn \notin {out["stable"], out["notifications"]} =>
       \A w \in out["notifications"].specs :
          {w.envelope, w.params} \subseteq Models[out["stable"].schema]

\* Whether it is sure to.
Importable(out) == MayImport(out) /\ \A f \in Outputs : out[f] # Torn

\* Mutant of CanRenderRegistry: the wrappers are read without an import.
CanParseRegistry(out, text) == Extractable(text.schema)

\* render_notification_registry() executes the rendered module, and that
\* imports the package as it is on disk: whether it may succeed, and must.
CanRenderRegistry(out, text) == MayImport(out) /\ Extractable(text.schema)
RendersRegistry(out, text) == Importable(out) /\ Extractable(text.schema)

ASSUME ArtifactAssumption ==
  /\ Emits \in [Versions -> [Modes -> Schemas]]
  /\ Models \in [Schemas -> SUBSET Names]
  /\ Wrappers \in [Schemas -> SUBSET Specs]
  /\ \A s \in Schemas : \A w \in Wrappers[s] : {w.envelope, w.params} \subseteq Models[s]
  /\ Checkout \in [version : Versions, generator : Generators]
  /\ \A l \in Lost : /\ l \notin Schemas /\ l \notin Manifests /\ l \notin Texts
                     /\ l \notin Registries /\ l \notin RequestRegistries
  /\ MaxAccidents \in Nat /\ MaxReplaced \in Nat

-----------------------------------------------------------------------------
(* The runs of the scripts.                                                 *)

NewRun(script, check, allow, at) ==
  [script |-> script, check |-> check, allow |-> allow, at |-> at, clean |-> TRUE,
   version |-> Nil, rendered |-> [m \in Modes |-> Nil], pin |-> Nil, text |-> Nil]
NoRun == NewRun("none", FALSE, FALSE, "idle")

Committed ==
  LET v == Checkout.version  g == Checkout.generator
  IN  [schema |-> Emits[v]["stable"], gen |-> g, sha |-> Emits[v]["stable"], pin |-> g]

Init ==
  /\ codex \in Versions
  /\ generator \in Generators
  /\ lock = Checkout.generator
  /\ snapshot = Emits[Checkout.version]
  /\ manifest = BuildManifest(Checkout.version, Emits[Checkout.version])
  /\ output = Rendered(Committed)
  /\ run = NoRun
  /\ certified = {}
  /\ accidents = 0 /\ replaced = 0

At(script, step) == run.script = script /\ run.at = step
Goto(step) == run' = [run EXCEPT !.at = step]
Refuse == Goto("refused") /\ UNCHANGED <<files, around, certified>>

\* A --check passed: it speaks of the files as they are, and for the tools if
\* these were the same throughout.
Pass ==
  /\ Goto("passed")
  /\ certified' = IF run.clean THEN certified \cup {run.script} ELSE certified
  /\ UNCHANGED <<files, around>>

Start(script, check, allow) ==
  /\ ~Running
  /\ script = "generate" => ~allow
  /\ run' = NewRun(script, check, allow, IF script = "vendor" THEN "version" ELSE "pin")
  /\ UNCHANGED <<files, around, certified>>

-----------------------------------------------------------------------------
(* vendor_protocol_schema.py                                                *)

\* Mutant of VersionExpected: the flag is not asked for.
VersionAccepted == manifest # Torn

\* ensure_version_is_expected(): another release than the manifest's needs
\* the flag, a torn manifest does not load, without one anything goes.
VersionExpected ==
  \/ manifest = Missing
  \/ manifest \notin Lost /\ (manifest.pin = codex \/ run.allow)

ReadVersion ==
  /\ At("vendor", "version")
  /\ VersionExpected
  /\ run' = [run EXCEPT !.version = codex, !.at = "renderStable"]
  /\ UNCHANGED <<files, around, certified>>

RefuseVersion == At("vendor", "version") /\ ~VersionExpected /\ Refuse

\* render_artifacts(): one call of the binary for each mode.
RenderStable ==
  /\ At("vendor", "renderStable")
  /\ run' = [run EXCEPT !.rendered["stable"] = Emits[codex]["stable"],
                        !.at = "renderExperimental"]
  /\ UNCHANGED <<files, around, certified>>

RenderExperimental ==
  /\ At("vendor", "renderExperimental")
  /\ run' = [run EXCEPT !.rendered["experimental"] = Emits[codex]["experimental"],
                        !.at = IF run.check THEN "verify" ELSE "writeStable"]
  /\ UNCHANGED <<files, around, certified>>

\* Mutant of SnapshotsMatch: only the snapshot that is generated from counts.
StableMatches ==
  /\ snapshot["stable"] = run.rendered["stable"]
  /\ manifest = BuildManifest(run.version, run.rendered)

\* verify_outputs()
SnapshotsMatch ==
  /\ \A m \in Modes : snapshot[m] = run.rendered[m]
  /\ manifest = BuildManifest(run.version, run.rendered)

VerifySnapshots == At("vendor", "verify") /\ SnapshotsMatch /\ Pass
RefuseSnapshots == At("vendor", "verify") /\ ~SnapshotsMatch /\ Refuse

\* write_outputs(): the two snapshots, then the manifest.
WriteSnapshot(m, step, next) ==
  /\ At("vendor", step)
  /\ snapshot' = [snapshot EXCEPT ![m] = run.rendered[m]]
  /\ Goto(next)
  /\ certified' = {}
  /\ UNCHANGED <<manifest, output, around>>

WriteManifest ==
  /\ At("vendor", "writeManifest")
  /\ manifest' = BuildManifest(run.version, run.rendered)
  /\ Goto("written")
  /\ certified' = {}
  /\ UNCHANGED <<snapshot, output, around>>

Vendor ==
  \/ ReadVersion
  \/ RefuseVersion
  \/ RenderStable
  \/ RenderExperimental
  \/ VerifySnapshots
  \/ RefuseSnapshots
  \/ WriteSnapshot("stable", "writeStable", "writeExperimental")
  \/ WriteSnapshot("experimental", "writeExperimental", "writeManifest")
  \/ WriteManifest

-----------------------------------------------------------------------------
(* generate_protocol_models.py                                              *)

\* ensure_codegen_version_matches_pin()
EnsurePin ==
  /\ At("generate", "pin")
  /\ generator = lock
  /\ run' = [run EXCEPT !.pin = lock, !.at = "codegen"]
  /\ UNCHANGED <<files, around, certified>>

RefusePin == At("generate", "pin") /\ generator # lock /\ Refuse

\* load_generation_target(), run_codegen() and postprocess_rendered_output():
\* the hash comes from the manifest, the classes from the snapshot itself.
CodegenInputs == manifest \notin Lost /\ snapshot["stable"] \notin Lost

RunCodegen ==
  /\ At("generate", "codegen")
  /\ CodegenInputs
  /\ run' = [run EXCEPT !.text = [schema |-> snapshot["stable"], gen |-> generator,
                                  sha |-> manifest.sha["stable"], pin |-> run.pin],
                        !.at = "stable"]
  /\ UNCHANGED <<files, around, certified>>

RefuseInputs == At("generate", "codegen") /\ ~CodegenInputs /\ Refuse

\* verify_output(), verify_notification_registry() and
\* verify_server_request_registry()
Checking(f) == At("generate", f) /\ run.check
Matches(f) ==
  /\ f = "notifications" => CanRenderRegistry(output, run.text)
  /\ output[f] = Rendered(run.text)[f]
Differs(f) ==
  \/ f = "notifications" /\ ~RendersRegistry(output, run.text)
  \/ output[f] # Rendered(run.text)[f]

Verified(f, next) ==
  /\ Checking(f)
  /\ Matches(f)
  /\ Goto(next)
  /\ UNCHANGED <<files, around, certified>>

VerifyStable == Verified("stable", "notifications")
VerifyRegistry == Verified("notifications", "requests")
VerifyRequests == Checking("requests") /\ Matches("requests") /\ Pass
RefuseOutput == \E f \in Outputs : Checking(f) /\ Differs(f) /\ Refuse

\* write_output(), write_notification_registry() and
\* write_server_request_registry(): each file is in place before the next is
\* rendered, and the rendering of the second imports the first.
WriteOutput(f, next) ==
  /\ At("generate", f)
  /\ ~run.check
  /\ output' = [output EXCEPT ![f] = Rendered(run.text)[f]]
  /\ Goto(next)
  /\ certified' = {}
  /\ UNCHANGED <<snapshot, manifest, around>>

WriteStable == WriteOutput("stable", "notifications")
WriteRegistry ==
  /\ WriteOutput("notifications", "requests")
  /\ CanRenderRegistry(output, run.text)
WriteRequests == WriteOutput("requests", "written")

RefuseRegistry ==
  /\ At("generate", "notifications")
  /\ ~run.check
  /\ ~RendersRegistry(output, run.text)
  /\ Refuse

Generate ==
  \/ EnsurePin
  \/ RefusePin
  \/ RunCodegen
  \/ RefuseInputs
  \/ VerifyStable
  \/ VerifyRegistry
  \/ VerifyRequests
  \/ RefuseOutput
  \/ WriteStable
  \/ WriteRegistry
  \/ WriteRequests
  \/ RefuseRegistry

-----------------------------------------------------------------------------
(* What happens around the scripts.                                         *)

\* A run is cut short, by a signal or by a tool that fails; a file that was
\* being written is then as it was or torn.
Abort ==
  /\ accidents < MaxAccidents
  /\ accidents' = accidents + 1
  /\ Running
  /\ Goto("aborted")
  /\ UNCHANGED <<tools, replaced>>
  /\ \/ UNCHANGED <<files, certified>>
     \/ /\ certified' = {}
        /\ \/ /\ \E m \in Modes :
                   /\ At("vendor", IF m = "stable" THEN "writeStable" ELSE "writeExperimental")
                   /\ snapshot' = [snapshot EXCEPT ![m] = Torn]
              /\ UNCHANGED <<manifest, output>>
           \/ /\ At("vendor", "writeManifest")
              /\ manifest' = Torn
              /\ UNCHANGED <<snapshot, output>>
           \/ /\ \E f \in Outputs :
                   /\ At("generate", f)
                   /\ f = "notifications" => CanRenderRegistry(output, run.text)
                   /\ output' = [output EXCEPT ![f] = Torn]
              /\ ~run.check
              /\ UNCHANGED <<snapshot, manifest>>

\* A file is removed by hand; what the last run ended with is past.
Remove ==
  /\ accidents < MaxAccidents
  /\ accidents' = accidents + 1
  /\ ~Running
  /\ run' = NoRun
  /\ certified' = {}
  /\ UNCHANGED <<tools, replaced>>
  /\ \/ /\ manifest' = Missing
        /\ UNCHANGED <<snapshot, output>>
     \/ /\ \E f \in Outputs : output' = [output EXCEPT ![f] = Missing]
        /\ UNCHANGED <<snapshot, manifest>>

\* The binary, the generator or the lock is replaced, also while a script runs.
Replace ==
  /\ replaced < MaxReplaced
  /\ replaced' = replaced + 1
  /\ UNCHANGED accidents
  /\ run' = IF Running THEN [run EXCEPT !.clean = FALSE] ELSE run
  /\ UNCHANGED files
  /\ \/ codex' \in Versions /\ UNCHANGED <<generator, lock, certified>>
     \/ generator' \in Generators /\ UNCHANGED <<codex, lock, certified>>
     \/ /\ lock' \in Generators
        /\ certified' = certified \ {"generate"}
        /\ UNCHANGED <<codex, generator>>

Next ==
  \/ \E script \in {"vendor", "generate"}, check, allow \in BOOLEAN :
       Start(script, check, allow)
  \/ Vendor
  \/ Generate
  \/ Abort
  \/ Remove
  \/ Replace

Spec == Init /\ [][Next]_vars

-----------------------------------------------------------------------------
(* Properties                                                               *)

\* Every file holds what a script renders, or is missing or torn.
TypeOK ==
  /\ codex \in Versions /\ generator \in Generators /\ lock \in Generators
  /\ snapshot \in [Modes -> Schemas \cup Lost]
  /\ manifest \in Manifests \cup Lost
  /\ output = [f \in Outputs |-> output[f]]
  /\ output["stable"] \in Texts \cup Lost
  /\ output["notifications"] \in Registries \cup Lost
  /\ output["requests"] \in RequestRegistries \cup Lost
  /\ certified \subseteq {"vendor", "generate"}
  /\ accidents \in 0..MaxAccidents /\ replaced \in 0..MaxReplaced
  /\ run \in [script : {"none", "vendor", "generate"}, check : BOOLEAN, allow : BOOLEAN,
              at : Ends \cup VendorSteps \cup GenerateSteps, clean : BOOLEAN,
              version : Versions \cup {Nil}, rendered : [Modes -> Schemas \cup {Nil}],
              pin : Generators \cup {Nil}, text : Texts \cup {Nil}]

\* What both --check commands together are run for before a merge
\* (CONTRIBUTING.md:194-195): one release of the binary wrote both snapshots
\* and is the one the manifest names, the pinned generator made the classes of
\* that very schema, the registries belong to these classes, and the package
\* imports.
Consistent ==
  /\ manifest \notin Lost
  /\ snapshot = Emits[manifest.pin]
  /\ manifest.sha = snapshot
  /\ output = Rendered([schema |-> snapshot["stable"], gen |-> lock,
                        sha |-> snapshot["stable"], pin |-> lock])
  /\ Importable(output)

\* Whatever refreshes were cut short or mixed before, a tree on which both
\* checks have passed since its last change is consistent.
CertifiedIsConsistent == certified = {"vendor", "generate"} => Consistent

\* A refresh of the generated modules that reports success leaves three files
\* of one rendering, and a package that imports: the next refresh can run.
RefreshIsWhole ==
  At("generate", "written") => output = Rendered(run.text) /\ Importable(output)

\* The pinned release only moves when the maintainer asked for it
\* (docs/schema-vendoring.md:72-73), however long ago the run compared it and
\* whatever happened to the binary since.
PinMovesOnRequest ==
  [][manifest \notin Lost /\ manifest' \notin Lost /\ manifest'.pin # manifest.pin
       => run.allow]_vars
=============================================================================
