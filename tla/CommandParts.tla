---------------------------- MODULE CommandParts ----------------------------
(***************************************************************************)
(* Keys, which this module extends, and beside it manifests, policies,     *)
(* benchmarks, a form of the interface and its screens.  They share        *)
(* nothing: one run goes through all of them (MCCommands), and one module  *)
(* proves their properties for any values of these constants               *)
(* (CommandsProofs).                                                       *)
(***************************************************************************)
EXTENDS Keys

CONSTANTS
    BaseNames, Passwords, Empty, Options,                        \* of Form
    Trees, Outputs, TreePaths, Unencodable, Replaced, TreeStarts, Nodes,
    MaxManifestEntries, MaxLoadable, MaxEdits, MaxCommands,      \* of Manifest
    Unset, Profiles, Defaults, ConfigFiles, ProfileNames, Codecs, Ciphers, Units,
    MaxRecordSize,                                               \* of Policy
    CodecOrder, CipherOrder, Durations, Sizes, OriginalSize, Weight,  \* of Benchmark
    Operations, Secret, Reporting, None, MaxOps, MaxEvents       \* of Tui

VARIABLES
    kind, input, dir, keyFile, password, confirmation, credential, choice, overwrite, focus,
    typing, shows, slot, selected, request,
    trees, manifests, commands, command, roots, pc, todo, visit, entries, built, during,
    changes, clock,
    configured, environment, named, resolved,
    goal, phase, index, cancelled, successes, failures, reported, err, answer,
    screen, form, pendingKind, pending, typed, operationID, cancel, cancelRequested, progress,
    shown, job, withdrawn, events, emitted, waiter, msgs, copies

Forms == INSTANCE Form

M == INSTANCE Manifest WITH Paths <- TreePaths, Starts <- TreeStarts

P == INSTANCE Policy WITH Files <- ConfigFiles, Names <- ProfileNames

B == INSTANCE Benchmark WITH Codecs <- CodecOrder, Ciphers <- CipherOrder

Ui == INSTANCE Tui WITH cancelled <- withdrawn, Kinds <- Operations

ASSUME FormAssumption == Forms!ConstantsAssumption
ASSUME TreeAssumption == M!ConstantsAssumption
ASSUME PolicyAssumption == P!ConstantsAssumption
ASSUME BenchmarkAssumption == B!ConstantsAssumption
ASSUME TuiAssumption == Ui!ConstantsAssumption

\* Form: the request is what the form shows, and the focus is where it is shown
\* (forms.go:131-312, model.go:315-467).
FormIsHonest == Forms!FormIsHonest

\* Manifest: each entry is of one moment of the walk, and nothing that was there all
\* the while is missing (manifest.go:83-146).
ManifestIsOfTheWalk == M!ManifestIsOfTheWalk

\* Manifest: what a comparison lists is what differs (manifest.go:59-82 and 200-242).
ChangesAreExact == M!ChangesAreExact

\* Manifest, and the example of the README (README.md:181-188): two manifests are
\* compared by what they list.
ManifestsAreCompared == M!ManifestsAreCompared

\* Policy: every setting is that of the foremost layer that has one
\* (config.go:108-193).
PolicyIsLayered == P!PolicyIsLayered

\* Benchmark: the report is complete and the recommendation the best of it
\* (benchmark.go:47-91, recommend.go:44-74).
BenchmarkIsComplete == B!BenchmarkIsComplete

\* Tui: a form holds a secret only while it is shown (model.go:595-618), a
\* credential is held by what still needs it and by nothing else, one operation
\* runs at a time (model.go:173-213), and the screen is of the last one, however
\* late the messages of earlier ones are (model.go:134-167).
SecretsConfined == Ui!SecretsConfined
CredentialsWiped == Ui!CredentialsWiped
OneOperation == Ui!OneOperation
DisplayIsCurrent == Ui!DisplayIsCurrent
=============================================================================
