# cypherstorm in TLA+

Cypherstorm packs files and directories into authenticated encrypted containers, restores them,
changes who can open them, and keeps passwords and keys in the system's keychain. This directory
holds TLA+ modules of the parts of it that keep state or that can be interrupted, the TLC
configurations that check them, and TLAPS proofs of what matters most. Paths below are relative to
`src/internal/`.

    tlc -workers 2 -config PublishRace.cfg Publish      # a run: see the table of runs
    tlapm PublishProofs.tla                             # the proofs of a module

## 1. The system

| Component | State it keeps | Operations | Hard because |
|---|---|---|---|
| Atomic publication (`storage/fsutil`) | a temporary file, the final name | `PublishAtomic`, `PublishDirectory`, `ReplaceDirectory` | any system call may fail, the process may be killed or the machine lose power between two, others use the same name |
| Credential store (`credential/credentialstore`) | one keychain item per secret and one index item | `Put`, `Get`, `Delete`, `List` | two items written one after the other, an undo, a mutex, crashes |
| Container (`security/container`) | a header with one stanza per recipient; a sequence of records | `Encrypt`, `Decrypt`, `Rekey`, `Inspect` | records are released before the end is known; the stored stream may be cut, reordered or repeated; recipients come and go in chains of rekeyings |
| Archive and selection (`storage/archive`, `storage/selection`, `app/source_selection.go`) | a tar stream; the walk of a source | `CreateTarWithOptions`, `ScanTar`, `ExtractTarSelected` | the source is edited while it is walked; three pieces of code must agree on what is acceptable |
| Restore (`app/restore.go`) | an incoming tree, a merged tree, the destination | `Restore` with four conflict policies | two renames to replace a tree, a rollback, deferred clean-ups, other restores |
| Protect, rekey, batch (`app`) | output files | `Protect`, `BatchProtect`, `Rekey` | requests that race for a name, a verification that comes after the publication |
| Interface (`ui/tui`) | screens, forms with secrets, a pending request, a running operation | keys, command messages, signals | goroutines answer late and in any order; secrets have to be wiped on every way out |
| File picker (`ui/tui/overlays.go`, `fuzzy.go`) | a listing, a query, matches | navigation, fuzzy find | listings and searches are asynchronous, directories change meanwhile |
| Manifests (`app/manifest.go`) | entries so far, the place of a walk | `ManifestCreate`, `ManifestVerify`, `Compare` | the tree is edited while it is walked and its files are hashed |
| Identities, signatures, raw keys (`credential/identity`, `credential/keymanage`) | small files | generate, export, validate, `Sign`, `Verify` | several files are read one after the other, and paths are replaced and linked meanwhile |
| Benchmark and recommendation (`app/benchmark.go`, `recommend.go`) | successes and failures so far | `Benchmark`, `Recommend` | trials that fail, cancellation at any moment, ties |
| Policies (`config`) | a file, the environment | `Resolve`, `parseByteSize` | layers over layers, sizes of 32 bits |
| CLI, KDF, ciphers, codecs, hashing, QR | little or none | | see section 7 |

The parts interact as follows. The interface and the CLI build requests and call `app.Service`; the
interface does so in a goroutine and hears from it through a channel of size one and a completion
message. `Protect` walks the source into a compressed tar stream (Archive), encrypts it into the
temporary file of a publication (Container in Publish) and may verify the result. `Restore` decodes
a container into a workspace (Container), extracts it next to the destination (Archive), merges it
with what is there and publishes a directory (Restore). `Rekey` replaces the header of a container
and publishes a new file. Saved credentials come from the credential store. Nothing is shared in
memory between operations; what they share is the file system and the keychain, which other
processes use too.

What makes each part correct:

- *Publication*: the name refers to the old file or to a complete new one, after a power loss too;
  an existing file is replaced only on request; an error means that nothing was published.
- *Credential store*: it behaves as one atomic map; listings and secrets agree.
- *Container*: what is released is a prefix of what was encrypted, and what is accepted is all of
  it; a nonce is never used twice; who can open a file is who was asked to be able to.
- *Archive*: it has exactly what was selected; what can be made can be restored; a restore writes
  what was asked for and nothing else.
- *Restore*: at no point are both the old and the new tree gone; half-extracted trees are never
  published and always removed.
- *Requests*: what was reported as a success is there and usable; a batch stops when it should.
- *Interface*: one operation at a time, whose progress and result are shown; secrets live no longer
  than they have to; every operation comes to its result screen.
- *Picker*: what is shown and chosen belongs to the present query and directory.
- *Form*: a request is what the form shows, and what is typed goes where the focus is shown.
- *Manifests*: every entry is of one moment of the walk, and nothing that stayed is missing; a
  comparison lists exactly what differs.
- *Keys*: a verification that succeeds means that the trusted signer has signed the input; a private
  key that is used is of the file its path names; a command refuses only when it lacks what it
  needs, and changes nothing but that it publishes one whole file.
- *Benchmark*: a report accounts for every combination; the recommendation is the best that succeeded.
- *Policies*: every setting is that of the foremost layer that has one, and no size wraps.

## 2. Modules

| Module | Models | State, and what it stands for |
|---|---|---|
| `AtomicPublish` | what `PublishAtomic` promises | the complete file under the name, in memory and on the medium; the phase of each request |
| `Publish` | `PublishAtomic` (`fsutil.go:98-213`, `rename_*.go`) | `dir`/`disk`: directory entries in memory and on the medium; `written`/`durable`: chunks of each operation's file; `pc`: the next system call |
| `PublishProofs` | | invariants and refinement, proved |
| `CredentialMap` | what the store promises | one map; a name may be unknown after an update that was cut short |
| `CredentialStore` | `KeychainStore` (`store.go`) | `index`, `secrets`: the keychain items; `lock`: the mutex; `newIndex`, `previous`: locals of each call |
| `CredentialStoreProofs` | | invariants and refinement, proved |
| `RecordStream` | records of `Encrypt` and `Decrypt` (`container.go:178-320`, `640-682`) | the stream that was written, the stream after damage, the decoder's counters and output |
| `RecordStreamProofs` | | invariants, proved |
| `Envelope`, `MCEnvelope` | recipients, `Rekey`, `Protect` after the archive, `BatchProtect` | `files`: the container under each name with its stanzas; `proc`: each process's request and finished items |
| `EnvelopeProofs` | | invariants and the loop of `Rekey`, proved |
| `Archive`, `MCArchive` | `CreateTarWithOptions`, selection, `ScanTar`, `ExtractTarSelected` | `tree`: the source, edited meanwhile; `todo`, `visit`: where `WalkDir` is; `stream`: the entries |
| `ArchiveProofs` | | invariants, proved |
| `Restore` | `Service.Restore`, `PublishDirectory`, `ReplaceDirectory` | the trees under each name, the locals of each restore |
| `MergeTrees` | `mergeTrees` (`restore.go:198-257`) | `src`, `dst`: the two trees, each a function on its paths; `listed`: what `os.ReadDir` has returned, in this call or one it is called from, and no loop has come to; `existing`: what `dst` was, a history variable |
| `RestoreParts`, `MCRestore` | | `Restore` with `MergeTrees` beside it, which one run and one module of proofs share, and an instance of each |
| `RestoreProofs` | | invariants and an action property of `Restore`, the invariant of `MergeTrees`, and how the two agree, proved |
| `Tui` | `tui.Model.Update` and the goroutines of its commands | screens, forms that hold secrets, the operation, channels and messages under way, holders of unwiped copies |
| `Picker` | the file picker and its fuzzy find | the picker, the listings and searches under way, the directories |
| `PickerProofs` | | invariants, proved |
| `Form` | one `operationForm` (`forms.go`), the dropdown, the `prepare` functions of `model.go` | the fields, `focus`, `typing`: the text inputs that are focused, `request`: what awaits confirmation |
| `Manifest` | `app/manifest.go` | `trees`, `manifests`: the disk; `todo`, `visit`: where `WalkDir` is; `entries`; `during`: what the tree has been since the walk began, a history variable |
| `Keys` | `credential/identity`, `credential/keymanage`, `app/identity.go`, `app/key.go` | `files`: what each path names; `call`, `at`, `held`: the command, its step and what it has read; `seen`, `made`, `signed`: history variables |
| `Benchmark` | `Service.Benchmark`, `Recommend`, `AllCombinations` | `index`, `successes`, `failures`, the report that was published |
| `Policy` | `config.Resolve`, `parseByteSize` | the file, the environment, the profile asked for, the outcome |
| `CommandParts` | | `Keys` with a `Form`, a `Tui`, a `Manifest`, a `Policy` and a `Benchmark` beside it, which one run and one module of proofs share |
| `CommandsProofs` | | invariants of `Keys`, `Form`, `Manifest`, `Policy` and `Benchmark`, invariants and an action property of `Tui`, proved |
| `MCCommands` | | a small instance of each of `Manifest`, `Keys`, `Benchmark`, `Policy`, `Form` and `Tui` |

How they compose. `Publish` and `CredentialStore` instantiate their abstract specifications with a
refinement mapping. The other modules use the result: `Envelope` publishes in one step, as
`AtomicPublish` has it, and takes a decryption as all or nothing, as `RecordStream` establishes it.
`Restore` merges in one step, file by file, as `MergeTrees` is proved to do (`MergesFileByFile`), and takes
the set of selected files from what `Archive` checks. `Tui` takes the picker as an overlay that is opened and closed, and a form
as what holds secrets or does not; `Form` is inside of one. `Manifest`, `Keys` and `Benchmark` publish
in one step, without overwriting, as `AtomicPublish` has it.

The parts in `MCCommands` share no state, and a process runs one command, so a product of them would
only multiply independent states; nor does a merge, which works on a copy in a staging directory, share
any with what other restores do meanwhile (`MCRestore`). The initial states choose a part; the others rest, which makes the
states the union of the parts' states and each of the invariants a statement about one part.

Within a module each action is one system call, keychain call, record, directory entry, message or
key, the smallest step that another actor can come between. The recursion of `mergeTrees` is a loop over
what is listed: a directory of both trees is entered by listing its entries, which come before all that
the calls around it have still to do. The pure algorithm `Policy` is one action that is checked against what their outcome is to mean. Operators named "Faulty" in a comment
are variants with one bug; no specification uses them. They stand beside what they vary to document
that the property which is about that code rejects the bug.

`PROJECT.json` has, for each definition, the lines of the source that it models.

## 3. Runs

| Run | Instance | Shows |
|---|---|---|
| `publish_race` | two operations, with and without overwriting, two chunks, one power loss, every call may fail, kills, another program that creates the file, both kinds of platform | never a partial file under the name; an error leaves the target (but see 5); no temporary file is left unless the process is killed or the removal fails; the refinement |
| `store` | two goroutines, two names, two values, limit of one entry, every call may fail, crashes | listings and secrets agree; the store is an atomic map; every call returns |
| `stream_damage` | up to five bytes in records of two, three damages of any kind | decryption is exact: output is a prefix, what is accepted is the original, and an undamaged stream is accepted; nonces are unique |
| `restore` | two restores to one destination, any policy, two files, one user edit or failing removal, kills; and, by itself, the merge of every pair of trees of two names at each of two levels, entry by entry, under three policies, with two suffixes | some complete tree survives; a merge keeps what was there; errors mean that nothing was published; no staging is left behind; only whole trees are published; each conflict policy means what it says |
| `archive` | every source of two names at two levels, nine requests, one edit, six restore requests; every foreign stream of up to three entries | the four properties of the archive above |
| `envelope` | two processes, three requests out of 117, removals of a recipient and of the empty id, five keys, three names, one damage | headers stay readable and access is as asked for; rekeyed files are usable; successes stand and batches stop |
| `tui` | two operations (one with a secret, one that reports on error), two events each | with fairness, operations and their waiters end |
| `picker` | two pickers, two queries, two answers under way, one change | the properties of the picker |
| `commands` | manifests: one tree of three paths, with a name and a link target that are not UTF-8, two commands and two edits; keys: three commands in a chain, from five starts, any step of which may fail, also after a publication, and one step of another program; benchmark: two codecs, two ciphers, every outcome of every trial; policies: 80 configuration files, four names, sizes of four bits; forms: all seven kinds, three base names, two passwords; the interface: as `tui`, without fairness | the safety properties of these parts |
| `manifest_compare` | manifests of one tree under two names, one edit, three commands | *violated*: `compare` finds any two manifests equal |
| `archive_empty` | as `archive` | *violated*: an archive that verification accepts and every restore rejects |
| `envelope_verify_after` | as `envelope` and a protection for recipients only | *violated*: `--verify-after` fails an artifact that is intact and in place |

Why the bounds suffice. Races here are between two: a third operation meets the same states, because
an operation does not know others but through one name, one lock or one tree. Two chunks tell an
incomplete file from an empty and from a complete one. Two records and a final one are what it takes
to swap, drop, repeat and cut, and five bytes give an exact multiple of the record size, a remainder
and nothing at all; three damages are enough to repeat one record and drop two. A limit of one is
met with two names; three recipients are met by a rekeying that adds two. Two levels of directories
tell a child from a descendant and give every pattern of `*` and `**` something to match and to
miss; a third level is beyond the depth limit. Three requests allow a protection and two rekeyings
in a chain, or two requests at the same time after a first. Two operations of the interface are
needed for a message to be stale. Two edits put a file back or change it between two looks at it, and two manifest commands make one and
use it. Three commands on keys generate, export and use, or sign and verify, and a file that another
program puts between two of their steps is all that either can tell apart. Four bits are enough for a
size to fit, to be a number that fits and a product that does not, and to be neither. Each
level of the merged trees has a name and what a renamed entry of that name is called first, so that a
renamed entry meets an old or a new one, and a second suffix is free or is not. Symmetry is used for restores, files and processes, which no
definition tells apart; no run with symmetry checks liveness.

Deadlock is checked for the store and the record stream. The others set `CHECK_DEADLOCK FALSE`
because they come to an end: all requests of the bound have been made, or the program was quit.

## 4. Fairness

`CredentialStore!FairSpec`: every goroutine in a call takes its next step, since a call to the
keychain returns, with an error perhaps; and the mutex is handed over (`sync.Mutex` in its
starvation mode is first come, first served, so a waiting goroutine gets it). No call has to begin.

`Tui!FairSpec`: goroutines run, every call of the service returns, and the event loop takes the
messages of commands and not only keys (bubbletea puts both in one channel, whose senders the
runtime serves in turn). No key has to be pressed. A service call that never returns, on a stalled
network drive for instance, is outside the assumption: cancelling the context does not interrupt a
system call.

The other specifications state no fairness and check only safety.

## 5. What the checks found

- *Manifests are not compared* (`manifest_compare`). The README of the repository, lines 181-188,
  compares `dataset.manifest` with `dataset-new.manifest`. `Service.Compare` builds a manifest of
  each path and loads none (`manifest.go:70-79`); the walk of a file visits only the file, which is
  the root and is skipped, so that any two manifests, and any two files, are reported equal.
- *An empty archive cannot be restored* (`archive_empty`). Only a dry run refuses an empty
  selection (`protect.go:40`); the archive is made, verified and listed, and every restore ends with
  "selection is empty" (`selective.go:39`).
- *Verification after protection has no identities* (`envelope_verify_after`). A protection for
  public-key recipients only is reported as having failed verification (`protect.go:132-137`).

Behaviour met while modelling that no run is about, because nothing in the repository promises
otherwise, or because a property says which case it leaves out:

- The index of the credential store can outgrow its limit. `Put` compares nothing with the limit of
  1024 entries, and reading does: the 1025th `Put` succeeds, and from then on `Put`, `Delete` and
  `List` fail, so that nothing can be removed either (`store.go:97`, `219-221`). `IsAtomicMap` lets
  a call fail, and nothing says that it must not.
- A file that is edited while it is hashed and given back its time and size goes unnoticed
  (`manifest.go:130`). In the model every edit has a time of its own.
- A name that is not UTF-8 is changed when the manifest is written (`manifest.go:49`), so that the
  verification of a tree nobody touched lists it as removed and added. So is what a symbolic link
  says (`manifest.go:28`), and the link is listed as modified (`manifest.go:233`). `ChangesAreExact`
  excepts both. Two such names in one directory make a manifest that cannot be loaded. Nor can one of more than
  64 MiB, a size that `ManifestCreate` does not look at.
- `Recommend` drops the error of a benchmark that was cancelled once a trial has succeeded
  (`recommend.go:41`), and recommends the best of the trials until then. `RecommendationIsBest` is
  about what was tried.
- `IdentityGenerate`, `KeyGenerate` and `Sign` report what they find at the path after they have
  published, which another program may have replaced (`app/identity.go:29`, `68`; `app/key.go:29`).
- They may also fail after they have published: when what they published cannot be read back
  (`app/identity.go:26-32`, `65-69`; `app/key.go:26-32`), or by the late error of a publication, which
  `IdentityPublic` can meet too (`rename_other.go:21`). The key or the signature is then in place, and a
  second attempt finds it there. `ReadyCallsSucceed` says what such a command may have left.
- A rekeying that is to remove the empty id removes every password and raw key: their stanzas have the
  empty id (`container.go:481`, `503`), with which an id to remove is compared (`container.go:342-345`),
  and nothing looks at the ids that are given. A list that ends with a comma, `--remove-recipient "fp,"`,
  has the empty one; the flag is described as removing a recipient's fingerprint (`rekey_qr.go:57`).
  `AccessIsAsAsked` accounts for whom such a removal has taken along, and `RekeyedIsUsable` holds:
  the caller's own access is not lost that way.
- A profile that is named only in the configuration file is overridden by defaults: `Defaults` sets
  a compression, a cipher and a record size, and whatever the file does not say counts as said by it
  (`config.go:131-144`). `PolicyIsLayered` has the defaults in the file's place for this reason.
- Two examples of the README of the repository name goals and profiles that are refused: `recommend
  --optimize ratio` (line 199; `recommend.go:34`) and `policy show default` (line 213;
  `config.go:127`).
- On platforms without an exclusive rename, publication is a link and a removal; if the removal
  fails, an error is returned for a file that is in place (`rename_other.go:21`), although the
  comment at `fsutil.go:111-113` says that the final path is untouched on any failure.
  `FailureLeavesTarget` excepts it, and `AtomicPublish` has it as a late failure.
- A restore whose deferred clean-up fails returns an error after it has published
  (`restore.go:57`), and the interface then shows "No output was published" (`model.go:812`).
  `ErrorMeansUnpublished` excepts it.
- The destination does not exist between the two renames of `ReplaceDirectory`, as the README of
  the repository says at line 248; the old tree does, under the backup name.
- What users or other restores put in the destination after it was copied for a merge is lost when
  the merged tree replaces it. `MergeKeepsOld` is about what was there when the copy began.
- A record header of 13 bytes with nothing after it is taken for the end of the stream
  (`container.go:680`); the README of the repository, line 236, says that trailing bytes are
  rejected. What is accepted is the original all the same.
- A directory that is replaced by a file during the walk makes `WalkDir` skip its siblings if the
  selection prunes it (`create.go:85`): the protection succeeds without them.
- An archive can have entries below a file. It takes two edits during the walk: a path is a directory
  when `WalkDir` lists it, a file when it is archived, and a directory again, with something in it, when
  `WalkDir` goes into it, since it goes by what it listed (`create.go:68-98`). The protection succeeds,
  and every scan and restore rejects the archive. `MadeIsRestorable` excepts it. The run has one edit
  and could not show it; the attempt to prove the property did.
- `ScanTar` accepts some streams of other programs that extraction rejects: those with a child
  before a parent that is not a directory.
- Restored directories keep the mode 0700 (`selective.go:108`).
- A result of the fuzzy find is chosen by its index in the listing shown (`overlays.go:285`). If the
  directory has changed, or a message that is no key has made the picker ready too early
  (`overlays.go:178`), another entry is chosen. `UndisturbedChoice` says when it is the right one.

## 6. What is proved

TLAPS checks the following for any number of operations or clients, names, values, chunks, records,
damages and crashes. The only assumptions are those on constants, named `ConstantsAssumption` in the modules:
that model values for "nothing" are no values, and that counts are natural numbers. TLC evaluates
them on every run. Both kinds of platform are covered: the rename without replacement is left open
between one system call and the link and removal.

`PublishProofs`. `NeverPartial` is not inductive: that a named file is complete depends on the order
of write, sync and rename, and, for the medium, on the file having been durable before its name
could be. `Inv` therefore says at which program points the final name may already refer to an
operation's file (`NotYetNamed`), that such a file and one about to be named is whole and durable
(`NamedIsDurable`, `SyncIsWhole`), and where a late failure can be (`LateEnds`). One lemma per kind
of step preserves it, one case per action. From `Inv`:

- `TypeCorrect`, `NeverPartialTarget`, `ErrorLeavesTarget`: the invariants of the run;
- `OverwriteOnlyOnRequest`: only an operation that asked to overwrite replaces an existing target;
- `PublishImplementsAtomic`: every step is a request, a commit or a report of `AtomicPublish`, a step
  of its environment, or a stutter. The commit is the rename or the link, whatever fails later.

`NoTempIsOrphaned` rests on one part more, `TempIsOwned`: a directory entry for an operation's file
belongs to an operation that still has to rename or remove it, or is one that could not be removed.

`CredentialStoreProofs`. `Inv` has the mutex (`Mutex`), and what it is for: the new index of a call
differs from the stored one in one entry for as long as it holds the lock (`FreshIndex`), and what
it read as the previous secret is what an undo has to write (`FreshPrevious`). From `Inv`:

- `TypeCorrect`, `ListingCorrect`: the invariants of the run;
- `StoreImplementsMap`: the store implements `CredentialMap`. The update takes effect with the second
  keychain write; names between the two writes read as they did before, and a crash or a refused
  undo in between leaves that name unknown, and no other.

`RecordStreamProofs`. Plaintexts of any length, any record size and any number of damages.
`DecryptionIsExact` speaks of the end of the decryption only; `Inv` says what was written after each
record in closed form (`Written`: record `k` is `DataAt(length, k)`), that damage can move, cut and
relabel records but never make one that opens (`Genuine`), and that what was accepted is the
beginning of what was written, in its order (`Opened`). A record that opens at position `k` has the
index `k` under its seal and is therefore the one written there. From `Inv`:

- `NoncesAreUnique`: the nonce is the index, the final record's included;
- `DecryptionExact`: what is written is a prefix, what is accepted is everything, and a stream that
  is as it was written is accepted, at every boundary of records.

`RestoreProofs`. Any number of restores of one destination. `Inv` says what a restore knows at each
step (`Control`), where its trees and its backup can be (`Ownership`), `Survival`, and follows the
files from the archive and the destination into the tree that is about to be published (`Carried`).
`NoTreeIsLost`, `OldFilesAreKept`, `ErrorsPublishNothing`, `NothingIsLeftOver` are the invariants of
the run; `OnlyWholeTreesArePublished` is its action property. The run has two restores, and the proof
has shown why that was not enough for `MergeKeepsOld` as it used to be stated: with four, a rollback
can bring back, while one restore is still copying, a tree that it copied a part of before, and that
another has added to since. The copy is then of two trees, and the code promises nothing about it.
The history variable `source` now says which *one* tree a copy was made of, and the property is about
a destination that is still that tree.

`RestoreProofs`, `MergeTrees`. Any two trees, of any depth, and any number of suffixes. `MergesAsAsked` is
about the end; the invariant says what the tree is after each entry. A path is `Ahead` if it is listed or
below what is listed. No listed path is below another, and whatever is above one is a directory of both
trees (`MergeOrder`); so what is ahead is as it was in both, which is why a rename finds its parent and a
conflict is between the two nodes that the extraction and the old tree had there. Of what is not ahead
the tree holds what the policy promises: with "skip" all of the old tree, and of the new one what is
`Clear`, that is, meets directories only (`SkipInv`); with "overwrite" all of the new one, and of the old
one what is `Clear` or still ahead (`OverwriteInv`); with "rename" both, no file twice (`RenameInv`).
Moving a directory takes everything below it along (`MovedFacts`, `RebasedFacts`), and entering one
makes everything below it, and nothing else, ahead as before (`AheadInside`, by `MergeDescendants`).
The order in which the entries come plays no part in the proof. `MergesKeepTheirPolicy` is the
invariant of the run. `MergesFileByFile` joins the two modules: of a file that no directory and no other
file is in the way of (`FreeWay`), a completed merge leaves the versions that `Merged`, in `Restore`, has
after one step. Where a file meets a directory `Restore` says nothing, and `MergesAsAsked` is what holds.

`EnvelopeProofs`. Any requests, keys, names and processes, and any chain of rekeyings. `Inv` says of
every file, and of the copy that a rekeying has read, that its header is readable, opens for those
it was given to and not taken from, and is usable by who rekeyed it (`SoundFiles`, `SoundInput`); what
one rekeying makes of that, in terms of the request alone, is `RekeyedAccess`: the history variable
`unnamed` has the passwords and raw keys that a removal of the empty id has taken along. It says that every success
reported, and the one about to be, stands (`Outcomes`); and how far a batch is (`Going`, `Stopped`).
What `Rekey` keeps of a header of any length is a loop over its stanzas. `Keeping` models it as a
function on `0..Len(stanzas)`; that the function exists, and that it keeps exactly the stanzas it is
asked to without repeating one (`LoopExists`, `KeepingFacts`), is proved by the least number for
which it would not (`LeastElement`, from the library's `WFMin`), since an induction rule with the
induction hypothesis as a parameter cannot be instantiated. `AccessIsExact`, `RekeyingIsUsable` and
`OutcomesAreTrue` are the invariants of the run.

`PickerProofs`. Any files, queries and number of pickers. `Finding` relates results and search to
query and directory, `Awaiting` says where the answer to the present search is, and `Undisturbed`
that all that was read is still so and that what is shown is of the directory named. From `Inv`:
`ResultsAreCurrent`, `SearchesAreAnswered`, `ChoiceIsWhatWasShown`.

`CommandsProofs`, `Keys`. Any files to begin with, any paths, keys and texts, and any steps of other
programs. The commands look at a path more than once, so `KeysInv` says what a second look is worth:
files are told apart by their numbers (`Numbered`), and what a command has seen under a number is what
the file of that number holds (`HeldNode`). Whatever is a signature was made by who it says, be it in
a file or in a command's hands (`SignaturesAreMade`); where a command found what it holds is among
what there has been since it began (`Found`), and if nobody disturbed it that is what there is but for
its own output (`Undisturbed`, `OnlyItsFile`); and what it has published is of the key and the input that
it was asked for (`MadeOf`). Any step may be an `Abort`, for a call of the system that fails, and so may
the publication after it has published: `ReadyCommandsSucceed` says that such a command has left one
whole file or nothing, and that one which refuses instead lacked something and has left nothing. A
command that reads back what it has published and finds it as it should be cannot refuse it, which is
what makes the keys and signatures of one command good for the next. `VerificationsAreTrue` and
`ReadyCommandsSucceed` are the invariants of the run.

`CommandsProofs`, `Form`. Any names, passwords and numbers of choices. The list of slots depends on
the kind of credential that is chosen in one of them; `SlotsFacts` says for all forms which secrets a
list asks for and that the slot of the choice is in the same place in both lists. `FormInv` adds to
the property that a list or a picker is over the slot that has the focus. `RequestsAreHonest` is the
invariant of the run.

`CommandsProofs`, `Tui`. Any number of operations, events and messages under way. The properties are nearly
inductive; what they need is that a completion arrives once and is expected by the running screen
(`DoneOnce`), that the events of one operation are ordered from the screen over the messages to the
channel (`EventOrder`), that nothing exists of an operation before it starts (`NotStarted`), and where
the request that awaits confirmation is (`RequestWaits`). From `Inv`: `FormSecretsAreConfined`,
`CredentialsAreWiped`, `OneOperationAtATime`, and `LateMessagesAreDropped`, the action property that
the display is of the present operation and never goes back.

`CommandsProofs`, `Manifest`. Any trees of any depth, any directories, edits and commands. A tree holds
the directories above whatever it holds, and nothing in it is newer than the last edit (`Sound`); each
edit by another program keeps that, and changes the time of a node along with what it holds (`IsEdit`).
So what still has, at the second `Lstat`, the time that it had at the first one held the same all the
while (`SameTime`), however often it was written, removed or replaced before and between them: that is
the first half of `ManifestIsOfTheWalk`. The second half is that whatever has been there since the walk
began has an entry, or is listed, or is below a directory that is listed or being visited (`CoverInv`);
the step that could break it is the listing of a directory, which is the reason why `ReadDir` says
which path has which rank (`Ranks`, `Listing`). `ManifestsAreOfTheWalk` and `ListedChangesAreExact` are
the invariants of the run; the second one needs that a manifest of a tree that nobody edited has
exactly the entries of that tree (`Exact`, and `ExactWhenRead` for one that went through JSON, which
keeps the names and link targets that it can hold, `TargetFacts`).

`CommandsProofs`, `Policy`. Any profiles, files, names, units and width of a record size. There is
one step, so the invariant adds to the property only what a file and the environment can hold. The
work is in what the layers come to (`FirstOfThree`, `Overridden`) and in the arithmetic: a number of
units passes the division in `parseByteSize` exactly when the product is a size of a record, and then
nothing is lost when it is stored in 32 bits (`SizesFit`). `PoliciesAreLayered` is the invariant of
the run.

`CommandsProofs`, `Benchmark`. Any numbers of codecs and ciphers whose names differ, any durations and
sizes. The invariant says that what was tried is what the list has before the next combination, and
nothing twice (`TriedSoFar`); the list has every combination once, since a place in rows of equal
length is a row and a place in it (`PlaceOf`, `RowOf`, `AllFacts`). `sort.Slice` promises a permutation
in which nothing comes after what it should precede, and the model says no more (`Sorted`); the loop
over it keeps the first of the best it has passed (`BestFacts`, by the least number for which it would
not, as for `Keeping`). `BenchmarksAreComplete` is the invariant of the run.

`ArchiveProofs`. Any source tree, any patterns and limits, any edits, any foreign stream. `Order` says
that nothing listed is above another thing listed, visited or written, so that no path is met twice
whatever is edited; `Layers`, that until a second edit nothing is listed or written below what was
written as a file; `Selection`, that in a source nobody edits whatever the patterns take is written, is
in the list or is below something that is listed or being visited; `Outcomes`, that what was scanned
and restored is what `Scan` and `Extract` make of the stream. Those two are loops over the entries, and so are functions on `0..Len(entries)`: what they keep true in
every turn is proved by the first turn after which it would not be (`LeastElement`, `EachTurn`).
`ArchiveTakesWhatIsSelected`, `RestoreIsOfTheWanted`, `ScansAgreeWithRestores` and
`MadeArchivesAreRestorable` are the invariants of the run. The last one is not what it used to be: it
was stated for any number of edits and checked with one, and the proof has shown that with two it is
false (section 5). It now says so: with two edits or more it is about archives with nothing below a
file.

Every inductive invariant but that of `Form` was checked by TLC on the instance of its
run before it was proved. For the sake of the proofs the models name parts that were written out
before (the kinds of damage in `RecordStream`, `Keeping`, `PublicsDiffer` and `OnePassword` in
`Envelope`, `Sorted` in `Picker`, `Naming` in `Keys`, `Put` and `Written` in `Manifest`), use
quantifiers and ranks for what were cardinalities and sorted sequences, and give the largest record
size in place of its number of bits. `Archive` has `Match` as a function on the places in pattern and
path, which is what the memo of `matchParts` tabulates (`selection.go`), its two loops as functions on
the number of entries done, and a directory's listing by ranks instead of sorting. `MergeTrees`, which
was a recursive operator from two trees to the merged one, goes entry by entry now, and a call may fail
at any of them. No behaviour of another model has changed, except that `Restore` has its history
variable `source` and drops the locals of a restore that has ended.

Every safety property of a passing run is proved. Only model-checked, because they rest on ENABLED and
so are out of the prover's reach: liveness (`CallsReturn`, `OperationsEnd`, `WaitersEnd`). The three
properties that a run finds violated have no proof, of course. That the refinements hold is proved for
the steps; that each step is taken at last is the liveness above. `mergeTrees` ends since a tree is
finite; the prover has no induction over data, so that is not proved, and what it has done when it ends
is.

## 7. What is not modelled

- *Cryptography*: AEAD, Argon2id, HKDF, X25519 and signatures are ideal. A stanza is its key, a
  sealed record opens with its key, nonce and associated data and not otherwise.
- *Compression*, *hashing*, *QR*, *report layout*: library calls without state, or one small file that
  `Publish` covers.
- *Encodings of keys, identities and signatures*, and the commands that only read one of them
  (`IdentityFingerprint`, `SignatureInspect`). `Keys` has a file's kind and key, readable or not.
- *Manifests that another program wrote*: malformed ones are refused by `loadManifest`; in the model
  a manifest is one of `ManifestCreate`'s.
- *TOML*, and the search for secrets in it: a configuration file can be decoded or not. The limits of
  a policy on entries and bytes are those of the profile always.
- *Links to directories* in a tree that is walked for a manifest. The walk does not follow a link it has
  seen as one, but would go into a directory that is replaced by a link to another one between its
  `Lstat` and its listing; in the model a link leads to a file, and that walk fails.
- *One trial of a benchmark* is one step: it makes an archive in a workspace and counts the bytes of
  its encryption, and leaves nothing behind.
- *Header JSON*: parsing is accepted or rejected; the rules about recipients are in `Envelope`.
- *Durability of directories*: `PublishAtomic` does not sync the directory. The model lets the name
  reach the medium at any time, which is why nothing promises that a success survives a power loss.
- *Two processes and one keychain*: `KeychainStore` locks within a process only. Two processes can
  read the same index, and the later write drops the other's entry while its secret stays. The
  store promises nothing about this, so there is no property.
- *A keychain call that fails* is taken to have had no effect.
- *Dry runs*, *filters of List*, *modes and times of files*, *the grammar of entry names*: data that
  no property tells apart.
- *CLI*: flags to requests and results to text.

## 8. Plan

Done, in this order: publication with its abstract specification and proofs; the credential store
likewise; the record stream; restore and merging; the interface and its picker; the archive; rekeying
and requests; manifests, keys, the benchmark, policies and forms.

Then the proofs about publication, the store, the record stream, restore, requests, the interface and
its picker and forms, keys and signatures, manifests, policies, benchmarks, archives, and merging.

Left: `BatchRestore`, as a composition of the loop of `Envelope` with `Restore`.
