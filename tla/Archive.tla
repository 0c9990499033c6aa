------------------------------ MODULE Archive ------------------------------
(***************************************************************************)
(* The archive inside a container: archive.CreateTarWithOptions walks the  *)
(* source, which may be edited meanwhile, and writes what the selection    *)
(* takes; archive.ScanTar validates a stream without writing, and          *)
(* archive.ExtractTarSelected validates it and writes the entries asked    *)
(* for into an empty directory.                                            *)
(*                                                                         *)
(* A path is a sequence of names, a name a number.  Of a file only its     *)
(* size matters, of a symlink how many directories up its target goes.  A  *)
(* source that is itself a file or a symlink is a root with that entry.    *)
(***************************************************************************)
EXTENDS Integers, SequencesExt, FiniteSets

CONSTANTS Names,          \* Nat: names of files and directories
          Star, DoubleStar,   \* the wildcards of a pattern
          Paths, ForeignPaths,  \* of a source, and of another program's stream
          Requests,       \* includes and excludes that a protection may be given
          Wants,          \* paths, includes and excludes that a restore may be given
          Sizes,          \* of files
          MaxEntries, MaxPathDepth, MaxEntrySize, MaxTotalSize,  \* ExtractLimits
          MaxEdits,       \* bound: edits of the source during the walk
          MaxForeign      \* bound: entries of a stream that another program wrote

ASSUME ConstantsAssumption ==
    /\ Names \subseteq Nat /\ Sizes \subseteq Nat
    /\ Paths \cup ForeignPaths \subseteq Seq(Names) \ {<<>>} /\ IsFiniteSet(Paths)
    /\ {MaxEntries, MaxPathDepth, MaxEntrySize, MaxTotalSize, MaxEdits, MaxForeign} \subseteq Nat
    /\ \A r \in Requests \cup Wants :
          r.includes \cup r.excludes \subseteq Seq(Names \cup {Star, DoubleStar}) \ {<<>>}

VARIABLES
    tree,         \* the source below its root: paths to nodes
    request,      \* includes and excludes of the protection
    todo,         \* directory entries that WalkDir has read and not visited
    visit,        \* the entry being visited and what is left to do for it
    walk,         \* "walking", "done", "failed"; "foreign": another writer's stream
    stream,       \* the entries written
    source,       \* history: the tree the walk began with
    edits,
    wanted,       \* paths, includes and excludes of the restore
    scanned, restored

vars == <<tree, request, todo, visit, walk, stream, source, edits, wanted, scanned, restored>>

File(n) == [kind |-> "file", size |-> n, ups |-> 0]
Dir == [kind |-> "dir", size |-> 0, ups |-> 0]
Link(n) == [kind |-> "symlink", size |-> 0, ups |-> n]
Device == [kind |-> "device", size |-> 0, ups |-> 0]
Nodes == {File(n) : n \in Sizes} \cup {Dir, Link(0), Link(1)}

Unused == [ok |-> FALSE]

Parent(p) == Front(p)
Ancestors(p) == {SubSeq(p, 1, n) : n \in 1..(Len(p) - 1)}
Nothing == [p \in {} |-> Dir]

\* validateArchivedSymlinkTarget and validatePortableSymlink: the target must
\* stay below the root when it is read from the link's directory.
Escapes(p, node) == node.ups >= Len(p)

-----------------------------------------------------------------------------
(* Selection. *)

\* selection.Match: from the i-th part of the pattern and the j-th of the path on.
Match(pattern, p) ==
    LET matched[i \in 1..(Len(pattern) + 1), j \in 1..(Len(p) + 1)] ==
            IF i > Len(pattern) THEN j > Len(p)
            ELSE IF pattern[i] = DoubleStar THEN \E k \in j..(Len(p) + 1) : matched[i + 1, k]
            ELSE j <= Len(p) /\ pattern[i] \in {Star, p[j]} /\ matched[i + 1, j + 1]
    IN  matched[1, 1]

MatchesAny(patterns, p) == \E pattern \in patterns : Match(pattern, p)

\* couldContain: the literal beginning of the pattern leads through p.
CouldContain(pattern, p) ==
    LET wild == {i \in DOMAIN pattern : pattern[i] \in {Star, DoubleStar}}
        n == IF wild = {} THEN Len(pattern) ELSE (CHOOSE i \in wild : \A j \in wild : i <= j) - 1
    IN  \/ IsPrefix(p, SubSeq(pattern, 1, n))
        \/ pattern[1] = DoubleStar /\ Len(pattern) > 1

\* Faulty: an excluded directory is walked all the same.
DecideWithoutPrune(p, node) ==
    IF MatchesAny(request.excludes, p) THEN "exclude"
    ELSE IF \/ request.includes = {}
            \/ MatchesAny(request.includes, p)
            \/ node.kind = "dir" /\ \E pattern \in request.includes : CouldContain(pattern, p)
    THEN "include"
    ELSE "exclude"

\* createSelectionOptions, for the protection.
Decide(p, node) ==
    IF MatchesAny(request.excludes, p) THEN IF node.kind = "dir" THEN "prune" ELSE "exclude"
    ELSE IF \/ request.includes = {}
            \/ MatchesAny(request.includes, p)
            \/ node.kind = "dir" /\ \E pattern \in request.includes : CouldContain(pattern, p)
    THEN "include"
    ELSE "exclude"

\* restoreEntrySelector, for the restore.
Wanted(want, p) ==
    /\ \/ want.includes = {} /\ want.paths = {}
       \/ \E q \in want.paths : IsPrefix(q, p)
       \/ MatchesAny(want.includes, p)
    /\ ~MatchesAny(want.excludes, p)

Everything == [paths |-> {}, includes |-> {}, excludes |-> {}]

-----------------------------------------------------------------------------
(* ScanTar and ExtractTarSelected, as functions of the stream. *)

Entry(p, node) == [path |-> p, node |-> node]

\* The checks that both make of an entry, given those before it.
Acceptable(s, e) ==
    /\ s.entries < MaxEntries
    /\ Len(e.path) <= MaxPathDepth
    /\ \A f \in s.seen : f.path # e.path
    /\ e.node.kind = "file" => e.node.size <= MaxEntrySize /\ s.bytes + e.node.size <= MaxTotalSize
    /\ e.node.kind = "symlink" => ~Escapes(e.path, e.node)
    /\ e.node.kind # "device"

Accept(s, e) ==
    [s EXCEPT !.entries = @ + 1, !.bytes = @ + e.node.size, !.seen = @ \cup {e}]

\* Faulty: the directories above an entry must be entries.
ScanEntryNeedsParents(s, e) ==
    IF /\ s.ok /\ Acceptable(s, e)
       /\ Ancestors(e.path) \subseteq {f.path : f \in {g \in s.seen : g.node.kind = "dir"}}
    THEN Accept(s, e)
    ELSE [s EXCEPT !.ok = FALSE]

ScanEntry(s, e) ==
    IF /\ s.ok /\ Acceptable(s, e)
       /\ \A f \in s.seen : f.path \in Ancestors(e.path) => f.node.kind = "dir"
    THEN Accept(s, e)
    ELSE [s EXCEPT !.ok = FALSE]

Scan(entries) ==
    LET loop[i \in 0..Len(entries)] ==
            IF i = 0 THEN [ok |-> TRUE, entries |-> 0, bytes |-> 0, seen |-> {}]
            ELSE ScanEntry(loop[i - 1], entries[i])
    IN  loop[Len(entries)]

KindAt(s, p) == IF p \in DOMAIN s.files THEN s.files[p].kind ELSE "none"

\* os.MkdirAll
WithDirs(files, paths) == [p \in DOMAIN files \cup paths |-> IF p \in paths THEN Dir ELSE files[p]]

CanSkip(s, e) ==
    /\ \A q \in Ancestors(e.path) : KindAt(s, q) \in {"none", "dir"}
    /\ KindAt(s, e.path) # "symlink"

Write(s, e) ==
    [Accept(s, e) EXCEPT
        !.files = [WithDirs(@, Ancestors(e.path) \cup {e.path}) EXCEPT ![e.path] = e.node],
        !.selected = @ + 1]

\* Faulty: a directory that is there is not written into.
CanWriteNewDirs(s, e) ==
    \A q \in Ancestors(e.path) \cup {e.path} : KindAt(s, q) = "none"

\* secureJoin goes through directories only, and not to a symlink; a directory
\* may be there already, nothing else may.
CanWrite(s, e) ==
    /\ \A q \in Ancestors(e.path) : KindAt(s, q) \in {"none", "dir"}
    /\ KindAt(s, e.path) = "none" \/ (e.node.kind = "dir" /\ KindAt(s, e.path) = "dir")

\* Faulty: the directories of entries that are not wanted are made.
ExtractEntryMakesDirs(s, e, want) ==
    IF ~s.ok \/ ~Acceptable(s, e) THEN [s EXCEPT !.ok = FALSE]
    ELSE IF ~Wanted(want, e.path)
    THEN IF CanSkip(s, e) THEN [Accept(s, e) EXCEPT !.files = WithDirs(@, Ancestors(e.path))]
         ELSE [s EXCEPT !.ok = FALSE]
    ELSE IF CanWrite(s, e) THEN Write(s, e)
    ELSE [s EXCEPT !.ok = FALSE]

ExtractEntry(s, e, want) ==
    IF ~s.ok \/ ~Acceptable(s, e) THEN [s EXCEPT !.ok = FALSE]
    ELSE IF ~Wanted(want, e.path)
    THEN IF CanSkip(s, e) THEN Accept(s, e) ELSE [s EXCEPT !.ok = FALSE]
    ELSE IF CanWrite(s, e) THEN Write(s, e)
    ELSE [s EXCEPT !.ok = FALSE]

\* A selection that takes nothing is an error.
Extract(entries, want) ==
    LET loop[i \in 0..Len(entries)] ==
            IF i = 0 THEN [ok |-> TRUE, entries |-> 0, bytes |-> 0, seen |-> {},
                           files |-> Nothing, selected |-> 0]
            ELSE ExtractEntry(loop[i - 1], entries[i], want)
        s == loop[Len(entries)]
    IN  [s EXCEPT !.ok = @ /\ s.selected > 0]

-----------------------------------------------------------------------------
(* CreateTarWithOptions, one entry at a time. *)

Children(d) == {p \in DOMAIN tree : Len(p) = Len(d) + 1 /\ IsPrefix(d, p)}

\* os.ReadDir, sorted: each entry with what it was then.
ReadDir(d) ==
    LET ps == Children(d)
        sorted(i) == CHOOSE p \in ps : Cardinality({q \in ps : Last(q) < Last(p)}) = i - 1
    IN  [i \in 1..Cardinality(ps) |-> [path |-> sorted(i), dir |-> tree[sorted(i)].kind = "dir"]]

NoVisit == [path |-> <<>>, dir |-> FALSE, copy |-> Dir]

Walking == walk = "walking"
Results == <<request, source, wanted, scanned, restored>>

\* What an archive can hold.
Storable(p, node) == node.kind # "device" /\ ~Escapes(p, node)

Fail == walk' = "failed" /\ UNCHANGED <<todo, visit, stream>>

\* What is listed after the rest of the directory that holds a path.
AfterSiblings(p) ==
    LET others == {i \in DOMAIN todo : Parent(todo[i].path) # Parent(p)}
    IN  IF others = {} THEN <<>>
        ELSE SubSeq(todo, CHOOSE i \in others : \A j \in others : i <= j, Len(todo))

\* Lstat and selection of the next entry; a directory or symlink is written, a
\* regular file gets its header.  SkipDir for what was no directory when it was
\* listed ends the directory that holds it.
Visit ==
    /\ Walking /\ visit = NoVisit /\ todo # <<>>
    /\ LET t == Head(todo) IN
       IF t.path \notin DOMAIN tree THEN Fail
       ELSE LET node == tree[t.path]
                decision == Decide(t.path, node)
            IN
            \/ /\ decision = "prune"
               /\ todo' = IF t.dir THEN Tail(todo) ELSE AfterSiblings(t.path)
               /\ UNCHANGED <<walk, visit, stream>>
            \/ /\ decision # "prune"
               /\ decision = "include" => Storable(t.path, node)
               /\ todo' = Tail(todo)
               /\ visit' = [path |-> t.path, dir |-> t.dir,
                            copy |-> IF decision = "include" /\ node.kind = "file" THEN node ELSE Dir]
               /\ stream' = IF decision = "include" /\ node.kind # "file"
                            THEN Append(stream, Entry(t.path, node)) ELSE stream
               /\ UNCHANGED walk
            \/ /\ decision = "include" /\ ~Storable(t.path, node)
               /\ Fail
    /\ UNCHANGED <<tree, edits, Results>>

\* The content must be of the size that the header gives, whatever file is
\* there by now.
CopyContent ==
    /\ Walking /\ visit.copy.kind = "file"
    /\ IF visit.path \in DOMAIN tree /\ tree[visit.path] = visit.copy
         THEN /\ stream' = Append(stream, Entry(visit.path, visit.copy))
              /\ visit' = [visit EXCEPT !.copy = Dir]
              /\ UNCHANGED <<walk, todo>>
         ELSE Fail
    /\ UNCHANGED <<tree, edits, Results>>

\* WalkDir goes into what was a directory when it was listed.
Descend ==
    /\ Walking /\ visit # NoVisit /\ visit.copy.kind # "file"
    /\ IF ~visit.dir
         THEN visit' = NoVisit /\ UNCHANGED <<walk, todo, stream>>
         ELSE IF visit.path \in DOMAIN tree /\ tree[visit.path].kind = "dir"
         THEN /\ todo' = ReadDir(visit.path) \o todo
              /\ visit' = NoVisit
              /\ UNCHANGED <<walk, stream>>
         ELSE Fail
    /\ UNCHANGED <<tree, edits, Results>>

Finish ==
    /\ Walking /\ visit = NoVisit /\ todo = <<>>
    /\ walk' = "done"
    /\ UNCHANGED <<tree, todo, visit, stream, edits, Results>>

\* Another program removes a path with all below it, or puts a file or an empty
\* directory there.
Edit ==
    /\ Walking /\ edits < MaxEdits
    /\ edits' = edits + 1
    /\ \E p \in DOMAIN source :
          LET rest == {q \in DOMAIN tree : ~IsPrefix(p, q)} IN
          \/ tree' = [q \in rest |-> tree[q]]
          \/ /\ Parent(p) = <<>> \/ (Parent(p) \in DOMAIN tree /\ tree[Parent(p)].kind = "dir")
             /\ \E node \in Nodes \ {Link(0), Link(1)} : tree' = [q \in rest \cup {p} |-> IF q = p THEN node ELSE tree[q]]
    /\ UNCHANGED <<todo, visit, walk, stream, Results>>

StreamEnded == walk \in {"done", "foreign"}
Writing == <<tree, request, todo, visit, walk, stream, source, edits>>

\* The archive is scanned; List does the same and shows the entries.
Verify ==
    /\ StreamEnded /\ scanned = Unused
    /\ scanned' = Scan(stream)
    /\ UNCHANGED <<Writing, wanted, restored>>

Restore ==
    /\ StreamEnded /\ restored = Unused
    /\ wanted' \in Wants
    /\ restored' = Extract(stream, wanted')
    /\ UNCHANGED <<Writing, scanned>>

Next == Visit \/ CopyContent \/ Descend \/ Finish \/ Edit \/ Verify \/ Restore

-----------------------------------------------------------------------------
(* A source and a request, or the stream of another program. *)

Trees ==
    {t \in UNION {[ps -> Nodes \cup {Device}] : ps \in SUBSET Paths} :
        \A p \in DOMAIN t : Ancestors(p) \subseteq {q \in DOMAIN t : t[q].kind = "dir"}}

Streams ==
    UNION {[1..n -> {Entry(p, node) : p \in ForeignPaths, node \in Nodes \cup {Device}}] : n \in 0..MaxForeign}

Init ==
    /\ visit = NoVisit /\ edits = 0
    /\ wanted = Everything /\ scanned = Unused /\ restored = Unused
    /\ \/ /\ walk = "walking"
          /\ source \in Trees
          /\ tree = source
          /\ request \in Requests
          /\ todo = ReadDir(<<>>)
          /\ stream = <<>>
       \/ /\ walk = "foreign"
          /\ source = Nothing /\ tree = Nothing
          /\ request = [includes |-> {}, excludes |-> {}]
          /\ todo = <<>>
          /\ stream \in Streams

Spec == Init /\ [][Next]_vars

-----------------------------------------------------------------------------
(* Properties. *)

\* What a protection is to take: what no exclude pattern matches, itself or
\* through a directory above it, and an include pattern does if there are any.
Taken(p) ==
    /\ \A q \in Ancestors(p) \cup {p} : ~MatchesAny(request.excludes, q)
    /\ request.includes = {} \/ MatchesAny(request.includes, p)

Contents == {e \in ToSet(stream) : e.node.kind # "dir"}

\* The walk writes exactly the files and symlinks that the patterns take, though
\* it decides directory by directory, and prunes and descends as it goes.
TakesWhatIsSelected ==
    walk = "done" /\ edits = 0 =>
        Contents = {Entry(p, source[p]) : p \in {q \in DOMAIN source :
                        source[q].kind # "dir" /\ Taken(q)}}

Used == scanned # Unused /\ restored # Unused

TotalSize(entries) ==
    LET sum[i \in 0..Len(entries)] ==
            IF i = 0 THEN 0 ELSE sum[i - 1] + entries[i].node.size
    IN  sum[Len(entries)]

WithinLimits ==
    /\ Len(stream) <= MaxEntries
    /\ \A i \in DOMAIN stream :
          Len(stream[i].path) <= MaxPathDepth /\ stream[i].node.size <= MaxEntrySize
    /\ TotalSize(stream) <= MaxTotalSize

NothingBelowFiles ==
    \A e, f \in ToSet(stream) : e.path \in Ancestors(f.path) => e.node.kind = "dir"

\* An archive that was made, even while its source was being edited, is restored
\* whole if it keeps the limits and is not empty: no path in it is there twice,
\* and no order of its entries stops a later restore (create.go:48-101 against
\* selective.go:94-123).  The exception is an entry below a file, which takes two
\* edits: a directory that is a file while it is archived, and a directory again
\* when it is listed.
MadeIsRestorable ==
    /\ walk = "done" /\ Used /\ wanted = Everything
    /\ WithinLimits /\ stream # <<>> /\ (edits < 2 \/ NothingBelowFiles)
    =>  /\ scanned.ok /\ restored.ok
        /\ \A e \in ToSet(stream) : restored.files[e.path] = e.node

\* A restore writes the entries it was asked for and the directories above them,
\* and nothing else, whoever wrote the stream and in whatever order.
RestoresWhatIsWanted ==
    restored # Unused /\ restored.ok =>
        LET asked == {e \in ToSet(stream) : Wanted(wanted, e.path)}
            above == UNION {Ancestors(e.path) : e \in asked}
        IN  /\ DOMAIN restored.files = {e.path : e \in asked} \cup above
            /\ \A e \in asked : restored.files[e.path] = e.node
            /\ \A p \in above : restored.files[p] = Dir

\* What can be restored whole is found valid by a scan, which counts the same
\* (scan.go:45-46).
RestorableIsValid ==
    Used /\ restored.ok /\ wanted = Everything =>
        /\ scanned.ok
        /\ scanned.entries = restored.entries /\ scanned.bytes = restored.bytes

\* The comment of ScanTar (scan.go:45-46), "It applies the same path, type,
\* symlink and resource policy as extraction": what it accepts of the archives
\* this program makes can be restored.
ValidIsRestorable ==
    walk = "done" /\ Used /\ wanted = Everything /\ scanned.ok => restored.ok
=============================================================================
