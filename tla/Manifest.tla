------------------------------ MODULE Manifest ------------------------------
(***************************************************************************)
(* Manifests of a tree: Service.ManifestCreate, ManifestVerify and Compare *)
(* (app/manifest.go).  buildManifest walks a tree that other programs edit *)
(* meanwhile and hashes its files; compareManifests tells two manifests    *)
(* apart.  Manifests are published once under names of their own, which a  *)
(* command may also be given in place of a tree.                           *)
(*                                                                         *)
(* A path is a sequence of names.  What a node holds, a file's content, a  *)
(* link's target or a directory's list, is known by its size and its text; *)
(* the file system decides what size a directory has.                      *)
(* Links lead to files outside of the tree.                                *)
(***************************************************************************)
EXTENDS Integers, SequencesExt

CONSTANTS Trees,          \* paths of directories
          Outputs,        \* paths that manifests are written to
          Paths,          \* of nodes, below a directory
          Unencodable,    \* names and link targets that are not UTF-8, which JSON cannot hold
          Replaced,       \* what JSON has for any of them
          Starts,         \* what a directory may hold at first
          Nodes,          \* what may be put there: a type and what the node holds
          MaxManifestEntries,
          MaxLoadable,    \* entries of a manifest within maxManifestSize
          MaxEdits,       \* bound: edits by other programs
          MaxCommands     \* bound: commands in one behaviour

Types == {"file", "directory", "symlink"}
Data == [size : Nat, text : Nat]
Modes == {"read", "write"}

\* The link target of what is not a link.
NoTarget == [size |-> 0, text |-> 0]

\* Whatever is in a tree is in directories of it.
IsTree(t) ==
    /\ DOMAIN t \subseteq Paths
    /\ \A p \in DOMAIN t : \A i \in 1..(Len(p) - 1) :
          SubSeq(p, 1, i) \in DOMAIN t /\ t[SubSeq(p, 1, i)].type = "directory"

\* A name is a number, and so is what a link says; the empty text is UTF-8.  What is
\* in a directory at first was made before the commands.
ConstantsAssumption ==
    /\ IsFiniteSet(Paths) /\ Paths \subseteq Seq(Nat) \ {<<>>}
    /\ \A t \in Starts :
          IsTree(t) /\ \A p \in DOMAIN t : t[p] \in [type : Types, data : Data, mode : Modes,
                                                     ino : Nat, mtime : {0}]
    /\ Nodes \subseteq [type : Types, data : Data]
    /\ NoTarget.text \notin Unencodable
    /\ {MaxManifestEntries, MaxLoadable, MaxEdits, MaxCommands} \subseteq Nat

VARIABLES
    trees,        \* of each directory: paths to nodes
    manifests,    \* of each output: the manifest, if there is one
    commands,     \* how many have begun
    command,      \* the running one
    roots,        \* those it still has to walk, the first is being walked
    pc,           \* what the walk does next; "idle": no command runs
    todo,         \* directory entries that WalkDir has read and not visited
    visit,        \* the entry being visited
    entries,      \* of the manifest being built
    built,        \* manifests the command has built or loaded
    during,       \* history: what the root has been since the walk began
    changes,      \* the answer of the last comparison
    clock         \* of the last edit

walkVars == <<roots, todo, visit, entries, built, during>>
vars == <<trees, manifests, commands, command, pc, walkVars, changes, clock>>

Node(type, data, mode, time) ==
    [type |-> type, data |-> data, mode |-> mode, ino |-> time, mtime |-> time]

Nothing == [p \in {} |-> {}]
NoManifest == [there |-> FALSE]
NoVisit == [path |-> <<>>]
NoCommand == [op |-> "none"]
NoChanges == [of |-> NoCommand]

Parent(p) == Front(p)
Root == Head(roots)

-----------------------------------------------------------------------------
(* Manifests. *)

\* The sum of a content; a file that is written while it is read gives a sum of
\* its first part then and its second part later.
Digest(first, rest) == <<first, rest>>

Entry(p, node, digest, target) ==
    [path |-> p, type |-> node.type, size |-> node.data.size, mode |-> node.mode,
     digest |-> digest, target |-> target]

\* json.Marshal of a manifest: each string of it, the names and what the links say.
Text(x) == IF x \in Unencodable THEN Replaced ELSE x
Encoded(p) == [i \in DOMAIN p |-> Text(p[i])]
EncodedTarget(d) == [d EXCEPT !.text = Text(@)]
Marshal(es) == {[e EXCEPT !.path = Encoded(@), !.target = EncodedTarget(@)] : e \in es}

\* loadManifest: two entries of one path are refused.
Loads(mf) ==
    /\ mf.there
    /\ mf.count <= MaxLoadable
    /\ mf.count = Cardinality({e.path : e \in mf.entries})

\* Faulty: the modes are not compared.
KindWithoutMode(x, y) ==
    IF x.type # y.type THEN "type-changed"
    ELSE IF <<x.digest, x.target, x.size>> # <<y.digest, y.target, y.size>> THEN "modified"
    ELSE "same"

Kind(x, y) ==
    IF x.type # y.type THEN "type-changed"
    ELSE IF <<x.digest, x.target, x.size, x.mode>> # <<y.digest, y.target, y.size, y.mode>>
    THEN "modified"
    ELSE "same"

\* compareManifests.
CompareManifests(a, b) ==
    LET in(es) == {e.path : e \in es}
        pairs == {q \in a \X b : q[1].path = q[2].path /\ Kind(q[1], q[2]) # "same"}
    IN  {[path |-> p, kind |-> "added"] : p \in in(b) \ in(a)}
            \cup {[path |-> p, kind |-> "removed"] : p \in in(a) \ in(b)}
            \cup {[path |-> q[1].path, kind |-> Kind(q[1], q[2])] : q \in pairs}

-----------------------------------------------------------------------------
(* buildManifest. *)

\* os.ReadDir, sorted: each entry with what it was then.
ReadDir(t, d) ==
    LET ps == {p \in DOMAIN t : Len(p) = Len(d) + 1 /\ IsPrefix(d, p)}
        sorted(i) == CHOOSE p \in ps : Cardinality({q \in ps : Last(q) < Last(p)}) = i - 1
    IN  [i \in 1..Cardinality(ps) |->
            [path |-> sorted(i), dir |-> t[sorted(i)].type = "directory"]]

\* A root that is a file has no entries: only the root itself is visited.
Under(root) == IF root \in Trees THEN trees[root] ELSE Nothing

Walk(rs, ms) ==
    /\ roots' = rs /\ built' = ms
    /\ todo' = ReadDir(Under(Head(rs)), <<>>)
    /\ visit' = NoVisit /\ entries' = {} /\ during' = {Under(Head(rs))}
    /\ pc' = "next"

Tree == Under(Root)
There == visit.path \in DOMAIN Tree
Disk == <<trees, manifests, clock>>

Ended ==
    /\ pc' = "idle" /\ command' = NoCommand
    /\ roots' = <<>> /\ todo' = <<>> /\ visit' = NoVisit /\ entries' = {}
    /\ built' = <<>> /\ during' = {}

\* An error ends the command; nothing is written and nothing is compared.
Fail == Ended /\ UNCHANGED <<commands, changes, Disk>>

Continue(to) ==
    /\ pc' = to
    /\ UNCHANGED <<Disk, commands, command, roots, built, during, changes>>

\* The limit, then Lstat.
Lstat ==
    /\ pc = "next" /\ todo # <<>>
    /\ LET t == Head(todo) IN
       IF \/ Cardinality(entries) >= MaxManifestEntries
          \/ t.path \notin DOMAIN Tree
          \/ Tree[t.path].type \notin Types
       THEN Fail
       ELSE LET node == Tree[t.path] IN
            /\ visit' = [path |-> t.path, dir |-> t.dir, before |-> node]
            /\ todo' = Tail(todo)
            /\ UNCHANGED entries
            /\ Continue(CASE node.type = "file" -> "open"
                          [] node.type = "symlink" -> "readlink"
                          [] node.type = "directory" -> "directory")

Add(digest, target) ==
    entries' = entries \cup {Entry(visit.path, visit.before, digest, target)}

Readlink ==
    /\ pc = "readlink"
    /\ IF There /\ Tree[visit.path].type = "symlink"
         THEN /\ Add(<<>>, Tree[visit.path].data)
              /\ UNCHANGED <<todo, visit>>
              /\ Continue("descend")
         ELSE Fail

Directory ==
    /\ pc = "directory"
    /\ Add(<<>>, NoTarget)
    /\ UNCHANGED <<todo, visit>>
    /\ Continue("descend")

\* What Open gives for a name that is a file or has become one.  A link is
\* followed to some other file, a directory cannot be read.
Open ==
    /\ pc = "open"
    /\ IF There /\ Tree[visit.path].type \in {"file", "symlink"}
         THEN /\ visit' = [path |-> visit.path, dir |-> visit.dir, before |-> visit.before,
                         opened |-> Tree[visit.path]]
              /\ UNCHANGED <<todo, entries>>
              /\ Continue("read")
         ELSE Fail

\* The rest of the file, as it is by now; a file that is removed or replaced stays
\* what it was for who has it open.
Read ==
    /\ pc = "read"
    /\ LET same == There /\ Tree[visit.path].ino = visit.opened.ino
           rest == IF same THEN Tree[visit.path].data ELSE visit.opened.data
       IN  visit' = [path |-> visit.path, dir |-> visit.dir, before |-> visit.before,
                     digest |-> Digest(visit.opened.data, rest)]
    /\ UNCHANGED <<todo, entries>>
    /\ Continue("again")

\* Faulty: the time of the last change is not looked at.
UnchangedSize(before, after) == before.data.size = after.data.size

Stable(before, after) == before.data.size = after.data.size /\ before.mtime = after.mtime

\* The second Lstat.
LstatAgain ==
    /\ pc = "again"
    /\ IF There /\ Stable(visit.before, Tree[visit.path])
         THEN /\ Add(visit.digest, NoTarget)
              /\ UNCHANGED <<todo, visit>>
              /\ Continue("descend")
         ELSE Fail

\* WalkDir goes into what was a directory when it was listed.
Descend ==
    /\ pc = "descend"
    /\ IF visit.dir
         THEN IF There /\ Tree[visit.path].type = "directory"
              THEN /\ todo' = ReadDir(Tree, visit.path) \o todo
                   /\ visit' = NoVisit /\ UNCHANGED entries
                   /\ Continue("next")
              ELSE Fail
         ELSE /\ visit' = NoVisit /\ UNCHANGED <<todo, entries>>
              /\ Continue("next")

-----------------------------------------------------------------------------
(* The commands. *)

Begin(c, rs, ms) ==
    /\ pc = "idle" /\ commands < MaxCommands
    /\ commands' = commands + 1 /\ command' = c
    /\ Walk(rs, ms)
    /\ UNCHANGED <<Disk, changes>>

ManifestCreate(t, out) == Begin([op |-> "create", left |-> t, right |-> out], <<t>>, <<>>)

\* The manifest is loaded before the tree is walked.
ManifestVerify(t, mf) ==
    /\ Loads(manifests[mf])
    /\ Begin([op |-> "verify", left |-> mf, right |-> t], <<t>>, <<manifests[mf]>>)

Compare(l, r) ==
    /\ {l, r} \cap Outputs \subseteq {o \in Outputs : manifests[o].there}
    /\ Begin([op |-> "compare", left |-> l, right |-> r], <<l, r>>, <<>>)

Manifest(es) == [there |-> TRUE, entries |-> es, count |-> Cardinality(es), of |-> during]

\* The end of a walk: the second one begins, the manifest is published unless
\* there is one of that name, or the two are compared.
Finish ==
    /\ pc = "next" /\ todo = <<>>
    /\ LET mf == Manifest(entries)
           all == Append(built, mf)
       IN
       \/ /\ Tail(roots) # <<>>
          /\ Walk(Tail(roots), all)
          /\ UNCHANGED <<Disk, commands, command, changes>>
       \/ /\ Tail(roots) = <<>> /\ command.op = "create"
          /\ IF manifests[command.right].there THEN UNCHANGED manifests
             ELSE manifests' = [manifests EXCEPT ![command.right] =
                                   [mf EXCEPT !.entries = Marshal(@)]]
          /\ Ended
          /\ UNCHANGED <<trees, clock, commands, changes>>
       \/ /\ Tail(roots) = <<>> /\ command.op # "create"
          /\ changes' = [of |-> command, left |-> all[1].of, right |-> all[2].of,
                         list |-> CompareManifests(all[1].entries, all[2].entries)]
          /\ Ended
          /\ UNCHANGED <<Disk, commands>>

-----------------------------------------------------------------------------
(* Other programs.  Every change of what a node holds has a time of its own. *)

Now == clock + 1

Without(t, p) == [q \in {q \in DOMAIN t : ~IsPrefix(p, q)} |-> t[q]]

\* What is put at a path takes the place of what was there and below.
Put(t, p, n) ==
    [q \in DOMAIN Without(t, p) \cup {p} |->
        IF q = p THEN Node(n.type, n.data, "read", Now) ELSE t[q]]

Written(t, p, data) == [t EXCEPT ![p].data = data, ![p].mtime = Now]

Contents(type) == {n.data : n \in {m \in Nodes : m.type = type}}

\* The size of a directory may change with its list.
Relisted(t, p) ==
    IF Len(p) = 1 THEN {t}
    ELSE {Written(t, Parent(p), d) : d \in Contents("directory")}

Edited(t) ==
    LET within == {p \in Paths : Len(p) = 1 \/ \E q \in DOMAIN t : q = Parent(p) /\ t[q].type = "directory"}
        files == {p \in DOMAIN t : t[p].type = "file"}
    IN  (UNION {Relisted(Without(t, p), p) : p \in DOMAIN t})
            \cup (UNION {Relisted(Put(t, p, n), p) : p \in within, n \in Nodes})
            \cup {Written(t, p, d) : p \in files, d \in Contents("file")}
            \cup {[t EXCEPT ![p].mode = mode] : p \in DOMAIN t, mode \in Modes}

Edit(r) ==
    /\ clock < MaxEdits /\ clock' = Now
    /\ commands < MaxCommands \/ pc # "idle"
    /\ \E t \in Edited(trees[r]) \ {trees[r]} :
          /\ trees' = [trees EXCEPT ![r] = t]
          /\ during' = IF roots # <<>> /\ Root = r THEN during \cup {t} ELSE during
    /\ UNCHANGED <<manifests, commands, command, pc, roots, todo, visit, entries, built, changes>>

-----------------------------------------------------------------------------
InitWith(start) ==
    /\ trees \in [Trees -> start]
    /\ manifests = [o \in Outputs |-> NoManifest]
    /\ commands = 0 /\ command = NoCommand /\ pc = "idle"
    /\ roots = <<>> /\ todo = <<>> /\ visit = NoVisit /\ entries = {} /\ built = <<>>
    /\ during = {} /\ changes = NoChanges /\ clock = 0

Init == InitWith(Starts)

Next ==
    \/ \E t \in Trees, o \in Outputs : ManifestCreate(t, o) \/ ManifestVerify(t, o)
    \/ \E l, r \in Trees \cup Outputs : Compare(l, r)
    \/ Lstat \/ Readlink \/ Directory \/ Open \/ Read \/ LstatAgain \/ Descend
    \/ Finish
    \/ \E r \in Trees : Edit(r)

Spec == Init /\ [][Next]_vars

-----------------------------------------------------------------------------
(* Properties. *)

Manifests == {manifests[o] : o \in Outputs} \cup ToSet(built)

\* Each file entry of a manifest is of one moment of the walk, at which the file
\* had that content, size and mode, though other programs edit the tree all the
\* while; and what was there from the beginning to the end of the walk has an
\* entry (manifest.go:83-146).
FilesAreOfOneMoment(mf) ==
    \A e \in {x \in mf.entries : x.type = "file"} : \E t \in mf.of : \E p \in DOMAIN t :
        /\ Encoded(p) = e.path \/ p = e.path
        /\ Entry(e.path, t[p], Digest(t[p].data, t[p].data), NoTarget) = e

NothingIsMissing(mf) ==
    \A p \in Paths :
        (\A t \in mf.of : p \in DOMAIN t) => \E e \in mf.entries : e.path \in {p, Encoded(p)}

ManifestIsOfTheWalk ==
    \A mf \in {x \in Manifests : x.there} : FilesAreOfOneMoment(mf) /\ NothingIsMissing(mf)

Differences(s, t) ==
    {[path |-> p, kind |-> "added"] : p \in DOMAIN t \ DOMAIN s}
        \cup {[path |-> p, kind |-> "removed"] : p \in DOMAIN s \ DOMAIN t}
        \cup {[path |-> p, kind |-> IF s[p].type # t[p].type THEN "type-changed" ELSE "modified"] :
                 p \in {q \in DOMAIN s \cap DOMAIN t :
                           \/ s[q].type # t[q].type
                           \/ s[q].data.size # t[q].data.size \/ s[q].mode # t[q].mode
                           \/ s[q].type # "directory" /\ s[q].data # t[q].data}}

Quiet(walk) == Cardinality(walk) = 1

\* JSON holds every name and every link target of the tree.
Encodable(t) ==
    \A p \in DOMAIN t :
        /\ ToSet(p) \cap Unencodable = {}
        /\ t[p].type = "symlink" => t[p].data.text \notin Unencodable

\* A verification or a comparison of trees that nobody edited while they were
\* walked lists exactly what differs, whatever happened in between
\* (manifest.go:59-82 and 200-242).  Excepted is a verification of a tree that had a
\* name or a link target that JSON cannot hold when its manifest was made: the
\* manifest has another text in its place (manifest.go:49), and even a tree that
\* nobody ever edits differs from it.
ChangesAreExact ==
    changes # NoChanges /\ ~({changes.of.left, changes.of.right} \subseteq Outputs) =>
        \A s \in changes.left, t \in changes.right :
            Quiet(changes.left) /\ Quiet(changes.right) /\ (Encodable(s) \/ changes.of.op = "compare") =>
                changes.list = Differences(s, t)

\* The example of the README (README.md:181-188) compares two manifests of a data
\* set, an old and a new one, to find what changed.
ManifestsAreCompared ==
    changes.of.op = "compare" /\ {changes.of.left, changes.of.right} \subseteq Outputs =>
        changes.list = CompareManifests(manifests[changes.of.left].entries,
                                        manifests[changes.of.right].entries)
=============================================================================
