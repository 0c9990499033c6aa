----------------------------- MODULE MergeTrees -----------------------------
(***************************************************************************)
(* app.mergeTrees: the recursive merge of an extracted directory, src,     *)
(* into a copy of the existing one, dst, under the three conflict          *)
(* policies, one entry at a time.                                          *)
(*                                                                         *)
(* A directory tree is a function from paths to nodes, a path a sequence   *)
(* of names.  A name is a sequence of numbers, a base name and the <i> of  *)
(* each ".restored-<i>" it carries: a renamed entry can meet an entry that *)
(* has that name already.  The calls of the recursion that are under way   *)
(* have listed entries they have not come to; the names of src and dst are *)
(* the same in all of them.                                                *)
(***************************************************************************)
EXTENDS Integers, SequencesExt

CONSTANTS Paths,        \* of the two trees
          MaxRenames    \* suffixes tried before giving up (10000 in the code)

ConstantsAssumption ==
    /\ Paths \subseteq Seq(Seq(Nat)) \ {<<>>}
    /\ MaxRenames \in Nat

VARIABLES
    src,       \* what was extracted; what has been moved out is not looked at again
    dst,       \* the tree it is merged into
    policy,
    listed,    \* paths of src that os.ReadDir has returned and no loop has come to
    status,    \* "merging", "done" or "failed"
    existing   \* history: the tree that dst was

vars == <<src, dst, policy, listed, status, existing>>

Policies == {"skip", "rename", "overwrite"}

\* A link is a file here.  Every file is told apart by where it was at first.
Dir == [kind |-> "dir"]
File(age, p) == [kind |-> "file", age |-> age, path |-> p]

Ancestors(p) == {SubSeq(p, 1, n) : n \in 1..(Len(p) - 1)}
Parent(p) == Front(p)

\* os.ReadDir
Children(tree, p) == {q \in DOMAIN tree : Parent(q) = p}

\* The order in which the entries of a directory are sorted.
NameBefore(m, n) ==
    \/ IsStrictPrefix(m, n)
    \/ \E i \in DOMAIN m \cap DOMAIN n : m[i] < n[i] /\ SubSeq(m, 1, i - 1) = SubSeq(n, 1, i - 1)

\* The loop inside the others goes on until it has come to its end.
Before(p, q) ==
    \E i \in DOMAIN p \cap DOMAIN q :
        NameBefore(p[i], q[i]) /\ SubSeq(p, 1, i - 1) = SubSeq(q, 1, i - 1)

IsNext(p) == p \in listed /\ \A q \in listed \ {p} : Before(p, q)

\* Faulty: a directory is treated like any other entry.
NeverBothDirs(p) == FALSE

BothDirs(p) == src[p] = Dir /\ dst[p] = Dir

\* Faulty: whether a candidate exists is not looked at.
AnyCandidate(p) == 1..MaxRenames

Candidate(p, i) == Append(Parent(p), Append(Last(p), i))
Candidates(p) == {i \in 1..MaxRenames : Candidate(p, i) \notin DOMAIN dst}
Renamed(p) == Candidate(p, CHOOSE i \in Candidates(p) : \A j \in Candidates(p) : i <= j)

\* The path x below another directory of the same depth.
Rebased(x, p) == [i \in DOMAIN x |-> IF i <= Len(p) THEN p[i] ELSE x[i]]

Below(tree, p) == {x \in DOMAIN tree : IsPrefix(p, x)}

\* os.RemoveAll
Without(tree, p) == [x \in DOMAIN tree \ Below(tree, p) |-> tree[x]]

\* os.Rename of what src has at p, to where the tree has nothing.
Moved(tree, p, to) ==
    [x \in DOMAIN tree \cup {Rebased(y, to) : y \in Below(src, p)} |->
        IF IsPrefix(to, x) /\ Rebased(x, p) \in DOMAIN src THEN src[Rebased(x, p)] ELSE tree[x]]

-----------------------------------------------------------------------------
(* One entry. *)

Goes(tree, paths) ==
    /\ dst' = tree
    /\ listed' = paths
    /\ UNCHANGED <<src, policy, status, existing>>

Place(p) ==
    /\ p \notin DOMAIN dst
    /\ Goes(Moved(dst, p, p), listed \ {p})

\* The recursive call, whose loop begins with a listing.
Enter(p) ==
    /\ p \in DOMAIN dst /\ BothDirs(p)
    /\ Goes(dst, (listed \ {p}) \cup Children(src, p))

Conflict(p, chosen) == p \in DOMAIN dst /\ ~BothDirs(p) /\ policy = chosen

Skip(p) ==
    /\ Conflict(p, "skip")
    /\ Goes(dst, listed \ {p})

Overwrite(p) ==
    /\ Conflict(p, "overwrite")
    /\ Goes(Moved(Without(dst, p), p, p), listed \ {p})

Rename(p) ==
    /\ Conflict(p, "rename") /\ Candidates(p) # {}
    /\ Goes(Moved(dst, p, Renamed(p)), listed \ {p})

\* No name is left, or a call has failed.  The restore then removes what it has
\* merged until here.
Fail ==
    /\ status' = "failed"
    /\ UNCHANGED <<src, dst, policy, listed, existing>>

Finish ==
    /\ listed = {}
    /\ status' = "done"
    /\ UNCHANGED <<src, dst, policy, listed, existing>>

Next ==
    /\ status = "merging"
    /\ \/ \E p \in listed :
            /\ IsNext(p)
            /\ Place(p) \/ Enter(p) \/ Skip(p) \/ Overwrite(p) \/ Rename(p)
       \/ Fail
       \/ Finish

\* Whatever is in a tree is in directories of it.
Shapes == {t \in UNION {[ps -> {"dir", "file"}] : ps \in SUBSET Paths} :
              \A p \in DOMAIN t : Ancestors(p) \subseteq {q \in DOMAIN t : t[q] = "dir"}}

Tree(shape, age) == [p \in DOMAIN shape |-> IF shape[p] = "dir" THEN Dir ELSE File(age, p)]

InitWith(shapes) ==
    /\ \E s, t \in shapes : src = Tree(s, "new") /\ existing = Tree(t, "old")
    /\ dst = existing
    /\ policy \in Policies
    /\ listed = Children(src, <<>>)
    /\ status = "merging"

Init == InitWith(Shapes)

Spec == Init /\ [][Next]_vars

-----------------------------------------------------------------------------
(* What the policies mean, path by path. *)

\* A path of the tree a, if whatever the tree b has of it is a directory in both.
Clear(p, a, b) ==
    \A q \in Ancestors(p) \cup {p} : q \in DOMAIN b => a[q] = Dir /\ b[q] = Dir

Done == status = "done"

\* All of the tree that the policy prefers is there, the old one for "skip" and
\* the new one for "overwrite", and of the other tree what the first leaves room
\* for (restore.go:198-257).
PreferredTreeWins ==
    \A first, second \in {src, existing} :
        /\ Done
        /\ <<policy, first, second>> \in {<<"skip", existing, src>>, <<"overwrite", src, existing>>}
        => /\ DOMAIN dst = DOMAIN first \cup {p \in DOMAIN second : Clear(p, second, first)}
           /\ \A p \in DOMAIN dst : dst[p] = IF p \in DOMAIN first THEN first[p] ELSE second[p]

\* One name of the path at most has one suffix more.
Derived(p, q) ==
    \/ q = p
    \/ \E k \in DOMAIN p, i \in 1..MaxRenames : q = [p EXCEPT ![k] = Append(@, i)]

\* "rename" loses nothing: everything old stays in place, and every new entry is
\* there, under its own name or below one that carries a suffix, even when that
\* name is itself taken by another old or new entry.  Nothing is there that was in
\* neither tree, and no file twice.
RenameLosesNothing ==
    Done /\ policy = "rename" =>
        /\ \A p \in DOMAIN existing : p \in DOMAIN dst /\ dst[p] = existing[p]
        /\ \A p \in DOMAIN src : \E q \in DOMAIN dst : Derived(p, q) /\ dst[q] = src[p]
        /\ \A q \in DOMAIN dst \ DOMAIN existing :
              \E p \in DOMAIN src : Derived(p, q) /\ dst[q] = src[p]
        /\ \A p, q \in DOMAIN dst : dst[p] = dst[q] /\ dst[p] # Dir => p = q

\* Each policy means what it says, for every path.
MergesAsAsked == PreferredTreeWins /\ RenameLosesNothing
=============================================================================
