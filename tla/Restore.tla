------------------------------ MODULE Restore ------------------------------
(***************************************************************************)
(* Service.Restore: an archive is authenticated into a private workspace,  *)
(* extracted into a staging directory beside the destination, and then     *)
(* either renamed to a destination that does not exist or merged with a    *)
(* copy of the existing one, which fsutil.ReplaceDirectory swaps in.       *)
(* Several restores may work on one destination, while users edit files in *)
(* it; every step may fail, every restore may be cancelled or killed.      *)
(*                                                                         *)
(* A tree maps each file to the versions of it that the tree holds: none,  *)
(* one, or more when the policy "rename" kept both.  Trees have identities *)
(* of their own, as directories do, and a rename moves one without copying *)
(* it; dest, temps and backup are the names in the parent directory.       *)
(***************************************************************************)
EXTENDS Naturals

CONSTANTS Ops,            \* restores to the same destination
          Files,          \* files below the destination or in the archives
          Original,       \* the tree that is there at first, and its versions
          Edited,         \* the version a user writes
          NoTree,         \* a name that does not exist
          MaxFaults       \* bound: user edits and failed removals in one behaviour

ASSUME ConstantsAssumption ==
    /\ Original \notin Ops \X {"incoming", "stage"}
    /\ NoTree \notin {Original} \cup (Ops \X {"incoming", "stage"})
    /\ Original # Edited /\ Ops \cap {Original, Edited} = {}
    /\ MaxFaults \in Nat

Incoming(p) == <<p, "incoming">>
Stage(p) == <<p, "stage">>
Temps == Ops \X {"incoming", "stage"}
Trees == {Original} \cup Temps
Versions == {Original, Edited} \cup Ops
Contents == [Files -> SUBSET Versions]
Present(t) == {f \in Files : t[f] # {}}

Policies == {"fail", "skip", "rename", "overwrite"}

VARIABLES
    dest, temps, backup,   \* names in the parent directory
    content,               \* of each tree
    workspaces,            \* restores whose decrypted payload is on disk
    pc, policy, archive, authentic, existed, todo, result,
    faults,
    been,                  \* history: trees that have been the destination
    replaced,              \* history: the tree a restore moved away
    source,                \* history: the one tree a copy was made of, if one
    unremoved              \* history: restores one of whose removals failed

names == <<dest, temps, backup, been, replaced>>
request == <<policy, archive, authentic, existed>>
locals == <<request, todo, source>>
vars == <<names, content, workspaces, pc, locals, result, faults, unremoved>>

Active == {"decode", "incoming", "extract", "publish", "stage", "copy", "merge",
           "replace", "away", "in", "rollback", "drop", "discard", "close"}

Init ==
    /\ dest \in {Original, NoTree}
    /\ been = {dest} \ {NoTree}
    /\ temps = {}
    /\ backup = [p \in Ops |-> NoTree]
    /\ replaced = backup
    /\ \E old \in SUBSET Files :
          content = [t \in Trees |->
              [f \in Files |-> IF t = Original /\ f \in old THEN {Original} ELSE {}]]
    /\ workspaces = {}
    /\ pc = [p \in Ops |-> "idle"]
    /\ policy = [p \in Ops |-> "fail"]
    /\ archive = [p \in Ops |-> {}]
    /\ authentic = [p \in Ops |-> FALSE]
    /\ existed = authentic
    /\ todo = archive
    /\ result = [p \in Ops |-> "none"]
    /\ faults = 0
    /\ source = backup
    /\ unremoved = {}

-----------------------------------------------------------------------------
Goto(p, from, to) == pc[p] = from /\ pc' = [pc EXCEPT ![p] = to]
Fail(p, from, to) == Goto(p, from, to) /\ result' = [result EXCEPT ![p] = "err"]
Succeed(p, from, to) == Goto(p, from, to) /\ result' = [result EXCEPT ![p] = "ok"]

\* os.RemoveAll fails.
NotRemoved(p) ==
    /\ faults < MaxFaults
    /\ faults' = faults + 1
    /\ unremoved' = unremoved \cup {p}

\* After the publication, or an error, only the clean-up is left, and it uses no local
\* but result; those of a process that is gone are gone.
Forget(p) ==
    /\ policy' = [policy EXCEPT ![p] = "fail"]
    /\ archive' = [archive EXCEPT ![p] = {}]
    /\ authentic' = [authentic EXCEPT ![p] = FALSE]
    /\ existed' = [existed EXCEPT ![p] = FALSE]
    /\ todo' = [todo EXCEPT ![p] = {}]
    /\ source' = [source EXCEPT ![p] = NoTree]

-----------------------------------------------------------------------------
(* Faulty variants of the actions below, one bug each; the properties must  *)
(* reject a specification that has one in place of the action it varies.    *)

\* The error of the extraction is not looked at.
ExtractErrorIgnored(p) ==
    /\ Goto(p, "extract", IF existed[p] THEN "stage" ELSE "publish")
    /\ UNCHANGED <<names, content, workspaces, locals, result, faults, unremoved>>

\* One more look at the context after the swap.
StepFailsAfterSwap(p) ==
    /\ pc[p] \in {"extract", "publish", "stage", "copy", "merge", "replace", "away", "drop"}
    /\ Fail(p, pc[p], "discard")
    /\ Forget(p)
    /\ UNCHANGED <<names, content, workspaces, faults, unremoved>>

\* The directory is published by a rename that replaces.
PublishReplaces(p) ==
    /\ Succeed(p, "publish", "discard")
    /\ dest' = Incoming(p) /\ temps' = temps \ {Incoming(p)}
    /\ been' = been \cup {dest'}
    /\ Forget(p)
    /\ UNCHANGED <<backup, replaced, content, workspaces, faults, unremoved>>

\* The error of the copy is not looked at.
CopyErrorIgnored(p) ==
    /\ Goto(p, "copy", "merge")
    /\ UNCHANGED <<names, content, workspaces, locals, result, faults, unremoved>>

\* One of the two staging directories is forgotten.
DiscardIncomingOnly(p) ==
    /\ Goto(p, "discard", "close")
    /\ temps' = temps \ {Incoming(p)}
    /\ UNCHANGED <<dest, backup, been, replaced, content, workspaces, locals, result, faults, unremoved>>

-----------------------------------------------------------------------------
(* Service.Restore. *)

\* The arguments, and the first look at the destination.
Begin(p) ==
    /\ \/ \E y \in Policies, a \in SUBSET Files, u \in BOOLEAN :
             /\ dest = NoTree \/ y # "fail"
             /\ Goto(p, "idle", "decode")
             /\ policy' = [policy EXCEPT ![p] = y]
             /\ archive' = [archive EXCEPT ![p] = a]
             /\ authentic' = [authentic EXCEPT ![p] = u]
             /\ existed' = [existed EXCEPT ![p] = dest # NoTree]
             /\ UNCHANGED <<todo, source, result>>
       \/ Fail(p, "idle", "done") /\ Forget(p)
    /\ UNCHANGED <<names, content, workspaces, faults, unremoved>>

\* decodeAuthenticated: on failure it closes the workspace itself.
Decode(p) ==
    /\ \/ /\ authentic[p]
          /\ Goto(p, "decode", "incoming")
          /\ workspaces' = workspaces \cup {p}
          /\ UNCHANGED <<locals, result, faults, unremoved>>
       \/ /\ Fail(p, "decode", "done") /\ Forget(p)
          /\ \/ UNCHANGED <<workspaces, faults, unremoved>>
             \/ NotRemoved(p) /\ workspaces' = workspaces \cup {p}
    /\ UNCHANGED <<names, content>>

MakeIncoming(p) ==
    /\ \/ /\ Goto(p, "incoming", "extract")
          /\ temps' = temps \cup {Incoming(p)}
          /\ todo' = [todo EXCEPT ![p] = archive[p]]
          /\ UNCHANGED result
       \/ /\ Fail(p, "incoming", "close")
          /\ UNCHANGED <<temps, todo>>
    /\ UNCHANGED <<dest, backup, been, replaced, content, workspaces, request, faults, source, unremoved>>

ExtractFile(p) ==
    /\ pc[p] = "extract"
    /\ \E f \in todo[p] :
          /\ todo' = [todo EXCEPT ![p] = @ \ {f}]
          /\ content' = [content EXCEPT ![Incoming(p)][f] = {p}]
    /\ UNCHANGED <<names, workspaces, pc, request, result, faults, source, unremoved>>

\* The end of the archive; an empty selection is an error.
Extracted(p) ==
    /\ todo[p] = {} /\ archive[p] # {}
    /\ Goto(p, "extract", IF existed[p] THEN "stage" ELSE "publish")
    /\ UNCHANGED <<names, content, workspaces, locals, result, faults, unremoved>>

\* Cancellation, or an error of the step that pc names.
StepFails(p) ==
    /\ pc[p] \in {"extract", "publish", "stage", "copy", "merge", "replace", "away"}
    /\ Fail(p, pc[p], "discard")
    /\ Forget(p)
    /\ UNCHANGED <<names, content, workspaces, faults, unremoved>>

\* PublishDirectory, which does not replace.
Publish(p) ==
    /\ dest = NoTree
    /\ Succeed(p, "publish", "discard")
    /\ dest' = Incoming(p) /\ temps' = temps \ {Incoming(p)}
    /\ been' = been \cup {dest'}
    /\ Forget(p)
    /\ UNCHANGED <<backup, replaced, content, workspaces, faults, unremoved>>

\* The staging directory for the merge; WalkDir lists the destination.
MakeStage(p) ==
    /\ dest # NoTree
    /\ Goto(p, "stage", "copy")
    /\ temps' = temps \cup {Stage(p)}
    /\ todo' = [todo EXCEPT ![p] = Present(content[dest])]
    /\ source' = [source EXCEPT ![p] = dest]
    /\ UNCHANGED <<dest, backup, been, replaced, content, workspaces, request, result, faults, unremoved>>

\* Files are opened by path, so from the tree that is there by then: a copy may
\* be one of several trees, and then it has no source.
CopyFile(p) ==
    /\ pc[p] = "copy" /\ dest # NoTree
    /\ \E f \in todo[p] \cap Present(content[dest]) :
          /\ todo' = [todo EXCEPT ![p] = @ \ {f}]
          /\ content' = [content EXCEPT ![Stage(p)][f] = content[dest][f]]
    /\ source' = [source EXCEPT ![p] = IF @ = dest THEN @ ELSE NoTree]
    /\ UNCHANGED <<names, workspaces, pc, request, result, faults, unremoved>>

Copied(p) ==
    /\ todo[p] = {}
    /\ Goto(p, "copy", "merge")
    /\ UNCHANGED <<names, content, workspaces, locals, result, faults, unremoved>>

\* mergeTrees, one file: the module MergeTrees has the algorithm.
Merged(y, new, old) ==
    IF new = {} \/ (old # {} /\ y = "skip") THEN old
    ELSE IF y = "rename" THEN old \cup new ELSE new

Merge(p) ==
    /\ Goto(p, "merge", "replace")
    /\ content' = [content EXCEPT ![Stage(p)] =
          [f \in Files |-> Merged(policy[p], content[Incoming(p)][f], content[Stage(p)][f])]]
    /\ UNCHANGED <<names, workspaces, locals, result, faults, unremoved>>

\* ReplaceDirectory: the checks and the reservation of the backup name.
CheckReplace(p) ==
    /\ dest # NoTree
    /\ Goto(p, "replace", "away")
    /\ UNCHANGED <<names, content, workspaces, locals, result, faults, unremoved>>

MoveAway(p) ==
    /\ dest # NoTree
    /\ Goto(p, "away", "in")
    /\ backup' = [backup EXCEPT ![p] = dest]
    /\ replaced' = [replaced EXCEPT ![p] = dest]
    /\ dest' = NoTree
    /\ UNCHANGED <<temps, been, content, workspaces, locals, result, faults, unremoved>>

\* os.Rename refuses to put a directory over another.
MoveIn(p) ==
    /\ \/ /\ dest = NoTree
          /\ Goto(p, "in", "drop")
          /\ dest' = Stage(p) /\ temps' = temps \ {Stage(p)}
          /\ been' = been \cup {dest'}
       \/ /\ Goto(p, "in", "rollback")
          /\ UNCHANGED <<dest, temps, been>>
    /\ UNCHANGED <<backup, replaced, content, workspaces, locals, result, faults, unremoved>>

Rollback(p) ==
    /\ Fail(p, "rollback", "discard")
    /\ \/ /\ dest = NoTree
          /\ dest' = backup[p]
          /\ backup' = [backup EXCEPT ![p] = NoTree]
       \/ UNCHANGED <<dest, backup>>
    /\ Forget(p)
    /\ UNCHANGED <<temps, been, replaced, content, workspaces, faults, unremoved>>

DropBackup(p) ==
    /\ \/ /\ Succeed(p, "drop", "discard")
          /\ backup' = [backup EXCEPT ![p] = NoTree]
          /\ UNCHANGED <<faults, unremoved>>
       \/ /\ Fail(p, "drop", "discard") /\ NotRemoved(p)
          /\ UNCHANGED backup
    /\ Forget(p)
    /\ UNCHANGED <<dest, temps, been, replaced, content, workspaces>>

\* os.RemoveAll of the staging directories, deferred or last before the return.
Discard(p) ==
    /\ Goto(p, "discard", "close")
    /\ \/ /\ temps' = temps \ {Incoming(p), Stage(p)}
          /\ UNCHANGED <<faults, unremoved>>
       \/ NotRemoved(p) /\ UNCHANGED temps
    /\ UNCHANGED <<dest, backup, been, replaced, content, workspaces, locals, result>>

\* The deferred workspace.Close, whose error becomes the error of the restore.
Close(p) ==
    /\ Forget(p)
    /\ \/ /\ Goto(p, "close", "done")
          /\ workspaces' = workspaces \ {p}
          /\ UNCHANGED <<result, faults, unremoved>>
       \/ /\ Fail(p, "close", "done") /\ NotRemoved(p)
          /\ UNCHANGED workspaces
    /\ UNCHANGED <<names, content>>

-----------------------------------------------------------------------------
(* The environment. *)

Kill(p) ==
    /\ pc[p] \in Active
    /\ pc' = [pc EXCEPT ![p] = "dead"]
    /\ Forget(p)
    /\ UNCHANGED <<names, content, workspaces, result, faults, unremoved>>

Edit(f) ==
    /\ dest # NoTree /\ faults < MaxFaults
    /\ content' = [content EXCEPT ![dest][f] = {Edited}]
    /\ faults' = faults + 1
    /\ UNCHANGED <<names, workspaces, pc, locals, result, unremoved>>

Step(p) ==
    \/ Begin(p) \/ Decode(p) \/ MakeIncoming(p) \/ ExtractFile(p) \/ Extracted(p)
    \/ StepFails(p) \/ Publish(p) \/ MakeStage(p) \/ CopyFile(p) \/ Copied(p)
    \/ Merge(p) \/ CheckReplace(p) \/ MoveAway(p) \/ MoveIn(p) \/ Rollback(p)
    \/ DropBackup(p) \/ Discard(p) \/ Close(p)

Next ==
    \/ \E p \in Ops : Step(p) \/ Kill(p)
    \/ \E f \in Files : Edit(f)

Spec == Init /\ [][Next]_vars

-----------------------------------------------------------------------------
(* Safety. *)

\* What a restore puts at the destination is authentic and whole: no file of
\* the archive is missing, and each is there in the archive's version unless
\* the policy kept the old one (README "do not publish partial output").
PublishedWhole ==
    [][\A p \in Ops : (been' \ been) \cap {Incoming(p), Stage(p)} # {} =>
          /\ authentic[p] /\ archive[p] # {}
          /\ \A f \in archive[p] :
                \/ p \in content[dest'][f]
                \/ policy[p] = "skip" /\ content[dest'][f] # {}]_vars

\* No tree that was ever the destination is lost: it is the destination, or a
\* backup, or the tree merged to replace it has become the destination in its
\* turn; also across failed rollbacks, kills and racing restores (directory.go
\* 32-45, README "rollback-capable").
TreesSurvive ==
    \A t \in been :
        \/ t = dest
        \/ \E p \in Ops : backup[p] = t
        \/ \E p \in Ops : replaced[p] = t /\ Stage(p) \in been

\* A merge keeps what the destination holds, except where the policy
\* overwrites it or a user changed it since.  This is said of a destination
\* that is still the one tree the copy was made of: nothing stops two restores
\* from merging copies of one tree, and then the second to finish wins, nor four
\* from a copy of two trees that meets the first of them at the destination.
MergeKeepsOld ==
    \A p \in Ops : pc[p] \in {"replace", "away"} /\ dest # NoTree /\ dest = source[p] =>
        \A f \in Present(content[dest]) :
            LET now == content[Stage(p)][f] IN
            \/ content[dest][f] \subseteq now
            \/ policy[p] = "overwrite" /\ f \in archive[p] /\ p \in now
            \/ Edited \in content[dest][f]

\* A restore that reports an error has not published anything, unless the error
\* is that of a removal after the publication.
ErrorMeansUnpublished ==
    \A p \in Ops \ unremoved : pc[p] = "done" /\ result[p] = "err" =>
        Incoming(p) \notin been /\ Stage(p) \notin been

\* When a restore has returned and every removal succeeded, the decrypted
\* payload and the staging trees are gone, and a backup is left only where the
\* rollback failed.
NoLeftovers ==
    \A p \in Ops \ unremoved : pc[p] = "done" =>
        /\ p \notin workspaces
        /\ Incoming(p) \notin temps /\ Stage(p) \notin temps
        /\ backup[p] # NoTree => result[p] = "err" /\ Stage(p) \notin been
=============================================================================
