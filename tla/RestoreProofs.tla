--------------------------- MODULE RestoreProofs ---------------------------
(***************************************************************************)
(* The safety properties of Restore, for any number of restores, files and *)
(* faults.                                                                 *)
(*                                                                         *)
(* The inductive invariant has four parts beside the types.  Control says  *)
(* what a restore knows at each of its steps, Ownership where its trees    *)
(* and its backup can be, Survival is the property TreesSurvive, and       *)
(* Carried follows the files from the archive and the destination into     *)
(* the tree that is going to be published.                                 *)
(*                                                                         *)
(* MergeTrees comes after them, for any two trees.  What is Ahead, listed  *)
(* or below what is listed, is disjoint from what has been merged, and     *)
(* directories of both trees are above it (MergeOrder).  Meanwhile the     *)
(* tree is what the policy asks of all that is not ahead, and of the rest  *)
(* still the old one (SkipInv, OverwriteInv, RenameInv).  The order of the *)
(* entries plays no part.                                                  *)
(***************************************************************************)
EXTENDS RestoreParts, Integers, SequenceTheorems, NaturalsInduction, WellFoundedInduction, TLAPS

TypeOK ==
    /\ dest \in Trees \cup {NoTree}
    /\ temps \subseteq Temps
    /\ backup \in [Ops -> Trees \cup {NoTree}]
    /\ replaced \in [Ops -> Trees \cup {NoTree}]
    /\ source \in [Ops -> Trees \cup {NoTree}]
    /\ been \subseteq Trees
    /\ content \in [Trees -> Contents]
    /\ workspaces \subseteq Ops
    /\ unremoved \subseteq Ops
    /\ pc \in [Ops -> Active \cup {"idle", "done", "dead"}]
    /\ policy \in [Ops -> Policies]
    /\ archive \in [Ops -> SUBSET Files]
    /\ authentic \in [Ops -> BOOLEAN]
    /\ existed \in [Ops -> BOOLEAN]
    /\ todo \in [Ops -> SUBSET Files]
    /\ result \in [Ops -> {"none", "ok", "err"}]
    /\ faults \in Nat

\* The steps of a restore, by what it has done before them.
Unstarted == {"idle", "decode", "incoming"}
Staging == {"stage", "copy", "merge"}
Staged == {"replace", "away", "in", "rollback"}
Unpublished == Unstarted \cup {"extract", "publish"} \cup Staging \cup Staged

\* What a restore knows.
Control(p) ==
    /\ pc[p] \in Unpublished \cup {"drop"} => result[p] = "none"
    /\ pc[p] \in {"publish", "drop"} \cup Staging \cup Staged =>
          authentic[p] /\ archive[p] # {}
    /\ pc[p] \in {"extract", "incoming"} => authentic[p]
    /\ pc[p] # "idle" /\ existed[p] => policy[p] # "fail"
    /\ pc[p] \in Staging \cup Staged => existed[p]
    /\ pc[p] = "extract" => todo[p] \subseteq archive[p]
    /\ pc[p] = "merge" => todo[p] = {}

\* Where the trees of a restore, and the one it moved away, can be.
Ownership(p) ==
    /\ Incoming(p) \in been => pc[p] \notin Unpublished
    /\ Stage(p) \in been => pc[p] \notin Unpublished
    /\ pc[p] = "drop" => Stage(p) \in been
    /\ p \notin unremoved /\ result[p] = "err" =>
          Incoming(p) \notin been /\ Stage(p) \notin been
    /\ p \in workspaces =>
          pc[p] \notin {"idle", "decode"} /\ (pc[p] = "done" => p \in unremoved)
    /\ Incoming(p) \in temps =>
          pc[p] \notin Unstarted /\ (pc[p] \in {"close", "done"} => p \in unremoved)
    /\ Stage(p) \in temps =>
          /\ pc[p] \notin Unstarted \cup {"extract", "publish", "stage"}
          /\ pc[p] \in {"close", "done"} => p \in unremoved
    /\ backup[p] # NoTree =>
          /\ backup[p] = replaced[p] /\ backup[p] \in been
          /\ pc[p] \in {"in", "rollback", "drop", "discard", "close", "done", "dead"}
          /\ pc[p] \in {"discard", "close", "done"} => p \in unremoved \/ result[p] = "err"
    /\ pc[p] \in {"in", "rollback", "drop"} => backup[p] = replaced[p]
    /\ source[p] # NoTree => source[p] \in been

Survival == TreesSurvive /\ (dest # NoTree => dest \in been)

\* The version of f in the staging tree may stand for that in the source.
Kept(p, f) ==
    \/ content[source[p]][f] \subseteq content[Stage(p)][f]
    \/ Edited \in content[source[p]][f]

Overwritten(p, f) ==
    policy[p] = "overwrite" /\ f \in archive[p] /\ p \in content[Stage(p)][f]

Whole(p, t, f) ==
    p \in content[t][f] \/ (policy[p] = "skip" /\ content[t][f] # {})

\* The files on their way.
Carried(p) ==
    /\ pc[p] \in Unstarted => \A f \in Files : content[Incoming(p)][f] = {}
    /\ pc[p] \in Unpublished \ Unstarted => \A f \in Files :
          /\ content[Incoming(p)][f] \in {{}, {p}}
          /\ content[Incoming(p)][f] # {} => f \in archive[p]
          /\ f \in archive[p] =>
                content[Incoming(p)][f] = {p} \/ (pc[p] = "extract" /\ f \in todo[p])
    /\ pc[p] \in {"copy", "merge"} /\ source[p] # NoTree => \A f \in Files :
          (pc[p] = "copy" /\ f \in todo[p]) \/ Kept(p, f)
    /\ pc[p] \in Staged /\ source[p] # NoTree => \A f \in Files :
          Kept(p, f) \/ Overwritten(p, f)
    /\ pc[p] \in Staged => \A f \in archive[p] : Whole(p, Stage(p), f)

Inv ==
    /\ TypeOK
    /\ \A p \in Ops : Control(p)
    /\ \A p \in Ops : Ownership(p)
    /\ Survival
    /\ \A p \in Ops : Carried(p)

-----------------------------------------------------------------------------
(* Trees and types. *)

\* The staging trees of the restores differ from each other and from the rest.
LEMMA TreeFacts ==
    /\ NoTree \notin Trees /\ Temps \subseteq Trees /\ Original \in Trees
    /\ \A p \in Ops : Incoming(p) \in Temps /\ Stage(p) \in Temps
    /\ \A p \in Ops : Incoming(p) # Original /\ Stage(p) # Original
    /\ \A p, q \in Ops : Incoming(p) # Stage(q)
    /\ \A p, q \in Ops : p # q => Incoming(p) # Incoming(q) /\ Stage(p) # Stage(q)
<1>1. "incoming" # "stage"
    OBVIOUS
<1>2. \A p, q \in Ops : Incoming(p) # Stage(q)
    BY <1>1, SMT DEF Incoming, Stage
<1>3. \A p, q \in Ops : p # q => Incoming(p) # Incoming(q) /\ Stage(p) # Stage(q)
    BY SMT DEF Incoming, Stage
<1>4. \A p \in Ops : Incoming(p) \in Temps /\ Stage(p) \in Temps
    BY SMT DEF Incoming, Stage, Temps
<1>5. Original \notin Temps /\ NoTree \notin Trees
    BY ConstantsAssumption DEF Trees, Temps
<1> QED
    BY <1>2, <1>3, <1>4, <1>5 DEF Trees

LEMMA MergedType ==
    ASSUME NEW y, NEW a \in SUBSET Versions, NEW b \in SUBSET Versions
    PROVE  Merged(y, a, b) \in SUBSET Versions
BY DEF Merged

LEMMA ForgetType ==
    ASSUME TypeOK, NEW p \in Ops, Forget(p)
    PROVE  /\ policy' \in [Ops -> Policies] /\ archive' \in [Ops -> SUBSET Files]
           /\ authentic' \in [Ops -> BOOLEAN] /\ existed' \in [Ops -> BOOLEAN]
           /\ todo' \in [Ops -> SUBSET Files]
           /\ source' \in [Ops -> Trees \cup {NoTree}]
<1>1. policy' \in [Ops -> Policies] /\ archive' \in [Ops -> SUBSET Files]
    BY DEF Forget, TypeOK, Policies
<1>2. authentic' \in [Ops -> BOOLEAN] /\ existed' \in [Ops -> BOOLEAN]
    BY DEF Forget, TypeOK
<1>3. todo' \in [Ops -> SUBSET Files] /\ source' \in [Ops -> Trees \cup {NoTree}]
    BY DEF Forget, TypeOK
<1> QED
    BY <1>1, <1>2, <1>3

\* A merge drops an old version only to overwrite it, and a new one only to
\* skip it.
LEMMA MergedKeeps ==
    ASSUME NEW y \in {"skip", "rename", "overwrite"}, NEW new, NEW old
    PROVE  \/ old \subseteq Merged(y, new, old)
           \/ y = "overwrite" /\ new # {} /\ Merged(y, new, old) = new
BY DEF Merged

LEMMA MergedTakes ==
    ASSUME NEW y \in {"skip", "rename", "overwrite"}, NEW new, NEW old, new # {}
    PROVE  \/ new \subseteq Merged(y, new, old)
           \/ y = "skip" /\ Merged(y, new, old) # {}
BY DEF Merged

LEMMA InitTypeOK == Init => TypeOK
BY TreeFacts, SMTT(30) DEF Init, TypeOK, Contents, Versions, Policies, Trees

LEMMA StepTypeOK ==
    ASSUME TypeOK, NEW p \in Ops, Step(p) \/ Kill(p)
    PROVE  TypeOK'
<1> USE TreeFacts
<1>1. CASE Begin(p)
    <2>1. CASE Fail(p, "idle", "done") /\ Forget(p)
        BY <1>1, <2>1, ForgetType DEF Begin, TypeOK, Goto, Fail, names, Active
    <2>2. CASE ~(Fail(p, "idle", "done") /\ Forget(p))
        <3>1. PICK y \in Policies, a \in SUBSET Files, u \in BOOLEAN :
                 /\ Goto(p, "idle", "decode")
                 /\ policy' = [policy EXCEPT ![p] = y]
                 /\ archive' = [archive EXCEPT ![p] = a]
                 /\ authentic' = [authentic EXCEPT ![p] = u]
                 /\ existed' = [existed EXCEPT ![p] = dest # NoTree]
                 /\ UNCHANGED <<todo, source, result>>
            BY <1>1, <2>2 DEF Begin
        <3>2. authentic' \in [Ops -> BOOLEAN] /\ existed' \in [Ops -> BOOLEAN]
            BY <3>1 DEF TypeOK
        <3> QED
            BY <1>1, <3>1, <3>2 DEF Begin, TypeOK, Goto, names, Active
    <2> QED
        BY <2>1, <2>2
<1>2. CASE Decode(p)
    <2>1. CASE Forget(p)
        BY <1>2, <2>1, ForgetType DEF Decode, TypeOK, Goto, Fail, NotRemoved, names, locals, request, Active
    <2>2. CASE ~Forget(p)
        BY <1>2, <2>2 DEF Decode, TypeOK, Goto, Fail, names, locals, request, Active
    <2> QED
        BY <2>1, <2>2
<1>3. CASE MakeIncoming(p)
    BY <1>3 DEF MakeIncoming, TypeOK, Goto, Fail, Succeed, NotRemoved, Forget, names, locals, request, Active
<1>4. CASE ExtractFile(p)
    BY <1>4 DEF ExtractFile, TypeOK, Goto, Fail, Succeed, NotRemoved, Forget, names, locals, request, Active, Contents, Versions
<1>5. CASE Extracted(p)
    BY <1>5 DEF Extracted, TypeOK, Goto, Fail, Succeed, NotRemoved, Forget, names, locals, request, Active
<1>6. CASE StepFails(p)
    BY <1>6, ForgetType DEF StepFails, TypeOK, Goto, Fail, Succeed, NotRemoved, names, Active
<1>7. CASE Publish(p)
    BY <1>7, ForgetType DEF Publish, TypeOK, Goto, Fail, Succeed, NotRemoved, names, Active
<1>8. CASE MakeStage(p)
    BY <1>8 DEF MakeStage, TypeOK, Goto, Fail, Succeed, NotRemoved, Forget, names, locals, request, Active, Present, Contents
<1>9. CASE CopyFile(p)
    BY <1>9 DEF CopyFile, TypeOK, Goto, Fail, Succeed, NotRemoved, Forget, names, locals, request, Active, Contents, Versions
<1>10. CASE Copied(p)
    BY <1>10 DEF Copied, TypeOK, Goto, Fail, Succeed, NotRemoved, Forget, names, locals, request, Active
<1>11. CASE Merge(p)
    <2>1. content' \in [Trees -> Contents]
        <3>1. [f \in Files |-> Merged(policy[p], content[Incoming(p)][f], content[Stage(p)][f])] \in Contents
            <4> SUFFICES ASSUME NEW f \in Files
                         PROVE  Merged(policy[p], content[Incoming(p)][f], content[Stage(p)][f])
                                \in SUBSET Versions
                BY DEF Contents
            <4>1. /\ content[Incoming(p)][f] \in SUBSET Versions
                  /\ content[Stage(p)][f] \in SUBSET Versions
                BY DEF TypeOK, Contents
            <4> QED
                BY <4>1, MergedType
        <3> QED
            BY <1>11, <3>1 DEF Merge, TypeOK
    <2> QED
        BY <1>11, <2>1 DEF Merge, TypeOK, Goto, Active, names, locals, request
<1>12. CASE CheckReplace(p)
    BY <1>12 DEF CheckReplace, TypeOK, Goto, Fail, Succeed, NotRemoved, Forget, names, locals, request, Active
<1>13. CASE MoveAway(p)
    BY <1>13 DEF MoveAway, TypeOK, Goto, Fail, Succeed, NotRemoved, Forget, names, locals, request, Active
<1>14. CASE MoveIn(p)
    BY <1>14 DEF MoveIn, TypeOK, Goto, Fail, Succeed, NotRemoved, Forget, names, locals, request, Active
<1>15. CASE Rollback(p)
    BY <1>15, ForgetType DEF Rollback, TypeOK, Goto, Fail, Succeed, NotRemoved, names, Active
<1>16. CASE DropBackup(p)
    BY <1>16, ForgetType DEF DropBackup, TypeOK, Goto, Fail, Succeed, NotRemoved, names, Active
<1>17. CASE Discard(p)
    BY <1>17 DEF Discard, TypeOK, Goto, Fail, Succeed, NotRemoved, Forget, names, locals, request, Active
<1>18. CASE Close(p)
    BY <1>18, ForgetType DEF Close, TypeOK, Goto, Fail, NotRemoved, names, Active
<1>19. CASE Kill(p)
    BY <1>19, ForgetType DEF Kill, TypeOK, names, Active
<1> QED
    BY <1>1, <1>2, <1>3, <1>4, <1>5, <1>6, <1>7, <1>8, <1>9, <1>10, <1>11, <1>12, <1>13, <1>14, <1>15, <1>16, <1>17, <1>18, <1>19 DEF Step

LEMMA EditTypeOK ==
    ASSUME TypeOK, NEW f \in Files, Edit(f)
    PROVE  TypeOK'
BY DEF Edit, TypeOK, Contents, Versions, names, locals, request

-----------------------------------------------------------------------------
(* What a step of one restore leaves alone. *)

\* A restore writes none of the locals of another.
LEMMA OtherLocals ==
    ASSUME TypeOK, NEW p \in Ops, Step(p) \/ Kill(p), NEW q \in Ops, q # p
    PROVE  /\ pc'[q] = pc[q] /\ result'[q] = result[q] /\ policy'[q] = policy[q]
           /\ archive'[q] = archive[q] /\ authentic'[q] = authentic[q]
           /\ existed'[q] = existed[q] /\ todo'[q] = todo[q] /\ source'[q] = source[q]
<1>1. CASE Begin(p)
    BY <1>1 DEF Begin, TypeOK, Goto, Fail, Succeed, NotRemoved, Forget, names, locals, request
<1>2. CASE Decode(p)
    BY <1>2 DEF Decode, TypeOK, Goto, Fail, Succeed, NotRemoved, Forget, names, locals, request
<1>3. CASE MakeIncoming(p)
    BY <1>3 DEF MakeIncoming, TypeOK, Goto, Fail, Succeed, NotRemoved, Forget, names, locals, request
<1>4. CASE ExtractFile(p)
    BY <1>4 DEF ExtractFile, TypeOK, Goto, Fail, Succeed, NotRemoved, Forget, names, locals, request
<1>5. CASE Extracted(p)
    BY <1>5 DEF Extracted, TypeOK, Goto, Fail, Succeed, NotRemoved, Forget, names, locals, request
<1>6. CASE StepFails(p)
    BY <1>6 DEF StepFails, TypeOK, Goto, Fail, Succeed, NotRemoved, Forget, names, locals, request
<1>7. CASE Publish(p)
    BY <1>7 DEF Publish, TypeOK, Goto, Fail, Succeed, NotRemoved, Forget, names, locals, request
<1>8. CASE MakeStage(p)
    BY <1>8 DEF MakeStage, TypeOK, Goto, Fail, Succeed, NotRemoved, Forget, names, locals, request
<1>9. CASE CopyFile(p)
    BY <1>9 DEF CopyFile, TypeOK, Goto, Fail, Succeed, NotRemoved, Forget, names, locals, request
<1>10. CASE Copied(p)
    BY <1>10 DEF Copied, TypeOK, Goto, Fail, Succeed, NotRemoved, Forget, names, locals, request
<1>11. CASE Merge(p)
    BY <1>11 DEF Merge, TypeOK, Goto, Fail, Succeed, NotRemoved, Forget, names, locals, request
<1>12. CASE CheckReplace(p)
    BY <1>12 DEF CheckReplace, TypeOK, Goto, Fail, Succeed, NotRemoved, Forget, names, locals, request
<1>13. CASE MoveAway(p)
    BY <1>13 DEF MoveAway, TypeOK, Goto, Fail, Succeed, NotRemoved, Forget, names, locals, request
<1>14. CASE MoveIn(p)
    BY <1>14 DEF MoveIn, TypeOK, Goto, Fail, Succeed, NotRemoved, Forget, names, locals, request
<1>15. CASE Rollback(p)
    BY <1>15 DEF Rollback, TypeOK, Goto, Fail, Succeed, NotRemoved, Forget, names, locals, request
<1>16. CASE DropBackup(p)
    BY <1>16 DEF DropBackup, TypeOK, Goto, Fail, Succeed, NotRemoved, Forget, names, locals, request
<1>17. CASE Discard(p)
    BY <1>17 DEF Discard, TypeOK, Goto, Fail, Succeed, NotRemoved, Forget, names, locals, request
<1>18. CASE Close(p)
    BY <1>18 DEF Close, TypeOK, Goto, Fail, Succeed, NotRemoved, Forget, names, locals, request
<1>19. CASE Kill(p)
    BY <1>19 DEF Kill, TypeOK, Goto, Fail, Succeed, NotRemoved, Forget, names, locals, request
<1> QED
    BY <1>1, <1>2, <1>3, <1>4, <1>5, <1>6, <1>7, <1>8, <1>9, <1>10, <1>11, <1>12, <1>13, <1>14, <1>15, <1>16, <1>17, <1>18, <1>19 DEF Step

\* It keeps the trees, the backup and the workspace of another where they are.
LEMMA OtherNames ==
    ASSUME TypeOK, NEW p \in Ops, Step(p) \/ Kill(p), NEW q \in Ops, q # p
    PROVE  /\ backup'[q] = backup[q] /\ replaced'[q] = replaced[q]
           /\ q \in workspaces' <=> q \in workspaces
           /\ q \in unremoved' <=> q \in unremoved
           /\ Incoming(q) \in temps' <=> Incoming(q) \in temps
           /\ Stage(q) \in temps' <=> Stage(q) \in temps
           /\ Incoming(q) \in been' <=> Incoming(q) \in been
           /\ Stage(q) \in been' <=> Stage(q) \in been
<1> USE TreeFacts
<1>1. CASE Begin(p)
    BY <1>1 DEF Begin, TypeOK, Goto, Fail, Succeed, NotRemoved, Forget, names, locals, request
<1>2. CASE Decode(p)
    BY <1>2 DEF Decode, TypeOK, Goto, Fail, Succeed, NotRemoved, Forget, names, locals, request
<1>3. CASE MakeIncoming(p)
    BY <1>3 DEF MakeIncoming, TypeOK, Goto, Fail, Succeed, NotRemoved, Forget, names, locals, request
<1>4. CASE ExtractFile(p)
    BY <1>4 DEF ExtractFile, TypeOK, Goto, Fail, Succeed, NotRemoved, Forget, names, locals, request
<1>5. CASE Extracted(p)
    BY <1>5 DEF Extracted, TypeOK, Goto, Fail, Succeed, NotRemoved, Forget, names, locals, request
<1>6. CASE StepFails(p)
    BY <1>6 DEF StepFails, TypeOK, Goto, Fail, Succeed, NotRemoved, Forget, names, locals, request
<1>7. CASE Publish(p)
    BY <1>7 DEF Publish, TypeOK, Goto, Fail, Succeed, NotRemoved, Forget, names, locals, request
<1>8. CASE MakeStage(p)
    BY <1>8 DEF MakeStage, TypeOK, Goto, Fail, Succeed, NotRemoved, Forget, names, locals, request
<1>9. CASE CopyFile(p)
    BY <1>9 DEF CopyFile, TypeOK, Goto, Fail, Succeed, NotRemoved, Forget, names, locals, request
<1>10. CASE Copied(p)
    BY <1>10 DEF Copied, TypeOK, Goto, Fail, Succeed, NotRemoved, Forget, names, locals, request
<1>11. CASE Merge(p)
    BY <1>11 DEF Merge, TypeOK, Goto, Fail, Succeed, NotRemoved, Forget, names, locals, request
<1>12. CASE CheckReplace(p)
    BY <1>12 DEF CheckReplace, TypeOK, Goto, Fail, Succeed, NotRemoved, Forget, names, locals, request
<1>13. CASE MoveAway(p)
    BY <1>13 DEF MoveAway, TypeOK, Goto, Fail, Succeed, NotRemoved, Forget, names, locals, request
<1>14. CASE MoveIn(p)
    BY <1>14 DEF MoveIn, TypeOK, Goto, Fail, Succeed, NotRemoved, Forget, names, locals, request
<1>15. CASE Rollback(p)
    BY <1>15 DEF Rollback, TypeOK, Goto, Fail, Succeed, NotRemoved, Forget, names, locals, request
<1>16. CASE DropBackup(p)
    BY <1>16 DEF DropBackup, TypeOK, Goto, Fail, Succeed, NotRemoved, Forget, names, locals, request
<1>17. CASE Discard(p)
    BY <1>17 DEF Discard, TypeOK, Goto, Fail, Succeed, NotRemoved, Forget, names, locals, request
<1>18. CASE Close(p)
    BY <1>18 DEF Close, TypeOK, Goto, Fail, Succeed, NotRemoved, Forget, names, locals, request
<1>19. CASE Kill(p)
    BY <1>19 DEF Kill, TypeOK, Goto, Fail, Succeed, NotRemoved, Forget, names, locals, request
<1> QED
    BY <1>1, <1>2, <1>3, <1>4, <1>5, <1>6, <1>7, <1>8, <1>9, <1>10, <1>11, <1>12, <1>13, <1>14, <1>15, <1>16, <1>17, <1>18, <1>19 DEF Step

\* It writes files of its own two trees only.
LEMMA OtherFiles ==
    ASSUME TypeOK, NEW p \in Ops, Step(p) \/ Kill(p),
           NEW t \in Trees, t # Incoming(p), t # Stage(p)
    PROVE  content'[t] = content[t]
<1> USE TreeFacts
<1>1. CASE Begin(p)
    BY <1>1 DEF Begin, TypeOK, Goto, Fail, Succeed, NotRemoved, Forget, names, locals, request
<1>2. CASE Decode(p)
    BY <1>2 DEF Decode, TypeOK, Goto, Fail, Succeed, NotRemoved, Forget, names, locals, request
<1>3. CASE MakeIncoming(p)
    BY <1>3 DEF MakeIncoming, TypeOK, Goto, Fail, Succeed, NotRemoved, Forget, names, locals, request
<1>4. CASE ExtractFile(p)
    BY <1>4 DEF ExtractFile, TypeOK, Goto, Fail, Succeed, NotRemoved, Forget, names, locals, request
<1>5. CASE Extracted(p)
    BY <1>5 DEF Extracted, TypeOK, Goto, Fail, Succeed, NotRemoved, Forget, names, locals, request
<1>6. CASE StepFails(p)
    BY <1>6 DEF StepFails, TypeOK, Goto, Fail, Succeed, NotRemoved, Forget, names, locals, request
<1>7. CASE Publish(p)
    BY <1>7 DEF Publish, TypeOK, Goto, Fail, Succeed, NotRemoved, Forget, names, locals, request
<1>8. CASE MakeStage(p)
    BY <1>8 DEF MakeStage, TypeOK, Goto, Fail, Succeed, NotRemoved, Forget, names, locals, request
<1>9. CASE CopyFile(p)
    BY <1>9 DEF CopyFile, TypeOK, Goto, Fail, Succeed, NotRemoved, Forget, names, locals, request
<1>10. CASE Copied(p)
    BY <1>10 DEF Copied, TypeOK, Goto, Fail, Succeed, NotRemoved, Forget, names, locals, request
<1>11. CASE Merge(p)
    BY <1>11 DEF Merge, TypeOK, Goto, Fail, Succeed, NotRemoved, Forget, names, locals, request
<1>12. CASE CheckReplace(p)
    BY <1>12 DEF CheckReplace, TypeOK, Goto, Fail, Succeed, NotRemoved, Forget, names, locals, request
<1>13. CASE MoveAway(p)
    BY <1>13 DEF MoveAway, TypeOK, Goto, Fail, Succeed, NotRemoved, Forget, names, locals, request
<1>14. CASE MoveIn(p)
    BY <1>14 DEF MoveIn, TypeOK, Goto, Fail, Succeed, NotRemoved, Forget, names, locals, request
<1>15. CASE Rollback(p)
    BY <1>15 DEF Rollback, TypeOK, Goto, Fail, Succeed, NotRemoved, Forget, names, locals, request
<1>16. CASE DropBackup(p)
    BY <1>16 DEF DropBackup, TypeOK, Goto, Fail, Succeed, NotRemoved, Forget, names, locals, request
<1>17. CASE Discard(p)
    BY <1>17 DEF Discard, TypeOK, Goto, Fail, Succeed, NotRemoved, Forget, names, locals, request
<1>18. CASE Close(p)
    BY <1>18 DEF Close, TypeOK, Goto, Fail, Succeed, NotRemoved, Forget, names, locals, request
<1>19. CASE Kill(p)
    BY <1>19 DEF Kill, TypeOK, Goto, Fail, Succeed, NotRemoved, Forget, names, locals, request
<1> QED
    BY <1>1, <1>2, <1>3, <1>4, <1>5, <1>6, <1>7, <1>8, <1>9, <1>10, <1>11, <1>12, <1>13, <1>14, <1>15, <1>16, <1>17, <1>18, <1>19 DEF Step

\* Nor a file of a tree that has been the destination.
LEMMA PublishedFiles ==
    ASSUME TypeOK, NEW p \in Ops, Ownership(p), Step(p) \/ Kill(p), NEW t \in been
    PROVE  content'[t] = content[t]
<1>1. CASE t # Incoming(p) /\ t # Stage(p)
    BY <1>1, OtherFiles DEF TypeOK
<1>2. CASE pc[p] \notin {"extract", "copy", "merge"}
    <2>1. UNCHANGED content
        BY <1>2 DEF Step, Kill, Goto, Fail, Begin, Decode, MakeIncoming, ExtractFile,
                    Extracted, StepFails, Publish, MakeStage, CopyFile, Copied, Merge,
                    CheckReplace, MoveAway, MoveIn, Rollback, DropBackup, Discard, Close
    <2> QED
        BY <2>1
<1>3. CASE pc[p] \in {"extract", "copy", "merge"}
    BY <1>1, <1>3 DEF Ownership, Unpublished, Staging
<1> QED
    BY <1>1, <1>2, <1>3

-----------------------------------------------------------------------------
(* Control. *)

LEMMA StepControl ==
    ASSUME TypeOK, NEW p \in Ops, Control(p), Step(p) \/ Kill(p)
    PROVE  Control(p)'
<1> USE DEF Control, Unpublished, Unstarted, Staging, Staged
<1>1. CASE Begin(p)
    <2>1. CASE Fail(p, "idle", "done") /\ Forget(p)
        BY <2>1 DEF TypeOK, Goto, Fail, Forget
    <2>2. CASE ~(Fail(p, "idle", "done") /\ Forget(p))
        <3>1. PICK y \in Policies :
                 /\ dest = NoTree \/ y # "fail"
                 /\ Goto(p, "idle", "decode")
                 /\ policy' = [policy EXCEPT ![p] = y]
                 /\ existed' = [existed EXCEPT ![p] = dest # NoTree]
                 /\ result' = result
            BY <1>1, <2>2 DEF Begin
        <3>2. pc[p] = "idle" /\ pc'[p] = "decode" /\ policy'[p] = y
            BY <3>1 DEF Goto, TypeOK
        <3>3. existed'[p] = (dest # NoTree)
            BY <3>1 DEF TypeOK
        <3> QED
            BY <3>1, <3>2, <3>3
    <2> QED
        BY <2>1, <2>2
<1>2. CASE Decode(p)
    BY <1>2 DEF Decode, TypeOK, Goto, Fail, Succeed, NotRemoved, Forget, names, locals, request
<1>3. CASE MakeIncoming(p)
    BY <1>3 DEF MakeIncoming, TypeOK, Goto, Fail, Succeed, NotRemoved, Forget, names, locals, request
<1>4. CASE ExtractFile(p)
    BY <1>4 DEF ExtractFile, TypeOK, Goto, Fail, Succeed, NotRemoved, Forget, names, locals, request
<1>5. CASE Extracted(p)
    BY <1>5 DEF Extracted, TypeOK, Goto, Fail, Succeed, NotRemoved, Forget, names, locals, request
<1>6. CASE StepFails(p)
    BY <1>6 DEF StepFails, TypeOK, Goto, Fail, Succeed, NotRemoved, Forget, names, locals, request
<1>7. CASE Publish(p)
    BY <1>7 DEF Publish, TypeOK, Goto, Fail, Succeed, NotRemoved, Forget, names, locals, request
<1>8. CASE MakeStage(p)
    BY <1>8 DEF MakeStage, TypeOK, Goto, Fail, Succeed, NotRemoved, Forget, names, locals, request
<1>9. CASE CopyFile(p)
    BY <1>9 DEF CopyFile, TypeOK, Goto, Fail, Succeed, NotRemoved, Forget, names, locals, request
<1>10. CASE Copied(p)
    BY <1>10 DEF Copied, TypeOK, Goto, Fail, Succeed, NotRemoved, Forget, names, locals, request
<1>11. CASE Merge(p)
    BY <1>11 DEF Merge, TypeOK, Goto, Fail, Succeed, NotRemoved, Forget, names, locals, request
<1>12. CASE CheckReplace(p)
    BY <1>12 DEF CheckReplace, TypeOK, Goto, Fail, Succeed, NotRemoved, Forget, names, locals, request
<1>13. CASE MoveAway(p)
    BY <1>13 DEF MoveAway, TypeOK, Goto, Fail, Succeed, NotRemoved, Forget, names, locals, request
<1>14. CASE MoveIn(p)
    BY <1>14 DEF MoveIn, TypeOK, Goto, Fail, Succeed, NotRemoved, Forget, names, locals, request
<1>15. CASE Rollback(p)
    BY <1>15 DEF Rollback, TypeOK, Goto, Fail, Succeed, NotRemoved, Forget, names, locals, request
<1>16. CASE DropBackup(p)
    BY <1>16 DEF DropBackup, TypeOK, Goto, Fail, Succeed, NotRemoved, Forget, names, locals, request
<1>17. CASE Discard(p)
    BY <1>17 DEF Discard, TypeOK, Goto, Fail, Succeed, NotRemoved, Forget, names, locals, request
<1>18. CASE Close(p)
    BY <1>18 DEF Close, TypeOK, Goto, Fail, Succeed, NotRemoved, Forget, names, locals, request
<1>19. CASE Kill(p)
    BY <1>19 DEF Kill, TypeOK, Goto, Fail, Succeed, NotRemoved, Forget, names, locals, request
<1> QED
    BY <1>1, <1>2, <1>3, <1>4, <1>5, <1>6, <1>7, <1>8, <1>9, <1>10, <1>11, <1>12, <1>13, <1>14, <1>15, <1>16, <1>17, <1>18, <1>19 DEF Step

LEMMA OtherControl ==
    ASSUME TypeOK, NEW p \in Ops, Step(p) \/ Kill(p),
           NEW q \in Ops, q # p, Control(q)
    PROVE  Control(q)'
BY OtherLocals DEF Control

-----------------------------------------------------------------------------
(* Ownership. *)

\* A tree that has been the destination once has been so ever since.
LEMMA BeenGrows ==
    ASSUME TypeOK, NEW p \in Ops, Step(p) \/ Kill(p)
    PROVE  been \subseteq been'
<1>1. CASE Begin(p)
    BY <1>1 DEF Begin, Goto, Fail, Succeed, NotRemoved, Forget, names, locals, request
<1>2. CASE Decode(p)
    BY <1>2 DEF Decode, Goto, Fail, Succeed, NotRemoved, Forget, names, locals, request
<1>3. CASE MakeIncoming(p)
    BY <1>3 DEF MakeIncoming, Goto, Fail, Succeed, NotRemoved, Forget, names, locals, request
<1>4. CASE ExtractFile(p)
    BY <1>4 DEF ExtractFile, Goto, Fail, Succeed, NotRemoved, Forget, names, locals, request
<1>5. CASE Extracted(p)
    BY <1>5 DEF Extracted, Goto, Fail, Succeed, NotRemoved, Forget, names, locals, request
<1>6. CASE StepFails(p)
    BY <1>6 DEF StepFails, Goto, Fail, Succeed, NotRemoved, Forget, names, locals, request
<1>7. CASE Publish(p)
    BY <1>7 DEF Publish, Goto, Fail, Succeed, NotRemoved, Forget, names, locals, request
<1>8. CASE MakeStage(p)
    BY <1>8 DEF MakeStage, Goto, Fail, Succeed, NotRemoved, Forget, names, locals, request
<1>9. CASE CopyFile(p)
    BY <1>9 DEF CopyFile, Goto, Fail, Succeed, NotRemoved, Forget, names, locals, request
<1>10. CASE Copied(p)
    BY <1>10 DEF Copied, Goto, Fail, Succeed, NotRemoved, Forget, names, locals, request
<1>11. CASE Merge(p)
    BY <1>11 DEF Merge, Goto, Fail, Succeed, NotRemoved, Forget, names, locals, request
<1>12. CASE CheckReplace(p)
    BY <1>12 DEF CheckReplace, Goto, Fail, Succeed, NotRemoved, Forget, names, locals, request
<1>13. CASE MoveAway(p)
    BY <1>13 DEF MoveAway, Goto, Fail, Succeed, NotRemoved, Forget, names, locals, request
<1>14. CASE MoveIn(p)
    BY <1>14 DEF MoveIn, Goto, Fail, Succeed, NotRemoved, Forget, names, locals, request
<1>15. CASE Rollback(p)
    BY <1>15 DEF Rollback, Goto, Fail, Succeed, NotRemoved, Forget, names, locals, request
<1>16. CASE DropBackup(p)
    BY <1>16 DEF DropBackup, Goto, Fail, Succeed, NotRemoved, Forget, names, locals, request
<1>17. CASE Discard(p)
    BY <1>17 DEF Discard, Goto, Fail, Succeed, NotRemoved, Forget, names, locals, request
<1>18. CASE Close(p)
    BY <1>18 DEF Close, Goto, Fail, Succeed, NotRemoved, Forget, names, locals, request
<1>19. CASE Kill(p)
    BY <1>19 DEF Kill, Goto, Fail, Succeed, NotRemoved, Forget, names, locals, request
<1> QED
    BY <1>1, <1>2, <1>3, <1>4, <1>5, <1>6, <1>7, <1>8, <1>9, <1>10, <1>11, <1>12, <1>13, <1>14, <1>15, <1>16, <1>17, <1>18, <1>19 DEF Step

LEMMA StepOwnership ==
    ASSUME TypeOK, dest # NoTree => dest \in been,
           NEW p \in Ops, Control(p), Ownership(p), Step(p) \/ Kill(p)
    PROVE  Ownership(p)'
<1> USE TreeFacts DEF Ownership, Control, Unpublished, Unstarted, Staging, Staged
<1>1. CASE Begin(p)
    BY <1>1 DEF Begin, TypeOK, Goto, Fail, Succeed, NotRemoved, Forget, names, locals, request
<1>2. CASE Decode(p)
    BY <1>2 DEF Decode, TypeOK, Goto, Fail, Succeed, NotRemoved, Forget, names, locals, request
<1>3. CASE MakeIncoming(p)
    BY <1>3 DEF MakeIncoming, TypeOK, Goto, Fail, Succeed, NotRemoved, Forget, names, locals, request
<1>4. CASE ExtractFile(p)
    BY <1>4 DEF ExtractFile, TypeOK, Goto, Fail, Succeed, NotRemoved, Forget, names, locals, request
<1>5. CASE Extracted(p)
    BY <1>5 DEF Extracted, TypeOK, Goto, Fail, Succeed, NotRemoved, Forget, names, locals, request
<1>6. CASE StepFails(p)
    BY <1>6 DEF StepFails, TypeOK, Goto, Fail, Succeed, NotRemoved, Forget, names, locals, request
<1>7. CASE Publish(p)
    BY <1>7 DEF Publish, TypeOK, Goto, Fail, Succeed, NotRemoved, Forget, names, locals, request
<1>8. CASE MakeStage(p)
    BY <1>8 DEF MakeStage, TypeOK, Goto, Fail, Succeed, NotRemoved, Forget, names, locals, request
<1>9. CASE CopyFile(p)
    BY <1>9 DEF CopyFile, TypeOK, Goto, Fail, Succeed, NotRemoved, Forget, names, locals, request
<1>10. CASE Copied(p)
    BY <1>10 DEF Copied, TypeOK, Goto, Fail, Succeed, NotRemoved, Forget, names, locals, request
<1>11. CASE Merge(p)
    BY <1>11 DEF Merge, TypeOK, Goto, Fail, Succeed, NotRemoved, Forget, names, locals, request
<1>12. CASE CheckReplace(p)
    BY <1>12 DEF CheckReplace, TypeOK, Goto, Fail, Succeed, NotRemoved, Forget, names, locals, request
<1>13. CASE MoveAway(p)
    BY <1>13 DEF MoveAway, TypeOK, Goto, Fail, Succeed, NotRemoved, Forget, names, locals, request
<1>14. CASE MoveIn(p)
    BY <1>14 DEF MoveIn, TypeOK, Goto, Fail, Succeed, NotRemoved, Forget, names, locals, request
<1>15. CASE Rollback(p)
    BY <1>15 DEF Rollback, TypeOK, Goto, Fail, Succeed, NotRemoved, Forget, names, locals, request
<1>16. CASE DropBackup(p)
    BY <1>16 DEF DropBackup, TypeOK, Goto, Fail, Succeed, NotRemoved, Forget, names, locals, request
<1>17. CASE Discard(p)
    BY <1>17 DEF Discard, TypeOK, Goto, Fail, Succeed, NotRemoved, Forget, names, locals, request
<1>18. CASE Close(p)
    BY <1>18 DEF Close, TypeOK, Goto, Fail, Succeed, NotRemoved, Forget, names, locals, request
<1>19. CASE Kill(p)
    BY <1>19 DEF Kill, TypeOK, Goto, Fail, Succeed, NotRemoved, Forget, names, locals, request
<1> QED
    BY <1>1, <1>2, <1>3, <1>4, <1>5, <1>6, <1>7, <1>8, <1>9, <1>10, <1>11, <1>12, <1>13, <1>14, <1>15, <1>16, <1>17, <1>18, <1>19 DEF Step

LEMMA OtherOwnership ==
    ASSUME TypeOK, NEW p \in Ops, Step(p) \/ Kill(p),
           NEW q \in Ops, q # p, Ownership(q)
    PROVE  Ownership(q)'
BY OtherLocals, OtherNames, BeenGrows DEF Ownership

-----------------------------------------------------------------------------
(* Survival. *)

\* A tree put where none is takes no other tree's place.
LEMMA PutSurvival ==
    ASSUME TypeOK, Survival, dest = NoTree, been' = been \cup {dest'},
           UNCHANGED <<backup, replaced>>
    PROVE  Survival'
<1>1. ASSUME NEW t \in been
      PROVE  \/ \E q \in Ops : backup'[q] = t
             \/ \E q \in Ops : replaced'[q] = t /\ Stage(q) \in been'
    BY TreeFacts DEF Survival, TreesSurvive, TypeOK
<1> QED
    BY <1>1 DEF Survival, TreesSurvive

LEMMA StepSurvival ==
    ASSUME TypeOK, NEW p \in Ops, Control(p), Ownership(p), Survival,
           Step(p) \/ Kill(p)
    PROVE  Survival'
<1> USE TreeFacts
<1>1. CASE UNCHANGED <<dest, backup, been, replaced>>
    BY <1>1 DEF Survival, TreesSurvive
<1>2. CASE Publish(p)
    BY <1>2, PutSurvival DEF Publish
<1>3. CASE MoveAway(p)
    <2>1. backup[p] = NoTree /\ Stage(p) \notin been
        BY <1>3 DEF MoveAway, Goto, Ownership, Unpublished, Staged
    <2>2. /\ dest \in been /\ dest' = NoTree /\ been' = been
          /\ backup'[p] = dest /\ replaced'[p] = dest
          /\ \A q \in Ops \ {p} : backup'[q] = backup[q] /\ replaced'[q] = replaced[q]
        BY <1>3 DEF MoveAway, Survival, TypeOK
    <2>3. ASSUME NEW t \in been
          PROVE  \/ \E q \in Ops : backup'[q] = t
                 \/ \E q \in Ops : replaced'[q] = t /\ Stage(q) \in been
        BY <2>1, <2>2, t # NoTree DEF Survival, TreesSurvive, TypeOK
    <2> QED
        BY <2>2, <2>3 DEF Survival, TreesSurvive
<1>4. CASE MoveIn(p)
    BY <1>1, <1>4, PutSurvival DEF MoveIn
<1>5. CASE Rollback(p)
    <2>1. CASE UNCHANGED <<dest, backup>>
        BY <1>5, <2>1 DEF Rollback, Survival, TreesSurvive
    <2>2. CASE ~UNCHANGED <<dest, backup>>
        <3>1. /\ dest = NoTree /\ dest' = backup[p] /\ been' = been /\ replaced' = replaced
              /\ \A q \in Ops \ {p} : backup'[q] = backup[q]
            BY <1>5, <2>2 DEF Rollback, TypeOK
        <3>2. backup[p] # NoTree => backup[p] \in been
            BY DEF Ownership
        <3> QED
            BY <3>1, <3>2 DEF Survival, TreesSurvive, TypeOK
    <2> QED
        BY <2>1, <2>2
<1>6. CASE DropBackup(p)
    <2>1. backup[p] = replaced[p] /\ Stage(p) \in been
        BY <1>6 DEF DropBackup, Succeed, Fail, Goto, Ownership
    <2>2. /\ dest' = dest /\ been' = been /\ replaced' = replaced
          /\ \A q \in Ops \ {p} : backup'[q] = backup[q]
        BY <1>6 DEF DropBackup, TypeOK
    <2> QED
        BY <2>1, <2>2 DEF Survival, TreesSurvive
<1> QED
    BY <1>1, <1>2, <1>3, <1>4, <1>5, <1>6
    DEF Step, Begin, Decode, MakeIncoming, ExtractFile, Extracted, StepFails, MakeStage,
        CopyFile, Copied, Merge, CheckReplace, Discard, Close, Kill, names

-----------------------------------------------------------------------------
(* The files on their way. *)

\* A restore whose files nobody writes, and which goes on to a later step or
\* ends, keeps what is said of them.
LEMMA OtherCarried ==
    ASSUME TypeOK, NEW p \in Ops, Ownership(p), Step(p) \/ Kill(p),
           NEW q \in Ops, q # p, Ownership(q), Carried(q)
    PROVE  Carried(q)'
<1>1. content'[Incoming(q)] = content[Incoming(q)] /\ content'[Stage(q)] = content[Stage(q)]
    BY OtherFiles, TreeFacts
<1>2. source[q] # NoTree => content'[source[q]] = content[source[q]]
    BY PublishedFiles DEF Ownership
<1>3. /\ pc'[q] = pc[q] /\ policy'[q] = policy[q] /\ archive'[q] = archive[q]
      /\ todo'[q] = todo[q] /\ source'[q] = source[q]
    BY OtherLocals
<1>4. ASSUME NEW f \in Files, source[q] # NoTree
      PROVE  Kept(q, f)' <=> Kept(q, f)
    BY <1>1, <1>2, <1>3, <1>4 DEF Kept
<1>5. ASSUME NEW f \in Files
      PROVE  /\ Overwritten(q, f)' <=> Overwritten(q, f)
             /\ Whole(q, Stage(q), f)' <=> Whole(q, Stage(q), f)
    BY <1>1, <1>3 DEF Overwritten, Whole
<1>6. archive[q] \subseteq Files
    BY DEF TypeOK
<1> HIDE DEF Unpublished, Unstarted, Staged
<1> QED
    BY <1>1, <1>3, <1>4, <1>5, <1>6 DEF Carried

LEMMA StepCarried ==
    ASSUME TypeOK, dest # NoTree => dest \in been,
           NEW p \in Ops, Control(p), Ownership(p), Carried(p), Step(p) \/ Kill(p)
    PROVE  Carried(p)'
<1> USE TreeFacts DEF Carried, Kept, Overwritten, Whole, Unpublished, Unstarted, Staging, Staged
<1>1. CASE Begin(p)
    BY <1>1 DEF Begin, TypeOK, Contents, Control, Goto, Fail, Succeed, NotRemoved, Forget, names, locals, request
<1>2. CASE Decode(p)
    BY <1>2 DEF Decode, TypeOK, Contents, Control, Goto, Fail, Succeed, NotRemoved, Forget, names, locals, request
<1>3. CASE MakeIncoming(p)
    BY <1>3 DEF MakeIncoming, TypeOK, Contents, Control, Goto, Fail, Succeed, NotRemoved, Forget, names, locals, request
<1>4. CASE ExtractFile(p)
    <2>1. PICK f \in todo[p] :
             /\ todo' = [todo EXCEPT ![p] = @ \ {f}]
             /\ content' = [content EXCEPT ![Incoming(p)][f] = {p}]
        BY <1>4 DEF ExtractFile
    <2>2. /\ todo'[p] = todo[p] \ {f} /\ f \in Files
          /\ content'[Incoming(p)][f] = {p}
          /\ \A g \in Files \ {f} : content'[Incoming(p)][g] = content[Incoming(p)][g]
        BY <2>1 DEF TypeOK, Contents
    <2>3. pc[p] = "extract" /\ pc'[p] = "extract" /\ archive'[p] = archive[p]
        BY <1>4 DEF ExtractFile, request
    <2>4. todo[p] \subseteq archive[p]
        BY <2>3 DEF Control
    <2> QED
        BY <2>2, <2>3, <2>4
<1>5. CASE Extracted(p)
    BY <1>5 DEF Extracted, TypeOK, Contents, Control, Goto, Fail, Succeed, NotRemoved, Forget, names, locals, request
<1>6. CASE StepFails(p)
    BY <1>6 DEF StepFails, TypeOK, Contents, Control, Goto, Fail, Succeed, NotRemoved, Forget, names, locals, request
<1>7. CASE Publish(p)
    BY <1>7 DEF Publish, TypeOK, Contents, Control, Goto, Fail, Succeed, NotRemoved, Forget, names, locals, request
<1>8. CASE MakeStage(p)
    <2>1. /\ dest # NoTree /\ pc[p] = "stage" /\ pc'[p] = "copy"
          /\ todo'[p] = {f \in Files : content[dest][f] # {}} /\ source'[p] = dest
          /\ archive'[p] = archive[p] /\ content' = content
        BY <1>8 DEF MakeStage, Goto, TypeOK, Present, request
    <2> QED
        BY <2>1
<1>9. CASE CopyFile(p)
    BY <1>9 DEF CopyFile, TypeOK, Contents, Control, Goto, Fail, Succeed, NotRemoved, Forget, names, locals, request
<1>10. CASE Copied(p)
    BY <1>10 DEF Copied, TypeOK, Contents, Control, Goto, Fail, Succeed, NotRemoved, Forget, names, locals, request
<1>11. CASE Merge(p)
    <2>1. /\ pc[p] = "merge" /\ pc'[p] = "replace"
          /\ archive'[p] = archive[p] /\ policy'[p] = policy[p] /\ source'[p] = source[p]
          /\ policy[p] \in {"skip", "rename", "overwrite"}
        BY <1>11 DEF Merge, Goto, TypeOK, Control, Policies, locals, request
    <2>2. /\ content'[Incoming(p)] = content[Incoming(p)]
          /\ \A f \in Files : content'[Stage(p)][f] =
                Merged(policy[p], content[Incoming(p)][f], content[Stage(p)][f])
          /\ \A t \in Trees \ {Stage(p)} : content'[t] = content[t]
        BY <1>11 DEF Merge, TypeOK
    <2>3. source[p] # NoTree => content'[source[p]] = content[source[p]]
        BY <1>11, PublishedFiles DEF Ownership
    <2>4. ASSUME NEW f \in Files, source[p] # NoTree
          PROVE  (Kept(p, f) \/ Overwritten(p, f))'
        <3>1. Kept(p, f)
            BY <2>1, <2>4
        <3>2. \/ content[Stage(p)][f] \subseteq content'[Stage(p)][f]
              \/ /\ policy[p] = "overwrite" /\ content[Incoming(p)][f] # {}
                 /\ content'[Stage(p)][f] = content[Incoming(p)][f]
            BY <2>1, <2>2, MergedKeeps
        <3>3. content[Incoming(p)][f] # {} =>
                 content[Incoming(p)][f] = {p} /\ f \in archive[p]
            BY <2>1
        <3> QED
            BY <2>1, <2>3, <2>4, <3>1, <3>2, <3>3
    <2>5. ASSUME NEW f \in archive[p]
          PROVE  Whole(p, Stage(p), f)'
        <3>1. content[Incoming(p)][f] = {p} /\ f \in Files
            BY <2>1 DEF TypeOK
        <3>2. \/ {p} \subseteq content'[Stage(p)][f]
              \/ policy[p] = "skip" /\ content'[Stage(p)][f] # {}
            BY <2>1, <2>2, <3>1, MergedTakes
        <3> QED
            BY <2>1, <3>2
    <2> QED
        BY <2>1, <2>2, <2>4, <2>5
<1>12. CASE CheckReplace(p)
    BY <1>12 DEF CheckReplace, TypeOK, Contents, Control, Goto, Fail, Succeed, NotRemoved, Forget, names, locals, request
<1>13. CASE MoveAway(p)
    BY <1>13 DEF MoveAway, TypeOK, Contents, Control, Goto, Fail, Succeed, NotRemoved, Forget, names, locals, request
<1>14. CASE MoveIn(p)
    BY <1>14 DEF MoveIn, TypeOK, Contents, Control, Goto, Fail, Succeed, NotRemoved, Forget, names, locals, request
<1>15. CASE Rollback(p)
    BY <1>15 DEF Rollback, TypeOK, Contents, Control, Goto, Fail, Succeed, NotRemoved, Forget, names, locals, request
<1>16. CASE DropBackup(p)
    BY <1>16 DEF DropBackup, TypeOK, Contents, Control, Goto, Fail, Succeed, NotRemoved, Forget, names, locals, request
<1>17. CASE Discard(p)
    BY <1>17 DEF Discard, TypeOK, Contents, Control, Goto, Fail, Succeed, NotRemoved, Forget, names, locals, request
<1>18. CASE Close(p)
    BY <1>18 DEF Close, TypeOK, Contents, Control, Goto, Fail, Succeed, NotRemoved, Forget, names, locals, request
<1>19. CASE Kill(p)
    BY <1>19 DEF Kill, TypeOK, Contents, Control, Goto, Fail, Succeed, NotRemoved, Forget, names, locals, request
<1> QED
    BY <1>1, <1>2, <1>3, <1>4, <1>5, <1>6, <1>7, <1>8, <1>9, <1>10, <1>11, <1>12, <1>13, <1>14, <1>15, <1>16, <1>17, <1>18, <1>19 DEF Step

\* A user who edits the destination writes into none of the staging trees.
LEMMA EditInv ==
    ASSUME Inv, NEW f \in Files, Edit(f)
    PROVE  Inv'
<1>1. TypeOK /\ TypeOK'
    BY EditTypeOK DEF Inv
<1>2. UNCHANGED <<dest, temps, backup, been, replaced, workspaces, pc, policy, archive,
                  authentic, existed, todo, source, result, unremoved>>
    BY DEF Edit, names, locals, request
<1>3. /\ dest \in been
      /\ \A t \in Trees, g \in Files :
            content'[t][g] = IF t = dest /\ g = f THEN {Edited} ELSE content[t][g]
    BY <1>1 DEF Edit, Inv, Survival, TypeOK, Contents
<1>4. Survival' /\ \A p \in Ops : Control(p)' /\ Ownership(p)'
    BY <1>2 DEF Inv, Survival, TreesSurvive, Control, Ownership
<1>5. ASSUME NEW p \in Ops
      PROVE  Carried(p)'
    <2>1. Carried(p) /\ Ownership(p)
        BY DEF Inv
    <2>2. pc[p] \in Unpublished => \A g \in Files :
             /\ content'[Incoming(p)][g] = content[Incoming(p)][g]
             /\ content'[Stage(p)][g] = content[Stage(p)][g]
        BY <1>3, <2>1, TreeFacts DEF Ownership
    <2>3. ASSUME NEW g \in Files, source[p] # NoTree, pc[p] \in Unpublished, Kept(p, g)
          PROVE  Kept(p, g)'
        BY <1>1, <1>2, <1>3, <2>2, <2>3 DEF Kept, TypeOK
    <2>4. ASSUME NEW g \in Files, pc[p] \in Unpublished
          PROVE  /\ Overwritten(p, g) => Overwritten(p, g)'
                 /\ Whole(p, Stage(p), g) => Whole(p, Stage(p), g)'
        BY <1>2, <2>2, <2>4 DEF Overwritten, Whole
    <2>5. archive[p] \subseteq Files
        BY <1>1 DEF TypeOK
    <2>6. /\ Unstarted \subseteq Unpublished /\ Staged \subseteq Unpublished
          /\ "copy" \in Unpublished /\ "merge" \in Unpublished
        BY DEF Unpublished, Staging
    <2> QED
        BY <1>2, <2>1, <2>2, <2>3, <2>4, <2>5, <2>6 DEF Carried
<1> QED
    BY <1>1, <1>4, <1>5 DEF Inv

-----------------------------------------------------------------------------
(* The inductive invariant. *)

LEMMA InitInv == Init => Inv
<1> SUFFICES ASSUME Init PROVE Inv
    OBVIOUS
<1>1. TypeOK
    BY InitTypeOK
<1>2. been = {dest} \ {NoTree} /\ dest \in {Original, NoTree}
    BY DEF Init
<1>3. \A p \in Ops : Control(p) /\ Ownership(p)
    BY <1>2, TreeFacts DEF Init, Control, Ownership, Unpublished, Unstarted, Staging, Staged
<1>4. Survival
    BY <1>2 DEF Survival, TreesSurvive
<1>5. ASSUME NEW p \in Ops
      PROVE  Carried(p)
    <2>1. pc[p] = "idle" /\ \A f \in Files : content[Incoming(p)][f] = {}
        BY TreeFacts DEF Init
    <2> QED
        BY <2>1 DEF Carried, Unpublished, Unstarted, Staging, Staged
<1> QED
    BY <1>1, <1>3, <1>4, <1>5 DEF Inv

LEMMA NextInv == Inv /\ [Next]_vars => Inv'
<1> SUFFICES ASSUME Inv, [Next]_vars PROVE Inv'
    OBVIOUS
<1>1. ASSUME NEW p \in Ops, Step(p) \/ Kill(p)
      PROVE  Inv'
    <2>1. TypeOK /\ Survival /\ (dest # NoTree => dest \in been)
        BY DEF Inv, Survival
    <2>2. TypeOK' /\ Survival'
        BY <1>1, <2>1, StepTypeOK, StepSurvival DEF Inv
    <2>3. ASSUME NEW q \in Ops
          PROVE  Control(q)' /\ Ownership(q)' /\ Carried(q)'
        <3>1. CASE q = p
            BY <1>1, <2>1, <3>1, StepControl, StepOwnership, StepCarried DEF Inv
        <3>2. CASE q # p
            BY <1>1, <2>1, <3>2, OtherControl, OtherOwnership, OtherCarried DEF Inv
        <3> QED
            BY <3>1, <3>2
    <2> QED
        BY <2>2, <2>3 DEF Inv
<1>2. CASE UNCHANGED vars
    BY <1>2 DEF vars, names, locals, request, Inv, TypeOK, Survival, TreesSurvive,
               Control, Ownership, Carried, Kept, Overwritten, Whole
<1> QED
    BY <1>1, <1>2, EditInv DEF Next

THEOREM Invariance == Spec => []Inv
<1>1. Init => Inv
    BY InitInv
<1>2. Inv /\ [Next]_vars => Inv'
    BY NextInv
<1> QED
    BY <1>1, <1>2, PTL DEF Spec

-----------------------------------------------------------------------------
(* The properties. *)

\* Every name, tree and local of a restore is of its type, for any restores.
THEOREM TypeCorrect == Spec => []TypeOK
<1>1. Inv => TypeOK
    BY DEF Inv
<1> QED
    BY <1>1, Invariance, PTL

\* No tree that was ever the destination is lost, whatever restores race, roll
\* back or die (fsutil.ReplaceDirectory).
THEOREM NoTreeIsLost == Spec => []TreesSurvive
<1>1. Inv => TreesSurvive
    BY DEF Inv, Survival
<1> QED
    BY <1>1, Invariance, PTL

\* The tree that a merge is about to swap in has what the destination has,
\* except for what the policy overwrites and users edited (Service.Restore).
THEOREM OldFilesAreKept == Spec => []MergeKeepsOld
<1>1. Inv => MergeKeepsOld
    <2> SUFFICES ASSUME Inv, NEW p \in Ops, pc[p] \in {"replace", "away"},
                        dest # NoTree, dest = source[p],
                        NEW f \in Present(content[dest])
                 PROVE  \/ content[dest][f] \subseteq content[Stage(p)][f]
                        \/ /\ policy[p] = "overwrite" /\ f \in archive[p]
                           /\ p \in content[Stage(p)][f]
                        \/ Edited \in content[dest][f]
        BY DEF MergeKeepsOld
    <2>1. Carried(p) /\ pc[p] \in Staged /\ f \in Files
        BY DEF Inv, Staged, Present
    <2> QED
        BY <2>1 DEF Carried, Kept, Overwritten
<1> QED
    BY <1>1, Invariance, PTL

\* A restore that reports an error has published nothing, unless the error is
\* that of a removal after the publication (Service.Restore).
THEOREM ErrorsPublishNothing == Spec => []ErrorMeansUnpublished
<1>1. Inv => ErrorMeansUnpublished
    BY DEF Inv, Ownership, ErrorMeansUnpublished
<1> QED
    BY <1>1, Invariance, PTL

\* A restore that has returned, and could remove what it wanted to, leaves no
\* payload, no staging tree, and a backup only where its rollback failed.
THEOREM NothingIsLeftOver == Spec => []NoLeftovers
<1>1. Inv => NoLeftovers
    BY DEF Inv, Ownership, NoLeftovers, Unstarted
<1> QED
    BY <1>1, Invariance, PTL

\* A tree becomes the destination only when it is authentic and has every file
\* of the archive that the policy does not skip (PublishDirectory,
\* ReplaceDirectory).
THEOREM OnlyWholeTreesArePublished == Spec => PublishedWhole
<1>1. ASSUME Inv, Next, NEW p \in Ops, (been' \ been) \cap {Incoming(p), Stage(p)} # {}
      PROVE  /\ authentic[p] /\ archive[p] # {}
             /\ \A f \in archive[p] : Whole(p, dest', f)
    <2> USE TreeFacts
    <2>1. TypeOK /\ Control(p) /\ Carried(p)
        BY <1>1 DEF Inv
    <2>2. PICK q \in Ops : Step(q) \/ Kill(q)
        BY <1>1 DEF Next, Edit, names
    <2>3. q = p
        BY <1>1, <2>1, <2>2, OtherNames
    <2>4. CASE Publish(p)
        <3>1. pc[p] = "publish" /\ dest' = Incoming(p)
            BY <2>4 DEF Publish, Succeed, Goto
        <3>2. \A f \in archive[p] : content[Incoming(p)][f] = {p}
            BY <2>1, <3>1 DEF Carried, Unpublished, Unstarted, TypeOK
        <3> QED
            BY <2>1, <3>1, <3>2 DEF Control, Whole
    <2>5. CASE MoveIn(p)
        <3>1. pc[p] = "in" /\ dest' = Stage(p)
            BY <1>1, <2>5 DEF MoveIn, Goto
        <3> QED
            BY <2>1, <3>1 DEF Control, Carried, Staged
    <2>6. Publish(p) \/ MoveIn(p)
        BY <1>1, <2>2, <2>3
        DEF Step, Begin, Decode, MakeIncoming, ExtractFile, Extracted, StepFails, MakeStage,
            CopyFile, Copied, Merge, CheckReplace, MoveAway, Rollback, DropBackup, Discard,
            Close, Kill, names
    <2> QED
        BY <2>4, <2>5, <2>6
<1>2. Inv /\ [Next]_vars =>
          [\A p \in Ops : (been' \ been) \cap {Incoming(p), Stage(p)} # {} =>
              /\ authentic[p] /\ archive[p] # {}
              /\ \A f \in archive[p] :
                    \/ p \in content[dest'][f]
                    \/ policy[p] = "skip" /\ content[dest'][f] # {}]_vars
    BY <1>1 DEF Whole
<1> QED
    BY <1>2, Invariance, PTL DEF Spec, PublishedWhole
-----------------------------------------------------------------------------
(* MergeTrees: the invariant. *)

AnyName == Seq(Nat)
AnyPath == Seq(AnyName) \ {<<>>}

Above(q, p) == Merging!IsPrefix(q, p) /\ q # p

\* A tree holds the directories above whatever it holds.
Rooted(t) ==
    /\ t = [p \in DOMAIN t |-> t[p]] /\ DOMAIN t \subseteq AnyPath
    /\ \A p \in DOMAIN t, q \in AnyPath : Above(q, p) => q \in DOMAIN t /\ t[q] = Merging!Dir

Holds(t, age) == Rooted(t) /\ \A p \in DOMAIN t : t[p] \in {Merging!Dir, Merging!File(age, p)}

\* Still to be merged, itself or what it is below.
Ahead(p) == \E q \in listed : Merging!IsPrefix(q, p)

MergeOrder ==
    /\ listed \subseteq DOMAIN src
    /\ \A p, q \in listed : Merging!IsPrefix(p, q) => p = q
    /\ \A p \in listed, q \in AnyPath :
          Above(q, p) => q \in DOMAIN src /\ src[q] = Merging!Dir /\ q \in DOMAIN dst /\ dst[q] = Merging!Dir

\* The old tree is as it was, and has what of the new one it leaves room for.
SkipInv ==
    /\ DOMAIN dst = DOMAIN existing
                        \cup {p \in DOMAIN src : Merging!Clear(p, src, existing) /\ ~Ahead(p)}
    /\ \A p \in DOMAIN dst : dst[p] = IF p \in DOMAIN existing THEN existing[p] ELSE src[p]

\* What the new tree leaves no room for goes when the new tree comes.
OverwriteInv ==
    /\ DOMAIN dst = {p \in DOMAIN src : ~Ahead(p)}
                        \cup {p \in DOMAIN existing : Merging!Clear(p, existing, src) \/ Ahead(p)}
    /\ \A p \in DOMAIN dst :
          dst[p] = IF p \in DOMAIN src /\ ~Ahead(p) THEN src[p] ELSE existing[p]

\* The old tree is there, and once each what has been merged of the new one.
RenameInv ==
    /\ \A p \in DOMAIN existing : p \in DOMAIN dst /\ dst[p] = existing[p]
    /\ \A p \in DOMAIN src :
          ~Ahead(p) => \E q \in DOMAIN dst : Merging!Derived(p, q) /\ dst[q] = src[p]
    /\ \A q \in DOMAIN dst \ DOMAIN existing :
          \E p \in DOMAIN src : ~Ahead(p) /\ Merging!Derived(p, q) /\ dst[q] = src[p]
    /\ \A p, q \in DOMAIN dst : dst[p] = dst[q] /\ dst[p] # Merging!Dir => p = q

MergeInv ==
    /\ Holds(src, "new") /\ Holds(existing, "old") /\ Rooted(dst)
    /\ conflict \in Merging!Policies
    /\ MergeOrder
    /\ status = "done" => listed = {}
    /\ conflict = "skip" => SkipInv
    /\ conflict = "overwrite" => OverwriteInv
    /\ conflict = "rename" => RenameInv

-----------------------------------------------------------------------------
(* MergeTrees: paths. *)

LEMMA MergePrefix ==
    ASSUME NEW s \in Seq(AnyName), NEW t \in Seq(AnyName)
    PROVE  Merging!IsPrefix(s, t) <=> Len(s) <= Len(t) /\ \A i \in 1..Len(s) : s[i] = t[i]
<1>1. CASE Len(s) <= Len(t)
    <2> DEFINE a == SubSeq(s, 1, Len(s))
               b == SubSeq(t, 1, Len(s))
    <2>1. a \in Seq(AnyName) /\ b \in Seq(AnyName) /\ Len(a) = Len(s) /\ Len(b) = Len(s)
        BY <1>1
    <2>2. \A i \in 1..Len(s) : a[i] = s[i] /\ b[i] = t[i]
        BY <1>1
    <2>3. (\A i \in 1..Len(s) : a[i] = b[i]) => a = b
        BY <2>1, SeqEqual
    <2> HIDE DEF a, b
    <2>4. Merging!IsPrefix(s, t) <=> a = b
        BY <1>1 DEF Merging!IsPrefix, a, b
    <2> QED
        BY <1>1, <2>2, <2>3, <2>4
<1>2. CASE ~(Len(s) <= Len(t))
    BY <1>2 DEF Merging!IsPrefix
<1> QED
    BY <1>1, <1>2

LEMMA MergePathFacts ==
    /\ AnyPath \subseteq Seq(AnyName) /\ <<>> \in Seq(AnyName)
    /\ \A p \in AnyPath : Len(p) \in Nat \ {0} /\ DOMAIN p = 1..Len(p)
    /\ MergePaths \subseteq AnyPath /\ MaxRenames \in Nat
<1>1. \A p \in AnyPath : Len(p) \in Nat \ {0} /\ DOMAIN p = 1..Len(p)
    BY EmptySeq, LenProperties DEF AnyPath
<1> QED
    BY <1>1, MergingAssumption DEF Merging!ConstantsAssumption, AnyPath, AnyName

\* Prefixes are ordered, and those of one path linearly.
LEMMA MergePrefixes ==
    /\ \A p \in Seq(AnyName) : Merging!IsPrefix(p, p)
    /\ \A p, q \in Seq(AnyName) : Merging!IsPrefix(p, q) /\ Merging!IsPrefix(q, p) => p = q
    /\ \A p, q \in Seq(AnyName) : Merging!IsPrefix(p, q) /\ Len(p) = Len(q) => p = q
    /\ \A p, q, r \in Seq(AnyName) :
          Merging!IsPrefix(p, q) /\ Merging!IsPrefix(q, r) => Merging!IsPrefix(p, r)
    /\ \A p, q, r \in Seq(AnyName) :
          Merging!IsPrefix(p, r) /\ Merging!IsPrefix(q, r) => Merging!IsPrefix(p, q) \/ Merging!IsPrefix(q, p)
<1>1. \A p \in Seq(AnyName) : Merging!IsPrefix(p, p)
    BY MergePrefix
<1>2. ASSUME NEW p \in Seq(AnyName), NEW q \in Seq(AnyName), Merging!IsPrefix(p, q), Len(p) = Len(q)
      PROVE  p = q
    <2>1. \A i \in 1..Len(p) : p[i] = q[i]
        BY <1>2, MergePrefix
    <2> QED
        BY <1>2, <2>1, SeqEqual
<1>3. ASSUME NEW p \in Seq(AnyName), NEW q \in Seq(AnyName),
             Merging!IsPrefix(p, q), Merging!IsPrefix(q, p)
      PROVE  p = q
    <2>1. Len(p) = Len(q)
        BY <1>3, MergePrefix, LenProperties
    <2> QED
        BY <1>2, <1>3, <2>1
<1>4. ASSUME NEW p \in Seq(AnyName), NEW q \in Seq(AnyName), NEW r \in Seq(AnyName),
             Merging!IsPrefix(p, q), Merging!IsPrefix(q, r)
      PROVE  Merging!IsPrefix(p, r)
    <2>1. Len(p) <= Len(q) /\ \A i \in 1..Len(p) : p[i] = q[i]
        BY <1>4, MergePrefix
    <2>2. Len(q) <= Len(r) /\ \A i \in 1..Len(q) : q[i] = r[i]
        BY <1>4, MergePrefix
    <2>3. Len(p) <= Len(r) /\ \A i \in 1..Len(p) : p[i] = r[i]
        BY <2>1, <2>2
    <2> QED
        BY <2>3, MergePrefix
<1>5. ASSUME NEW p \in Seq(AnyName), NEW q \in Seq(AnyName), NEW r \in Seq(AnyName),
             Merging!IsPrefix(p, r), Merging!IsPrefix(q, r)
      PROVE  Merging!IsPrefix(p, q) \/ Merging!IsPrefix(q, p)
    <2>1. Len(p) <= Len(r) /\ \A i \in 1..Len(p) : p[i] = r[i]
        BY <1>5, MergePrefix
    <2>2. Len(q) <= Len(r) /\ \A i \in 1..Len(q) : q[i] = r[i]
        BY <1>5, MergePrefix
    <2>3. CASE Len(p) <= Len(q)
        <3>1. \A i \in 1..Len(p) : p[i] = q[i]
            BY <2>1, <2>2, <2>3
        <3> QED
            BY <2>3, <3>1, MergePrefix
    <2>4. CASE Len(q) <= Len(p)
        <3>1. \A i \in 1..Len(q) : q[i] = p[i]
            BY <2>1, <2>2, <2>4
        <3> QED
            BY <2>4, <3>1, MergePrefix
    <2> QED
        BY <2>3, <2>4, LenProperties
<1> QED
    BY <1>1, <1>2, <1>3, <1>4, <1>5

\* What is above a path, below the root.
LEMMA MergeAncestors ==
    ASSUME NEW p \in AnyPath
    PROVE  /\ Merging!Ancestors(p) \subseteq AnyPath
           /\ \A q \in AnyPath : q \in Merging!Ancestors(p) <=> Above(q, p)
<1>0. p \in Seq(AnyName) /\ Len(p) \in Nat \ {0}
    BY MergePathFacts
<1>1. ASSUME NEW n \in 1..(Len(p) - 1)
      PROVE  SubSeq(p, 1, n) \in AnyPath /\ Above(SubSeq(p, 1, n), p)
    <2> DEFINE q == SubSeq(p, 1, n)
    <2>1. q \in Seq(AnyName) /\ Len(q) = n /\ \A i \in 1..n : q[i] = p[i]
        BY <1>0, <1>1
    <2>2. n # 0 /\ n <= Len(p) /\ n # Len(p)
        BY <1>0
    <2> HIDE DEF q
    <2>3. q # <<>> /\ q # p
        BY <2>1, <2>2, EmptySeq
    <2>4. Merging!IsPrefix(q, p)
        BY <1>0, <2>1, <2>2, MergePrefix
    <2>5. q \in AnyPath /\ Above(q, p)
        BY <2>1, <2>3, <2>4 DEF AnyPath, Above
    <2> QED
        BY <2>5 DEF q
<1>2. ASSUME NEW q \in AnyPath, Above(q, p)
      PROVE  q \in Merging!Ancestors(p)
    <2>0. q \in Seq(AnyName) /\ Len(q) \in Nat \ {0}
        BY MergePathFacts
    <2>1. Merging!IsPrefix(q, p) /\ q # p
        BY <1>2 DEF Above
    <2>2. Len(q) <= Len(p) /\ \A i \in 1..Len(q) : q[i] = p[i]
        BY <1>0, <2>0, <2>1, MergePrefix
    <2>3. Len(q) # Len(p)
        BY <1>0, <2>0, <2>1, MergePrefixes
    <2>4. Len(q) \in 1..(Len(p) - 1)
        BY <1>0, <2>0, <2>2, <2>3
    <2> DEFINE u == SubSeq(p, 1, Len(q))
    <2>5. u \in Seq(AnyName) /\ Len(u) = Len(q) /\ \A i \in 1..Len(q) : u[i] = p[i]
        BY <1>0, <2>4
    <2> HIDE DEF u
    <2>6. u = q
        BY <2>0, <2>2, <2>5, SeqEqual
    <2> QED
        BY <2>4, <2>6 DEF Merging!Ancestors, u
<1>3. Merging!Ancestors(p) \subseteq AnyPath /\ \A q \in Merging!Ancestors(p) : Above(q, p)
    BY <1>1 DEF Merging!Ancestors
<1> QED
    BY <1>2, <1>3

\* A path is Clear if what the other tree has above it is, and what it has there.
LEMMA ClearFacts ==
    ASSUME NEW p \in AnyPath, NEW a, NEW b
    PROVE  Merging!Clear(p, a, b) <=>
              \A q \in AnyPath : Merging!IsPrefix(q, p) /\ q \in DOMAIN b =>
                  a[q] = Merging!Dir /\ b[q] = Merging!Dir
<1>1. \A q \in AnyPath : q \in Merging!Ancestors(p) \cup {p} <=> Merging!IsPrefix(q, p)
    BY MergeAncestors, MergePrefixes, MergePathFacts DEF Above
<1> QED
    BY <1>1, MergeAncestors DEF Merging!Clear

\* The entries of a directory, <<>> being the root.
LEMMA MergeChildren ==
    ASSUME NEW t, DOMAIN t \subseteq AnyPath, NEW p \in Seq(AnyName)
    PROVE  /\ Merging!Children(t, p) \subseteq DOMAIN t
           /\ \A c \in AnyPath : c \in Merging!Children(t, p) <=>
                 c \in DOMAIN t /\ Len(c) = Len(p) + 1 /\ Merging!IsPrefix(p, c)
<1>1. ASSUME NEW c \in AnyPath
      PROVE  Merging!Front(c) = p <=> Len(c) = Len(p) + 1 /\ Merging!IsPrefix(p, c)
    <2>1. c \in Seq(AnyName) /\ Len(c) \in Nat \ {0} /\ Len(p) \in Nat
        BY MergePathFacts, LenProperties
    <2> DEFINE f == SubSeq(c, 1, Len(c) - 1)
    <2> DEFINE n == Len(c) - 1
    <2>2. n \in 0..Len(c) /\ n \in Nat
        BY <2>1
    <2>3. f = SubSeq(c, 1, n)
        OBVIOUS
    <2> HIDE DEF n, f
    <2>4. SubSeq(c, 1, n) \in Seq(AnyName) /\ Len(SubSeq(c, 1, n)) = n
          /\ \A i \in 1..n : SubSeq(c, 1, n)[i] = c[i]
        BY <2>1, <2>2
    <2>5. f \in Seq(AnyName) /\ Len(f) = Len(c) - 1 /\ \A i \in 1..Len(f) : f[i] = c[i]
        BY <2>4, <2>3 DEF n
    <2>6. Merging!Front(c) = f
        BY DEF Merging!Front, f
    <2>7. Merging!IsPrefix(f, c)
        BY <2>1, <2>5, MergePrefix
    <2>8. ASSUME Len(c) = Len(p) + 1, Merging!IsPrefix(p, c) PROVE f = p
        <3>1. \A i \in 1..Len(p) : p[i] = c[i]
            BY <2>1, <2>8, MergePrefix
        <3>2. Len(f) = Len(p)
            BY <2>1, <2>5, <2>8
        <3> QED
            BY <2>5, <3>1, <3>2, SeqEqual
    <2> QED
        BY <2>1, <2>5, <2>6, <2>7, <2>8
<1> QED
    BY <1>1 DEF Merging!Children, Merging!Parent

\* Whatever is below a directory is below an entry of it.
LEMMA MergeDescendants ==
    ASSUME NEW t, Rooted(t), NEW p \in Seq(AnyName), NEW x \in DOMAIN t,
           Merging!IsPrefix(p, x), p # x
    PROVE  \E c \in Merging!Children(t, p) : Merging!IsPrefix(c, x)
<1>0. /\ x \in AnyPath /\ x \in Seq(AnyName) /\ Len(p) \in Nat /\ Len(x) \in Nat \ {0}
      /\ DOMAIN t \subseteq AnyPath
    BY MergePathFacts, LenProperties DEF Rooted
<1>1. Len(p) <= Len(x) /\ \A i \in 1..Len(p) : p[i] = x[i]
    BY <1>0, MergePrefix
<1>2. Len(p) # Len(x)
    BY <1>0, MergePrefixes
<1> DEFINE n == Len(p) + 1
           c == SubSeq(x, 1, n)
<1>3. n \in 1..Len(x)
    BY <1>0, <1>1, <1>2
<1>4. c \in Seq(AnyName) /\ Len(c) = n /\ \A i \in 1..n : c[i] = x[i]
    BY <1>0, <1>3
<1> HIDE DEF c
<1>5. c # <<>>
    BY <1>0, <1>4, EmptySeq
<1>6. Merging!IsPrefix(c, x) /\ Merging!IsPrefix(p, c) /\ c \in AnyPath
    <2>1. \A i \in 1..Len(p) : p[i] = c[i]
        BY <1>0, <1>1, <1>4
    <2>2. Merging!IsPrefix(c, x)
        BY <1>0, <1>3, <1>4, MergePrefix
    <2>3. Merging!IsPrefix(p, c)
        BY <1>0, <1>4, <2>1, MergePrefix
    <2> QED
        BY <2>2, <2>3, <1>4, <1>5 DEF AnyPath
<1>7. c \in DOMAIN t
    BY <1>6 DEF Rooted, Above
<1> QED
    BY <1>0, <1>4, <1>6, <1>7, MergeChildren

LEMMA PathFunction ==
    ASSUME NEW n \in Nat, NEW f \in [1..n -> AnyName]
    PROVE  f \in Seq(AnyName) /\ Len(f) = n /\ DOMAIN f = 1..n
OBVIOUS

\* A path below one directory and the path it has below another.
LEMMA RebasedFacts ==
    ASSUME NEW x \in AnyPath, NEW p \in AnyPath, NEW to \in AnyPath,
           Len(p) = Len(to), Merging!IsPrefix(p, x)
    PROVE  /\ Merging!Rebased(x, to) \in AnyPath /\ Len(Merging!Rebased(x, to)) = Len(x)
           /\ \A i \in 1..Len(x) :
                 Merging!Rebased(x, to)[i] = IF i <= Len(to) THEN to[i] ELSE x[i]
           /\ Merging!IsPrefix(to, Merging!Rebased(x, to))
           /\ Merging!Rebased(Merging!Rebased(x, to), p) = x
<1>0. /\ x \in Seq(AnyName) /\ p \in Seq(AnyName) /\ to \in Seq(AnyName)
      /\ Len(x) \in Nat \ {0} /\ Len(p) \in Nat \ {0} /\ DOMAIN x = 1..Len(x)
    BY MergePathFacts
<1>1. Len(p) <= Len(x) /\ \A i \in 1..Len(p) : p[i] = x[i]
    BY <1>0, MergePrefix
<1> DEFINE r == Merging!Rebased(x, to)
           n == Len(x)
<1>2. \A i \in 1..n : x[i] \in AnyName /\ (i <= Len(to) => to[i] \in AnyName)
    <2>1. \A i \in 1..n : x[i] \in AnyName
        BY <1>0
    <2>2. \A i \in 1..Len(to) : to[i] \in AnyName
        BY <1>0
    <2> QED
        BY <1>0, <2>1, <2>2
<1>3. r = [i \in 1..n |-> IF i <= Len(to) THEN to[i] ELSE x[i]]
    BY <1>0 DEF Merging!Rebased
<1>4. r \in [1..n -> AnyName]
    BY <1>2, <1>3
<1>5. r \in Seq(AnyName) /\ Len(r) = n /\ DOMAIN r = 1..n
    BY <1>0, <1>4, PathFunction
<1>6. \A i \in 1..n : r[i] = IF i <= Len(to) THEN to[i] ELSE x[i]
    BY <1>3
<1> HIDE DEF r
<1>7. r \in AnyPath
    BY <1>0, <1>5, EmptySeq DEF AnyPath
<1>8. Merging!IsPrefix(to, r)
    BY <1>0, <1>1, <1>5, <1>6, MergePrefix
<1>9. Merging!Rebased(r, p) = x
    <2>1. Merging!Rebased(r, p) = [i \in 1..n |-> IF i <= Len(p) THEN p[i] ELSE r[i]]
        BY <1>5 DEF Merging!Rebased
    <2>2. \A i \in 1..n : (IF i <= Len(p) THEN p[i] ELSE r[i]) = x[i]
        BY <1>0, <1>1, <1>6
    <2>3. x = [i \in 1..n |-> x[i]]
        BY <1>0
    <2> QED
        BY <2>1, <2>2, <2>3
<1> QED
    BY <1>5, <1>6, <1>7, <1>8, <1>9 DEF r

LEMMA RebasedSame ==
    ASSUME NEW x \in AnyPath, NEW p \in AnyPath, Merging!IsPrefix(p, x)
    PROVE  Merging!Rebased(x, p) = x
<1>1. /\ Merging!Rebased(x, p) \in Seq(AnyName) /\ Len(Merging!Rebased(x, p)) = Len(x)
      /\ \A i \in 1..Len(x) : Merging!Rebased(x, p)[i] = IF i <= Len(p) THEN p[i] ELSE x[i]
    BY RebasedFacts, MergePathFacts
<1>2. x \in Seq(AnyName) /\ p \in Seq(AnyName) /\ Len(x) \in Nat /\ Len(p) \in Nat \ {0}
    BY MergePathFacts
<1>3. \A i \in 1..Len(p) : p[i] = x[i]
    BY <1>2, MergePrefix
<1>4. \A i \in 1..Len(x) : Merging!Rebased(x, p)[i] = x[i]
    BY <1>1, <1>2, <1>3
<1> QED
    BY <1>1, <1>2, <1>4, SeqEqual

\* What is above a path stays above it.
LEMMA RebasedAbove ==
    ASSUME NEW x \in AnyPath, NEW p \in AnyPath, NEW to \in AnyPath, NEW q \in AnyPath,
           Len(p) = Len(to), Merging!IsPrefix(p, x), Merging!IsPrefix(to, q),
           Above(q, Merging!Rebased(x, to))
    PROVE  Merging!IsPrefix(p, Merging!Rebased(q, p)) /\ Above(Merging!Rebased(q, p), x)
<1> DEFINE r == Merging!Rebased(x, to)
           w == Merging!Rebased(q, p)
<1>1. /\ r \in AnyPath /\ Len(r) = Len(x)
      /\ \A i \in 1..Len(x) : r[i] = IF i <= Len(to) THEN to[i] ELSE x[i]
    BY RebasedFacts
<1>2. /\ w \in AnyPath /\ Len(w) = Len(q) /\ Merging!IsPrefix(p, w)
      /\ \A i \in 1..Len(q) : w[i] = IF i <= Len(p) THEN p[i] ELSE q[i]
    BY RebasedFacts
<1>3. Merging!IsPrefix(q, r) /\ q # r
    BY DEF Above
<1> HIDE DEF r, w
<1>4. /\ \A s \in {x, p, q, r, w} : s \in Seq(AnyName) /\ Len(s) \in Nat
    BY <1>1, <1>2, MergePathFacts
<1>5. Len(q) <= Len(r) /\ \A i \in 1..Len(q) : q[i] = r[i]
    BY <1>3, <1>4, MergePrefix
<1>6. \A i \in 1..Len(p) : p[i] = x[i]
    BY <1>4, MergePrefix
<1>7. Len(q) # Len(r)
    BY <1>3, <1>4, MergePrefixes
<1>8. \A i \in 1..Len(w) : w[i] = x[i]
    BY <1>1, <1>2, <1>4, <1>5, <1>6
<1>9. Merging!IsPrefix(w, x)
    BY <1>1, <1>2, <1>4, <1>5, <1>8, MergePrefix
<1> QED
    BY <1>1, <1>2, <1>5, <1>7, <1>9 DEF Above, w

\* A name with one suffix more.
LEMMA CandidateFacts ==
    ASSUME NEW p \in AnyPath, NEW i \in Nat
    PROVE  /\ Merging!Candidate(p, i) \in AnyPath /\ Len(Merging!Candidate(p, i)) = Len(p)
           /\ \A k \in 1..Len(p) :
                 Merging!Candidate(p, i)[k] = IF k = Len(p) THEN Append(p[k], i) ELSE p[k]
           /\ \A q \in AnyPath : Above(q, Merging!Candidate(p, i)) => Above(q, p)
<1> DEFINE n == Len(p)
           m == n - 1
           f == Merging!Parent(p)
           e == Append(Merging!Last(p), i)
           c == Merging!Candidate(p, i)
<1>0. p \in Seq(AnyName) /\ n \in Nat \ {0} /\ m \in Nat /\ m \in 0..n /\ n = m + 1
    BY MergePathFacts
<1>1. c = Append(f, e)
    BY DEF Merging!Candidate
<1>2. f = SubSeq(p, 1, m) /\ Merging!Last(p) = p[n]
    BY DEF Merging!Parent, Merging!Front, Merging!Last
<1>3. p[n] \in AnyName
    BY <1>0
<1>4. e = Append(p[n], i) /\ e \in AnyName
    BY <1>2, <1>3 DEF AnyName
<1> HIDE DEF m, e, f, c
<1>5. f \in Seq(AnyName) /\ Len(f) = m /\ \A k \in 1..m : f[k] = p[k]
    BY <1>0, <1>2
<1>6. c \in Seq(AnyName) /\ Len(c) = n /\ c[n] = e /\ \A k \in 1..m : c[k] = f[k]
    BY <1>0, <1>1, <1>4, <1>5
<1>7. \A k \in 1..n : c[k] = IF k = n THEN Append(p[k], i) ELSE p[k]
    BY <1>0, <1>4, <1>5, <1>6
<1>8. c \in AnyPath
    BY <1>0, <1>6, EmptySeq DEF AnyPath
<1>9. ASSUME NEW q \in AnyPath, Above(q, c) PROVE Above(q, p)
    <2>0. q \in Seq(AnyName) /\ Len(q) \in Nat /\ Merging!IsPrefix(q, c) /\ q # c
        BY <1>9, MergePathFacts DEF Above
    <2>1. Len(q) <= n /\ \A k \in 1..Len(q) : q[k] = c[k]
        BY <1>6, <2>0, MergePrefix
    <2>2. Len(q) # n
        BY <1>6, <2>0, MergePrefixes
    <2>3. \A k \in 1..Len(q) : q[k] = p[k]
        BY <1>0, <1>7, <2>0, <2>1, <2>2
    <2>4. Merging!IsPrefix(q, p)
        BY <1>0, <2>0, <2>1, <2>3, MergePrefix
    <2> QED
        BY <2>2, <2>4 DEF Above
<1> QED
    BY <1>6, <1>7, <1>8, <1>9 DEF c

\* What is moved there has a name derived from its own.
LEMMA RebasedDerived ==
    ASSUME NEW x \in AnyPath, NEW p \in AnyPath, Merging!IsPrefix(p, x), NEW i \in 1..MaxRenames
    PROVE  Merging!Derived(x, Merging!Rebased(x, Merging!Candidate(p, i)))
<1> DEFINE c == Merging!Candidate(p, i)
           r == Merging!Rebased(x, c)
           n == Len(p)
           d == [x EXCEPT ![n] = Append(@, i)]
<1>0. /\ x \in Seq(AnyName) /\ p \in Seq(AnyName) /\ Len(x) \in Nat /\ n \in Nat \ {0}
      /\ DOMAIN x = 1..Len(x) /\ i \in Nat
    BY MergePathFacts
<1>1. n <= Len(x) /\ \A k \in 1..n : p[k] = x[k]
    BY <1>0, MergePrefix
<1>2. c \in AnyPath /\ Len(c) = n /\ \A k \in 1..n : c[k] = IF k = n THEN Append(p[k], i) ELSE p[k]
    BY <1>0, CandidateFacts
<1> HIDE DEF c
<1>3. r = [k \in 1..Len(x) |-> IF k <= n THEN c[k] ELSE x[k]]
    BY <1>0, <1>2 DEF Merging!Rebased
<1>4. d = [k \in 1..Len(x) |-> IF k = n THEN Append(x[k], i) ELSE x[k]]
    BY <1>0
<1>5. \A k \in 1..Len(x) :
         (IF k <= n THEN c[k] ELSE x[k]) = (IF k = n THEN Append(x[k], i) ELSE x[k])
    BY <1>0, <1>1, <1>2
<1>6. r = d
    BY <1>3, <1>4, <1>5
<1>7. n \in DOMAIN x
    BY <1>0, <1>1
<1> QED
    BY <1>6, <1>7 DEF Merging!Derived, c

-----------------------------------------------------------------------------
(* MergeTrees: trees. *)

LEMMA MovedFacts ==
    ASSUME Rooted(src), NEW t, Rooted(t), NEW p \in DOMAIN src, NEW to \in AnyPath,
           Len(to) = Len(p), to \notin DOMAIN t,
           \A q \in AnyPath : Above(q, to) => q \in DOMAIN t /\ t[q] = Merging!Dir
    PROVE  /\ Rooted(Merging!Moved(t, p, to))
           /\ DOMAIN Merging!Moved(t, p, to) =
                 DOMAIN t \cup {Merging!Rebased(y, to) : y \in Merging!Below(src, p)}
           /\ \A x \in DOMAIN t : Merging!Moved(t, p, to)[x] = t[x]
           /\ \A y \in Merging!Below(src, p) :
                 /\ Merging!Rebased(y, to) \notin DOMAIN t
                 /\ Merging!Moved(t, p, to)[Merging!Rebased(y, to)] = src[y]
<1> DEFINE below == Merging!Below(src, p)
           r(y) == Merging!Rebased(y, to)
           m == Merging!Moved(t, p, to)
<1>1. /\ p \in AnyPath /\ to \in AnyPath /\ DOMAIN t \subseteq AnyPath /\ DOMAIN src \subseteq AnyPath
      /\ AnyPath \subseteq Seq(AnyName)
    BY MergePathFacts DEF Rooted
<1>2. below \subseteq DOMAIN src /\ \A y \in DOMAIN src : y \in below <=> Merging!IsPrefix(p, y)
    BY DEF Merging!Below
<1>3. m = [x \in DOMAIN t \cup {r(y) : y \in below} |->
              IF Merging!IsPrefix(to, x) /\ Merging!Rebased(x, p) \in DOMAIN src
              THEN src[Merging!Rebased(x, p)] ELSE t[x]]
    BY DEF Merging!Moved
<1>4. \A x \in DOMAIN t : ~Merging!IsPrefix(to, x)
    BY <1>1 DEF Rooted, Above
<1>5. \A y \in below : r(y) \in AnyPath /\ Merging!IsPrefix(to, r(y)) /\ Merging!Rebased(r(y), p) = y
    BY <1>1, <1>2, RebasedFacts
<1> HIDE DEF below, r, m
<1>6. DOMAIN m = DOMAIN t \cup {r(y) : y \in below} /\ \A x \in DOMAIN t : m[x] = t[x]
    BY <1>3, <1>4
<1>7. \A y \in below : r(y) \notin DOMAIN t /\ r(y) \in DOMAIN m /\ m[r(y)] = src[y]
    BY <1>2, <1>3, <1>4, <1>5, <1>6
<1>8. ASSUME NEW x \in DOMAIN m, NEW q \in AnyPath, Above(q, x)
      PROVE  q \in DOMAIN m /\ m[q] = Merging!Dir
    <2>1. CASE x \in DOMAIN t
        BY <2>1, <1>6, <1>8 DEF Rooted
    <2>2. CASE x \notin DOMAIN t
        <3>1. PICK y \in below : x = r(y)
            BY <2>2, <1>6
        <3>2. x \in AnyPath /\ Merging!IsPrefix(to, x) /\ Merging!IsPrefix(q, x) /\ q # x
            BY <1>5, <1>8, <3>1 DEF Above
        <3>3. CASE Merging!IsPrefix(to, q)
            <4> DEFINE w == Merging!Rebased(q, p)
            <4>1. Merging!IsPrefix(p, w) /\ Above(w, y)
                BY <1>1, <1>2, <1>8, <3>1, <3>3, RebasedAbove DEF r
            <4>2. w \in AnyPath /\ r(w) = q
                BY <1>1, <3>3, RebasedFacts DEF r
            <4> HIDE DEF w
            <4>3. w \in DOMAIN src /\ src[w] = Merging!Dir
                BY <1>2, <4>1, <4>2 DEF Rooted
            <4>4. w \in below
                BY <1>2, <4>1, <4>3
            <4> QED
                BY <1>7, <4>2, <4>3, <4>4
        <3>4. CASE ~Merging!IsPrefix(to, q)
            <4>1. Above(q, to)
                BY <1>1, <3>2, <3>4, MergePrefixes DEF Above
            <4> QED
                BY <1>6, <4>1
        <3> QED
            BY <3>3, <3>4
    <2> QED
        BY <2>1, <2>2
<1>9. m = [x \in DOMAIN m |-> m[x]]
    BY <1>3
<1>10. DOMAIN m \subseteq AnyPath
    BY <1>1, <1>5, <1>6
<1>11. Rooted(m)
    BY <1>8, <1>9, <1>10 DEF Rooted
<1> QED
    BY <1>6, <1>7, <1>11 DEF below, r, m

\* In its own place.
LEMMA PlacedFacts ==
    ASSUME Rooted(src), NEW t, Rooted(t), NEW p \in DOMAIN src, p \notin DOMAIN t,
           \A q \in AnyPath : Above(q, p) => q \in DOMAIN t /\ t[q] = Merging!Dir
    PROVE  /\ Rooted(Merging!Moved(t, p, p))
           /\ \A x : x \in DOMAIN Merging!Moved(t, p, p) <=>
                 x \in DOMAIN t \/ (x \in DOMAIN src /\ Merging!IsPrefix(p, x))
           /\ \A x \in DOMAIN Merging!Moved(t, p, p) : Merging!Moved(t, p, p)[x] =
                 IF x \in DOMAIN src /\ Merging!IsPrefix(p, x) THEN src[x] ELSE t[x]
           /\ \A x \in DOMAIN t : ~Merging!IsPrefix(p, x)
<1>1. p \in AnyPath /\ DOMAIN src \subseteq AnyPath /\ DOMAIN t \subseteq AnyPath
    BY DEF Rooted
<1>2. \A y \in Merging!Below(src, p) : Merging!Rebased(y, p) = y
    BY <1>1, RebasedSame DEF Merging!Below
<1>3. /\ Rooted(Merging!Moved(t, p, p))
      /\ DOMAIN Merging!Moved(t, p, p) =
            DOMAIN t \cup {Merging!Rebased(y, p) : y \in Merging!Below(src, p)}
      /\ \A x \in DOMAIN t : Merging!Moved(t, p, p)[x] = t[x]
      /\ \A y \in Merging!Below(src, p) :
            /\ Merging!Rebased(y, p) \notin DOMAIN t
            /\ Merging!Moved(t, p, p)[Merging!Rebased(y, p)] = src[y]
    BY <1>1, MovedFacts
<1>4. \A x : x \in Merging!Below(src, p) <=> x \in DOMAIN src /\ Merging!IsPrefix(p, x)
    BY DEF Merging!Below
<1>5. \A x \in DOMAIN t : ~Merging!IsPrefix(p, x)
    BY <1>1 DEF Rooted, Above
<1> QED
    BY <1>2, <1>3, <1>4, <1>5

LEMMA MergeWithout ==
    ASSUME NEW t, Rooted(t), NEW p \in AnyPath
    PROVE  /\ Rooted(Merging!Without(t, p)) /\ p \notin DOMAIN Merging!Without(t, p)
           /\ \A x : x \in DOMAIN Merging!Without(t, p) <=> x \in DOMAIN t /\ ~Merging!IsPrefix(p, x)
           /\ \A x \in DOMAIN Merging!Without(t, p) : Merging!Without(t, p)[x] = t[x]
<1> DEFINE w == Merging!Without(t, p)
<1>1. w = [x \in {y \in DOMAIN t : ~Merging!IsPrefix(p, y)} |-> t[x]]
    BY DEF Merging!Without, Merging!Below
<1> HIDE DEF w
<1>2. /\ \A x : x \in DOMAIN w <=> x \in DOMAIN t /\ ~Merging!IsPrefix(p, x)
      /\ \A x \in DOMAIN w : w[x] = t[x]
    BY <1>1
<1>3. p \notin DOMAIN w
    BY <1>2, MergePrefixes, MergePathFacts
<1>4. DOMAIN t \subseteq AnyPath /\ AnyPath \subseteq Seq(AnyName)
    BY MergePathFacts DEF Rooted
<1>5. ASSUME NEW x \in DOMAIN w, NEW q \in AnyPath, Above(q, x)
      PROVE  q \in DOMAIN w /\ w[q] = Merging!Dir
    <2>1. q \in DOMAIN t /\ t[q] = Merging!Dir
        BY <1>2, <1>5 DEF Rooted
    <2>2. ~Merging!IsPrefix(p, q)
        BY <1>2, <1>4, <1>5, MergePrefixes DEF Above
    <2> QED
        BY <1>2, <2>1, <2>2
<1>6. Rooted(w)
    <2>1. w = [x \in DOMAIN w |-> w[x]]
        BY <1>1
    <2> QED
        BY <1>2, <1>4, <1>5, <2>1 DEF Rooted
<1> QED
    BY <1>2, <1>3, <1>6 DEF w

-----------------------------------------------------------------------------
(* MergeTrees: steps. *)

LEMMA MergeNodes ==
    /\ \A age, p : Merging!File(age, p) # Merging!Dir
    /\ \A age1, age2, p, q :
          Merging!File(age1, p) = Merging!File(age2, q) => age1 = age2 /\ p = q
<1>1. \A age, p : Merging!File(age, p).kind = "file"
    BY DEF Merging!File
<1>2. Merging!Dir.kind = "dir"
    BY DEF Merging!Dir
<1>3. \A age, p : Merging!File(age, p).age = age /\ Merging!File(age, p).path = p
    BY DEF Merging!File
<1> QED
    BY <1>1, <1>2, <1>3

\* What the invariant says of an entry that the loop has come to.
LEMMA ListedFacts ==
    ASSUME MergeInv, NEW p \in listed
    PROVE  /\ p \in DOMAIN src /\ p \in AnyPath /\ p \in Seq(AnyName)
           /\ DOMAIN src \subseteq AnyPath /\ DOMAIN dst \subseteq AnyPath
           /\ DOMAIN existing \subseteq AnyPath /\ listed \subseteq AnyPath
           /\ \A q \in AnyPath : Above(q, p) =>
                 q \in DOMAIN src /\ src[q] = Merging!Dir /\ q \in DOMAIN dst /\ dst[q] = Merging!Dir
           /\ \A x \in AnyPath : Merging!IsPrefix(p, x) => Ahead(x)
           /\ Rooted(src) /\ Rooted(dst) /\ Rooted(existing)
<1>1. listed \subseteq DOMAIN src /\ DOMAIN src \subseteq AnyPath
    BY DEF MergeInv, MergeOrder, Holds, Rooted
<1>2. DOMAIN dst \subseteq AnyPath /\ DOMAIN existing \subseteq AnyPath
    BY DEF MergeInv, Holds, Rooted
<1> QED
    BY <1>1, <1>2, MergePathFacts DEF MergeInv, MergeOrder, Holds, Ahead

\* An entry that is done with, as is what is below it.
LEMMA AheadAfter ==
    ASSUME MergeInv, NEW p \in listed, listed' = listed \ {p}
    PROVE  \A x \in AnyPath : Ahead(x)' <=> Ahead(x) /\ ~Merging!IsPrefix(p, x)
<1>1. ASSUME NEW x \in AnyPath, Ahead(x)' PROVE Ahead(x) /\ ~Merging!IsPrefix(p, x)
    <2>1. PICK q \in listed' : Merging!IsPrefix(q, x)
        BY <1>1 DEF Ahead
    <2>2. q \in listed /\ q # p /\ q \in Seq(AnyName) /\ p \in Seq(AnyName) /\ x \in Seq(AnyName)
        BY <2>1, ListedFacts, MergePathFacts
    <2>3. ASSUME Merging!IsPrefix(p, x) PROVE FALSE
        BY <2>1, <2>2, <2>3, MergePrefixes DEF MergeInv, MergeOrder
    <2> QED
        BY <2>1, <2>2, <2>3 DEF Ahead
<1>2. ASSUME NEW x \in AnyPath, Ahead(x), ~Merging!IsPrefix(p, x) PROVE Ahead(x)'
    BY <1>2 DEF Ahead
<1> QED
    BY <1>1, <1>2

\* A directory that is gone into.
LEMMA AheadInside ==
    ASSUME MergeInv, NEW p \in listed, listed' = (listed \ {p}) \cup Merging!Children(src, p)
    PROVE  /\ \A x \in AnyPath : Ahead(x)' => Ahead(x) /\ x # p
           /\ \A x \in AnyPath : Ahead(x) /\ ~Merging!IsPrefix(p, x) => Ahead(x)'
           /\ \A x \in DOMAIN src : Ahead(x) /\ x # p => Ahead(x)'
           /\ \A x \in AnyPath, q \in DOMAIN src :
                 Above(p, q) /\ Merging!IsPrefix(q, x) => Ahead(x)'
<1> DEFINE C == Merging!Children(src, p)
<1>0. /\ p \in AnyPath /\ p \in Seq(AnyName) /\ DOMAIN src \subseteq AnyPath /\ Rooted(src)
      /\ listed \subseteq AnyPath /\ AnyPath \subseteq Seq(AnyName)
    BY ListedFacts, MergePathFacts
<1>1. C \subseteq DOMAIN src /\ \A c \in C : Len(c) = Len(p) + 1 /\ Merging!IsPrefix(p, c) /\ c \in AnyPath
    BY <1>0, MergeChildren
<1>2. \A c \in C : ~Merging!IsPrefix(c, p)
    <2>1. ASSUME NEW c \in C, Merging!IsPrefix(c, p) PROVE FALSE
        <3>1. c = p
            BY <1>0, <1>1, <2>1, MergePrefixes
        <3>2. Len(p) \in Nat
            BY <1>0, MergePathFacts
        <3> QED
            BY <1>1, <2>1, <3>1, <3>2
    <2> QED
        BY <2>1
<1> HIDE DEF C
<1>3. ASSUME NEW x \in AnyPath, Ahead(x)' PROVE Ahead(x) /\ x # p
    <2>1. PICK q \in listed' : Merging!IsPrefix(q, x)
        BY <1>3 DEF Ahead
    <2>2. CASE q \in listed /\ q # p
        BY <2>1, <2>2, <1>0 DEF Ahead, MergeInv, MergeOrder
    <2>3. CASE q \in C
        <3>1. Merging!IsPrefix(p, x)
            BY <1>0, <1>1, <2>1, <2>3, MergePrefixes
        <3> QED
            BY <1>2, <2>1, <2>3, <3>1 DEF Ahead
    <2> QED
        BY <2>1, <2>2, <2>3 DEF C
<1>4. ASSUME NEW x \in AnyPath, Ahead(x), ~Merging!IsPrefix(p, x) PROVE Ahead(x)'
    BY <1>4 DEF Ahead
<1>5. ASSUME NEW x \in DOMAIN src, Merging!IsPrefix(p, x), x # p PROVE Ahead(x)'
    <2>1. \E c \in C : Merging!IsPrefix(c, x)
        BY <1>0, <1>5, MergeDescendants DEF C
    <2> QED
        BY <2>1 DEF Ahead, C
<1>6. ASSUME NEW x \in AnyPath, NEW q \in DOMAIN src, Above(p, q), Merging!IsPrefix(q, x)
      PROVE  Ahead(x)'
    <2>1. \E c \in C : Merging!IsPrefix(c, q)
        BY <1>0, <1>6, MergeDescendants DEF C, Above
    <2>2. \E c \in C : Merging!IsPrefix(c, x)
        BY <1>0, <1>1, <1>6, <2>1, MergePrefixes
    <2> QED
        BY <2>2 DEF Ahead, C
<1> QED
    BY <1>0, <1>3, <1>4, <1>5, <1>6

\* The directories above what is listed stay where they are.
LEMMA OrderAfter ==
    ASSUME MergeInv, NEW p \in listed, listed' = listed \ {p}, src' = src,
           \A q \in DOMAIN dst : ~Merging!IsPrefix(p, q) => q \in DOMAIN dst' /\ dst'[q] = dst[q]
    PROVE  MergeOrder'
<1>1. /\ listed' \subseteq DOMAIN src'
      /\ \A a, b \in listed' : Merging!IsPrefix(a, b) => a = b
    BY DEF MergeInv, MergeOrder
<1>2. ASSUME NEW a \in listed', NEW q \in AnyPath, Above(q, a)
      PROVE  q \in DOMAIN src' /\ src'[q] = Merging!Dir /\ q \in DOMAIN dst' /\ dst'[q] = Merging!Dir
    <2>1. q \in DOMAIN src /\ src[q] = Merging!Dir /\ q \in DOMAIN dst /\ dst[q] = Merging!Dir
        BY <1>2, ListedFacts
    <2>2. ~Merging!IsPrefix(p, q)
        <3>1. /\ p \in Seq(AnyName) /\ q \in Seq(AnyName) /\ a \in Seq(AnyName)
              /\ a \in listed /\ a # p
            BY <1>2, ListedFacts, MergePathFacts
        <3> QED
            BY <1>2, <3>1, MergePrefixes DEF Above, MergeInv, MergeOrder
    <2> QED
        BY <2>1, <2>2
<1> QED
    BY <1>1, <1>2 DEF MergeOrder, Above

LEMMA OrderInside ==
    ASSUME MergeInv, NEW p \in listed, listed' = (listed \ {p}) \cup Merging!Children(src, p),
           src' = src, dst' = dst, p \in DOMAIN dst, Merging!BothDirs(p)
    PROVE  MergeOrder'
<1> DEFINE C == Merging!Children(src, p)
<1>0. /\ p \in AnyPath /\ p \in Seq(AnyName) /\ DOMAIN src \subseteq AnyPath /\ Rooted(src)
      /\ listed \subseteq AnyPath /\ AnyPath \subseteq Seq(AnyName) /\ Len(p) \in Nat
      /\ p \in DOMAIN src
    BY ListedFacts, MergePathFacts
<1>1. /\ C \subseteq DOMAIN src
      /\ \A c \in C : Len(c) = Len(p) + 1 /\ Merging!IsPrefix(p, c) /\ c \in AnyPath /\ c # p
    BY <1>0, MergeChildren
<1> HIDE DEF C
<1>2. listed' \subseteq DOMAIN src'
    BY <1>1 DEF MergeInv, MergeOrder, C
<1>3. ASSUME NEW a \in listed', NEW b \in listed', Merging!IsPrefix(a, b) PROVE a = b
    <2>0. /\ a \in (listed \ {p}) \cup C /\ b \in (listed \ {p}) \cup C
          /\ a \in Seq(AnyName) /\ b \in Seq(AnyName)
        BY <1>0, <1>1 DEF C
    <2>1. CASE a \in listed \ {p} /\ b \in listed \ {p}
        BY <1>3, <2>1 DEF MergeInv, MergeOrder
    <2>2. CASE a \in C /\ b \in C
        BY <1>1, <1>3, <2>0, <2>2, MergePrefixes
    <2>3. CASE a \in C /\ b \in listed \ {p}
        BY <1>0, <1>1, <1>3, <2>0, <2>3, MergePrefixes DEF MergeInv, MergeOrder
    <2>4. CASE a \in listed \ {p} /\ b \in C
        BY <1>0, <1>1, <1>3, <2>0, <2>4, MergePrefixes DEF MergeInv, MergeOrder
    <2> QED
        BY <2>0, <2>1, <2>2, <2>3, <2>4
<1>4. ASSUME NEW a \in listed', NEW q \in AnyPath, Above(q, a)
      PROVE  q \in DOMAIN src' /\ src'[q] = Merging!Dir /\ q \in DOMAIN dst' /\ dst'[q] = Merging!Dir
    <2>1. CASE a \in listed
        BY <1>4, <2>1, ListedFacts
    <2>2. CASE a \in C
        <3>1. q \in DOMAIN src /\ src[q] = Merging!Dir
            BY <1>0, <1>1, <1>4, <2>2 DEF Rooted
        <3>2. Merging!IsPrefix(q, p)
            <4>1. /\ q \in Seq(AnyName) /\ a \in Seq(AnyName) /\ Len(q) \in Nat
                  /\ Merging!IsPrefix(q, a) /\ q # a /\ Len(a) = Len(p) + 1
                BY <1>0, <1>1, <1>4, <2>2, MergePathFacts DEF Above
            <4>2. Len(q) <= Len(a) /\ Len(q) # Len(a)
                BY <4>1, MergePrefix, MergePrefixes
            <4>3. Merging!IsPrefix(q, p) \/ Merging!IsPrefix(p, q)
                BY <1>0, <1>1, <2>2, <4>1, MergePrefixes
            <4>4. CASE Merging!IsPrefix(p, q)
                <5>1. Len(p) <= Len(q)
                    BY <1>0, <4>1, <4>4, MergePrefix
                <5>2. Len(p) = Len(q)
                    BY <1>0, <4>1, <4>2, <5>1
                <5> QED
                    BY <1>0, <4>1, <4>4, <5>2, MergePrefixes
            <4> QED
                BY <4>3, <4>4
        <3>3. q \in DOMAIN dst /\ dst[q] = Merging!Dir
            BY <3>2, ListedFacts DEF Above, Merging!BothDirs
        <3> QED
            BY <3>1, <3>3
    <2> QED
        BY <2>1, <2>2 DEF C
<1> QED
    BY <1>2, <1>3, <1>4 DEF MergeOrder, Above

-----------------------------------------------------------------------------
(* MergeTrees: the steps of "skip". *)

\* What is ahead is as it was in the tree the policy prefers, and in the other.
LEMMA SkipAhead ==
    ASSUME MergeInv, conflict = "skip", NEW p \in listed
    PROVE  /\ p \in DOMAIN dst <=> p \in DOMAIN existing
           /\ p \in DOMAIN dst => dst[p] = existing[p]
           /\ \A q \in AnyPath : Above(q, p) =>
                 /\ q \in DOMAIN src /\ src[q] = Merging!Dir
                 /\ q \in DOMAIN existing => existing[q] = Merging!Dir
<1>1. Ahead(p) /\ p \in AnyPath
    BY ListedFacts, MergePrefixes
<1>2. SkipInv
    BY DEF MergeInv
<1>3. \A q \in AnyPath : Above(q, p) =>
         /\ q \in DOMAIN src /\ src[q] = Merging!Dir /\ q \in DOMAIN dst /\ dst[q] = Merging!Dir
    BY ListedFacts
<1> QED
    BY <1>1, <1>2, <1>3 DEF SkipInv

LEMMA SkipPlace ==
    ASSUME MergeInv, conflict = "skip", NEW p \in listed, Merging!Place(p)
    PROVE  SkipInv'
<1>1. /\ p \notin DOMAIN dst /\ dst' = Merging!Moved(dst, p, p) /\ listed' = listed \ {p}
      /\ src' = src /\ existing' = existing
    BY DEF Merging!Place, Merging!Goes
<1>2. /\ p \in DOMAIN src /\ p \in Seq(AnyName) /\ p \in AnyPath
      /\ DOMAIN src \subseteq AnyPath /\ DOMAIN existing \subseteq AnyPath
      /\ AnyPath \subseteq Seq(AnyName) /\ Rooted(src) /\ Rooted(existing)
      /\ \A x \in AnyPath : Merging!IsPrefix(p, x) => Ahead(x)
    BY ListedFacts, MergePathFacts
<1>3. /\ \A x : x \in DOMAIN dst' <=> x \in DOMAIN dst \/ (x \in DOMAIN src /\ Merging!IsPrefix(p, x))
      /\ \A x \in DOMAIN dst' :
            dst'[x] = IF x \in DOMAIN src /\ Merging!IsPrefix(p, x) THEN src[x] ELSE dst[x]
      /\ \A x \in DOMAIN dst : ~Merging!IsPrefix(p, x)
    BY <1>1, ListedFacts, PlacedFacts
<1>4. \A x \in AnyPath : Ahead(x)' <=> Ahead(x) /\ ~Merging!IsPrefix(p, x)
    BY <1>1, AheadAfter
<1>5. SkipInv
    BY DEF MergeInv
<1>6. ASSUME NEW x \in DOMAIN src, Merging!IsPrefix(p, x) PROVE Merging!Clear(x, src, existing)
    <2>1. ASSUME NEW q \in AnyPath, Merging!IsPrefix(q, x), q \in DOMAIN existing
          PROVE  src[q] = Merging!Dir /\ existing[q] = Merging!Dir
        <3>1. q \in DOMAIN dst
            BY <1>5, <2>1 DEF SkipInv
        <3>2. ~Merging!IsPrefix(p, q)
            BY <1>3, <3>1
        <3>3. Above(q, p)
            BY <1>2, <1>6, <2>1, <3>2, MergePrefixes DEF Above
        <3> QED
            BY <2>1, <3>3, SkipAhead
    <2> QED
        BY <1>2, <2>1, ClearFacts
<1>7. DOMAIN dst' = DOMAIN existing
                        \cup {x \in DOMAIN src : Merging!Clear(x, src, existing) /\ ~Ahead(x)'}
    <2>1. \A x \in DOMAIN dst' : x \in DOMAIN existing
              \/ (x \in DOMAIN src /\ Merging!Clear(x, src, existing) /\ ~Ahead(x)')
        BY <1>2, <1>3, <1>4, <1>5, <1>6 DEF SkipInv
    <2>2. \A x \in DOMAIN existing : x \in DOMAIN dst'
        BY <1>3, <1>5 DEF SkipInv
    <2>3. \A x \in DOMAIN src : Merging!Clear(x, src, existing) /\ ~Ahead(x)' => x \in DOMAIN dst'
        BY <1>2, <1>3, <1>4, <1>5 DEF SkipInv
    <2> QED
        BY <2>1, <2>2, <2>3
<1>8. \A x \in DOMAIN dst' : dst'[x] = IF x \in DOMAIN existing THEN existing[x] ELSE src[x]
    <2>1. \A x \in DOMAIN existing : ~Merging!IsPrefix(p, x)
        BY <1>3, <1>5 DEF SkipInv
    <2> QED
        BY <1>3, <1>5, <2>1 DEF SkipInv
<1> QED
    BY <1>1, <1>7, <1>8 DEF SkipInv

LEMMA SkipEnter ==
    ASSUME MergeInv, conflict = "skip", NEW p \in listed, Merging!Enter(p)
    PROVE  SkipInv'
<1>1. /\ p \in DOMAIN dst /\ dst' = dst /\ listed' = (listed \ {p}) \cup Merging!Children(src, p)
      /\ src' = src /\ existing' = existing /\ src[p] = Merging!Dir /\ dst[p] = Merging!Dir
    BY DEF Merging!Enter, Merging!Goes, Merging!BothDirs
<1>2. /\ p \in DOMAIN src /\ p \in Seq(AnyName) /\ p \in AnyPath
      /\ DOMAIN src \subseteq AnyPath /\ DOMAIN existing \subseteq AnyPath
    BY ListedFacts, MergePathFacts
<1>3. /\ \A x \in AnyPath : Ahead(x)' => Ahead(x) /\ x # p
      /\ \A x \in DOMAIN src : Ahead(x) /\ x # p => Ahead(x)'
    BY <1>1, AheadInside
<1>4. SkipInv
    BY DEF MergeInv
<1>5. p \in DOMAIN existing
    BY <1>1, SkipAhead
<1>6. DOMAIN dst' = DOMAIN existing
                        \cup {x \in DOMAIN src : Merging!Clear(x, src, existing) /\ ~Ahead(x)'}
    <2>1. \A x \in DOMAIN src : Ahead(x)' \/ ~Ahead(x) \/ x = p
        BY <1>3
    <2>2. \A x \in DOMAIN src : Ahead(x)' => Ahead(x)
        BY <1>2, <1>3
    <2> QED
        BY <1>1, <1>4, <1>5, <2>1, <2>2 DEF SkipInv
<1> QED
    BY <1>1, <1>4, <1>6 DEF SkipInv

LEMMA SkipSkip ==
    ASSUME MergeInv, conflict = "skip", NEW p \in listed, Merging!Skip(p)
    PROVE  SkipInv'
<1>1. /\ p \in DOMAIN dst /\ dst' = dst /\ listed' = listed \ {p}
      /\ src' = src /\ existing' = existing /\ ~(src[p] = Merging!Dir /\ dst[p] = Merging!Dir)
    BY DEF Merging!Skip, Merging!Conflict, Merging!Goes, Merging!BothDirs
<1>2. /\ p \in AnyPath /\ DOMAIN src \subseteq AnyPath
      /\ \A x \in AnyPath : Merging!IsPrefix(p, x) => Ahead(x)
    BY ListedFacts
<1>3. \A x \in AnyPath : Ahead(x)' <=> Ahead(x) /\ ~Merging!IsPrefix(p, x)
    BY <1>1, AheadAfter
<1>4. SkipInv
    BY DEF MergeInv
<1>5. p \in DOMAIN existing /\ existing[p] = dst[p]
    BY <1>1, SkipAhead
<1>6. \A x \in DOMAIN src : Merging!IsPrefix(p, x) => ~Merging!Clear(x, src, existing)
    BY <1>1, <1>2, <1>5, ClearFacts
<1>7. DOMAIN dst' = DOMAIN existing
                        \cup {x \in DOMAIN src : Merging!Clear(x, src, existing) /\ ~Ahead(x)'}
    <2>1. \A x \in DOMAIN src : Merging!Clear(x, src, existing) => (Ahead(x)' <=> Ahead(x))
        BY <1>2, <1>3, <1>6
    <2> QED
        BY <1>1, <1>4, <2>1 DEF SkipInv
<1> QED
    BY <1>1, <1>4, <1>7 DEF SkipInv

-----------------------------------------------------------------------------
(* MergeTrees: the steps of "overwrite". *)

\* Ahead, the tree is the old one.
LEMMA OverwriteAhead ==
    ASSUME MergeInv, conflict = "overwrite", NEW p \in listed
    PROVE  /\ OverwriteInv
           /\ \A x \in AnyPath : Merging!IsPrefix(p, x) =>
                 /\ x \in DOMAIN dst <=> x \in DOMAIN existing
                 /\ x \in DOMAIN dst => dst[x] = existing[x]
<1>1. \A x \in AnyPath : Merging!IsPrefix(p, x) => Ahead(x)
    BY ListedFacts
<1>2. OverwriteInv
    BY DEF MergeInv
<1> QED
    BY <1>1, <1>2 DEF OverwriteInv

LEMMA OverwritePlace ==
    ASSUME MergeInv, conflict = "overwrite", NEW p \in listed, Merging!Place(p)
    PROVE  OverwriteInv'
<1>1. /\ p \notin DOMAIN dst /\ dst' = Merging!Moved(dst, p, p) /\ listed' = listed \ {p}
      /\ src' = src /\ existing' = existing
    BY DEF Merging!Place, Merging!Goes
<1>2. /\ p \in DOMAIN src /\ p \in AnyPath
      /\ DOMAIN src \subseteq AnyPath /\ DOMAIN existing \subseteq AnyPath
      /\ \A x \in AnyPath : Merging!IsPrefix(p, x) => Ahead(x)
    BY ListedFacts
<1>3. /\ \A x : x \in DOMAIN dst' <=> x \in DOMAIN dst \/ (x \in DOMAIN src /\ Merging!IsPrefix(p, x))
      /\ \A x \in DOMAIN dst' :
            dst'[x] = IF x \in DOMAIN src /\ Merging!IsPrefix(p, x) THEN src[x] ELSE dst[x]
      /\ \A x \in DOMAIN dst : ~Merging!IsPrefix(p, x)
    BY <1>1, ListedFacts, PlacedFacts
<1>4. \A x \in AnyPath : Ahead(x)' <=> Ahead(x) /\ ~Merging!IsPrefix(p, x)
    BY <1>1, AheadAfter
<1>5. OverwriteInv
    BY DEF MergeInv
<1>6. \A x \in DOMAIN existing : ~Merging!IsPrefix(p, x)
    BY <1>2, <1>3, OverwriteAhead
<1>7. DOMAIN dst' = {x \in DOMAIN src : ~Ahead(x)'}
                        \cup {x \in DOMAIN existing : Merging!Clear(x, existing, src) \/ Ahead(x)'}
    <2>1. \A x \in DOMAIN dst' : (x \in DOMAIN src /\ ~Ahead(x)')
              \/ (x \in DOMAIN existing /\ (Merging!Clear(x, existing, src) \/ Ahead(x)'))
        BY <1>2, <1>3, <1>4, <1>5, <1>6 DEF OverwriteInv
    <2>2. \A x \in DOMAIN src : ~Ahead(x)' => x \in DOMAIN dst'
        BY <1>2, <1>3, <1>4, <1>5 DEF OverwriteInv
    <2>3. \A x \in DOMAIN existing :
             Merging!Clear(x, existing, src) \/ Ahead(x)' => x \in DOMAIN dst'
        BY <1>2, <1>3, <1>4, <1>5 DEF OverwriteInv
    <2> QED
        BY <2>1, <2>2, <2>3
<1>8. \A x \in DOMAIN dst' :
         dst'[x] = IF x \in DOMAIN src /\ ~Ahead(x)' THEN src[x] ELSE existing[x]
    <2> SUFFICES ASSUME NEW x \in DOMAIN dst'
                 PROVE dst'[x] = IF x \in DOMAIN src /\ ~Ahead(x)' THEN src[x] ELSE existing[x]
        OBVIOUS
    <2>1. CASE x \in DOMAIN src /\ Merging!IsPrefix(p, x)
        BY <1>2, <1>3, <1>4, <2>1
    <2>2. CASE ~(x \in DOMAIN src /\ Merging!IsPrefix(p, x))
        <3>1. x \in DOMAIN dst /\ dst'[x] = dst[x] /\ ~Merging!IsPrefix(p, x)
            BY <1>3, <2>2
        <3> QED
            BY <1>2, <1>4, <1>5, <3>1 DEF OverwriteInv
    <2> QED
        BY <2>1, <2>2
<1> QED
    BY <1>1, <1>7, <1>8 DEF OverwriteInv

LEMMA OverwriteEnter ==
    ASSUME MergeInv, conflict = "overwrite", NEW p \in listed, Merging!Enter(p)
    PROVE  OverwriteInv'
<1>1. /\ p \in DOMAIN dst /\ dst' = dst /\ listed' = (listed \ {p}) \cup Merging!Children(src, p)
      /\ src' = src /\ existing' = existing /\ src[p] = Merging!Dir /\ dst[p] = Merging!Dir
    BY DEF Merging!Enter, Merging!Goes, Merging!BothDirs
<1>2. /\ p \in DOMAIN src /\ p \in Seq(AnyName) /\ p \in AnyPath /\ AnyPath \subseteq Seq(AnyName)
      /\ DOMAIN src \subseteq AnyPath /\ DOMAIN existing \subseteq AnyPath
      /\ Rooted(src) /\ Rooted(existing) /\ Ahead(p) /\ Merging!IsPrefix(p, p)
    BY ListedFacts, MergePathFacts, MergePrefixes
<1>3. /\ \A x \in AnyPath : Ahead(x)' => Ahead(x) /\ x # p
      /\ \A x \in AnyPath : Ahead(x) /\ ~Merging!IsPrefix(p, x) => Ahead(x)'
      /\ \A x \in DOMAIN src : Ahead(x) /\ x # p => Ahead(x)'
      /\ \A x \in AnyPath, q \in DOMAIN src :
            Above(p, q) /\ Merging!IsPrefix(q, x) => Ahead(x)'
    BY <1>1, AheadInside
<1>4. OverwriteInv
    BY DEF MergeInv
<1>5. p \in DOMAIN existing /\ existing[p] = Merging!Dir
    BY <1>1, <1>2, OverwriteAhead
<1>6. ASSUME NEW x \in DOMAIN existing \ DOMAIN src, Ahead(x)
      PROVE  Merging!Clear(x, existing, src) \/ Ahead(x)'
    <2>1. CASE ~Merging!IsPrefix(p, x)
        BY <1>2, <1>3, <1>6, <2>1
    <2>2. CASE Merging!IsPrefix(p, x) /\ ~Ahead(x)'
        <3>1. ASSUME NEW q \in AnyPath, Merging!IsPrefix(q, x), q \in DOMAIN src
              PROVE  existing[q] = Merging!Dir /\ src[q] = Merging!Dir
            <4>1. ~Above(p, q)
                BY <1>2, <1>3, <2>2, <3>1
            <4>2. q = p \/ Above(q, p)
                BY <1>2, <2>2, <3>1, <4>1, MergePrefixes DEF Above
            <4> QED
                BY <1>1, <1>2, <1>5, <3>1, <4>2 DEF Rooted
        <3> QED
            BY <1>2, <3>1, ClearFacts
    <2> QED
        BY <2>1, <2>2
<1>7. DOMAIN dst' = {x \in DOMAIN src : ~Ahead(x)'}
                        \cup {x \in DOMAIN existing : Merging!Clear(x, existing, src) \/ Ahead(x)'}
    <2>1. ASSUME NEW x \in DOMAIN dst
          PROVE  \/ x \in DOMAIN src /\ ~Ahead(x)'
                 \/ x \in DOMAIN existing /\ (Merging!Clear(x, existing, src) \/ Ahead(x)')
        BY <1>2, <1>3, <1>4, <1>6 DEF OverwriteInv
    <2>2. \A x \in DOMAIN src : ~Ahead(x)' => x \in DOMAIN dst
        BY <1>1, <1>3, <1>4 DEF OverwriteInv
    <2>3. \A x \in DOMAIN existing :
             Merging!Clear(x, existing, src) \/ Ahead(x)' => x \in DOMAIN dst
        BY <1>2, <1>3, <1>4 DEF OverwriteInv
    <2> QED
        BY <1>1, <2>1, <2>2, <2>3
<1>8. \A x \in DOMAIN dst' :
         dst'[x] = IF x \in DOMAIN src /\ ~Ahead(x)' THEN src[x] ELSE existing[x]
    <2>1. \A x \in DOMAIN src : x # p => (Ahead(x)' <=> Ahead(x))
        BY <1>2, <1>3
    <2>2. ~Ahead(p)'
        BY <1>2, <1>3
    <2> QED
        BY <1>1, <1>4, <1>5, <2>1, <2>2 DEF OverwriteInv
<1> QED
    BY <1>1, <1>7, <1>8 DEF OverwriteInv

LEMMA OverwriteOverwrite ==
    ASSUME MergeInv, conflict = "overwrite", NEW p \in listed, Merging!Overwrite(p)
    PROVE  /\ OverwriteInv' /\ Rooted(dst)'
           /\ \A x \in DOMAIN dst : ~Merging!IsPrefix(p, x) => x \in DOMAIN dst' /\ dst'[x] = dst[x]
<1>1. /\ p \in DOMAIN dst /\ listed' = listed \ {p}
      /\ dst' = Merging!Moved(Merging!Without(dst, p), p, p)
      /\ src' = src /\ existing' = existing /\ ~(src[p] = Merging!Dir /\ dst[p] = Merging!Dir)
    BY DEF Merging!Overwrite, Merging!Conflict, Merging!Goes, Merging!BothDirs
<1>2. /\ p \in DOMAIN src /\ p \in Seq(AnyName) /\ p \in AnyPath /\ Rooted(src) /\ Rooted(dst)
      /\ DOMAIN src \subseteq AnyPath /\ DOMAIN existing \subseteq AnyPath
      /\ AnyPath \subseteq Seq(AnyName)
      /\ \A x \in AnyPath : Merging!IsPrefix(p, x) => Ahead(x)
      /\ \A q \in AnyPath : Above(q, p) => q \in DOMAIN dst /\ dst[q] = Merging!Dir
    BY ListedFacts, MergePathFacts
<1>3. /\ Rooted(dst')
      /\ \A x : x \in DOMAIN dst' <=>
            (x \in DOMAIN dst /\ ~Merging!IsPrefix(p, x)) \/ (x \in DOMAIN src /\ Merging!IsPrefix(p, x))
      /\ \A x \in DOMAIN dst' :
            dst'[x] = IF x \in DOMAIN src /\ Merging!IsPrefix(p, x) THEN src[x] ELSE dst[x]
    <2> DEFINE left == Merging!Without(dst, p)
    <2>1. /\ Rooted(left) /\ p \notin DOMAIN left
          /\ \A x : x \in DOMAIN left <=> x \in DOMAIN dst /\ ~Merging!IsPrefix(p, x)
          /\ \A x \in DOMAIN left : left[x] = dst[x]
        BY <1>2, MergeWithout
    <2>2. \A q \in AnyPath : Above(q, p) => q \in DOMAIN left /\ left[q] = Merging!Dir
        BY <1>2, <2>1, MergePrefixes DEF Above
    <2> HIDE DEF left
    <2>3. /\ Rooted(Merging!Moved(left, p, p))
          /\ \A x : x \in DOMAIN Merging!Moved(left, p, p) <=>
                x \in DOMAIN left \/ (x \in DOMAIN src /\ Merging!IsPrefix(p, x))
          /\ \A x \in DOMAIN Merging!Moved(left, p, p) : Merging!Moved(left, p, p)[x] =
                IF x \in DOMAIN src /\ Merging!IsPrefix(p, x) THEN src[x] ELSE left[x]
        BY <1>2, <2>1, <2>2, PlacedFacts
    <2>4. dst' = Merging!Moved(left, p, p)
        BY <1>1 DEF left
    <2> QED
        BY <2>1, <2>3, <2>4
<1>4. \A x \in AnyPath : Ahead(x)' <=> Ahead(x) /\ ~Merging!IsPrefix(p, x)
    BY <1>1, AheadAfter
<1>5. OverwriteInv
    BY DEF MergeInv
<1>6. p \in DOMAIN existing /\ existing[p] = dst[p]
    BY <1>1, <1>2, MergePrefixes, OverwriteAhead
<1>7. \A x \in DOMAIN existing : Merging!IsPrefix(p, x) => ~Merging!Clear(x, existing, src)
    BY <1>1, <1>2, <1>6, ClearFacts
<1>8. DOMAIN dst' = {x \in DOMAIN src : ~Ahead(x)'}
                        \cup {x \in DOMAIN existing : Merging!Clear(x, existing, src) \/ Ahead(x)'}
    <2>1. \A x \in DOMAIN dst' : (x \in DOMAIN src /\ ~Ahead(x)')
              \/ (x \in DOMAIN existing /\ (Merging!Clear(x, existing, src) \/ Ahead(x)'))
        BY <1>2, <1>3, <1>4, <1>5 DEF OverwriteInv
    <2>2. \A x \in DOMAIN src : ~Ahead(x)' => x \in DOMAIN dst'
        BY <1>2, <1>3, <1>4, <1>5 DEF OverwriteInv
    <2>3. \A x \in DOMAIN existing :
             Merging!Clear(x, existing, src) \/ Ahead(x)' => x \in DOMAIN dst'
        BY <1>2, <1>3, <1>4, <1>5, <1>7 DEF OverwriteInv
    <2> QED
        BY <2>1, <2>2, <2>3
<1>9. \A x \in DOMAIN dst' :
         dst'[x] = IF x \in DOMAIN src /\ ~Ahead(x)' THEN src[x] ELSE existing[x]
    <2> SUFFICES ASSUME NEW x \in DOMAIN dst'
                 PROVE dst'[x] = IF x \in DOMAIN src /\ ~Ahead(x)' THEN src[x] ELSE existing[x]
        OBVIOUS
    <2>1. CASE x \in DOMAIN src /\ Merging!IsPrefix(p, x)
        BY <1>2, <1>3, <1>4, <2>1
    <2>2. CASE ~(x \in DOMAIN src /\ Merging!IsPrefix(p, x))
        <3>1. x \in DOMAIN dst /\ dst'[x] = dst[x] /\ ~Merging!IsPrefix(p, x)
            BY <1>3, <2>2
        <3> QED
            BY <1>2, <1>4, <1>5, <3>1 DEF OverwriteInv
    <2> QED
        BY <2>1, <2>2
<1> QED
    BY <1>1, <1>3, <1>8, <1>9 DEF OverwriteInv, Rooted

-----------------------------------------------------------------------------
(* MergeTrees: the steps of "rename". *)

\* What is moved is nowhere in the tree yet: its files are told apart from the
\* old ones and from those moved before.
LEMMA RenameMoved ==
    ASSUME MergeInv, conflict = "rename", NEW p \in listed, NEW to \in AnyPath, to \notin DOMAIN dst,
           to = p \/ \E i \in 1..MaxRenames : to = Merging!Candidate(p, i),
           dst' = Merging!Moved(dst, p, to), listed' = listed \ {p},
           src' = src, existing' = existing
    PROVE  /\ RenameInv' /\ Rooted(dst)'
           /\ \A x \in DOMAIN dst : x \in DOMAIN dst' /\ dst'[x] = dst[x]
<1>1. /\ p \in DOMAIN src /\ p \in Seq(AnyName) /\ p \in AnyPath /\ Rooted(src) /\ Rooted(dst)
      /\ DOMAIN src \subseteq AnyPath /\ AnyPath \subseteq Seq(AnyName)
      /\ \A x \in AnyPath : Merging!IsPrefix(p, x) => Ahead(x)
      /\ \A q \in AnyPath : Above(q, p) => q \in DOMAIN dst /\ dst[q] = Merging!Dir
      /\ MaxRenames \in Nat
    BY ListedFacts, MergePathFacts
<1>2. Len(to) = Len(p) /\ \A q \in AnyPath : Above(q, to) => Above(q, p)
    BY <1>1, CandidateFacts
<1>3. /\ Rooted(dst')
      /\ DOMAIN dst' = DOMAIN dst \cup {Merging!Rebased(y, to) : y \in Merging!Below(src, p)}
      /\ \A x \in DOMAIN dst : dst'[x] = dst[x]
      /\ \A y \in Merging!Below(src, p) : dst'[Merging!Rebased(y, to)] = src[y]
    <2>1. \A q \in AnyPath : Above(q, to) => q \in DOMAIN dst /\ dst[q] = Merging!Dir
        BY <1>1, <1>2
    <2>2. /\ Rooted(Merging!Moved(dst, p, to))
          /\ DOMAIN Merging!Moved(dst, p, to) =
                DOMAIN dst \cup {Merging!Rebased(y, to) : y \in Merging!Below(src, p)}
          /\ \A x \in DOMAIN dst : Merging!Moved(dst, p, to)[x] = dst[x]
          /\ \A y \in Merging!Below(src, p) :
                /\ Merging!Rebased(y, to) \notin DOMAIN dst
                /\ Merging!Moved(dst, p, to)[Merging!Rebased(y, to)] = src[y]
        BY <1>1, <1>2, <2>1, MovedFacts, Zenon
    <2> QED
        BY <2>2
<1>4. \A y : y \in Merging!Below(src, p) <=> y \in DOMAIN src /\ Merging!IsPrefix(p, y)
    BY DEF Merging!Below
<1>5. \A x \in AnyPath : Ahead(x)' <=> Ahead(x) /\ ~Merging!IsPrefix(p, x)
    BY AheadAfter
<1>6. RenameInv /\ Holds(src, "new") /\ Holds(existing, "old")
    BY DEF MergeInv
<1>7. ASSUME NEW y \in Merging!Below(src, p) PROVE Merging!Derived(y, Merging!Rebased(y, to))
    <2>1. CASE to = p
        BY <1>1, <1>4, <1>7, <2>1, RebasedSame DEF Merging!Derived
    <2>2. CASE \E i \in 1..MaxRenames : to = Merging!Candidate(p, i)
        BY <1>1, <1>4, <1>7, <2>2, RebasedDerived
    <2> QED
        BY <2>1, <2>2
<1>8. \A x \in DOMAIN existing : x \in DOMAIN dst' /\ dst'[x] = existing[x]
    BY <1>3, <1>6 DEF RenameInv
<1>9. ASSUME NEW x \in DOMAIN src, ~Ahead(x)'
      PROVE  \E q \in DOMAIN dst' : Merging!Derived(x, q) /\ dst'[q] = src[x]
    <2>1. CASE Merging!IsPrefix(p, x)
        BY <1>3, <1>4, <1>7, <2>1
    <2>2. CASE ~Merging!IsPrefix(p, x)
        <3>1. PICK q \in DOMAIN dst : Merging!Derived(x, q) /\ dst[q] = src[x]
            BY <1>1, <1>5, <1>6, <1>9, <2>2 DEF RenameInv
        <3> QED
            BY <1>3, <3>1
    <2> QED
        BY <2>1, <2>2
<1>10. ASSUME NEW q \in DOMAIN dst' \ DOMAIN existing
       PROVE  \E x \in DOMAIN src : ~Ahead(x)' /\ Merging!Derived(x, q) /\ dst'[q] = src[x]
    <2>1. CASE q \in DOMAIN dst
        <3>1. PICK x \in DOMAIN src : ~Ahead(x) /\ Merging!Derived(x, q) /\ dst[q] = src[x]
            BY <1>6, <1>10, <2>1 DEF RenameInv
        <3> QED
            BY <1>1, <1>3, <1>5, <2>1, <3>1
    <2>2. CASE \E y \in Merging!Below(src, p) : q = Merging!Rebased(y, to)
        BY <1>1, <1>3, <1>4, <1>5, <1>7, <2>2
    <2> QED
        BY <1>3, <2>1, <2>2
<1>11. ASSUME NEW y \in Merging!Below(src, p), NEW b \in DOMAIN dst,
              dst[b] = src[y], src[y] # Merging!Dir
       PROVE  FALSE
    <2>1. src[y] = Merging!File("new", y) /\ y \in DOMAIN src /\ Ahead(y)
        BY <1>1, <1>4, <1>6, <1>11 DEF Holds
    <2>2. b \notin DOMAIN existing
        BY <1>6, <1>11, <2>1, MergeNodes DEF RenameInv, Holds
    <2>3. PICK x \in DOMAIN src : ~Ahead(x) /\ dst[b] = src[x]
        BY <1>6, <1>11, <2>2 DEF RenameInv
    <2>4. src[x] = Merging!File("new", x)
        BY <1>6, <1>11, <2>3 DEF Holds
    <2> QED
        BY <1>11, <2>1, <2>3, <2>4, MergeNodes
<1>12. ASSUME NEW a \in DOMAIN dst', NEW b \in DOMAIN dst', dst'[a] = dst'[b], dst'[a] # Merging!Dir
       PROVE  a = b
    <2>1. CASE a \in DOMAIN dst /\ b \in DOMAIN dst
        BY <1>3, <1>6, <1>12, <2>1 DEF RenameInv
    <2>2. CASE a \notin DOMAIN dst /\ b \in DOMAIN dst
        BY <1>3, <1>11, <1>12, <2>2
    <2>3. CASE a \in DOMAIN dst /\ b \notin DOMAIN dst
        BY <1>3, <1>11, <1>12, <2>3
    <2>4. CASE a \notin DOMAIN dst /\ b \notin DOMAIN dst
        <3>1. PICK y \in Merging!Below(src, p) : a = Merging!Rebased(y, to)
            BY <1>3, <2>4
        <3>2. PICK z \in Merging!Below(src, p) : b = Merging!Rebased(z, to)
            BY <1>3, <2>4
        <3>3. src[y] = Merging!File("new", y) /\ src[z] = Merging!File("new", z)
            BY <1>3, <1>4, <1>6, <1>12, <3>1, <3>2 DEF Holds
        <3>4. y = z
            BY <1>3, <1>12, <3>1, <3>2, <3>3, MergeNodes
        <3> QED
            BY <3>1, <3>2, <3>4
    <2> QED
        BY <2>1, <2>2, <2>3, <2>4
<1>13. RenameInv'
    BY <1>8, <1>9, <1>10, <1>12 DEF RenameInv
<1> QED
    BY <1>3, <1>13 DEF Rooted

LEMMA RenameEnter ==
    ASSUME MergeInv, conflict = "rename", NEW p \in listed, Merging!Enter(p)
    PROVE  RenameInv'
<1>1. /\ p \in DOMAIN dst /\ dst' = dst /\ listed' = (listed \ {p}) \cup Merging!Children(src, p)
      /\ src' = src /\ existing' = existing /\ src[p] = Merging!Dir /\ dst[p] = Merging!Dir
    BY DEF Merging!Enter, Merging!Goes, Merging!BothDirs
<1>2. DOMAIN src \subseteq AnyPath
    BY ListedFacts
<1>3. /\ \A x \in AnyPath : Ahead(x)' => Ahead(x) /\ x # p
      /\ \A x \in DOMAIN src : Ahead(x) /\ x # p => Ahead(x)'
    BY <1>1, AheadInside
<1>4. RenameInv
    BY DEF MergeInv
<1>5. ASSUME NEW x \in DOMAIN src, ~Ahead(x)'
      PROVE  \E q \in DOMAIN dst : Merging!Derived(x, q) /\ dst[q] = src[x]
    <2>1. CASE x = p
        BY <1>1, <2>1 DEF Merging!Derived
    <2>2. CASE x # p
        BY <1>3, <1>4, <1>5, <2>2 DEF RenameInv
    <2> QED
        BY <2>1, <2>2
<1>6. \A q \in DOMAIN dst \ DOMAIN existing :
         \E x \in DOMAIN src : ~Ahead(x)' /\ Merging!Derived(x, q) /\ dst[q] = src[x]
    BY <1>2, <1>3, <1>4 DEF RenameInv
<1> QED
    BY <1>1, <1>4, <1>5, <1>6 DEF RenameInv

\* The order of the numbers, as the relation that the library's facts are about.
Lower == {p \in Nat \X Nat : p[1] < p[2]}

\* A set of numbers has a least one: what does without an induction rule.
LEMMA LeastElement ==
    ASSUME NEW T \in SUBSET Nat, T # {}
    PROVE  \E x \in T : \A y \in T : x <= y
<1>1. IsWellFoundedOn(Lower, Nat)
    BY NatLessThanWellFounded DEF OpToRel, Lower
<1>2. PICK x \in T : \A y \in T : ~(<<y, x>> \in Lower)
    BY <1>1, WFMin
<1>3. ASSUME NEW y \in T PROVE x <= y
    <2>1. x \in Nat /\ y \in Nat
        BY <1>3
    <2>2. ASSUME y < x PROVE <<y, x>> \in Lower
        BY <2>1, <2>2 DEF Lower
    <2> QED
        BY <1>2, <1>3, <2>1, <2>2
<1> QED
    BY <1>2, <1>3

\* The name chosen is the first that is free.
LEMMA RenamedFacts ==
    ASSUME NEW p \in AnyPath, Merging!Candidates(p) # {}
    PROVE  \E i \in 1..MaxRenames :
              /\ Merging!Renamed(p) = Merging!Candidate(p, i)
              /\ Merging!Candidate(p, i) \notin DOMAIN dst
<1>1. Merging!Candidates(p) \in SUBSET Nat /\ MaxRenames \in Nat
    BY MergePathFacts DEF Merging!Candidates
<1>2. \E i \in Merging!Candidates(p) : \A j \in Merging!Candidates(p) : i <= j
    BY <1>1, LeastElement
<1>3. \E i \in Merging!Candidates(p) : Merging!Renamed(p) = Merging!Candidate(p, i)
    BY <1>2 DEF Merging!Renamed
<1> QED
    BY <1>3 DEF Merging!Candidates

-----------------------------------------------------------------------------
(* MergeTrees: every step. *)

LEMMA MergePlace ==
    ASSUME MergeInv, status = "merging", NEW p \in listed, Merging!Place(p)
    PROVE  MergeInv'
<1>1. /\ p \notin DOMAIN dst /\ dst' = Merging!Moved(dst, p, p) /\ listed' = listed \ {p}
      /\ src' = src /\ existing' = existing /\ conflict' = conflict /\ status' = status
    BY DEF Merging!Place, Merging!Goes
<1>2. /\ Rooted(dst') /\ \A x \in DOMAIN dst : x \in DOMAIN dst' /\ dst'[x] = dst[x]
    BY <1>1, ListedFacts, PlacedFacts
<1>3. MergeOrder'
    BY <1>1, <1>2, OrderAfter
<1>4. conflict = "skip" => SkipInv'
    BY SkipPlace
<1>5. conflict = "overwrite" => OverwriteInv'
    BY OverwritePlace
<1>6. conflict = "rename" => RenameInv'
    BY <1>1, ListedFacts, RenameMoved
<1> QED
    BY <1>1, <1>2, <1>3, <1>4, <1>5, <1>6 DEF MergeInv, Holds, Rooted

LEMMA MergeEnter ==
    ASSUME MergeInv, status = "merging", NEW p \in listed, Merging!Enter(p)
    PROVE  MergeInv'
<1>1. /\ p \in DOMAIN dst /\ dst' = dst /\ listed' = (listed \ {p}) \cup Merging!Children(src, p)
      /\ src' = src /\ existing' = existing /\ conflict' = conflict /\ status' = status
      /\ Merging!BothDirs(p)
    BY DEF Merging!Enter, Merging!Goes
<1>2. MergeOrder'
    BY <1>1, OrderInside
<1>3. conflict = "skip" => SkipInv'
    BY SkipEnter
<1>4. conflict = "overwrite" => OverwriteInv'
    BY OverwriteEnter
<1>5. conflict = "rename" => RenameInv'
    BY RenameEnter
<1> QED
    BY <1>1, <1>2, <1>3, <1>4, <1>5 DEF MergeInv, Holds, Rooted

LEMMA MergeSkip ==
    ASSUME MergeInv, status = "merging", NEW p \in listed, Merging!Skip(p)
    PROVE  MergeInv'
<1>1. /\ conflict = "skip" /\ dst' = dst /\ listed' = listed \ {p}
      /\ src' = src /\ existing' = existing /\ conflict' = conflict /\ status' = status
    BY DEF Merging!Skip, Merging!Conflict, Merging!Goes
<1>2. MergeOrder' /\ SkipInv'
    BY <1>1, OrderAfter, SkipSkip
<1> QED
    BY <1>1, <1>2 DEF MergeInv, Holds, Rooted

LEMMA MergeOverwrite ==
    ASSUME MergeInv, status = "merging", NEW p \in listed, Merging!Overwrite(p)
    PROVE  MergeInv'
<1>1. /\ conflict = "overwrite" /\ listed' = listed \ {p}
      /\ src' = src /\ existing' = existing /\ conflict' = conflict /\ status' = status
    BY DEF Merging!Overwrite, Merging!Conflict, Merging!Goes
<1>2. /\ OverwriteInv' /\ Rooted(dst)'
      /\ \A x \in DOMAIN dst : ~Merging!IsPrefix(p, x) => x \in DOMAIN dst' /\ dst'[x] = dst[x]
    BY <1>1, OverwriteOverwrite
<1>3. MergeOrder'
    BY <1>1, <1>2, OrderAfter
<1> QED
    BY <1>1, <1>2, <1>3 DEF MergeInv, Holds, Rooted

LEMMA MergeRename ==
    ASSUME MergeInv, status = "merging", NEW p \in listed, Merging!Rename(p)
    PROVE  MergeInv'
<1>1. /\ conflict = "rename" /\ listed' = listed \ {p} /\ Merging!Candidates(p) # {}
      /\ dst' = Merging!Moved(dst, p, Merging!Renamed(p))
      /\ src' = src /\ existing' = existing /\ conflict' = conflict /\ status' = status
    BY DEF Merging!Rename, Merging!Conflict, Merging!Goes
<1>2. p \in AnyPath /\ MaxRenames \in Nat
    BY ListedFacts, MergePathFacts
<1>3. PICK i \in 1..MaxRenames : /\ Merging!Renamed(p) = Merging!Candidate(p, i)
                                 /\ Merging!Candidate(p, i) \notin DOMAIN dst
    BY <1>1, <1>2, RenamedFacts
<1>4. Merging!Candidate(p, i) \in AnyPath
    BY <1>2, CandidateFacts
<1>5. /\ RenameInv' /\ Rooted(dst)'
      /\ \A x \in DOMAIN dst : x \in DOMAIN dst' /\ dst'[x] = dst[x]
    BY <1>1, <1>3, <1>4, RenameMoved
<1>6. MergeOrder'
    BY <1>1, <1>5, OrderAfter
<1> QED
    BY <1>1, <1>5, <1>6 DEF MergeInv, Holds, Rooted

LEMMA MergeStep ==
    ASSUME MergeInv, [Merging!Next]_(Merging!vars)
    PROVE  MergeInv'
<1>1. ASSUME status = "merging", NEW p \in listed,
             Merging!Place(p) \/ Merging!Enter(p) \/ Merging!Skip(p) \/ Merging!Overwrite(p) \/ Merging!Rename(p)
      PROVE  MergeInv'
    BY <1>1, MergePlace, MergeEnter, MergeSkip, MergeOverwrite, MergeRename
<1>2. ASSUME /\ status' = status \/ status' # "done" \/ listed = {}
             /\ UNCHANGED <<src, dst, conflict, listed, existing>>
      PROVE  MergeInv'
    BY <1>2 DEF MergeInv, Holds, Rooted, MergeOrder, SkipInv, OverwriteInv, RenameInv, Ahead
<1>3. CASE Merging!Fail \/ Merging!Finish
    BY <1>2, <1>3 DEF Merging!Fail, Merging!Finish
<1>4. CASE UNCHANGED Merging!vars
    BY <1>2, <1>4 DEF Merging!vars
<1> QED
    BY <1>1, <1>3, <1>4 DEF Merging!Next

LEMMA ShapesHold ==
    ASSUME NEW s \in Merging!Shapes, NEW age
    PROVE  Holds(Merging!Tree(s, age), age)
<1>1. /\ DOMAIN s \subseteq MergePaths
      /\ \A p \in DOMAIN s : Merging!Ancestors(p) \subseteq {q \in DOMAIN s : s[q] = "dir"}
    BY DEF Merging!Shapes
<1>2. DOMAIN s \subseteq AnyPath
    BY <1>1, MergePathFacts
<1> DEFINE t == Merging!Tree(s, age)
<1>3. /\ t = [p \in DOMAIN s |-> t[p]] /\ DOMAIN t = DOMAIN s
      /\ \A p \in DOMAIN s : t[p] = IF s[p] = "dir" THEN Merging!Dir ELSE Merging!File(age, p)
    BY DEF Merging!Tree
<1>4. ASSUME NEW p \in DOMAIN t, NEW q \in AnyPath, Above(q, p)
      PROVE  q \in DOMAIN t /\ t[q] = Merging!Dir
    <2>1. q \in Merging!Ancestors(p)
        BY <1>2, <1>3, <1>4, MergeAncestors
    <2> QED
        BY <1>1, <1>3, <1>4, <2>1
<1> HIDE DEF t
<1> QED
    BY <1>2, <1>3, <1>4 DEF Holds, Rooted, t

\* At first all of the new tree is ahead, and so is whatever of the old one it has
\* something in the way of.
LEMMA MergeInit ==
    ASSUME Merging!Init
    PROVE  MergeInv
<1>1. /\ Holds(src, "new") /\ Holds(existing, "old") /\ dst = existing
      /\ conflict \in Merging!Policies /\ listed = Merging!Children(src, <<>>) /\ status = "merging"
    BY ShapesHold DEF Merging!Init, Merging!InitWith
<1>2. /\ DOMAIN src \subseteq AnyPath /\ DOMAIN existing \subseteq AnyPath /\ Rooted(src)
      /\ AnyPath \subseteq Seq(AnyName) /\ <<>> \in Seq(AnyName)
    BY <1>1, MergePathFacts DEF Holds, Rooted
<1>3. \A p \in listed : p \in DOMAIN src /\ Len(p) = 1
    <2>1. /\ Merging!Children(src, <<>>) \subseteq DOMAIN src
          /\ \A c \in AnyPath : c \in Merging!Children(src, <<>>) => Len(c) = Len(<<>>) + 1
        BY <1>2, MergeChildren
    <2>2. Len(<<>>) + 1 = 1
        OBVIOUS
    <2> QED
        BY <1>1, <1>2, <2>1, <2>2
<1>4. ASSUME NEW x \in DOMAIN src PROVE Ahead(x)
    <2>1. x \in AnyPath /\ <<>> # x /\ Merging!IsPrefix(<<>>, x)
        <3>1. x \in AnyPath /\ x \in Seq(AnyName) /\ <<>> # x
            BY <1>2 DEF AnyPath
        <3>2. Len(x) \in Nat /\ Len(<<>>) = 0
            BY <3>1
        <3> QED
            <4>1. Merging!IsPrefix(<<>>, x) <=>
                     Len(<<>>) <= Len(x) /\ \A i \in 1..Len(<<>>) : <<>>[i] = x[i]
                BY <1>2, <3>1, MergePrefix
            <4> QED
                BY <3>1, <3>2, <4>1
    <2>2. \E c \in Merging!Children(src, <<>>) : Merging!IsPrefix(c, x)
        BY <1>2, <2>1, MergeDescendants
    <2> QED
        BY <1>1, <2>2 DEF Ahead
<1>5. MergeOrder
    <2>1. \A p, q \in listed : Merging!IsPrefix(p, q) => p = q
        BY <1>2, <1>3, MergePrefixes
    <2>2. ASSUME NEW p \in listed, NEW q \in AnyPath, Above(q, p) PROVE FALSE
        <3>1. Len(q) \in Nat \ {0} /\ Len(q) <= 1
            BY <1>2, <1>3, <2>2, MergePathFacts, MergePrefix DEF Above
        <3>2. Len(q) = 1
            <4>1. \A n \in Nat \ {0} : n <= 1 => n = 1
                OBVIOUS
            <4> QED
                BY <3>1, <4>1, Zenon
        <3>3. Len(q) = Len(p) /\ p \in Seq(AnyName) /\ q \in Seq(AnyName)
            BY <1>2, <1>3, <3>2
        <3> QED
            BY <2>2, <3>3, MergePrefixes DEF Above
    <2> QED
        BY <1>3, <2>1, <2>2 DEF MergeOrder
<1>6. SkipInv
    BY <1>1, <1>4 DEF SkipInv
<1>7. OverwriteInv
    <2>1. ASSUME NEW x \in DOMAIN existing, ~Ahead(x) PROVE Merging!Clear(x, existing, src)
        <3>1. ASSUME NEW q \in DOMAIN src, Merging!IsPrefix(q, x) PROVE FALSE
            <4>1. PICK c \in listed : Merging!IsPrefix(c, q)
                BY <1>4, <3>1 DEF Ahead
            <4>2. Merging!IsPrefix(c, x)
                BY <1>2, <1>3, <2>1, <3>1, <4>1, MergePrefixes
            <4> QED
                BY <2>1, <4>2 DEF Ahead
        <3> QED
            BY <1>2, <2>1, <3>1, ClearFacts
    <2> QED
        BY <1>1, <1>4, <2>1 DEF OverwriteInv
<1>8. RenameInv
    <2>1. ASSUME NEW p \in DOMAIN dst, NEW q \in DOMAIN dst, dst[p] = dst[q], dst[p] # Merging!Dir
          PROVE  p = q
        <3>1. dst[p] = Merging!File("old", p) /\ dst[q] = Merging!File("old", q)
            BY <1>1, <2>1 DEF Holds
        <3>2. Merging!File("old", p) = Merging!File("old", q)
            BY <2>1, <3>1
        <3> QED
            BY <3>2 DEF Merging!File
    <2> QED
        BY <1>1, <1>4, <2>1 DEF RenameInv
<1> QED
    BY <1>1, <1>5, <1>6, <1>7, <1>8 DEF MergeInv, Holds

\* The invariant of the merge.
THEOREM MergeSpecInv == Merging!Spec => []MergeInv
<1>1. Merging!Init => MergeInv
    BY MergeInit
<1>2. MergeInv /\ [Merging!Next]_(Merging!vars) => MergeInv'
    BY MergeStep
<1> QED
    BY <1>1, <1>2, PTL DEF Merging!Spec

LEMMA MergeEnds ==
    ASSUME MergeInv
    PROVE  MergesAsAsked
<1>1. ASSUME Merging!Done PROVE \A x : ~Ahead(x)
    BY <1>1 DEF MergeInv, Merging!Done, Ahead
<1>2. Merging!PreferredTreeWins
    <2> SUFFICES
            ASSUME NEW first, NEW second, Merging!Done,
                   \/ conflict = "skip" /\ first = existing /\ second = src
                   \/ conflict = "overwrite" /\ first = src /\ second = existing
            PROVE  /\ DOMAIN dst = DOMAIN first
                           \cup {p \in DOMAIN second : Merging!Clear(p, second, first)}
                   /\ \A p \in DOMAIN dst :
                         dst[p] = IF p \in DOMAIN first THEN first[p] ELSE second[p]
        BY DEF Merging!PreferredTreeWins
    <2>1. CASE conflict = "skip" /\ first = existing /\ second = src
        <3>1. SkipInv
            BY <2>1 DEF MergeInv
        <3> QED
            BY <1>1, <2>1, <3>1 DEF SkipInv
    <2>2. CASE conflict = "overwrite" /\ first = src /\ second = existing
        <3>1. OverwriteInv
            BY <2>2 DEF MergeInv
        <3> QED
            BY <1>1, <2>2, <3>1 DEF OverwriteInv
    <2> QED
        BY <2>1, <2>2
<1>3. Merging!RenameLosesNothing
    <2> SUFFICES ASSUME Merging!Done, conflict = "rename"
                 PROVE  Merging!RenameLosesNothing
        BY DEF Merging!RenameLosesNothing
    <2>1. RenameInv
        BY DEF MergeInv
    <2> QED
        BY <1>1, <2>1 DEF RenameInv, Merging!RenameLosesNothing
<1> QED
    BY <1>2, <1>3 DEF MergesAsAsked, Merging!MergesAsAsked

\* Of two trees of any depth, merged entry by entry, "skip" keeps all of the old
\* one and "overwrite" brings all of the new one, each with what of the other it
\* leaves room for, and "rename" keeps both, every file once (restore.go:198-257).
THEOREM MergesKeepTheirPolicy == Merging!Spec => []MergesAsAsked
<1>1. MergeInv => MergesAsAsked
    BY MergeEnds
<1> QED
    BY <1>1, MergeSpecInv, PTL

-----------------------------------------------------------------------------
(* What Restore has of a merge: the versions of each file that the merged   *)
(* tree holds.                                                              *)

VersionsOf(t, f) == {age \in {"old", "new"} : \E q \in DOMAIN t : t[q] = Merging!File(age, f)}

\* Neither tree has a directory at the path, or anything else than one above it.
FreeWay(f) ==
    \A t \in {src, existing} :
        /\ \A q \in DOMAIN t : q \in Merging!Ancestors(f) => t[q] = Merging!Dir
        /\ f \in DOMAIN t => t[f] # Merging!Dir

FileByFile ==
    Merging!Done => \A f \in AnyPath : FreeWay(f) =>
        VersionsOf(dst, f) = Merged(conflict, VersionsOf(src, f), VersionsOf(existing, f))

\* The two trees have a file at its own path only.
LEMMA HeldVersions ==
    ASSUME NEW f \in AnyPath, NEW t, NEW age \in {"old", "new"}, Holds(t, age),
           f \in DOMAIN t => t[f] # Merging!Dir
    PROVE  VersionsOf(t, f) = IF f \in DOMAIN t THEN {age} ELSE {}
<1>1. ASSUME NEW q \in DOMAIN t, NEW other, t[q] = Merging!File(other, f)
      PROVE  q = f /\ other = age
    <2>1. t[q] = Merging!File(age, q)
        BY <1>1, MergeNodes DEF Holds
    <2>2. Merging!File(other, f) = Merging!File(age, q)
        BY <1>1, <2>1
    <2> QED
        BY <2>2 DEF Merging!File
<1>2. f \in DOMAIN t => t[f] = Merging!File(age, f)
    BY DEF Holds
<1> QED
    BY <1>1, <1>2 DEF VersionsOf

\* Of a file that both trees have, or one, the tree that is preferred has the say.
LEMMA PreferredVersions ==
    ASSUME NEW f \in AnyPath, NEW first, NEW second, NEW a \in {"old", "new"}, NEW b \in {"old", "new"},
           Holds(first, a), Holds(second, b),
           \A t \in {first, second} :
               /\ \A q \in DOMAIN t : q \in Merging!Ancestors(f) => t[q] = Merging!Dir
               /\ f \in DOMAIN t => t[f] # Merging!Dir,
           DOMAIN dst = DOMAIN first \cup {p \in DOMAIN second : Merging!Clear(p, second, first)},
           \A p \in DOMAIN dst : dst[p] = IF p \in DOMAIN first THEN first[p] ELSE second[p]
    PROVE  VersionsOf(dst, f) = IF f \in DOMAIN first THEN {a} ELSE IF f \in DOMAIN second THEN {b} ELSE {}
<1>1. \A p \in DOMAIN first : first[p] \in {Merging!Dir, Merging!File(a, p)}
    BY DEF Holds
<1>2. \A p \in DOMAIN second : second[p] \in {Merging!Dir, Merging!File(b, p)}
    BY DEF Holds
<1>3. ASSUME f \in DOMAIN second, f \notin DOMAIN first PROVE f \in DOMAIN dst
    <2>1. ASSUME NEW q \in AnyPath, Merging!IsPrefix(q, f), q \in DOMAIN first
          PROVE  second[q] = Merging!Dir /\ first[q] = Merging!Dir
        <3>1. Above(q, f)
            BY <1>3, <2>1 DEF Above
        <3>2. q \in Merging!Ancestors(f)
            BY <3>1, MergeAncestors
        <3> QED
            BY <1>3, <2>1, <3>1, <3>2 DEF Holds, Rooted
    <2>2. Merging!Clear(f, second, first)
        BY <2>1, ClearFacts
    <2> QED
        BY <1>3, <2>2
<1>4. ASSUME NEW q \in DOMAIN dst, NEW age, dst[q] = Merging!File(age, f)
      PROVE  q = f /\ age = IF f \in DOMAIN first THEN a ELSE b
    <2>1. CASE q \in DOMAIN first
        <3>1. Merging!File(age, f) = Merging!File(a, q)
            BY <1>1, <1>4, <2>1, MergeNodes
        <3> QED
            BY <2>1, <3>1 DEF Merging!File
    <2>2. CASE q \notin DOMAIN first
        <3>1. q \in DOMAIN second /\ dst[q] = second[q]
            BY <1>4, <2>2
        <3>2. Merging!File(age, f) = Merging!File(b, q)
            BY <1>2, <1>4, <3>1, MergeNodes
        <3> QED
            BY <2>2, <3>2 DEF Merging!File
    <2> QED
        BY <2>1, <2>2
<1>5. CASE f \in DOMAIN first
    <2>1. f \in DOMAIN dst /\ dst[f] = Merging!File(a, f)
        BY <1>1, <1>5
    <2> QED
        BY <1>4, <1>5, <2>1 DEF VersionsOf
<1>6. CASE f \notin DOMAIN first /\ f \in DOMAIN second
    <2>1. f \in DOMAIN dst /\ dst[f] = Merging!File(b, f)
        BY <1>2, <1>3, <1>6
    <2> QED
        BY <1>4, <1>6, <2>1 DEF VersionsOf
<1>7. CASE f \notin DOMAIN first /\ f \notin DOMAIN second
    BY <1>4, <1>7 DEF VersionsOf
<1> QED
    BY <1>5, <1>6, <1>7

\* "rename" has both.
LEMMA RenamedVersions ==
    ASSUME MergeInv, Merging!Done, conflict = "rename", NEW f \in AnyPath, FreeWay(f)
    PROVE  VersionsOf(dst, f) = VersionsOf(existing, f) \cup VersionsOf(src, f)
<1>1. /\ RenameInv /\ Holds(src, "new") /\ Holds(existing, "old") /\ listed = {}
    BY DEF MergeInv, Merging!Done
<1>2. \A x : ~Ahead(x)
    BY <1>1 DEF Ahead
<1>3. ASSUME NEW age \in VersionsOf(existing, f) \cup VersionsOf(src, f)
      PROVE  age \in VersionsOf(dst, f)
    <2>1. CASE age \in VersionsOf(existing, f)
        BY <1>1, <2>1 DEF VersionsOf, RenameInv
    <2>2. CASE age \in VersionsOf(src, f)
        <3>1. PICK p \in DOMAIN src : src[p] = Merging!File(age, f)
            BY <2>2 DEF VersionsOf
        <3>2. \E q \in DOMAIN dst : dst[q] = src[p]
            BY <1>1, <1>2 DEF RenameInv
        <3> QED
            BY <2>2, <3>1, <3>2 DEF VersionsOf
    <2> QED
        BY <1>3, <2>1, <2>2
<1>4. ASSUME NEW age \in VersionsOf(dst, f)
      PROVE  age \in VersionsOf(existing, f) \cup VersionsOf(src, f)
    <2>1. PICK q \in DOMAIN dst : dst[q] = Merging!File(age, f)
        BY <1>4 DEF VersionsOf
    <2>2. CASE q \in DOMAIN existing
        BY <1>1, <1>4, <2>1, <2>2 DEF VersionsOf, RenameInv
    <2>3. CASE q \notin DOMAIN existing
        <3>1. \E p \in DOMAIN src : dst[q] = src[p]
            BY <1>1, <2>3 DEF RenameInv
        <3> QED
            BY <1>4, <2>1, <3>1 DEF VersionsOf
    <2> QED
        BY <2>2, <2>3
<1> QED
    BY <1>3, <1>4

\* A restore merges its trees in one step, file by file (Merged, in the module
\* Restore).  That is what the merge comes to, entry by entry, of every file that no
\* directory of the other tree is in the way of, nor a file of one in the way of a
\* directory of the other above it (restore.go:198-257).
THEOREM MergesFileByFile == Merging!Spec => []FileByFile
<1>1. ASSUME MergeInv, Merging!Done, NEW f \in AnyPath, FreeWay(f)
      PROVE  VersionsOf(dst, f) = Merged(conflict, VersionsOf(src, f), VersionsOf(existing, f))
    <2>1. /\ Holds(src, "new") /\ Holds(existing, "old") /\ conflict \in Merging!Policies
          /\ Merging!PreferredTreeWins
        BY <1>1, MergeEnds DEF MergeInv, MergesAsAsked, Merging!MergesAsAsked
    <2>2. VersionsOf(src, f) = IF f \in DOMAIN src THEN {"new"} ELSE {}
        BY <1>1, <2>1, HeldVersions DEF FreeWay
    <2>3. VersionsOf(existing, f) = IF f \in DOMAIN existing THEN {"old"} ELSE {}
        BY <1>1, <2>1, HeldVersions DEF FreeWay
    <2>4. CASE conflict = "skip"
        <3>1. /\ DOMAIN dst = DOMAIN existing \cup {p \in DOMAIN src : Merging!Clear(p, src, existing)}
              /\ \A p \in DOMAIN dst : dst[p] = IF p \in DOMAIN existing THEN existing[p] ELSE src[p]
            BY <1>1, <2>1, <2>4 DEF Merging!PreferredTreeWins
        <3>2. VersionsOf(dst, f) = IF f \in DOMAIN existing THEN {"old"}
                                   ELSE IF f \in DOMAIN src THEN {"new"} ELSE {}
            BY <1>1, <2>1, <3>1, PreferredVersions DEF FreeWay
        <3> QED
            BY <2>2, <2>3, <2>4, <3>2 DEF Merged
    <2>5. CASE conflict = "overwrite"
        <3>1. /\ DOMAIN dst = DOMAIN src \cup {p \in DOMAIN existing : Merging!Clear(p, existing, src)}
              /\ \A p \in DOMAIN dst : dst[p] = IF p \in DOMAIN src THEN src[p] ELSE existing[p]
            BY <1>1, <2>1, <2>5 DEF Merging!PreferredTreeWins
        <3>2. VersionsOf(dst, f) = IF f \in DOMAIN src THEN {"new"}
                                   ELSE IF f \in DOMAIN existing THEN {"old"} ELSE {}
            BY <1>1, <2>1, <3>1, PreferredVersions DEF FreeWay
        <3> QED
            BY <2>2, <2>3, <2>5, <3>2 DEF Merged
    <2>6. CASE conflict = "rename"
        <3>1. VersionsOf(dst, f) = VersionsOf(existing, f) \cup VersionsOf(src, f)
            BY <1>1, <2>6, RenamedVersions
        <3> QED
            BY <2>2, <2>3, <2>6, <3>1 DEF Merged
    <2> QED
        BY <2>1, <2>4, <2>5, <2>6 DEF Merging!Policies
<1>2. MergeInv => FileByFile
    BY <1>1 DEF FileByFile
<1> QED
    BY <1>2, MergeSpecInv, PTL
=============================================================================
