---------------------------- MODULE PublishProofs ----------------------------
(***************************************************************************)
(* Proofs about Publish, for any number of operations, chunks and power    *)
(* losses.  Inv is the inductive invariant: it says at which program       *)
(* points the final path may already name an operation's file, and that    *)
(* every such file was made durable first.                                 *)
(***************************************************************************)
EXTENDS Publish, TLAPS

\* Points of the program at which the target cannot be p's file.
BeforeRename(p) ==
    \/ pc[p] \in {"idle", "preflight", "create", "write", "sync", "close", "rename"}
    \/ p \notin late /\ (pc[p] = "cleanup" \/ result[p] = "err")

TempNames == \A p \in Ops : dir[p] \in {p, NoFile} /\ disk[p] \in {p, NoFile}

NamedIsDurable ==
    \A p \in Ops :
        \/ dir[Final] = p
        \/ disk[Final] = p
        \/ pc[p] \in {"close", "rename", "unlink", "published"}
        => written[p] = Chunks /\ durable[p] = Chunks

SyncIsWhole == \A p \in Ops : pc[p] = "sync" => written[p] = Chunks

NotYetNamed == \A p \in Ops : BeforeRename(p) => dir[Final] # p /\ disk[Final] # p

ResultsOfDone == \A p \in Ops : result[p] # "none" => pc[p] = "done"

LateEnds == \A p \in late : pc[p] \in {"cleanup", "done", "dead"}

Inv == TypeOK /\ NamedIsDurable /\ SyncIsWhole /\ NotYetNamed /\ ResultsOfDone /\ LateEnds

USE ConstantsAssumption DEF Names, Inodes

LEMMA InitInv == Init => Inv
  BY SMT DEF Init, Inv, TypeOK, NamedIsDurable, SyncIsWhole, NotYetNamed, ResultsOfDone, LateEnds,
         BeforeRename, PC, Active

\* One step of operation p; the other operations' parts of Inv only mention
\* dir[Final], which no step sets to anything but p.
LEMMA StepInv ==
    ASSUME Inv, NEW p \in Ops, Step(p)
    PROVE  Inv'
<1> USE DEF Inv, TypeOK, fsVars, removals, Goto, Finish, PC, Active
<1>1. CASE Start(p)
  BY <1>1 DEF Start, NamedIsDurable, SyncIsWhole, NotYetNamed, ResultsOfDone, LateEnds, BeforeRename
<1>2. CASE Preflight(p)
  BY <1>2 DEF Preflight, NamedIsDurable, SyncIsWhole, NotYetNamed, ResultsOfDone, LateEnds, BeforeRename
<1>3. CASE CreateTemp(p)
  BY <1>3 DEF CreateTemp, NamedIsDurable, SyncIsWhole, NotYetNamed, ResultsOfDone, LateEnds, BeforeRename
<1>4. CASE Write(p)
  BY <1>4 DEF Write, NamedIsDurable, SyncIsWhole, NotYetNamed, ResultsOfDone, LateEnds, BeforeRename
<1>5. CASE Sync(p)
  BY <1>5 DEF Sync, NamedIsDurable, SyncIsWhole, NotYetNamed, ResultsOfDone, LateEnds, BeforeRename
<1>6. CASE Close(p)
  BY <1>6 DEF Close, NamedIsDurable, SyncIsWhole, NotYetNamed, ResultsOfDone, LateEnds, BeforeRename
<1>7. CASE StepFails(p)
  BY <1>7 DEF StepFails, NamedIsDurable, SyncIsWhole, NotYetNamed, ResultsOfDone, LateEnds, BeforeRename
<1>8. CASE Rename(p)
  BY <1>8 DEF Rename, MoveTo, NamedIsDurable, SyncIsWhole, NotYetNamed, ResultsOfDone, LateEnds, BeforeRename
<1>9. CASE Unlink(p)
  BY <1>9 DEF Unlink, NamedIsDurable, SyncIsWhole, NotYetNamed, ResultsOfDone, LateEnds, BeforeRename
<1>10. CASE Cleanup(p)
  BY <1>10 DEF Cleanup, NamedIsDurable, SyncIsWhole, NotYetNamed, ResultsOfDone, LateEnds, BeforeRename
<1>11. CASE Return(p)
  BY <1>11 DEF Return, NamedIsDurable, SyncIsWhole, NotYetNamed, ResultsOfDone, LateEnds, BeforeRename
<1> QED
  BY <1>1, <1>2, <1>3, <1>4, <1>5, <1>6, <1>7, <1>8, <1>9, <1>10, <1>11 DEF Step

LEMMA EnvironmentInv ==
    ASSUME Inv,
           \/ \E p \in Ops : Kill(p) \/ WriteBackData(p)
           \/ WriteBackDir \/ PowerLoss \/ OtherCreates
    PROVE  Inv'
<1> USE DEF Inv, TypeOK, fsVars, removals, PC, Active,
            NamedIsDurable, SyncIsWhole, NotYetNamed, ResultsOfDone, LateEnds, BeforeRename
<1>1. ASSUME NEW p \in Ops, Kill(p) PROVE Inv'
  BY <1>1 DEF Kill
<1>2. ASSUME NEW p \in Ops, WriteBackData(p) PROVE Inv'
  BY <1>2 DEF WriteBackData
<1>3. CASE WriteBackDir
  BY <1>3 DEF WriteBackDir
<1>4. CASE PowerLoss
  BY <1>4 DEF PowerLoss
<1>5. CASE OtherCreates
  BY <1>5 DEF OtherCreates
<1> QED
  BY <1>1, <1>2, <1>3, <1>4, <1>5

LEMMA StutterInv == Inv /\ UNCHANGED vars => Inv'
  BY DEF vars, fsVars, removals, Inv, TypeOK, NamedIsDurable, SyncIsWhole, NotYetNamed, ResultsOfDone,
         LateEnds, BeforeRename

LEMMA NextInv == Inv /\ [Next]_vars => Inv'
  BY StepInv, EnvironmentInv, StutterInv DEF Next

LEMMA SpecInv == Spec => []Inv
  BY InitInv, NextInv, PTL DEF Spec

\* Whatever operations run, fail, die or lose power, every variable keeps its type.
THEOREM TypeCorrect == Spec => []TypeOK
<1>1. Inv => TypeOK
  BY DEF Inv
<1> QED
  BY SpecInv, <1>1, PTL

\* The final path never names a partial file, neither for a process that reads
\* it nor on the medium a power loss falls back to, on every platform.
THEOREM NeverPartialTarget == Spec => []NeverPartial
<1>1. Inv => NeverPartial
  BY DEF Inv, NamedIsDurable, NeverPartial
<1> QED
  BY SpecInv, <1>1, PTL

\* A publication that returned an error has not touched the target, unless the
\* error is that of the removal after a link.
THEOREM ErrorLeavesTarget == Spec => []FailureLeavesTarget
<1>1. Inv => FailureLeavesTarget
  BY DEF Inv, NotYetNamed, BeforeRename, FailureLeavesTarget
<1> QED
  BY SpecInv, <1>1, PTL

\* Until a power loss, a temporary file is there only between its creation and
\* its removal.
TempIsOwned ==
    \A p \in Ops : dir[p] # NoFile =>
        \/ pc[p] \in {"write", "sync", "close", "rename", "unlink", "cleanup", "dead"}
        \/ p \in kept \/ losses > 0

LEMMA InitTempIsOwned == Init => TempIsOwned
  BY DEF Init, TempIsOwned

LEMMA StepTempIsOwned ==
    ASSUME Inv, TempIsOwned, NEW p \in Ops, Step(p)
    PROVE  TempIsOwned'
<1>1. \A q \in Ops \ {p} : dir'[q] = dir[q] /\ pc'[q] = pc[q]
  BY DEF Inv, TypeOK, Step, Start, Preflight, CreateTemp, Write, Sync, Close, StepFails, Rename,
         MoveTo, Unlink, Cleanup, Return, Goto, Finish, fsVars
<1>2. losses' = losses /\ kept \subseteq kept'
  BY DEF Step, Start, Preflight, CreateTemp, Write, Sync, Close, StepFails, Rename, Unlink,
         Cleanup, Return, removals
<1>3. dir'[p] # NoFile /\ losses = 0 =>
         \/ pc'[p] \in {"write", "sync", "close", "rename", "unlink", "cleanup", "dead"}
         \/ p \in kept'
  BY DEF Inv, TypeOK, TempIsOwned, Step, Start, Preflight, CreateTemp, Write, Sync, Close,
         StepFails, Rename, MoveTo, Unlink, Cleanup, Return, Goto, Finish, fsVars, removals
<1>4. losses \in Nat
  BY DEF Inv, TypeOK
<1> QED
  BY <1>1, <1>2, <1>3, <1>4 DEF TempIsOwned

LEMMA NextTempIsOwned == Inv /\ TempIsOwned /\ [Next]_vars => TempIsOwned'
<1> SUFFICES ASSUME Inv, TempIsOwned, [Next]_vars PROVE TempIsOwned'
  OBVIOUS
<1> USE DEF TempIsOwned, fsVars, removals
<1>1. ASSUME NEW p \in Ops, Kill(p) \/ WriteBackData(p) PROVE TempIsOwned'
  BY <1>1 DEF Kill, WriteBackData, Inv, TypeOK
<1>2. CASE PowerLoss
  BY <1>2 DEF PowerLoss, Inv, TypeOK
<1>3. CASE WriteBackDir \/ OtherCreates \/ UNCHANGED vars
  BY <1>3 DEF WriteBackDir, OtherCreates, vars, Inv, TypeOK
<1> QED
  BY <1>1, <1>2, <1>3, StepTempIsOwned DEF Next

\* No call leaves its temporary file behind, unless it was killed, could not
\* remove it, or a power loss undid the removal.
THEOREM NoTempIsOrphaned == Spec => []NoOrphanTemp
<1>1. TempIsOwned => NoOrphanTemp
  BY DEF TempIsOwned, NoOrphanTemp, Active
<1>2. Spec => []TempIsOwned
  BY SpecInv, InitTempIsOwned, NextTempIsOwned, PTL DEF Spec
<1> QED
  BY <1>1, <1>2, PTL

\* No step of any operation replaces a target unless that operation was asked to.
THEOREM OverwriteOnlyOnRequest == Spec => NeverOverwritesUnasked
<1> DEFINE Asked == dir[Final] # NoFile /\ dir'[Final] # dir[Final] /\ losses' = losses
                      => dir'[Final] \in {p \in Ops : allow[p]}
<1>1. ASSUME Inv, NEW p \in Ops, Step(p) PROVE Asked
  BY <1>1 DEF Inv, TypeOK, fsVars, removals, Goto, Finish, Step, Start, Preflight, CreateTemp, Write,
       Sync, Close, StepFails, Rename, MoveTo, Unlink, Cleanup, Return
<1>2. ASSUME Inv, [Next]_vars PROVE Asked
  BY <1>1, <1>2 DEF Inv, TypeOK, Next, vars, fsVars, removals, Kill, WriteBackData, WriteBackDir,
       PowerLoss, OtherCreates
<1>3. Inv /\ [Next]_vars => [Asked]_vars
  BY <1>2
<1> QED
  BY SpecInv, <1>3, PTL DEF Spec, NeverOverwritesUnasked

-----------------------------------------------------------------------------
(* Refinement: Publish implements AtomicPublish. *)

\* No torn content is ever in sight, so the abstract target is what is named.
LEMMA NothingTorn == Inv => Seen(dir, written) = dir[Final] /\ Seen(disk, durable) = disk[Final]
  BY DEF Inv, TypeOK, NamedIsDurable, Seen

LEMMA NothingTornNext ==
    ASSUME Inv'
    PROVE  /\ Seen(dir, written)' = dir'[Final]
           /\ Seen(disk, durable)' = disk'[Final]
  BY DEF Inv, TypeOK, NamedIsDurable, Seen

LEMMA InitRefines == Init => Abstract!Init
<1> SUFFICES ASSUME Init PROVE Abstract!Init
  OBVIOUS
<1>1. Seen(dir, written) = dir[Final] /\ Seen(disk, durable) = disk[Final]
  BY InitInv, NothingTorn
<1> QED
  BY <1>1 DEF Init, Abstract!Init, PhaseOf

\* The abstract phases move with the program counter of the operation that steps.
LEMMA PhaseUpdate ==
    ASSUME Inv, Inv', NEW p \in Ops,
           \A q \in Ops \ {p} :
              pc'[q] = pc[q] /\ result'[q] = result[q] /\ (q \in late' <=> q \in late)
    PROVE  [q \in Ops |-> PhaseOf(q)]' = [[q \in Ops |-> PhaseOf(q)] EXCEPT ![p] = PhaseOf(p)']
<1>1. \A q \in Ops \ {p} : PhaseOf(q)' = PhaseOf(q)
  BY DEF PhaseOf
<1> QED
  BY <1>1, Zenon

\* A step of operation p maps to a step of p in AtomicPublish or to none.
LEMMA StepRefines ==
    ASSUME Inv, Inv', NEW p \in Ops, Step(p)
    PROVE  Abstract!Request(p) \/ Abstract!Commit(p) \/ Abstract!Report(p)
           \/ UNCHANGED Abstract!vars
<1> DEFINE phases == [q \in Ops |-> PhaseOf(q)]
<1>1. /\ Seen(dir, written) = dir[Final] /\ Seen(disk, durable) = disk[Final]
      /\ Seen(dir, written)' = dir'[Final] /\ Seen(disk, durable)' = disk'[Final]
  BY NothingTorn, NothingTornNext
<1>2. \A q \in Ops \ {p} :
          pc'[q] = pc[q] /\ result'[q] = result[q] /\ (q \in late' <=> q \in late)
  BY DEF Step, Start, Preflight, CreateTemp, Write, Sync, Close, StepFails, Rename, Unlink,
         Cleanup, Return, Goto, Finish, Inv, TypeOK, removals
<1>3. phases' = [phases EXCEPT ![p] = PhaseOf(p)']
  BY <1>2, PhaseUpdate
<1>4. phases[p] = PhaseOf(p)
  OBVIOUS
<1>5. PhaseOf(p)' = PhaseOf(p) => phases' = phases
  BY <1>3
<1> HIDE DEF phases
<1> USE DEF Inv, TypeOK, LateEnds, fsVars, removals, Goto, Finish, PC, Active
<1>6. CASE Start(p)
  <2>1. PhaseOf(p) = "idle" /\ PhaseOf(p)' = "pending"
    BY <1>6 DEF Start, PhaseOf
  <2> QED
    BY <1>1, <1>3, <1>4, <1>6, <2>1 DEF Start, Abstract!Request, phases
<1>7. ASSUME \/ PhaseOf(p) = "pending" /\ PhaseOf(p)' = "err"
             \/ PhaseOf(p) = "committed" /\ PhaseOf(p)' \in {"ok", "late"},
             dir'[Final] = dir[Final], disk' = disk, allow' = allow
      PROVE  Abstract!Report(p)
  BY <1>1, <1>3, <1>4, <1>7 DEF Abstract!Report, phases
<1>8. ASSUME PhaseOf(p)' = PhaseOf(p),
             dir'[Final] = dir[Final], disk' = disk, allow' = allow
      PROVE  UNCHANGED Abstract!vars
  BY <1>1, <1>5, <1>8 DEF Abstract!vars, phases
<1>9. CASE Preflight(p) \/ CreateTemp(p) \/ Cleanup(p) \/ Return(p)
  <2>1. \/ PhaseOf(p)' = PhaseOf(p)
        \/ PhaseOf(p) = "pending" /\ PhaseOf(p)' = "err"
        \/ PhaseOf(p) = "committed" /\ PhaseOf(p)' \in {"ok", "late"}
    BY <1>9 DEF Preflight, CreateTemp, Cleanup, Return, PhaseOf
  <2>2. dir'[Final] = dir[Final] /\ disk' = disk /\ allow' = allow
    BY <1>9 DEF Preflight, CreateTemp, Cleanup, Return
  <2> QED
    BY <2>1, <2>2, <1>7, <1>8
<1>10. CASE Write(p) \/ Sync(p) \/ Close(p) \/ StepFails(p) \/ Unlink(p)
  <2>1. PhaseOf(p)' = PhaseOf(p)
    BY <1>10 DEF Write, Sync, Close, StepFails, Unlink, PhaseOf
  <2> QED
    BY <1>8, <1>10, <2>1 DEF Write, Sync, Close, StepFails, Unlink
<1>11. CASE Rename(p)
  <2>1. PhaseOf(p) = "pending" /\ PhaseOf(p)' = "committed"
    BY <1>11 DEF Rename, PhaseOf
  <2> QED
    BY <1>1, <1>3, <1>4, <1>11, <2>1 DEF Rename, MoveTo, Abstract!Commit, phases
<1> QED
  BY <1>6, <1>9, <1>10, <1>11 DEF Step

LEMMA EnvironmentRefines ==
    ASSUME Inv, Inv',
           \/ \E p \in Ops : Kill(p) \/ WriteBackData(p)
           \/ WriteBackDir \/ PowerLoss \/ OtherCreates
    PROVE  Abstract!Next \/ UNCHANGED Abstract!vars
<1> DEFINE phases == [q \in Ops |-> PhaseOf(q)]
<1>1. /\ Seen(dir, written) = dir[Final] /\ Seen(disk, durable) = disk[Final]
      /\ Seen(dir, written)' = dir'[Final] /\ Seen(disk, durable)' = disk'[Final]
  BY NothingTorn, NothingTornNext
<1>2. ASSUME pc' = pc, result' = result, late' = late PROVE phases' = phases
  BY <1>2 DEF PhaseOf
<1>3. \A p \in Ops : phases[p] = PhaseOf(p)
  OBVIOUS
<1> HIDE DEF phases
<1> USE DEF Inv, TypeOK, fsVars, removals, PC, Active
<1>4. ASSUME NEW p \in Ops, Kill(p) PROVE Abstract!Die(p)
  <2>1. phases' = [phases EXCEPT ![p] = PhaseOf(p)']
    BY <1>4, PhaseUpdate DEF Kill, phases
  <2>2. PhaseOf(p) \in {"pending", "committed"} /\ PhaseOf(p)' = "dead"
    BY <1>4 DEF Kill, PhaseOf
  <2> QED
    BY <1>1, <1>3, <1>4, <2>1, <2>2 DEF Kill, Abstract!Die, phases
<1>5. ASSUME NEW p \in Ops, WriteBackData(p) PROVE UNCHANGED Abstract!vars
  BY <1>1, <1>2, <1>5 DEF WriteBackData, Abstract!vars, phases
<1>6. ASSUME WriteBackDir PROVE Abstract!Stabilize
  BY <1>1, <1>2, <1>6 DEF WriteBackDir, Abstract!Stabilize, phases
<1>7. ASSUME PowerLoss PROVE Abstract!PowerLoss
  <2>1. \A q \in Ops : PhaseOf(q)' = IF PhaseOf(q) \in {"pending", "committed"}
                                      THEN "dead" ELSE PhaseOf(q)
    BY <1>7 DEF PowerLoss, PhaseOf, ResultsOfDone, LateEnds
  <2>2. phases' = [q \in Ops |-> IF phases[q] \in {"pending", "committed"}
                                   THEN "dead" ELSE phases[q]]
    BY <2>1, <1>3, Zenon DEF phases
  <2> QED
    BY <1>1, <1>7, <2>2 DEF PowerLoss, Abstract!PowerLoss, phases
<1>8. ASSUME OtherCreates PROVE Abstract!OtherCreates
  BY <1>1, <1>2, <1>8 DEF OtherCreates, Abstract!OtherCreates, phases
<1> QED
  BY <1>4, <1>5, <1>6, <1>7, <1>8 DEF Abstract!Next

\* PublishAtomic behaves as one indivisible publication on every platform.
THEOREM PublishImplementsAtomic == Spec => PublishesAtomically
<1>1. ASSUME Inv, Inv', [Next]_vars PROVE [Abstract!Next]_(Abstract!vars)
  <2>1. CASE UNCHANGED vars
    BY <2>1 DEF vars, fsVars, removals, Seen, PhaseOf, Abstract!vars
  <2>2. ASSUME NEW p \in Ops, Step(p) PROVE [Abstract!Next]_(Abstract!vars)
    BY <1>1, <2>2, StepRefines DEF Abstract!Next
  <2> QED
    BY <1>1, <2>1, <2>2, EnvironmentRefines DEF Next
<1> QED
  BY InitRefines, SpecInv, <1>1, PTL DEF Spec, PublishesAtomically, Abstract!Spec
=============================================================================
