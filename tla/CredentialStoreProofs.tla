------------------------ MODULE CredentialStoreProofs ------------------------
(***************************************************************************)
(* Proofs about CredentialStore for any clients, names, credentials and    *)
(* entry limit.  Inv rests on the mutex: at most one call is between its   *)
(* Lock and its return, so what that call has read stays current until it  *)
(* writes.                                                                 *)
(***************************************************************************)
EXTENDS CredentialStore, TLAPS

Locked == {"readIndex", "readSecret", "writeSecret", "writeIndex", "rollback"}

Mutex == \A c \in Clients : pc[c] \in Locked <=> lock = c

\* What a Put or Delete writes under its name.
Target(c) == IF call[c].op = "put" THEN call[c].value ELSE None

OpAtStep ==
    \A c \in Clients :
        /\ pc[c] = "readIndex" => call[c].op # "get"
        /\ pc[c] = "readSecret" => call[c].op # "list"
        /\ pc[c] \in {"writeSecret", "writeIndex", "rollback"} => call[c].op \in {"put", "delete"}

\* The index about to be written differs from the stored one in one entry.
FreshIndex ==
    \A c \in Clients :
        pc[c] \in Locked \ {"readIndex"} /\ call[c].op # "get" =>
            newIndex[c] = [index EXCEPT ![call[c].name] = Target(c)]

FreshPrevious ==
    \A c \in Clients :
        /\ pc[c] = "writeSecret" => previous[c] = secrets[call[c].name]
        /\ pc[c] \in {"writeSecret", "writeIndex", "rollback"} /\ call[c].op = "delete" =>
              previous[c] # None
        /\ Writing(c) =>
              /\ secrets[call[c].name] = Target(c)
              /\ call[c].name \notin suspect => previous[c] = index[call[c].name]

Inv ==
    TypeOK /\ Mutex /\ OpAtStep /\ FreshIndex /\ FreshPrevious /\ ListingMatchesSecrets

USE ConstantsAssumption

LEMMA RequestFields ==
    ASSUME NEW r \in Requests
    PROVE  /\ r.op \in {"put", "get", "delete", "list"}
           /\ r.op # "list" => r.name \in Names
           /\ r.op = "put" => r.value \in Values
  BY DEF Requests

LEMMA AnswersTyped ==
    /\ Nothing \in Keychain
    /\ Err \in Answers
    /\ \A k \in Keychain : Ok(k) \in Answers
  BY DEF Nothing, Err, Ok, Answers, Keychain

LEMMA WrittenTyped ==
    ASSUME NEW r \in Requests, r.op \in {"put", "delete"}, NEW k \in Keychain
    PROVE  [k EXCEPT ![r.name] = IF r.op = "put" THEN r.value ELSE None] \in Keychain
  BY RequestFields DEF Keychain

LEMMA InitInv == Init => Inv
<1> SUFFICES ASSUME Init PROVE Inv
  OBVIOUS
<1>1. TypeOK
  BY AnswersTyped DEF Init, TypeOK, PC, Requests, Keychain, Nothing
<1> QED
  BY <1>1 DEF Init, Inv, Mutex, Locked, OpAtStep, FreshIndex, FreshPrevious, Writing,
          ListingMatchesSecrets

LEMMA TypeStep ==
    ASSUME Inv, [Next]_vars
    PROVE  TypeOK'
<1> USE AnswersTyped DEF Inv, TypeOK, PC, keychain, locals, Goto, Finish, Continue
<1>0. \A c \in Clients : call[c] \in Requests /\ [op |-> "list"] \in Requests
  BY DEF Requests
<1>1. ASSUME NEW c \in Clients, Call(c) PROVE TypeOK'
  BY <1>1 DEF Call
<1>2. ASSUME NEW c \in Clients, Lock(c) PROVE TypeOK'
  BY <1>2 DEF Lock
<1>3. ASSUME NEW c \in Clients, ReadIndex(c) PROVE TypeOK'
  <2>1. CASE call[c].op \in {"put", "delete"}
    <3>1. [index EXCEPT ![call[c].name] =
              IF call[c].op = "put" THEN call[c].value ELSE None] \in Keychain
      BY <2>1, <1>0, WrittenTyped
    <3> QED
      BY <1>3, <2>1, <3>1 DEF ReadIndex
  <2>2. CASE call[c].op \notin {"put", "delete"}
    BY <1>3, <2>2 DEF ReadIndex
  <2> QED
    BY <2>1, <2>2
<1>4. ASSUME NEW c \in Clients, ReadSecret(c) PROVE TypeOK'
  <2>1. CASE call[c].op = "list"
    BY <1>4, <2>1 DEF ReadSecret
  <2>2. CASE call[c].op # "list"
    <3>1. call[c].name \in Names /\ secrets[call[c].name] \in Values \cup {None}
      BY <2>2, <1>0, RequestFields DEF Keychain
    <3>2. [Nothing EXCEPT ![call[c].name] = secrets[call[c].name]] \in Keychain
      BY <3>1 DEF Keychain
    <3> QED
      BY <1>4, <3>1, <3>2 DEF ReadSecret
  <2> QED
    BY <2>1, <2>2
<1>5. ASSUME NEW c \in Clients, WriteSecret(c) PROVE TypeOK'
  <2>1. CASE secrets' = secrets
    BY <1>5, <2>1 DEF WriteSecret
  <2>2. CASE secrets' = [secrets EXCEPT ![call[c].name] =
                            IF call[c].op = "put" THEN call[c].value ELSE None]
    <3>1. call[c].op \in {"put", "delete"}
      BY <1>5 DEF WriteSecret, OpAtStep
    <3>2. secrets' \in Keychain
      BY <2>2, <3>1, <1>0, WrittenTyped
    <3> QED
      BY <1>5, <3>2 DEF WriteSecret
  <2> QED
    BY <1>5, <2>1, <2>2 DEF WriteSecret
<1>6. ASSUME NEW c \in Clients, WriteIndex(c) PROVE TypeOK'
  BY <1>6 DEF WriteIndex
<1>7. ASSUME NEW c \in Clients, Rollback(c) PROVE TypeOK'
  BY <1>7, <1>0, RequestFields DEF Rollback, Keychain, OpAtStep
<1>8. ASSUME NEW c \in Clients, Return(c) PROVE TypeOK'
  BY <1>8, <1>0 DEF Return
<1>9. CASE Crash
  BY <1>9, <1>0, RequestFields DEF Crash, OpAtStep
<1>10. CASE UNCHANGED vars
  BY <1>10 DEF vars
<1> QED
  BY <1>1, <1>2, <1>3, <1>4, <1>5, <1>6, <1>7, <1>8, <1>9, <1>10 DEF Next, Step

\* A call that only finishes, or moves on without writing, disturbs nobody: the
\* mutex keeps every other call out of the locked section.
LEMMA NextInv == Inv /\ [Next]_vars => Inv'
<1> SUFFICES ASSUME Inv, [Next]_vars PROVE Inv'
  OBVIOUS
<1>0. TypeOK'
  BY TypeStep
<1>a. TypeOK /\ \A c \in Clients : call[c] \in Requests
  BY DEF Inv, TypeOK
<1> USE <1>0, <1>a DEF Inv, Mutex, Locked, OpAtStep, FreshIndex, FreshPrevious, Writing,
        ListingMatchesSecrets, Target, keychain, locals, Goto, Finish, Continue
<1>1. ASSUME NEW c \in Clients, Call(c) PROVE Inv'
  BY <1>1 DEF Call, TypeOK
<1>2. ASSUME NEW c \in Clients, Lock(c) PROVE Inv'
  BY <1>2, RequestFields DEF Lock, TypeOK
<1>3. ASSUME NEW c \in Clients, ReadIndex(c) PROVE Inv'
  BY <1>3 DEF ReadIndex, TypeOK
<1>4. ASSUME NEW c \in Clients, ReadSecret(c) PROVE Inv'
  BY <1>4 DEF ReadSecret, TypeOK
<1>5. ASSUME NEW c \in Clients, WriteSecret(c) PROVE Inv'
  <2> DEFINE n == call[c].name
  <2>1. n \in Names /\ lock = c /\ \A d \in Clients \ {c} : pc[d] \notin Locked
    BY <1>5, RequestFields DEF WriteSecret
  <2>2. CASE Finish(c, "writeSecret", Err)
    <3>1. secrets' = secrets
      BY <1>5, <2>2 DEF WriteSecret, TypeOK
    <3> QED
      BY <1>5, <2>2, <3>1 DEF WriteSecret, TypeOK
  <2>3. CASE Goto(c, "writeSecret", "writeIndex")
    <3>1. secrets' = [secrets EXCEPT ![n] = Target(c)]
      BY <1>5, <2>3 DEF WriteSecret, TypeOK
    <3>2. n \notin suspect => previous[c] = index[n]
      BY <1>5, <2>1 DEF WriteSecret
    <3>3. ListingMatchesSecrets'
      <4> SUFFICES ASSUME NEW m \in Names
                   PROVE  index'[m] = secrets'[m] \/ m \in suspect' \/ m = n
        BY <1>5, <2>3 DEF WriteSecret, TypeOK
      <4>1. index' = index /\ suspect' = suspect /\ (m # n => secrets'[m] = secrets[m])
        BY <1>5, <3>1 DEF WriteSecret, TypeOK, Keychain
      <4> QED
        BY <2>1, <4>1
    <3>4. secrets'[n] = Target(c)
      BY <2>1, <3>1 DEF TypeOK, Keychain
    <3>5. Mutex' /\ OpAtStep' /\ FreshIndex'
      BY <1>5, <2>1, <2>3 DEF WriteSecret, TypeOK
    <3>6. FreshPrevious'
      BY <1>5, <2>1, <2>3, <3>2, <3>4 DEF WriteSecret, TypeOK
    <3> QED
      BY <3>3, <3>5, <3>6
  <2> QED
    BY <1>5, <2>2, <2>3 DEF WriteSecret
<1>6. ASSUME NEW c \in Clients, WriteIndex(c) PROVE Inv'
  <2> DEFINE n == call[c].name
  <2>1. n \in Names /\ lock = c /\ \A d \in Clients \ {c} : pc[d] \notin Locked
    BY <1>6, RequestFields DEF WriteIndex
  <2>2. CASE Goto(c, "writeIndex", "rollback")
    BY <1>6, <2>2 DEF WriteIndex, TypeOK
  <2>3. CASE Finish(c, "writeIndex", Ok(Nothing))
    <3>1. \A m \in Names : m # n /\ m \notin suspect => index[m] = secrets[m]
      BY <2>1
    <3>2. index' = [index EXCEPT ![n] = Target(c)] /\ secrets[n] = Target(c)
      <4>1. index' = newIndex[c] /\ pc[c] = "writeIndex"
        BY <1>6, <2>3 DEF WriteIndex, TypeOK
      <4>2. call[c].op \in {"put", "delete"}
        BY <4>1
      <4> QED
        BY <4>1, <4>2
    <3>3. ListingMatchesSecrets'
      <4> SUFFICES ASSUME NEW m \in Names
                   PROVE  index'[m] = secrets'[m] \/ m \in suspect'
        OBVIOUS
      <4>1. secrets' = secrets /\ suspect' = suspect \ {n}
        BY <1>6, <2>3 DEF WriteIndex
      <4>2. index'[m] = IF m = n THEN Target(c) ELSE index[m]
        BY <3>2 DEF TypeOK, Keychain
      <4> QED
        BY <3>1, <3>2, <4>1, <4>2
    <3>4. Mutex' /\ OpAtStep' /\ FreshIndex' /\ FreshPrevious'
      BY <1>6, <2>1, <2>3 DEF WriteIndex, TypeOK
    <3> QED
      BY <3>3, <3>4
  <2> QED
    BY <1>6, <2>2, <2>3 DEF WriteIndex
<1>7. ASSUME NEW c \in Clients, Rollback(c) PROVE Inv'
  <2> DEFINE n == call[c].name
  <2>1. n \in Names /\ lock = c /\ \A d \in Clients \ {c} : pc[d] \notin Locked
    BY <1>7, RequestFields DEF Rollback
  <2>2. \A m \in Names : m # n /\ m \notin suspect => index[m] = secrets[m]
    BY <2>1
  <2>3. n \notin suspect => previous[c] = index[n]
    BY <1>7 DEF Rollback
  <2>4. ListingMatchesSecrets'
    BY <1>7, <2>1, <2>2, <2>3 DEF Rollback, TypeOK, Keychain
  <2>5. Mutex' /\ OpAtStep' /\ FreshIndex' /\ FreshPrevious'
    BY <1>7, <2>1 DEF Rollback, TypeOK
  <2> QED
    BY <2>4, <2>5
<1>8. ASSUME NEW c \in Clients, Return(c) PROVE Inv'
  BY <1>8 DEF Return, TypeOK
<1>9. CASE Crash
  BY <1>9 DEF Crash, TypeOK
<1>10. CASE UNCHANGED vars
  BY <1>10 DEF vars
<1> QED
  BY <1>1, <1>2, <1>3, <1>4, <1>5, <1>6, <1>7, <1>8, <1>9, <1>10 DEF Next, Step

LEMMA SpecInv == Spec => []Inv
  BY InitInv, NextInv, PTL DEF Spec

\* Every variable of the store keeps its type.
THEOREM TypeCorrect == Spec => []TypeOK
<1>1. Inv => TypeOK
  BY DEF Inv
<1> QED
  BY SpecInv, <1>1, PTL

\* The index lists exactly the stored secrets outside the two-write window,
\* whatever keychain calls fail, except for names a crash or a refused undo
\* left half written.
THEOREM ListingCorrect == Spec => []ListingMatchesSecrets
<1>1. Inv => ListingMatchesSecrets
  BY DEF Inv
<1> QED
  BY SpecInv, <1>1, PTL

-----------------------------------------------------------------------------
(* Refinement: CredentialStore implements CredentialMap.                    *)

\* What a reader finds in the keychain under a name while nobody writes is what
\* the abstract map allows for it.
LEMMA QuietReads ==
    ASSUME Inv, \A d \in Clients : ~Writing(d), NEW n \in Names
    PROVE  /\ index[n] \in Values \cup {None} /\ secrets[n] \in Values \cup {None}
           /\ Visible[n] = Unknown \/ (Visible[n] = index[n] /\ Visible[n] = secrets[n])
  BY DEF Inv, TypeOK, Keychain, ListingMatchesSecrets, Visible

LEMMA InitRefines == Init => Abstract!Init
<1> SUFFICES ASSUME Init PROVE Abstract!Init
  OBVIOUS
<1>1. Visible = [n \in Names |-> None]
  BY DEF Init, Visible, Nothing
<1> QED
  BY <1>1 DEF Init, PhaseOf, Abstract!Init, Abstract!Nothing, Nothing, Abstract!Err, Err

\* The abstract phases move with the program counter of the call that steps.
LEMMA PhaseUpdate ==
    ASSUME TypeOK, NEW c \in Clients, NEW to \in PC, pc' = [pc EXCEPT ![c] = to]
    PROVE  /\ PhaseOf(c)' = IF to = "idle" THEN "idle"
                            ELSE IF to = "done" THEN "answered" ELSE "called"
           /\ [d \in Clients |-> PhaseOf(d)]' =
                  [[d \in Clients |-> PhaseOf(d)] EXCEPT ![c] = PhaseOf(c)']
<1>1. \A d \in Clients \ {c} : PhaseOf(d)' = PhaseOf(d)
  BY DEF PhaseOf, TypeOK
<1>2. PhaseOf(c)' = IF to = "idle" THEN "idle" ELSE IF to = "done" THEN "answered" ELSE "called"
  BY DEF PhaseOf, TypeOK
<1> QED
  BY <1>1, <1>2, Zenon

AbstractStep(c) ==
    \/ Abstract!Call(c) \/ Abstract!Put(c) \/ Abstract!Delete(c) \/ Abstract!Get(c)
    \/ Abstract!List(c) \/ Abstract!Refuse(c) \/ Abstract!Spoil(c) \/ Abstract!Return(c)

LEMMA StepRefines ==
    ASSUME Inv, Inv', NEW c \in Clients, Call(c) \/ Step(c)
    PROVE  AbstractStep(c) \/ UNCHANGED Abstract!vars
<1> DEFINE phases == [d \in Clients |-> PhaseOf(d)]
           n == call[c].name
<1>1. TypeOK /\ call[c] \in Requests
  BY DEF Inv, TypeOK
<1>2. phases[c] = PhaseOf(c)
  OBVIOUS
<1>3. ASSUME NEW to \in PC, pc' = [pc EXCEPT ![c] = to]
      PROVE  /\ PhaseOf(c)' = IF to = "idle" THEN "idle"
                              ELSE IF to = "done" THEN "answered" ELSE "called"
             /\ phases' = [phases EXCEPT ![c] = PhaseOf(c)']
  BY <1>1, <1>3, PhaseUpdate
<1>4. ASSUME UNCHANGED <<index, suspect>> PROVE Visible' = Visible
  BY <1>4 DEF Visible
<1>5. pc[c] \in {"readIndex", "readSecret"} => \A d \in Clients : ~Writing(d)
  BY DEF Writing, Inv, Mutex, Locked
<1> HIDE DEF phases
<1> USE DEF PC

\* A call that answers moves its phase.
<1>6. ASSUME NEW from \in PC \ {"idle", "done"}, NEW a, Finish(c, from, a), call' = call
      PROVE  Abstract!Answer(c, a)
  <2>1. PhaseOf(c) = "called"
    BY <1>6 DEF Finish, Goto, PhaseOf
  <2>2. phases' = [phases EXCEPT ![c] = "answered"]
    BY <1>3, <1>6 DEF Finish, Goto
  <2> QED
    BY <1>2, <1>6, <2>1, <2>2 DEF Finish, phases, Abstract!Answer
<1>7. ASSUME NEW from \in PC \ {"idle", "done"}, Finish(c, from, Err), call' = call,
             UNCHANGED <<index, suspect>>
      PROVE  AbstractStep(c)
  BY <1>4, <1>6, <1>7 DEF AbstractStep, Abstract!Refuse, Abstract!Err, Abstract!Nothing, Err, Nothing
\* A step inside a call that does not answer yet.
<1>8. ASSUME NEW from \in PC \ {"idle", "done"}, NEW to \in PC \ {"idle", "done"},
             Goto(c, from, to), call' = call, answer' = answer, UNCHANGED <<index, suspect>>
      PROVE  UNCHANGED Abstract!vars
  <2>1. PhaseOf(c) = "called"
    BY <1>8 DEF Goto, PhaseOf
  <2>2. phases' = [phases EXCEPT ![c] = "called"]
    BY <1>3, <1>8 DEF Goto
  <2>3. phases' = phases
    BY <1>2, <2>1, <2>2 DEF phases
  <2> QED
    BY <1>4, <1>8, <2>3 DEF phases, Abstract!vars

<1>9. CASE Call(c)
  <2>1. PhaseOf(c) = "idle" /\ phases' = [phases EXCEPT ![c] = "called"]
    BY <1>3, <1>9 DEF Call, Goto, PhaseOf
  <2>2. Abstract!Call(c)
    BY <1>2, <1>4, <1>9, <2>1 DEF Call, phases, keychain, Abstract!Call, Abstract!Requests, Requests
  <2> QED
    BY <2>2 DEF AbstractStep
<1>10. CASE Return(c)
  <2>1. PhaseOf(c) = "answered" /\ phases' = [phases EXCEPT ![c] = "idle"]
    BY <1>3, <1>10 DEF Return, Goto, PhaseOf
  <2>2. Abstract!Return(c)
    BY <1>2, <1>4, <1>10, <2>1
       DEF Return, phases, keychain, Abstract!Return, Abstract!Err, Abstract!Nothing, Err, Nothing
  <2> QED
    BY <2>2 DEF AbstractStep
<1>11. CASE Lock(c)
  BY <1>7, <1>8, <1>11 DEF Lock, keychain
<1>12. CASE ReadIndex(c)
  <2>1. CASE call[c].op = "list" /\ Finish(c, "readIndex", Ok(index))
    <3>1. Abstract!Answer(c, Ok(index))
      BY <1>6, <1>12, <2>1 DEF ReadIndex
    <3>2. index \in [Names -> Values \cup {None}]
          /\ \A m \in Names : Visible[m] = Unknown \/ Visible[m] = index[m]
      BY <1>1, <1>5, <2>1, QuietReads DEF TypeOK, Keychain, Finish, Goto
    <3>3. \A m \in Names : index[m] \in Abstract!Seen(m)
      BY <3>2 DEF Abstract!Seen
    <3>4. Abstract!List(c)
      BY <1>4, <1>12, <2>1, <3>1, <3>2, <3>3 DEF ReadIndex, keychain, Abstract!List, Abstract!Ok, Ok
    <3> QED
      BY <3>4 DEF AbstractStep
  <2>2. CASE Goto(c, "readIndex", "readSecret") /\ Continue
    BY <1>8, <1>12, <2>2 DEF ReadIndex, keychain, Continue
  <2>3. CASE Finish(c, "readIndex", Err)
    BY <1>7, <1>12, <2>3 DEF ReadIndex, keychain
  <2> QED
    BY <1>12, <2>1, <2>2, <2>3 DEF ReadIndex
<1>13. CASE ReadSecret(c)
  <2>1. CASE /\ call[c].op = "get" /\ secrets[n] # None
             /\ Finish(c, "readSecret", Ok([Nothing EXCEPT ![n] = secrets[n]]))
    <3>1. Abstract!Answer(c, Ok([Nothing EXCEPT ![n] = secrets[n]]))
      BY <1>6, <1>13, <2>1 DEF ReadSecret
    <3>2. n \in Names
      BY <1>1, <2>1, RequestFields
    <3>3. secrets[n] \in Abstract!Seen(n) \ {None}
      BY <1>5, <2>1, <3>2, QuietReads DEF Finish, Goto, Abstract!Seen
    <3>4. Abstract!Get(c)
      BY <1>4, <1>13, <2>1, <3>1, <3>3
         DEF ReadSecret, keychain, Abstract!Get, Abstract!Ok, Abstract!Nothing, Ok, Nothing
    <3> QED
      BY <3>4 DEF AbstractStep
  <2>2. CASE Goto(c, "readSecret", "writeSecret") /\ Continue
    BY <1>8, <1>13, <2>2 DEF ReadSecret, keychain, Continue
  <2>3. CASE Finish(c, "readSecret", Err)
    BY <1>7, <1>13, <2>3 DEF ReadSecret, keychain
  <2> QED
    BY <1>13, <2>1, <2>2, <2>3 DEF ReadSecret
<1>14. CASE WriteSecret(c)
  BY <1>7, <1>8, <1>14 DEF WriteSecret, Continue
<1>15. CASE WriteIndex(c)
  <2>1. CASE Goto(c, "writeIndex", "rollback") /\ Continue /\ UNCHANGED <<index, suspect>>
    BY <1>8, <1>15, <2>1 DEF WriteIndex, Continue
  <2>2. CASE /\ Finish(c, "writeIndex", Ok(Nothing))
             /\ index' = newIndex[c] /\ suspect' = suspect \ {n}
    <3>1. Abstract!Answer(c, Ok(Nothing))
      BY <1>6, <1>15, <2>2 DEF WriteIndex
    <3>2. call[c].op \in {"put", "delete"} /\ n \in Names
          /\ index' = [index EXCEPT ![n] = Target(c)]
      BY <1>1, <2>2, RequestFields DEF Inv, OpAtStep, FreshIndex, Locked, Finish, Goto
    <3>3. Visible' = [Visible EXCEPT ![n] = Target(c)]
      BY <1>1, <2>2, <3>2 DEF TypeOK, Keychain, Visible
    <3>4. CASE call[c].op = "put"
      <4>1. Abstract!Put(c)
        BY <3>1, <3>3, <3>4 DEF Target, Abstract!Put, Abstract!Ok, Abstract!Nothing, Ok, Nothing
      <4> QED
        BY <4>1 DEF AbstractStep
    <3>5. CASE call[c].op = "delete"
      <4>1. Visible[n] # None
        BY <2>2, <3>2, <3>5 DEF Inv, FreshPrevious, Writing, Finish, Goto, Visible
      <4>2. Abstract!Delete(c)
        BY <3>1, <3>3, <3>5, <4>1 DEF Target, Abstract!Delete, Abstract!Ok, Abstract!Nothing, Ok, Nothing
      <4> QED
        BY <4>2 DEF AbstractStep
    <3> QED
      BY <3>2, <3>4, <3>5
  <2> QED
    BY <1>15, <2>1, <2>2 DEF WriteIndex
<1>16. CASE Rollback(c)
  <2>1. CASE suspect' = suspect
    BY <1>7, <1>16, <2>1 DEF Rollback
  <2>2. CASE suspect' = suspect \cup {n}
    <3>1. Abstract!Answer(c, Err)
      BY <1>6, <1>16 DEF Rollback
    <3>2. call[c].op \in {"put", "delete"} /\ n \in Names
      BY <1>1, <1>16, RequestFields DEF Inv, OpAtStep, Rollback, Finish, Goto
    <3>3. Visible' = [Visible EXCEPT ![n] = Unknown]
      BY <1>16, <2>2, <3>2 DEF Rollback, Visible
    <3>4. Abstract!Spoil(c)
      BY <3>1, <3>2, <3>3 DEF Abstract!Spoil, Abstract!Err, Abstract!Nothing, Err, Nothing
    <3> QED
      BY <3>4 DEF AbstractStep
  <2> QED
    BY <1>16, <2>1, <2>2 DEF Rollback
<1> QED
  BY <1>9, <1>10, <1>11, <1>12, <1>13, <1>14, <1>15, <1>16 DEF Step

LEMMA CrashRefines ==
    ASSUME Inv, Crash
    PROVE  Abstract!Crash
<1> DEFINE spoilt == {call[c].name : c \in {d \in Clients : pc[d] \in {"writeIndex", "rollback"}}}
           phases == [d \in Clients |-> PhaseOf(d)]
<1>1. Visible' = [n \in Names |-> IF n \in spoilt THEN Unknown ELSE Visible[n]]
  BY DEF Crash, keychain, Visible
<1>2. \A d \in Clients : pc[d] \in {"writeIndex", "rollback"} =>
          PhaseOf(d) = "called" /\ call[d].op \in {"put", "delete"}
  BY DEF Inv, OpAtStep, PhaseOf
<1>3. spoilt \in SUBSET {call[c].name : c \in {d \in Clients :
                            phases[d] = "called" /\ call[d].op \in {"put", "delete"}}}
  BY <1>2
<1>4. phases' = [d \in Clients |-> "idle"]
  BY DEF Crash, PhaseOf
<1> QED
  BY <1>1, <1>3, <1>4 DEF Crash, Abstract!Crash, Abstract!Err, Abstract!Nothing, Err, Nothing

\* Callers of the store cannot tell it from an atomic map, but for names whose
\* update a crash or a refused undo cut short.
THEOREM StoreImplementsMap == Spec => IsAtomicMap
<1>1. ASSUME Inv, Inv', [Next]_vars PROVE [Abstract!Next]_(Abstract!vars)
  <2>1. CASE UNCHANGED vars
    BY <2>1 DEF vars, keychain, locals, Visible, PhaseOf, Abstract!vars
  <2>2. ASSUME NEW c \in Clients, Call(c) \/ Step(c) PROVE [Abstract!Next]_(Abstract!vars)
    BY <1>1, <2>2, StepRefines DEF AbstractStep, Abstract!Next
  <2>3. CASE Crash
    BY <1>1, <2>3, CrashRefines DEF Abstract!Next
  <2> QED
    BY <1>1, <2>1, <2>2, <2>3 DEF Next
<1> QED
  BY InitRefines, SpecInv, <1>1, PTL DEF Spec, IsAtomicMap, Abstract!Spec
=============================================================================
