--------------------------- MODULE CredentialStore ---------------------------
(***************************************************************************)
(* credentialstore.KeychainStore: named credentials kept in the OS         *)
(* keychain as one record per name plus one index record that lists them.  *)
(* The keychain has no transaction over the two, so Put and Delete write   *)
(* the secret first, the index second, and undo the first write when the   *)
(* second fails.  Goroutines of one process share the store through its    *)
(* mutex; any call to the keychain may fail, and the process may crash     *)
(* between two of them.                                                    *)
(***************************************************************************)
EXTENDS Naturals, FiniteSets

CONSTANTS Clients, Names, Values, None,
          Unknown,     \* to callers, a name that was left half written
          MaxEntries   \* listLocked's entry limit (1024 in the code)

ASSUME ConstantsAssumption ==
    /\ None \notin Values /\ None \notin Clients
    /\ Unknown \notin Values \cup {None}
    /\ IsFiniteSet(Names)
    /\ MaxEntries \in Nat

\* The index is a list sorted by name with one entry per name, hence a function.
Keychain == [Names -> Values \cup {None}]
Entries(idx) == {n \in Names : idx[n] # None}

Nothing == [n \in Names |-> None]

\* What a call returns: an error, or the credentials it found (Get, List).
Answers == [status : {"ok", "err"}, found : Keychain]
Ok(found) == [status |-> "ok", found |-> found]
Err == [status |-> "err", found |-> Nothing]

Requests ==
    [op : {"put"}, name : Names, value : Values]
        \cup [op : {"get", "delete"}, name : Names]
        \cup [op : {"list"}]

VARIABLES secrets,  \* the credential records of the keychain
          index,    \* its index record; absent and empty are treated alike
          lock,     \* KeychainStore.mu
          pc, call, answer,
          newIndex, \* the index Put or Delete is going to write
          previous, \* the secret it read before writing
          suspect   \* history: names left half written by a crash or a failed undo

keychain == <<secrets, index>>
locals == <<newIndex, previous>>
vars == <<secrets, index, lock, pc, call, answer, newIndex, previous, suspect>>

PC == {"idle", "lock", "readIndex", "readSecret", "writeSecret", "writeIndex",
       "rollback", "done"}

TypeOK ==
    /\ secrets \in Keychain /\ index \in Keychain
    /\ lock \in Clients \cup {None}
    /\ pc \in [Clients -> PC]
    /\ call \in [Clients -> Requests]
    /\ answer \in [Clients -> Answers]
    /\ newIndex \in [Clients -> Keychain]
    /\ previous \in [Clients -> Values \cup {None}]
    /\ suspect \subseteq Names

Init ==
    /\ secrets = Nothing
    /\ index = secrets
    /\ lock = None
    /\ pc = [c \in Clients |-> "idle"]
    /\ call \in [Clients -> {[op |-> "list"]}]
    /\ answer = [c \in Clients |-> Err]
    /\ newIndex = [c \in Clients |-> index]
    /\ previous = [c \in Clients |-> None]
    /\ suspect = {}

-----------------------------------------------------------------------------
Goto(c, from, to) == pc[c] = from /\ pc' = [pc EXCEPT ![c] = to]

\* Every return runs the deferred Unlock, and the locals go out of scope.
Finish(c, from, a) ==
    /\ Goto(c, from, "done")
    /\ answer' = [answer EXCEPT ![c] = a]
    /\ lock' = None
    /\ newIndex' = [newIndex EXCEPT ![c] = Nothing]
    /\ previous' = [previous EXCEPT ![c] = None]

Continue == UNCHANGED <<lock, answer>>

-----------------------------------------------------------------------------
(* Faulty variants of the actions below, one bug each; the properties must  *)
(* reject a specification that has one in place of the action it varies.    *)

\* The arguments of the keychain call are swapped.
WriteSecretSwapped(c) ==
    LET r == call[c] IN
    /\ \/ /\ Goto(c, "writeSecret", "writeIndex") /\ Continue
          /\ secrets' = [secrets EXCEPT ![r.name] = IF r.op = "put" THEN r.name ELSE None]
          /\ UNCHANGED locals
       \/ /\ Finish(c, "writeSecret", Err)
          /\ UNCHANGED secrets
    /\ UNCHANGED <<index, call, suspect>>

\* The whole operation is tried again when the index cannot be written.
WriteIndexRetries(c) ==
    /\ \/ /\ Finish(c, "writeIndex", Ok(Nothing))
          /\ index' = newIndex[c]
          /\ suspect' = suspect \ {call[c].name}
       \/ /\ Goto(c, "writeIndex", "readIndex") /\ Continue
          /\ UNCHANGED <<index, suspect, locals>>
    /\ UNCHANGED <<secrets, call>>

\* The failed call returns without undoing the first write.
RollbackForgotten(c) ==
    /\ Finish(c, "rollback", Err)
    /\ UNCHANGED <<keychain, call, suspect>>

\* Put's undo deletes the secret even when it had replaced one.
RollbackDeletes(c) ==
    /\ Finish(c, "rollback", Err)
    /\ secrets' = [secrets EXCEPT ![call[c].name] =
                      IF call[c].op = "put" THEN None ELSE previous[c]]
    /\ UNCHANGED <<index, call, suspect>>

-----------------------------------------------------------------------------
(* The operations of the store. *)

Call(c) ==
    /\ Goto(c, "idle", "lock")
    /\ \E r \in Requests : call' = [call EXCEPT ![c] = r]
    /\ UNCHANGED <<keychain, lock, answer, locals, suspect>>

\* With the mutex held, a cancelled context or a bad argument returns at once.
Lock(c) ==
    /\ lock = None
    /\ \/ /\ Goto(c, "lock", IF call[c].op = "get" THEN "readSecret" ELSE "readIndex")
          /\ lock' = c
          /\ UNCHANGED <<answer, locals>>
       \/ Finish(c, "lock", Err)
    /\ UNCHANGED <<keychain, call, suspect>>

\* listLocked, then for Put and Delete the index they will write.
ReadIndex(c) ==
    LET r == call[c] IN
    /\ \/ /\ Cardinality(Entries(index)) <= MaxEntries
          /\ r.op = "list"
          /\ Finish(c, "readIndex", Ok(index))
       \/ /\ Cardinality(Entries(index)) <= MaxEntries
          /\ r.op \in {"put", "delete"}
          /\ Goto(c, "readIndex", "readSecret") /\ Continue
          /\ newIndex' = [newIndex EXCEPT ![c] =
                 [index EXCEPT ![r.name] = IF r.op = "put" THEN r.value ELSE None]]
          /\ UNCHANGED previous
       \/ Finish(c, "readIndex", Err)    \* unreadable, malformed or too long
    /\ UNCHANGED <<keychain, call, suspect>>

\* Put goes on when there is no secret yet; Get and Delete then fail.
ReadSecret(c) ==
    LET r == call[c] IN
    /\ \/ /\ r.op = "get" /\ secrets[r.name] # None
          /\ Finish(c, "readSecret", Ok([Nothing EXCEPT ![r.name] = secrets[r.name]]))
       \/ /\ r.op = "put" \/ (r.op = "delete" /\ secrets[r.name] # None)
          /\ Goto(c, "readSecret", "writeSecret") /\ Continue
          /\ previous' = [previous EXCEPT ![c] = secrets[r.name]]
          /\ UNCHANGED newIndex
       \/ Finish(c, "readSecret", Err)
    /\ UNCHANGED <<keychain, call, suspect>>

WriteSecret(c) ==
    LET r == call[c] IN
    /\ \/ /\ Goto(c, "writeSecret", "writeIndex") /\ Continue
          /\ secrets' = [secrets EXCEPT ![r.name] = IF r.op = "put" THEN r.value ELSE None]
          /\ UNCHANGED locals
       \/ /\ Finish(c, "writeSecret", Err)
          /\ UNCHANGED secrets
    /\ UNCHANGED <<index, call, suspect>>

WriteIndex(c) ==
    /\ \/ /\ Finish(c, "writeIndex", Ok(Nothing))
          /\ index' = newIndex[c]
          /\ suspect' = suspect \ {call[c].name}
       \/ /\ Goto(c, "writeIndex", "rollback") /\ Continue
          /\ UNCHANGED <<index, suspect, locals>>
    /\ UNCHANGED <<secrets, call>>

\* Put deletes the secret it created or restores the one it replaced; Delete
\* restores the one it removed.  The call fails either way.
Rollback(c) ==
    /\ Finish(c, "rollback", Err)
    /\ \/ /\ secrets' = [secrets EXCEPT ![call[c].name] = previous[c]]
          /\ UNCHANGED suspect
       \/ /\ suspect' = suspect \cup {call[c].name}
          /\ UNCHANGED secrets
    /\ UNCHANGED <<index, call>>

Return(c) ==
    /\ Goto(c, "done", "idle")
    /\ call' = [call EXCEPT ![c] = [op |-> "list"]]
    /\ answer' = [answer EXCEPT ![c] = Err]
    /\ UNCHANGED <<keychain, lock, locals, suspect>>

\* The process stops; a new one starts with a free mutex and no calls.
Crash ==
    /\ \E c \in Clients : pc[c] # "idle"
    /\ pc' = [c \in Clients |-> "idle"]
    /\ lock' = None
    /\ suspect' = suspect \cup
           {call[c].name : c \in {d \in Clients : pc[d] \in {"writeIndex", "rollback"}}}
    /\ call' = [c \in Clients |-> [op |-> "list"]]
    /\ answer' = [c \in Clients |-> Err]
    /\ newIndex' = [c \in Clients |-> Nothing]
    /\ previous' = [c \in Clients |-> None]
    /\ UNCHANGED keychain

Step(c) ==
    \/ Lock(c) \/ ReadIndex(c) \/ ReadSecret(c) \/ WriteSecret(c)
    \/ WriteIndex(c) \/ Rollback(c) \/ Return(c)

Next == (\E c \in Clients : Call(c) \/ Step(c)) \/ Crash

Spec == Init /\ [][Next]_vars

\* A goroutine inside a call keeps running, and sync.Mutex does not starve a
\* waiter: after 1 ms of waiting it is handed the lock.
FairSpec == Spec /\ \A c \in Clients : WF_vars(Step(c)) /\ SF_vars(Lock(c))

-----------------------------------------------------------------------------
(* Properties. *)

Writing(c) == pc[c] \in {"writeIndex", "rollback"}

\* Outside the window between the two writes the index lists exactly the
\* secrets the keychain holds, with their descriptors, except for names that a
\* crash or a refused undo left half written; a later successful Put or Delete
\* of such a name repairs it (store.go:104-129, README "roll back the prior
\* secret").
ListingMatchesSecrets ==
    \A n \in Names :
        \/ index[n] = secrets[n]
        \/ n \in suspect
        \/ \E c \in Clients : Writing(c) /\ call[c].name = n

\* Every call returns, or ends with its process: no path keeps the mutex.
CallsReturn == \A c \in Clients : pc[c] = "lock" ~> pc[c] \in {"done", "idle"}

-----------------------------------------------------------------------------
(* Refinement: an update takes effect for the callers when its index is     *)
(* written; until then the mutex keeps them from seeing the secret.         *)

Visible == [n \in Names |-> IF n \in suspect THEN Unknown ELSE index[n]]

PhaseOf(c) ==
    IF pc[c] = "idle" THEN "idle" ELSE IF pc[c] = "done" THEN "answered" ELSE "called"

Abstract == INSTANCE CredentialMap WITH
    creds <- Visible,
    phase <- [c \in Clients |-> PhaseOf(c)]

\* The store is an atomic map whose updates, if they are cut short, spoil no
\* name but their own (store.go:104-129, :181-193).
IsAtomicMap == Abstract!Spec
=============================================================================
