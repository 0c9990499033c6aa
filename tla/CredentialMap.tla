---------------------------- MODULE CredentialMap ----------------------------
(***************************************************************************)
(* The credential store as its callers see it (credentialstore.Store): a   *)
(* map from names to credentials whose every operation takes effect at one *)
(* instant between its call and its return, or is refused without effect.  *)
(* A process that stops in the middle of an update, or a refused update    *)
(* whose undo is refused too, leaves that one name Unknown: until the next *)
(* update of it, reads may find anything there.                            *)
(***************************************************************************)
CONSTANTS Clients,  \* goroutines that use the store
          Names,    \* credential names
          Values,   \* a kind and a secret, with the descriptor they determine
          None,     \* no credential
          Unknown   \* the state of a name whose update was cut short

VARIABLES creds, phase, call, answer

vars == <<creds, phase, call, answer>>

Requests ==
    [op : {"put"}, name : Names, value : Values]
        \cup [op : {"get", "delete"}, name : Names]
        \cup [op : {"list"}]

Nothing == [n \in Names |-> None]
Answers == [status : {"ok", "err"}, found : [Names -> Values \cup {None}]]
Ok(found) == [status |-> "ok", found |-> found]
Err == [status |-> "err", found |-> Nothing]

Init ==
    /\ creds = Nothing
    /\ phase = [c \in Clients |-> "idle"]
    /\ call \in [Clients -> {[op |-> "list"]}]
    /\ answer = [c \in Clients |-> Err]

Call(c) ==
    /\ phase[c] = "idle"
    /\ phase' = [phase EXCEPT ![c] = "called"]
    /\ \E r \in Requests : call' = [call EXCEPT ![c] = r]
    /\ UNCHANGED <<creds, answer>>

Answer(c, a) ==
    /\ phase[c] = "called"
    /\ phase' = [phase EXCEPT ![c] = "answered"]
    /\ answer' = [answer EXCEPT ![c] = a]
    /\ UNCHANGED call

Put(c) ==
    /\ call[c].op = "put"
    /\ creds' = [creds EXCEPT ![call[c].name] = call[c].value]
    /\ Answer(c, Ok(Nothing))

Delete(c) ==
    /\ call[c].op = "delete"
    /\ creds[call[c].name] # None
    /\ creds' = [creds EXCEPT ![call[c].name] = None]
    /\ Answer(c, Ok(Nothing))

\* What a read of name n may find.
Seen(n) == IF creds[n] = Unknown THEN Values \cup {None} ELSE {creds[n]}

Get(c) ==
    /\ call[c].op = "get"
    /\ \E v \in Seen(call[c].name) \ {None} :
          Answer(c, Ok([Nothing EXCEPT ![call[c].name] = v]))
    /\ UNCHANGED creds

List(c) ==
    /\ call[c].op = "list"
    /\ \E found \in [Names -> Values \cup {None}] :
          /\ \A n \in Names : found[n] \in Seen(n)
          /\ Answer(c, Ok(found))
    /\ UNCHANGED creds

Refuse(c) ==
    /\ Answer(c, Err)
    /\ UNCHANGED creds

\* Refused, and not undone.
Spoil(c) ==
    /\ call[c].op \in {"put", "delete"}
    /\ creds' = [creds EXCEPT ![call[c].name] = Unknown]
    /\ Answer(c, Err)

Return(c) ==
    /\ phase[c] = "answered"
    /\ phase' = [phase EXCEPT ![c] = "idle"]
    /\ call' = [call EXCEPT ![c] = [op |-> "list"]]
    /\ answer' = [answer EXCEPT ![c] = Err]
    /\ UNCHANGED creds

\* Every call is gone; those that were updating may have spoiled their names.
Crash ==
    /\ \E spoilt \in SUBSET {call[c].name : c \in {d \in Clients :
                               phase[d] = "called" /\ call[d].op \in {"put", "delete"}}} :
          creds' = [n \in Names |-> IF n \in spoilt THEN Unknown ELSE creds[n]]
    /\ phase' = [c \in Clients |-> "idle"]
    /\ call' = [c \in Clients |-> [op |-> "list"]]
    /\ answer' = [c \in Clients |-> Err]

Next ==
    \/ \E c \in Clients : Call(c) \/ Put(c) \/ Delete(c) \/ Get(c) \/ List(c)
                          \/ Refuse(c) \/ Spoil(c) \/ Return(c)
    \/ Crash

Spec == Init /\ [][Next]_vars
=============================================================================
