-------------------------------- MODULE Tui --------------------------------
(***************************************************************************)
(* The interactive interface: tui.Model, whose Update handles one message  *)
(* at a time, and the goroutines its commands run in.  A started operation *)
(* runs in one goroutine and a second one waits for its progress events;   *)
(* both answer with messages that arrive in any order, and late: after the *)
(* operation has ended, or when another one is running.  Keys are pressed  *)
(* at any time.  The file picker's own state is in the module Picker.      *)
(***************************************************************************)
EXTENDS Naturals

CONSTANTS Kinds,       \* operations, one form each
          Secret,      \* those whose form takes a password or a key
          Reporting,   \* those that have a report to show even on an error
          None,        \* no operation
          MaxOps,      \* bound: operations started in one session
          MaxEvents    \* bound: progress events of one operation

ASSUME ConstantsAssumption ==
    /\ Secret \subseteq Kinds /\ Reporting \subseteq Kinds /\ None \notin Kinds
    /\ MaxOps \in Nat \ {0} /\ MaxEvents \in Nat

Ids == 1..MaxOps
Nobody == 0      \* no operation yet; as a holder of a copy, the pending request

VARIABLES
    screen,
    form,             \* the form shown, or below the overlay
    pendingKind, pending,
    typed,            \* forms that hold a secret
    operationID,
    cancel,           \* the operation whose context m.cancel cancels
    cancelRequested,
    progress,         \* the event shown: its operation and number
    shown,            \* the operation whose result or error is shown
    job,              \* of each operation's goroutine
    cancelled,        \* operations whose context is cancelled
    events,           \* of each operation: the event in its channel of size one
    emitted,          \* of each operation: the events it has emitted
    waiter,           \* of each operation's waitProgress
    msgs,             \* messages on their way to Update
    copies            \* holders of a copy of a credential that is not wiped

fields == <<form, pendingKind, pending, typed>>
control == <<operationID, cancel, cancelRequested>>
display == <<progress, shown>>
goroutines == <<job, cancelled, events, emitted, waiter, msgs>>
vars == <<screen, fields, control, display, goroutines, copies>>

Overlays == {"picker", "dropdown"}
Ended == {"quit", "killed"}
Screens == {"home", "section", "help", "form", "confirm", "running", "result", "error"}
               \cup Overlays \cup Ended

Messages ==
    [type : {"progress"}, id : Ids, event : 1..MaxEvents]
        \cup [type : {"closed"}, id : Ids]
        \cup [type : {"done"}, id : Ids, ok : BOOLEAN]

Init ==
    /\ screen = "home"
    /\ form = None /\ pendingKind = None /\ pending = None /\ typed = {}
    /\ operationID = 0 /\ cancel = Nobody /\ cancelRequested = FALSE
    /\ progress = [id |-> Nobody, event |-> 0] /\ shown = Nobody
    /\ job = [i \in Ids |-> "none"] /\ cancelled = {}
    /\ events = [i \in Ids |-> 0] /\ emitted = events
    /\ waiter = [i \in Ids |-> "none"]
    /\ msgs = {} /\ copies = {}

-----------------------------------------------------------------------------
Go(from, to) == screen = from /\ screen' = to

\* Faulty: the request is forgotten without being wiped.
DiscardPendingKeepsCopy ==
    /\ pending' = None
    /\ UNCHANGED copies

\* discardPending, which wipes the credential of the request it drops.
DiscardPending ==
    /\ pending' = None
    /\ copies' = IF pending \in Secret THEN copies \ {Nobody} ELSE copies

\* clearSecrets: the fields of every form, and the pending request.
ClearSecrets == typed' = {} /\ DiscardPending

-----------------------------------------------------------------------------
(* Faulty variants of the actions below, one bug each; the properties must  *)
(* reject a specification that has one in place of the action it varies.    *)

\* Going home does not clear the form that is left.
EscHomeKeepsForm ==
    /\ screen \in {"section", "help", "form", "result", "error"}
    /\ screen' = "home"
    /\ UNCHANGED <<fields, control, display, goroutines, copies>>

\* A second Ctrl+C quits although the operation is still running.
RequestCancelTwiceQuits ==
    /\ screen = "running"
    /\ IF cancel # Nobody /\ ~cancelRequested
         THEN /\ cancelRequested' = TRUE
              /\ cancelled' = cancelled \cup {cancel}
              /\ UNCHANGED screen
         ELSE screen' = "quit" /\ UNCHANGED <<cancelRequested, cancelled>>
    /\ UNCHANGED <<fields, operationID, cancel, display, job, events, emitted,
                   waiter, msgs, copies>>

\* Progress of any operation is shown while one is running.
StaleProgressAny(m) == screen # "running"

\* The event channel is never closed.
ClosedNever(i) == FALSE

\* A completion is not looked at once the user has asked for a cancellation.
DoneUnlessCancelled(m) ==
    /\ m.type = "done" /\ m.id = operationID /\ ~cancelRequested
    /\ cancelled' = cancelled \cup ({cancel} \ {Nobody})
    /\ cancel' = Nobody
    /\ screen' = IF m.ok \/ pendingKind \in Reporting THEN "result" ELSE "error"
    /\ shown' = m.id
    /\ UNCHANGED <<fields, operationID, cancelRequested, progress, job, events, emitted,
                   waiter, copies>>

\* The goroutine sends every event as a message of its own.
WaitProgressLoops(i) ==
    /\ waiter[i] = "waiting" /\ events[i] # 0
    /\ msgs' = msgs \cup {[type |-> "progress", id |-> i, event |-> events[i]]}
    /\ events' = [events EXCEPT ![i] = 0]
    /\ UNCHANGED <<screen, fields, control, display, job, cancelled, emitted, waiter, copies>>

-----------------------------------------------------------------------------
(* Keys. *)

Menu ==
    /\ \/ screen = "home" /\ screen' \in {"section", "help"} /\ UNCHANGED form
       \/ Go("section", "form") /\ form' \in Kinds
       \/ screen \in {"help", "result"} /\ screen' = "home" /\ UNCHANGED form
       \/ Go("error", "form") /\ form' = pendingKind
    /\ UNCHANGED <<pendingKind, pending, typed, control, display, goroutines, copies>>

\* The password fields are typed in, or emptied.
Type ==
    /\ screen = "form" /\ form \in Secret
    /\ typed' \in {typed \cup {form}, typed \ {form}}
    /\ UNCHANGED <<screen, form, pendingKind, pending, control, display, goroutines, copies>>

OpenPicker ==
    /\ Go("form", "picker")
    /\ UNCHANGED <<fields, control, display, goroutines, copies>>

OpenDropdown ==
    /\ Go("form", "dropdown")
    /\ UNCHANGED <<fields, control, display, goroutines, copies>>

\* Esc, or a choice, which may be a key file.
ClosePicker ==
    /\ Go("picker", "form")
    /\ UNCHANGED typed \/ (form \in Secret /\ typed' = typed \cup {form})
    /\ UNCHANGED <<form, pendingKind, pending, control, display, goroutines, copies>>

\* applyDropdown: to choose the other kind of credential empties the fields of
\* the first.
ApplyDropdown == typed' = typed \ {form}

CloseDropdown ==
    /\ Go("dropdown", "form")
    /\ UNCHANGED typed \/ ApplyDropdown
    /\ UNCHANGED <<form, pendingKind, pending, control, display, goroutines, copies>>

\* prepareProtect and its like; an incomplete form stays as it is.
Submit ==
    /\ Go("form", "confirm")
    /\ form \in Secret => form \in typed
    /\ pendingKind' = form /\ pending' = form
    /\ copies' = IF form \in Secret THEN copies \cup {Nobody} ELSE copies
    /\ UNCHANGED <<form, typed, control, display, goroutines>>

Started == operationID + 1

\* startOperation: the request passes to the goroutine before clearSecrets.
StartOperation ==
    /\ operationID < MaxOps
    /\ Go("confirm", "running")
    /\ operationID' = operationID + 1
    /\ cancel' = operationID' /\ cancelRequested' = FALSE
    /\ progress' = [id |-> operationID', event |-> 0]
    /\ job' = [job EXCEPT ![Started] = "running"]
    /\ waiter' = [waiter EXCEPT ![Started] = "waiting"]
    /\ copies' = IF pending \in Secret THEN (copies \ {Nobody}) \cup {Started} ELSE copies
    /\ pending' = None /\ typed' = {}
    /\ UNCHANGED <<form, pendingKind, shown, cancelled, events, emitted, msgs>>

\* q, Esc or Ctrl+C while an operation runs.
RequestCancel ==
    /\ screen = "running"
    /\ cancel # Nobody /\ ~cancelRequested
    /\ cancelRequested' = TRUE
    /\ cancelled' = cancelled \cup {cancel}
    /\ UNCHANGED <<screen, fields, operationID, cancel, display, job, events, emitted,
                   waiter, msgs, copies>>

EscConfirm ==
    /\ Go("confirm", "form") /\ form' = pendingKind
    /\ DiscardPending
    /\ UNCHANGED <<pendingKind, typed, control, display, goroutines>>

EscHome ==
    /\ screen \in {"section", "help", "form", "result", "error"}
    /\ screen' = "home"
    /\ ClearSecrets
    /\ UNCHANGED <<form, pendingKind, control, display, goroutines>>

\* Esc on the first screen, or Ctrl+C on any but the running one.
Quit ==
    /\ screen \notin {"running"} \cup Ended /\ screen' = "quit"
    /\ ClearSecrets
    /\ UNCHANGED <<form, pendingKind, control, display, goroutines>>

\* A signal, or the end of the context of Run: the program ends at once.
Terminate ==
    /\ screen \notin Ended /\ screen' = "killed"
    /\ UNCHANGED <<fields, control, display, goroutines, copies>>

-----------------------------------------------------------------------------
(* Messages. *)

StaleProgress(m) == screen # "running" \/ m.id # operationID

\* A stale event is dropped, and its channel is not read again.
Progress(m) ==
    /\ m.type = "progress"
    /\ IF StaleProgress(m)
         THEN UNCHANGED <<progress, waiter>>
         ELSE /\ progress' = [id |-> m.id, event |-> m.event]
              /\ waiter' = [waiter EXCEPT ![m.id] = "waiting"]
    /\ UNCHANGED <<screen, fields, control, shown, job, cancelled, events, emitted, copies>>

Closed(m) ==
    /\ m.type = "closed"
    /\ UNCHANGED <<screen, fields, control, display, job, cancelled, events, emitted,
                   waiter, copies>>

\* The completion of the current operation; the context is released.
Done(m) ==
    /\ m.type = "done" /\ m.id = operationID
    /\ cancelled' = cancelled \cup ({cancel} \ {Nobody})
    /\ cancel' = Nobody /\ cancelRequested' = FALSE
    /\ screen' = IF m.ok \/ pendingKind \in Reporting THEN "result" ELSE "error"
    /\ shown' = m.id
    /\ UNCHANGED <<fields, operationID, progress, job, events, emitted, waiter, copies>>

StaleDone(m) ==
    /\ m.type = "done" /\ m.id # operationID
    /\ UNCHANGED <<screen, fields, control, display, job, cancelled, events, emitted,
                   waiter, copies>>

Update(m) ==
    /\ screen \notin Ended
    /\ msgs' = msgs \ {m}
    /\ Progress(m) \/ Closed(m) \/ Done(m) \/ StaleDone(m)

-----------------------------------------------------------------------------
(* The goroutines of operation i, while the program runs. *)

NextEvent(i) == emitted[i] + 1

\* The sink: an event that nobody has read yet makes room for the new one.
Emit(i) ==
    /\ job[i] = "running" /\ emitted[i] < MaxEvents
    /\ emitted' = [emitted EXCEPT ![i] = NextEvent(i)]
    /\ events' = [events EXCEPT ![i] = NextEvent(i)]
    /\ UNCHANGED <<screen, fields, control, display, job, cancelled, waiter, msgs, copies>>

\* The service has returned: wipe the credential, close the channel, report.
Return(i) ==
    /\ job[i] = "running"
    /\ job' = [job EXCEPT ![i] = "returned"]
    /\ copies' = copies \ {i}
    /\ \E ok \in BOOLEAN : msgs' = msgs \cup {[type |-> "done", id |-> i, ok |-> ok]}
    /\ UNCHANGED <<screen, fields, control, display, cancelled, events, emitted, waiter>>

ChannelClosed(i) == job[i] = "returned"

\* waitProgress ends with the next event, or with the end of the channel.
WaitProgress(i) ==
    /\ waiter[i] = "waiting"
    /\ waiter' = [waiter EXCEPT ![i] = "ended"]
    /\ \/ /\ events[i] # 0
          /\ msgs' = msgs \cup {[type |-> "progress", id |-> i, event |-> events[i]]}
          /\ events' = [events EXCEPT ![i] = 0]
       \/ /\ events[i] = 0 /\ ChannelClosed(i)
          /\ msgs' = msgs \cup {[type |-> "closed", id |-> i]}
          /\ UNCHANGED events
    /\ UNCHANGED <<screen, fields, control, display, job, cancelled, emitted, copies>>

Operation(i) == screen \notin Ended /\ (Emit(i) \/ Return(i) \/ WaitProgress(i))

-----------------------------------------------------------------------------
Key ==
    \/ Menu \/ Type \/ OpenPicker \/ ClosePicker \/ OpenDropdown \/ CloseDropdown
    \/ Submit \/ StartOperation
    \/ RequestCancel \/ EscConfirm \/ EscHome \/ Quit

Next ==
    \/ Key
    \/ Terminate
    \/ \E m \in msgs : Update(m)
    \/ \E i \in Ids : Operation(i)

Spec == Init /\ [][Next]_vars

\* Goroutines run, every call of the service returns, and the event loop takes
\* messages of commands as well as keys.
FairSpec ==
    /\ Spec
    /\ WF_vars(\E m \in msgs : Update(m))
    /\ \A i \in Ids : WF_vars(Operation(i))

-----------------------------------------------------------------------------
(* Properties. *)

\* A form holds a secret only while that form is shown, or an overlay or the
\* confirmation over it; no way of leaving it, quitting included, keeps one
\* (model.go:595-618; the test "leaving form did not clear secret buffers").
SecretsConfined ==
    \A k \in typed :
        screen \in {"form", "confirm", "killed"} \cup Overlays /\ form = k

\* A copy of a credential is held by the request that awaits confirmation and
\* by a running operation, which still has it unwiped, and by nothing else.
CredentialsWiped ==
    screen # "killed" =>
        /\ Nobody \in copies <=> screen = "confirm" /\ pendingKind \in Secret
        /\ \A i \in Ids : i \in copies <=> job[i] = "running" /\ pendingKind \in Secret

\* At most one operation runs; while it does the running screen is shown and
\* its context can be cancelled, and the user cannot quit.
OneOperation ==
    \A i \in Ids : job[i] = "running" =>
        /\ i = operationID
        /\ screen = "killed" \/ (screen = "running" /\ (cancel = i \/ cancelRequested))

\* What the running screen and the result screens show is of the last operation
\* started, whatever messages of earlier ones arrive meanwhile.
ShownIsCurrent ==
    /\ screen = "running" => progress.id = operationID
    /\ screen \in {"result", "error"} => shown = operationID

\* The progress shown for an operation never goes back or repeats.
ProgressForward ==
    progress' # progress /\ progress'.id = progress.id =>
        progress'.event > progress.event

\* The display is always of the last operation and never goes back.
DisplayIsCurrent == [][ShownIsCurrent' /\ ProgressForward]_vars

\* A running operation reaches its result or error screen.
OperationsEnd == screen = "running" ~> screen \in {"result", "error", "killed"}

\* No goroutine waits forever for the progress of an operation that returned.
WaitersEnd ==
    \A i \in Ids : job[i] = "returned" ~> waiter[i] # "waiting" \/ screen \in Ended
=============================================================================
