-------------------------------- MODULE Form --------------------------------
(***************************************************************************)
(* One operation form of the interface: operationForm of ui/tui/forms.go,  *)
(* the dropdown and the picker that fill it, and the request it is made    *)
(* into (the prepare functions of model.go).  Tui models the screens and   *)
(* what becomes of the request; here it is what the fields hold, which     *)
(* slot has the focus and what is typed where.                             *)
(*                                                                         *)
(* A base name is the sequence of its parts, as in <<"data", "cys">>.      *)
(***************************************************************************)
EXTENDS Integers, SequencesExt

CONSTANTS BaseNames,  \* of the paths that may be picked
          Passwords,  \* that may be typed
          Empty,      \* the empty path or password
          Options     \* how many each dropdown has

\* The kinds of credential are two.
ConstantsAssumption ==
    /\ Options \in [{"credential", "codec", "cipher", "algorithm"} -> Nat \ {0}]
    /\ Options["credential"] = 2

VARIABLES
    kind, input, dir, keyFile, password, confirmation, credential,
    choice,       \* of each of codec, cipher and algorithm: its index
    overwrite, focus,
    typing,       \* the text inputs that take what is typed
    shows,        \* "form", "picker", "dropdown", "confirm" or "away"
    slot,         \* that the picker or the dropdown is for
    selected,     \* in the dropdown
    request       \* that awaits confirmation

secrets == <<password, confirmation, keyFile>>
values == <<input, dir, credential, choice, overwrite>>
overlay == <<slot, selected>>
vars == <<kind, secrets, values, focus, typing, shows, overlay, request>>

Kinds == {"protect", "restore", "hash", "benchmark", "inspect", "verify", "list"}
Selections == {"codec", "cipher", "algorithm"}
Browses == {"input", "output", "keyfile"}
Dropdowns == {"credential"} \cup Selections
NoRequest == [kind |-> "none"]
NoSlot == "none"

Idle ==
    /\ input = Empty /\ dir = Empty /\ keyFile = Empty
    /\ password = Empty /\ confirmation = Empty /\ credential = "password"
    /\ choice = [c \in Selections |-> 0]
    /\ overwrite = FALSE /\ focus = 0 /\ typing = {}
    /\ shows = "away" /\ slot = NoSlot /\ selected = 0 /\ request = NoRequest

-----------------------------------------------------------------------------
(* operationForm. *)

Secrets(confirm) ==
    IF credential = "password" THEN <<"password">> \o confirm ELSE <<"keyfile">>

Slots ==
    CASE kind = "protect" ->
            <<"input", "output", "credential">> \o Secrets(<<"confirmation">>)
                \o <<"codec", "cipher", "overwrite", "submit">>
      [] kind = "restore" -> <<"input", "output", "credential">> \o Secrets(<<>>) \o <<"submit">>
      [] kind \in {"verify", "list"} -> <<"input", "credential">> \o Secrets(<<>>) \o <<"submit">>
      [] kind = "hash" -> <<"input", "algorithm", "submit">>
      [] kind = "benchmark" -> <<"input", "output", "submit">>
      [] kind = "inspect" -> <<"input", "submit">>

Current == Slots[focus + 1]

Cycle(current, delta, count) == (current + delta + count) % count

\* Faulty: the text input that had the focus goes on taking what is typed.
KeepsTyping(at) == typing' = typing \cup ({at} \cap {"password", "confirmation"})

\* syncFocus, with the focus and the slots that are to be.
SyncFocus(at) == typing' = {at} \cap {"password", "confirmation"}

Move ==
    /\ shows = "form"
    /\ \E delta \in {-1, 1} :
          /\ focus' = Cycle(focus, delta, Len(Slots))
          /\ SyncFocus(Slots[focus' + 1])
    /\ UNCHANGED <<kind, secrets, values, shows, overlay, request>>

\* Left and right change a choice at once.
QuickAdjust ==
    /\ shows = "form"
    /\ \/ /\ Current \in Selections
          /\ \E delta \in {-1, 1} :
                choice' = [choice EXCEPT ![Current] = Cycle(@, delta, Options[Current])]
          /\ UNCHANGED overwrite
       \/ Current = "overwrite" /\ overwrite' = ~overwrite /\ UNCHANGED choice
    /\ UNCHANGED <<kind, secrets, input, dir, credential, focus, typing, shows, overlay, request>>

\* Any other key in a text input, which takes it only if it has the focus.
Type ==
    /\ shows = "form" /\ Current \in typing
    /\ \E text \in Passwords \cup {Empty} :
          \/ Current = "password" /\ password' = text /\ UNCHANGED confirmation
          \/ Current = "confirmation" /\ confirmation' = text /\ UNCHANGED password
    /\ UNCHANGED <<kind, keyFile, values, focus, typing, shows, overlay, request>>

\* The dropdown opens at what is chosen.
DropdownIndex(s) ==
    IF s = "credential" THEN (IF credential = "key" THEN 1 ELSE 0) ELSE choice[s]

OpenDropdown ==
    /\ shows = "form" /\ Current \in Dropdowns
    /\ shows' = "dropdown" /\ slot' = Current /\ selected' = DropdownIndex(Current)
    /\ UNCHANGED <<kind, secrets, values, focus, typing, request>>

MoveInDropdown ==
    /\ shows = "dropdown"
    /\ \E delta \in {-1, 1} : selected' = Cycle(selected, delta, Options[slot])
    /\ UNCHANGED <<kind, secrets, values, focus, typing, shows, slot, request>>

\* Faulty: what was entered for the other kind of credential stays.
KeepSecrets(chosen) == UNCHANGED secrets

\* The fields of the kind of credential that is no longer chosen are emptied.
EmptyOther(chosen) ==
    IF chosen = credential THEN UNCHANGED secrets
    ELSE IF chosen = "key" THEN password' = Empty /\ confirmation' = Empty /\ UNCHANGED keyFile
    ELSE keyFile' = Empty /\ UNCHANGED <<password, confirmation>>

ApplyDropdown ==
    /\ shows = "dropdown"
    /\ IF slot = "credential"
         THEN LET chosen == IF selected = 1 THEN "key" ELSE "password" IN
              /\ EmptyOther(chosen)
              /\ credential' = chosen
              /\ IF chosen = credential THEN UNCHANGED typing ELSE SyncFocus(Current)
              /\ UNCHANGED choice
         ELSE /\ choice' = [choice EXCEPT ![slot] = selected]
              /\ UNCHANGED <<secrets, credential, typing>>
    /\ shows' = "form" /\ slot' = NoSlot /\ selected' = 0
    /\ UNCHANGED <<kind, input, dir, overwrite, focus, request>>

\* Esc.
CloseOverlay ==
    /\ shows \in {"dropdown", "picker"}
    /\ shows' = "form" /\ slot' = NoSlot /\ selected' = 0
    /\ UNCHANGED <<kind, secrets, values, focus, typing, request>>

OpenPicker ==
    /\ shows = "form" /\ Current \in Browses
    /\ shows' = "picker" /\ slot' = Current
    /\ UNCHANGED <<kind, secrets, values, focus, typing, selected, request>>

\* setPath, with what the picker gives.
SetPath ==
    /\ shows = "picker"
    /\ \/ slot = "input" /\ input' \in BaseNames /\ UNCHANGED <<dir, keyFile>>
       \/ slot = "output" /\ dir' = "directory" /\ UNCHANGED <<input, keyFile>>
       \/ slot = "keyfile" /\ keyFile' = "keyfile" /\ UNCHANGED <<input, dir>>
    /\ shows' = "form" /\ slot' = NoSlot
    /\ UNCHANGED <<kind, password, confirmation, credential, choice, overwrite, focus, typing,
                   selected, request>>

-----------------------------------------------------------------------------
(* The requests. *)

TrimCys(name) == IF Last(name) = "cys" THEN Front(name) ELSE name

\* Of a form with an input and a directory.
OutputPreview ==
    CASE kind = "protect" -> <<dir, Append(input, "cys")>>
      [] kind = "restore" ->
            <<dir, Append(IF TrimCys(input) = <<>> THEN <<"restored">> ELSE TrimCys(input), "restored")>>
      [] kind = "benchmark" -> <<dir, <<"benchmark", "xlsx">>>>

HasOutput == kind \in {"protect", "restore", "benchmark"}
HasCredential == kind \in {"protect", "restore", "verify", "list"}

\* Faulty: the repeated password is not compared.
PasswordGiven == IF credential = "password" THEN password # Empty ELSE keyFile # Empty

\* formCredential; the key file is read, which may fail.
CredentialGiven ==
    IF credential = "password" THEN password # Empty /\ (kind = "protect" => password = confirmation)
    ELSE keyFile # Empty

Request ==
    [kind |-> kind, input |-> input,
     output |-> IF HasOutput THEN OutputPreview ELSE Empty,
     credential |-> IF ~HasCredential THEN <<>>
                    ELSE IF credential = "password" THEN <<"password", password>> ELSE <<"key", keyFile>>,
     choice |-> [c \in Selections \cap ToSet(Slots) |-> choice[c]],
     overwrite |-> overwrite]

\* An incomplete form, or one whose paths or key file are not as they should be,
\* stays as it is.
Submit ==
    /\ shows = "form" /\ Current = "submit"
    /\ input # Empty
    /\ HasOutput => dir # Empty
    /\ HasCredential => CredentialGiven
    /\ request' = Request /\ shows' = "confirm"
    /\ UNCHANGED <<kind, secrets, values, focus, typing, overlay>>

EscConfirm ==
    /\ shows = "confirm"
    /\ request' = NoRequest /\ shows' = "form"
    /\ UNCHANGED <<kind, secrets, values, focus, typing, overlay>>

ClearSecrets == password' = Empty /\ confirmation' = Empty /\ keyFile' = Empty

\* Esc, or the start of the operation.
Leave ==
    /\ shows \in {"form", "confirm"}
    /\ shows' = "away" /\ request' = NoRequest
    /\ ClearSecrets
    /\ UNCHANGED <<kind, values, focus, typing, overlay>>

\* From the menu or from an error: the form is as it was left.
Enter ==
    /\ shows = "away" /\ kind \in Kinds
    /\ shows' = "form"
    /\ UNCHANGED <<kind, secrets, values, focus, typing, overlay, request>>

-----------------------------------------------------------------------------
Init == kind \in Kinds /\ Idle

Next ==
    \/ Enter \/ Move \/ QuickAdjust \/ Type
    \/ OpenDropdown \/ MoveInDropdown \/ ApplyDropdown \/ OpenPicker \/ SetPath \/ CloseOverlay
    \/ Submit \/ EscConfirm \/ Leave

Spec == Init /\ [][Next]_vars

-----------------------------------------------------------------------------
(* Properties. *)

\* A field that the form does not show holds no secret, and the request that awaits
\* confirmation is what the form shows: the paths, the output that was previewed,
\* the one credential that is given, typed twice alike if it protects, and the
\* choices (forms.go:203-279, model.go:315-467).
RequestIsShown ==
    /\ password # Empty => "password" \in ToSet(Slots)
    /\ confirmation # Empty => "confirmation" \in ToSet(Slots)
    /\ keyFile # Empty => "keyfile" \in ToSet(Slots)
    /\ shows = "confirm" =>
          /\ request = Request
          /\ kind = "protect" /\ credential = "password" => password = confirmation
    /\ shows # "confirm" => request = NoRequest

\* What is typed goes to the slot that is shown to have the focus and to no other,
\* and no index leaves its list, in whatever order the slots come and go under the
\* focus (forms.go:131-235, 281-312).
FocusIsShown ==
    /\ focus \in 0..(Len(Slots) - 1)
    /\ typing = {Current} \cap {"password", "confirmation"}
    /\ \A c \in Selections : choice[c] \in 0..(Options[c] - 1)
    /\ shows = "dropdown" => selected \in 0..(Options[slot] - 1) /\ slot = Current

\* The form does what it shows.
FormIsHonest == RequestIsShown /\ FocusIsShown
=============================================================================
