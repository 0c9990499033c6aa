---------------------------- MODULE PickerProofs ----------------------------
(***************************************************************************)
(* The safety properties of Picker, for any files, queries and numbers of  *)
(* pickers, searches and messages under way.                               *)
(*                                                                         *)
(* The inductive invariant has three parts.  Finding relates the results   *)
(* and the search under way to the query and the directory, Awaiting says  *)
(* where the answer to that search is, and Undisturbed that, as long as    *)
(* nothing has disturbed the picker, all that was read of the directories  *)
(* is what they hold and what is shown is of the directory that is named.  *)
(***************************************************************************)
EXTENDS Picker, TLAPS

\* Fuzzy find keeps the directory it was started in.
Finding ==
    /\ ~filtering => matches = NoMatches
    /\ matches # NoMatches => matches.directory = dir /\ matches.query = query
    /\ open /\ searching => filtering /\ query # Blank
    /\ open /\ filtering => ready

\* The answer to the search asked last is a command or a message under way.
Awaiting ==
    open /\ searching =>
        \E m \in msgs :
            /\ m.type \in {"search", "found"}
            /\ m.generation = generation /\ m.directory = dir /\ m.query = query

\* Everything that was read is still so.
Undisturbed ==
    ~disturbed =>
        /\ files = Entries(from)
        /\ matches.entries \in {Entries(matches.directory), <<>>}
        /\ \A m \in msgs :
              /\ m.type = "listing" => m.entries = Entries(m.directory)
              /\ m.type = "found" => m.entries \in {Entries(m.directory), <<>>}
        /\ open /\ ready /\ "dir" \notin allowed => from = dir

Inv ==
    /\ Finding /\ Awaiting /\ Undisturbed
    /\ open => chosen = NoFile
    /\ UndisturbedChoice

LEMMA InitInv == Init => Inv
<1>1. Entries(Nowhere) = <<>>
    BY DEF Entries
<1> QED
    BY <1>1 DEF Init, Inv, Finding, Awaiting, Undisturbed, UndisturbedChoice, NoMatches

-----------------------------------------------------------------------------
(* The keys, and what arrives. *)

\* What is read of a directory depends on the files only.
LEMMA EntriesStay ==
    ASSUME disk' = disk
    PROVE  \A d : Entries(d)' = Entries(d)
BY DEF Entries

LEMMA StepFinding ==
    ASSUME Inv, Next
    PROVE  Finding'
<1> USE DEF Inv, Finding, world, browser, find, outcome
<1>1. ASSUME Key PROVE Finding'
    <2>1. CASE OpenPicker
        BY <2>1 DEF OpenPicker
    <2>2. CASE Close \/ ChooseFolder
        BY <2>2 DEF Close, ChooseFolder, Return
    <2>3. CASE EnterEntry
        BY <2>3 DEF EnterEntry, Enter, Return, ChangeDirectory
    <2>4. CASE Walk
        BY <2>4 DEF Walk, ChangeDirectory
    <2>5. CASE StartFind \/ TypeQuery
        BY <2>5 DEF StartFind, TypeQuery, Search
    <2>6. CASE EscFind
        <3>1. matches' = NoMatches /\ dir' = dir /\ open' = open /\ ready' = ready
            BY <2>6 DEF EscFind
        <3>2. \/ filtering' = filtering /\ searching' = FALSE
              \/ filtering' = FALSE /\ searching' = searching /\ query = Blank
            BY <2>6, Zenon DEF EscFind
        <3> QED
            BY <3>1, <3>2
    <2>7. CASE EnterMatch
        BY <2>7 DEF EnterMatch, Enter, Return, ChangeDirectory
    <2> QED
        BY <1>1, <2>1, <2>2, <2>3, <2>4, <2>5, <2>6, <2>7 DEF Key
<1>2. ASSUME NEW m \in msgs, RunCommand(m) \/ Message(m) \/ ApplyMatches(m)
      PROVE  Finding'
    BY <1>2 DEF RunCommand, Message, ApplyMatches, Current
<1>3. CASE Stray \/ Change
    BY <1>3 DEF Stray, Change
<1> QED
    BY <1>1, <1>2, <1>3 DEF Next

LEMMA StepAwaiting ==
    ASSUME Inv, Next
    PROVE  Awaiting'
<1> USE DEF Inv, Finding, Awaiting, world, browser, find, outcome
<1>1. ASSUME Key PROVE Awaiting'
    <2>1. CASE OpenPicker
        BY <2>1 DEF OpenPicker
    <2>2. CASE Close \/ ChooseFolder
        BY <2>2 DEF Close, ChooseFolder, Return
    <2>3. CASE EnterEntry
        BY <2>3 DEF EnterEntry, Enter, Return, ChangeDirectory
    <2>4. CASE Walk
        BY <2>4 DEF Walk, ChangeDirectory
    <2>5. ASSUME NEW q, Search(q), dir' = dir
          PROVE  Awaiting'
        <3>1. CASE q = Blank
            BY <2>5, <3>1 DEF Search
        <3>2. CASE q # Blank
            <4> DEFINE m == FuzzySearch(generation + 1, dir, q)
            <4>1. /\ m \in msgs' /\ generation' = generation + 1 /\ query' = q
                  /\ dir' = dir
                BY <2>5, <3>2 DEF Search
            <4>2. m.type = "search" /\ m.generation = generation + 1 /\ m.directory = dir /\ m.query = q
                BY DEF FuzzySearch
            <4> HIDE DEF m
            <4> QED
                BY <4>1, <4>2
        <3> QED
            BY <3>1, <3>2
    <2>6. CASE EscFind
        BY <2>6 DEF EscFind
    <2>7. CASE EnterMatch
        BY <2>7 DEF EnterMatch, Enter, Return, ChangeDirectory
    <2> QED
        BY <1>1, <2>1, <2>2, <2>3, <2>4, <2>5, <2>6, <2>7 DEF Key, StartFind, TypeQuery
<1>2. ASSUME NEW m \in msgs, RunCommand(m)
      PROVE  Awaiting'
    <2> SUFFICES ASSUME open, searching PROVE Awaiting'
        BY <1>2 DEF RunCommand
    <2>1. PICK w \in msgs :
             /\ w.type \in {"search", "found"}
             /\ w.generation = generation /\ w.directory = dir /\ w.query = query
        OBVIOUS
    <2>2. CASE w # m
        BY <1>2, <2>1, <2>2 DEF RunCommand
    <2>3. CASE w = m
        <3>1. PICK entries : msgs' = (msgs \ {m}) \cup {Found(m, entries)}
            BY <1>2, <2>1, <2>3 DEF RunCommand
        <3> DEFINE n == Found(m, entries)
        <3>2. /\ n.type = "found" /\ n.generation = m.generation
              /\ n.directory = m.directory /\ n.query = m.query
            BY DEF Found
        <3>3. n \in msgs' /\ generation' = generation /\ dir' = dir /\ query' = query
            BY <1>2, <3>1 DEF RunCommand
        <3> HIDE DEF n
        <3> QED
            BY <2>1, <2>3, <3>2, <3>3
    <2> QED
        BY <2>2, <2>3
<1>3. ASSUME NEW m \in msgs, Message(m) \/ ApplyMatches(m)
      PROVE  Awaiting'
    BY <1>3 DEF Message, ApplyMatches, Current
<1>4. CASE Stray \/ Change
    BY <1>4 DEF Stray, Change
<1> QED
    BY <1>1, <1>2, <1>3, <1>4 DEF Next

\* A command or a listing is what it says.
LEMMA MessageFacts ==
    /\ \A d, p : ReadDir(d, p).type = "readDir"
    /\ \A d, p : /\ Listing(d, p).type = "listing" /\ Listing(d, p).directory = d
                /\ Listing(d, p).entries = Entries(d)
    /\ Failed.type = "failed"
    /\ \A g, d, q : FuzzySearch(g, d, q).type = "search"
    /\ \A m, entries : /\ Found(m, entries).type = "found"
                      /\ Found(m, entries).directory = m.directory
                      /\ Found(m, entries).entries = entries
BY DEF ReadDir, Listing, Failed, FuzzySearch, Found

\* Messages that say what the directories hold.
Honest(m) ==
    /\ m.type = "listing" => m.entries = Entries(m.directory)
    /\ m.type = "found" => m.entries \in {Entries(m.directory), <<>>}

LEMMA StepUndisturbed ==
    ASSUME Inv, Next
    PROVE  Undisturbed'
<1> SUFFICES ASSUME ~disturbed' PROVE Undisturbed'
    BY DEF Undisturbed
<1> USE DEF world, browser, find, outcome
<1>1. ~disturbed /\ disk' = disk
    <2>1. Key => disk' = disk /\ disturbed' = disturbed
        BY DEF Key, OpenPicker, Close, ChooseFolder, EnterEntry, Walk, StartFind, TypeQuery,
               EscFind, EnterMatch
    <2>2. ASSUME NEW m \in msgs, RunCommand(m) \/ ApplyMatches(m)
          PROVE  disk' = disk /\ disturbed' = disturbed
        BY <2>2 DEF RunCommand, ApplyMatches
    <2>3. ASSUME NEW m \in msgs, Message(m)
          PROVE  disk' = disk /\ ~disturbed
        BY <2>3 DEF Message
    <2> QED
        BY <2>1, <2>2, <2>3 DEF Next, Stray, Change
<1>2. /\ files = Entries(from) /\ matches.entries \in {Entries(matches.directory), <<>>}
      /\ \A m \in msgs : Honest(m)
      /\ open /\ ready /\ "dir" \notin allowed => from = dir
    BY <1>1 DEF Inv, Undisturbed, Honest
<1>3. Entries(Nowhere) = <<>> /\ NoMatches.entries = <<>>
    BY DEF Entries, NoMatches
<1>4. \A d : Entries(d)' = Entries(d)
    BY <1>1 DEF Entries
<1>5. \A m : Honest(m)' <=> Honest(m)
    BY <1>4 DEF Honest
<1>6. ASSUME /\ files' = files /\ from' = from
             /\ \A m \in msgs' \ msgs : Honest(m)
             /\ matches' \in {matches, NoMatches}
             /\ open' /\ ready' /\ "dir" \notin allowed' => from' = dir'
      PROVE  Undisturbed'
    BY <1>2, <1>3, <1>4, <1>5, <1>6 DEF Undisturbed, Honest
<1>7. ASSUME /\ files' = files /\ from' = from /\ matches' \in {matches, NoMatches}
             /\ \A m \in msgs' \ msgs : Honest(m)
             /\ allowed' = allowed /\ (ready' => ready /\ dir' = dir)
             /\ open' => open
      PROVE  Undisturbed'
    BY <1>2, <1>6, <1>7
<1>8. ASSUME Key PROVE Undisturbed'
    <2>1. CASE OpenPicker
        <3>1. /\ files' = <<>> /\ from' = Nowhere /\ matches' = NoMatches
              /\ ready' = ("dir" \in allowed')
            BY <2>1 DEF OpenPicker
        <3>2. \A m \in msgs' \ msgs : m.type = "readDir"
            BY <2>1, MessageFacts DEF OpenPicker
        <3>3. \A m \in msgs' \ msgs : Honest(m)
            BY <3>2 DEF Honest
        <3>4. \A m \in msgs' : Honest(m)'
            BY <1>2, <1>5, <3>3
        <3>5. files' = Entries(from)' /\ matches'.entries = <<>>
            BY <1>3, <1>4, <3>1
        <3> QED
            BY <3>1, <3>4, <3>5, Zenon DEF Undisturbed, Honest
    <2>2. CASE Close \/ ChooseFolder
        BY <1>7, <2>2 DEF Close, ChooseFolder, Return
    <2>3. ASSUME NEW d, ChangeDirectory(d), open' = open, allowed' = allowed, matches' \in {matches, NoMatches}
          PROVE  Undisturbed'
        <3>1. /\ dir' = d /\ ready' = (ready /\ d = dir) /\ UNCHANGED <<files, from>>
              /\ msgs' = msgs \cup {ReadDir(d, opened)}
            BY <2>3 DEF ChangeDirectory
        <3>2. \A m \in msgs' \ msgs : m.type = "readDir"
            BY <3>1, MessageFacts
        <3>3. \A m \in msgs' \ msgs : Honest(m)
            BY <3>2 DEF Honest
        <3>4. ready' => ready /\ dir' = dir
            BY <3>1
        <3> QED
            BY <1>7, <2>3, <3>1, <3>3, <3>4
    <2>4. ASSUME NEW e, Enter(e), allowed' = allowed, matches' \in {matches, NoMatches}
          PROVE  Undisturbed'
        BY <1>7, <2>3, <2>4 DEF Enter, Return
    <2>5. CASE EnterEntry
        BY <2>4, <2>5 DEF EnterEntry
    <2>6. CASE Walk
        BY <2>3, <2>6 DEF Walk
    <2>7. ASSUME NEW q, Search(q), UNCHANGED <<open, allowed, browser>>
          PROVE  Undisturbed'
        BY <1>7, <2>7, MessageFacts DEF Search, Honest
    <2>8. CASE StartFind \/ TypeQuery
        BY <2>7, <2>8 DEF StartFind, TypeQuery
    <2>9. CASE EscFind
        BY <1>7, <2>9 DEF EscFind
    <2>10. CASE EnterMatch
        BY <1>7, <2>4, <2>10 DEF EnterMatch
    <2> QED
        BY <1>8, <2>1, <2>2, <2>5, <2>6, <2>8, <2>9, <2>10 DEF Key
<1>9. ASSUME NEW m \in msgs, RunCommand(m) PROVE Undisturbed'
    <2>1. UNCHANGED <<files, from, dir, ready, open, allowed, matches>>
        BY <1>9 DEF RunCommand
    <2>2. \A n \in msgs' \ msgs : Honest(n)
        BY <1>9, MessageFacts DEF RunCommand, Honest
    <2> QED
        BY <1>7, <2>1, <2>2
<1>10. ASSUME NEW m \in msgs, Message(m) PROVE Undisturbed'
    <2>1. msgs' \subseteq msgs /\ matches' = matches /\ open' = open /\ allowed' = allowed
        BY <1>10 DEF Message
    <2>2. CASE ~open
        BY <1>7, <1>10, <2>1, <2>2 DEF Message
    <2>3. CASE open
        <3>1. from' = dir /\ dir' = dir
            BY <1>10, <2>3 DEF Message
        <3>2. files' = Entries(from')
            BY <1>2, <1>10, <2>3 DEF Message, Honest
        <3> QED
            BY <1>2, <1>4, <1>5, <2>1, <3>1, <3>2 DEF Undisturbed, Honest
    <2> QED
        BY <2>2, <2>3
<1>11. ASSUME NEW m \in msgs, ApplyMatches(m) PROVE Undisturbed'
    <2>1. UNCHANGED <<files, from, dir, ready, open, allowed>> /\ msgs' \subseteq msgs
        BY <1>11 DEF ApplyMatches
    <2>2. matches' # matches => m.type = "found" /\ matches'.directory = m.directory
                               /\ matches'.entries = m.entries
        BY <1>11 DEF ApplyMatches
    <2>3. matches'.entries \in {Entries(matches'.directory), <<>>}
        BY <1>2, <2>2 DEF Honest
    <2> QED
        BY <1>2, <1>4, <1>5, <2>1, <2>3 DEF Undisturbed, Honest
<1> QED
    BY <1>1, <1>8, <1>9, <1>10, <1>11 DEF Next, Stray, Change

-----------------------------------------------------------------------------
(* What is chosen. *)

ChosenWhenClosed == open => chosen = NoFile

\* The result that is pressed, counted off in the picker's listing, is itself
\* as long as nothing was disturbed.
LEMMA MatchIsSelected ==
    ASSUME Inv, ~disturbed, open, filtering, "dir" \notin allowed,
           NEW i \in DOMAIN matches.entries
    PROVE  /\ matches.directory = dir
           /\ Selected(i) = matches.entries[i]
<1>1. matches # NoMatches /\ matches.entries # <<>>
    BY DEF NoMatches
<1>2. matches.directory = dir /\ from = dir
    BY <1>1 DEF Inv, Finding, Undisturbed
<1>3. matches.entries = Entries(dir) /\ files = Entries(dir)
    BY <1>1, <1>2 DEF Inv, Undisturbed
<1> QED
    BY <1>2, <1>3 DEF Selected

\* Enter returns the entry that it is on, or nothing.
LEMMA EnterReturns ==
    ASSUME NEW e, Enter(e)
    PROVE  \/ chosen' = <<dir, e>> /\ open' = FALSE
           \/ chosen' = chosen /\ open' = open
BY DEF Enter, Return

LEMMA ShownFacts == \A path, found : Shown(path, found).path = path
BY DEF Shown

LEMMA StepChosen ==
    ASSUME Inv, Next
    PROVE  ChosenWhenClosed' /\ UndisturbedChoice'
<1> USE DEF world, browser, find, outcome, ChosenWhenClosed, UndisturbedChoice
<1>1. (open => chosen = NoFile) /\ UndisturbedChoice
    BY DEF Inv
<1>2. ASSUME UNCHANGED <<allowed, outcome>>, open' => open, disturbed => disturbed'
      PROVE  ChosenWhenClosed' /\ UndisturbedChoice'
    BY <1>1, <1>2
<1>3. CASE OpenPicker
    BY <1>3 DEF OpenPicker
<1>4. CASE Close \/ Walk \/ StartFind \/ TypeQuery \/ EscFind
    BY <1>2, <1>4 DEF Close, Walk, StartFind, TypeQuery, EscFind
<1>5. CASE ChooseFolder
    BY <1>5 DEF ChooseFolder, Return
<1>6. CASE EnterEntry
    <2>1. PICK i \in DOMAIN files : /\ Enter(files[i])
                                   /\ meant' = Shown(<<from, files[i]>>, FALSE)
        BY <1>6 DEF EnterEntry
    <2>2. open /\ ready /\ allowed' = allowed /\ disturbed' = disturbed
        BY <1>6 DEF EnterEntry
    <2>3. meant'.path = <<from, files[i]>>
        BY <2>1, ShownFacts
    <2>4. ~disturbed /\ "dir" \notin allowed => from = dir
        BY <2>2 DEF Inv, Undisturbed
    <2> QED
        BY <1>1, <2>1, <2>2, <2>3, <2>4, EnterReturns
<1>7. CASE EnterMatch
    <2>1. PICK i \in DOMAIN matches.entries :
             /\ meant' = Shown(<<matches.directory, matches.entries[i]>>, TRUE)
             /\ IF files = <<>> THEN UNCHANGED <<open, chosen, browser, msgs>>
                                ELSE Enter(Selected(i))
        BY <1>7 DEF EnterMatch
    <2>2. open /\ filtering /\ allowed' = allowed /\ disturbed' = disturbed
        BY <1>7 DEF EnterMatch
    <2>3. meant'.path = <<matches.directory, matches.entries[i]>>
        BY <2>1, ShownFacts
    <2>4. \/ chosen' = <<dir, Selected(i)>> /\ open' = FALSE
          \/ chosen' = chosen /\ open' = open
        BY <2>1, EnterReturns
    <2>5. ~disturbed /\ "dir" \notin allowed => <<dir, Selected(i)>> = meant'.path
        BY <2>2, <2>3, MatchIsSelected
    <2> QED
        BY <1>1, <2>2, <2>4, <2>5
<1>8. ASSUME NEW m \in msgs, RunCommand(m) \/ Message(m) \/ ApplyMatches(m)
      PROVE  ChosenWhenClosed' /\ UndisturbedChoice'
    BY <1>2, <1>8 DEF RunCommand, Message, ApplyMatches
<1>9. CASE Stray \/ Change
    BY <1>2, <1>9 DEF Stray, Change
<1> QED
    BY <1>3, <1>4, <1>5, <1>6, <1>7, <1>8, <1>9 DEF Next, Key

-----------------------------------------------------------------------------
LEMMA NextInv == Inv /\ [Next]_vars => Inv'
<1> SUFFICES ASSUME Inv, [Next]_vars PROVE Inv'
    OBVIOUS
<1>1. CASE Next
    BY <1>1, StepFinding, StepAwaiting, StepUndisturbed, StepChosen DEF Inv, ChosenWhenClosed
<1>2. CASE UNCHANGED vars
    <2>1. \A d : Entries(d)' = Entries(d)
        BY <1>2, EntriesStay DEF vars, world
    <2>2. Undisturbed'
        BY <1>2, <2>1 DEF Inv, Undisturbed, vars, browser, find
    <2> QED
        BY <1>2, <2>2 DEF Inv, Finding, Awaiting, UndisturbedChoice,
                          vars, browser, find, outcome
<1> QED
    BY <1>1, <1>2

THEOREM Invariance == Spec => []Inv
BY InitInv, NextInv, PTL DEF Spec

\* The results on the screen are those of the query and of the directory shown,
\* whatever answers to earlier searches or of earlier pickers arrive:
\* applyFuzzyMatches compares all three, and all that changes the query or the
\* directory drops the results.
THEOREM ResultsAreCurrent == Spec => []MatchesAreCurrent
<1>1. Inv => MatchesAreCurrent
    BY DEF Inv, Finding, MatchesAreCurrent
<1> QED
    BY <1>1, Invariance, PTL

\* A picker that says it is searching has its answer under way, and the answer is
\* one it will take: nothing but the answer, a new query, or leaving the picker
\* can end the search (refreshFuzzyMatches, applyFuzzyMatches).
THEOREM SearchesAreAnswered == Spec => []SearchAnswered
<1>1. Inv => SearchAnswered
    BY DEF Inv, Finding, Awaiting, SearchAnswered
<1> QED
    BY <1>1, Invariance, PTL

\* A picker of files returns the entry that was shown where Enter was pressed, in
\* the list or among the results that activateFuzzyMatch counts off again, for
\* any number of files, as long as nothing disturbed the picker.
THEOREM ChoiceIsWhatWasShown == Spec => []UndisturbedChoice
<1>1. Inv => UndisturbedChoice
    BY DEF Inv
<1> QED
    BY <1>1, Invariance, PTL
=============================================================================
