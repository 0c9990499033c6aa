------------------------------- MODULE Picker -------------------------------
(***************************************************************************)
(* The file picker of the interface (tui.pickerState around the bubbles    *)
(* filepicker) and its fuzzy find.  Directories are read by commands whose *)
(* answers arrive later, while the user goes on, closes the picker, opens  *)
(* another, or other programs change the files.  A key that needs a        *)
(* listing is ignored until the picker is ready; an answer to a search is  *)
(* dropped unless it is to the search that was asked last.                 *)
(*                                                                         *)
(* There is one directory, Sub, below the first, Top; files are numbers in *)
(* the order of their names, and directories are listed before files.      *)
(***************************************************************************)
EXTENDS Naturals, FiniteSets, Sequences, SequencesExt

CONSTANTS Top, Sub,
          Nowhere,         \* a path that does not exist
          Files,           \* the numbers of the files that may exist
          Queries,         \* what may be typed to find a file
          Blank,           \* the empty query
          MaxPickers,      \* bound: pickers opened in one session
          MaxGenerations,  \* bound: changes of the query in one picker
          MaxPending,      \* bound: commands and messages under way
          MaxChanges       \* bound: changes of the files by other programs

ASSUME ConstantsAssumption ==
    /\ Files \subseteq Nat /\ Blank \notin Queries
    /\ MaxPickers \in Nat \ {0} /\ MaxGenerations \in Nat
    /\ MaxPending \in Nat \ {0} /\ MaxChanges \in Nat

Dirs == {Top, Sub}
Places == Dirs \cup {Nowhere}
NoFile == <<Nowhere, Nowhere>>
Shown(path, found) == [path |-> path, found |-> found]

VARIABLES
    disk,         \* the files of each directory
    opened,       \* the number of pickers opened; the last one has this id
    open,
    allowed,      \* what may be chosen: FileAllowed, DirAllowed
    dir,          \* CurrentDirectory
    files, from,  \* the entries shown, and (history) where they were read
    ready, filtering, query, generation, searching,
    matches,      \* the result of a search, kept with what was searched
    msgs,         \* commands not yet run and messages not yet handled
    chosen,       \* the path the picker returned
    meant,        \* history: what was shown where the user pressed Enter, and
                  \* whether fuzzy find showed it
    changes,
    disturbed     \* history: the files have changed, or a message other than the
                  \* listing awaited has made the picker ready

browser == <<dir, files, from, ready>>
find == <<filtering, query, generation, searching, matches>>
outcome == <<chosen, meant>>
world == <<disk, changes>>
vars == <<world, opened, open, allowed, browser, find, msgs, outcome, disturbed>>

\* os.ReadDir, sorted; it fails for a directory that does not exist.
Sorted(numbers) == SetToSortSeq(numbers, <)

Entries(d) ==
    IF d = Nowhere THEN <<>>
    ELSE (IF d = Top THEN <<Sub>> ELSE <<>>) \o Sorted(disk[d])

Listings == UNION {[1..n -> Files \cup {Sub}] : n \in 0..4}
NoMatches == [directory |-> Nowhere, query |-> Blank, entries |-> <<>>]

Init ==
    /\ disk \in [Dirs -> SUBSET Files]
    /\ opened = 0 /\ open = FALSE /\ allowed = {}
    /\ dir = Top /\ files = <<>> /\ from = Nowhere
    /\ ready = FALSE /\ filtering = FALSE /\ query = Blank /\ generation = 0
    /\ searching = FALSE /\ matches = NoMatches
    /\ msgs = {}
    /\ chosen = NoFile /\ meant = Shown(NoFile, FALSE)
    /\ changes = 0 /\ disturbed = FALSE

-----------------------------------------------------------------------------
ReadDir(d, p) == [type |-> "readDir", picker |-> p, directory |-> d]
Listing(d, p) == [type |-> "listing", picker |-> p, directory |-> d, entries |-> Entries(d)]
Failed == [type |-> "failed"]
FuzzySearch(g, d, q) == [type |-> "search", generation |-> g, directory |-> d, query |-> q]
Found(m, entries) ==
    [type |-> "found", generation |-> m.generation, directory |-> m.directory,
     query |-> m.query, entries |-> entries]

Return(path) == chosen' = path /\ open' = FALSE

\* The directory Sub of d, and whether an entry shown is still where it was read.
SubOf(d) == IF d = Top THEN Sub ELSE Nowhere
Kind(e) == IF e = Sub THEN "dir" ELSE "file"
Exists(e) == e \in ToSet(Entries(from))

-----------------------------------------------------------------------------
(* Faulty variants of the definitions below, one bug each; the properties   *)
(* must reject a specification that has one in place of what it varies.     *)

\* A directory that is entered leaves the picker ready.
ChangeDirectoryReady(d) ==
    /\ dir' = d
    /\ msgs' = msgs \cup {ReadDir(d, opened)}
    /\ UNCHANGED <<files, from, ready>>

\* Only the generation of an answer is compared.
CurrentByGeneration(m) == open /\ filtering /\ m.generation = generation

\* The command is made with the generation before the increment.
SearchOldGeneration(q) ==
    /\ query' = q /\ matches' = NoMatches /\ generation' = generation + 1
    /\ searching' = (q # Blank)
    /\ msgs' = IF q = Blank THEN msgs ELSE msgs \cup {FuzzySearch(generation, dir, q)}

-----------------------------------------------------------------------------
\* Enter into directory d; what is shown stays until the listing arrives.
ChangeDirectory(d) ==
    /\ dir' = d
    /\ ready' = (ready /\ d = dir)
    /\ msgs' = msgs \cup {ReadDir(d, opened)}
    /\ UNCHANGED <<files, from>>

-----------------------------------------------------------------------------
(* Opening a picker and its keys outside fuzzy find. *)

\* openPicker, at the path of the form's field: a source may be a file or, when
\* it is to be protected, a folder; a destination is a folder.
OpenPicker ==
    /\ ~open /\ opened < MaxPickers
    /\ open' = TRUE /\ opened' = opened + 1
    /\ allowed' \in {{"file"}, {"dir"}, {"file", "dir"}}
    /\ ready' = ("dir" \in allowed')
    /\ dir' \in Dirs
    /\ files' = <<>> /\ from' = Nowhere
    /\ filtering' = FALSE /\ query' = Blank /\ generation' = 0
    /\ searching' = FALSE /\ matches' = NoMatches
    /\ msgs' = msgs \cup {ReadDir(dir', opened')}
    /\ chosen' = NoFile /\ meant' = Shown(NoFile, FALSE)
    /\ UNCHANGED <<world, disturbed>>

\* Esc outside fuzzy find.
Close ==
    /\ open /\ ~filtering
    /\ open' = FALSE
    /\ UNCHANGED <<world, opened, allowed, browser, find, msgs, outcome, disturbed>>

\* The key s returns the folder that is shown.
ChooseFolder ==
    /\ open /\ ~filtering /\ ready /\ "dir" \in allowed
    /\ Return(<<dir, dir>>) /\ meant' = Shown(chosen', FALSE)
    /\ UNCHANGED <<world, opened, allowed, browser, find, msgs, disturbed>>

\* Enter on entry e in the filepicker, which reads the entry's status first: an
\* entry that is gone is not entered.  What may be chosen is returned; another
\* directory is opened.
Enter(e) ==
    \/ /\ Exists(e) /\ Kind(e) \in allowed
       /\ Return(<<dir, e>>)
       /\ UNCHANGED <<browser, msgs>>
    \/ /\ e = Sub /\ Exists(e) /\ "dir" \notin allowed
       /\ ChangeDirectory(SubOf(dir))
       /\ UNCHANGED <<open, chosen>>
    \/ /\ ~Exists(e) \/ (e # Sub /\ "file" \notin allowed)
       /\ UNCHANGED <<open, chosen, browser, msgs>>

\* Arrows and Enter.
EnterEntry ==
    /\ open /\ ~filtering /\ ready
    /\ \E i \in DOMAIN files : Enter(files[i]) /\ meant' = Shown(<<from, files[i]>>, FALSE)
    /\ UNCHANGED <<world, opened, allowed, find, disturbed>>

\* Right opens a directory in every picker, Left goes up.
Walk ==
    /\ open /\ ~filtering /\ ready
    /\ \/ \E i \in DOMAIN files :
             files[i] = Sub /\ ChangeDirectory(SubOf(dir))
       \/ ChangeDirectory(IF dir = Nowhere THEN Sub ELSE Top)
    /\ UNCHANGED <<world, opened, open, allowed, find, outcome, disturbed>>

-----------------------------------------------------------------------------
(* Fuzzy find. *)

\* refreshFuzzyMatches with the new value of the query.
Search(q) ==
    /\ query' = q /\ matches' = NoMatches /\ generation' = generation + 1
    /\ searching' = (q # Blank)
    /\ msgs' = IF q = Blank THEN msgs ELSE msgs \cup {FuzzySearch(generation + 1, dir, q)}

\* The key /, with text after it when it was pasted.
StartFind ==
    /\ open /\ ~filtering /\ ready /\ generation < MaxGenerations
    /\ filtering' = TRUE
    /\ \E q \in Queries \cup {Blank} : Search(q)
    /\ UNCHANGED <<world, opened, open, allowed, browser, outcome, disturbed>>

TypeQuery ==
    /\ open /\ filtering /\ generation < MaxGenerations
    /\ \E q \in (Queries \cup {Blank}) \ {query} : Search(q)
    /\ UNCHANGED <<world, opened, open, allowed, browser, filtering, outcome, disturbed>>

\* Esc empties the query first and leaves fuzzy find next.
EscFind ==
    /\ open /\ filtering
    /\ matches' = NoMatches
    /\ \/ /\ query # Blank /\ generation < MaxGenerations
          /\ query' = Blank /\ searching' = FALSE /\ generation' = generation + 1
          /\ UNCHANGED filtering
       \/ /\ query = Blank
          /\ filtering' = FALSE
          /\ UNCHANGED <<query, searching, generation>>
    /\ UNCHANGED <<world, opened, open, allowed, browser, msgs, outcome, disturbed>>

\* Going down stops at the last entry.
Selected(i) == files[IF i \in DOMAIN files THEN i ELSE Len(files)]

\* activateFuzzyMatch: the result's place in its own listing is counted off in
\* the picker's listing.
EnterMatch ==
    /\ open /\ filtering /\ ~searching
    /\ \E i \in DOMAIN matches.entries :
          /\ meant' = Shown(<<matches.directory, matches.entries[i]>>, TRUE)
          /\ IF files = <<>> THEN UNCHANGED <<open, chosen, browser, msgs>>
                             ELSE Enter(Selected(i))
    /\ filtering' = FALSE /\ matches' = NoMatches
    /\ UNCHANGED <<world, opened, allowed, query, generation, searching, disturbed>>

-----------------------------------------------------------------------------
(* Commands run, and their messages arrive. *)

\* A command reads its directory, or fails; a search that fails finds nothing.
\* (Which entries match is left open: Enter may be pressed on any.)
RunCommand(m) ==
    /\ \/ /\ m.type = "readDir"
          /\ \E answer \in {Listing(m.directory, m.picker), Failed} :
                /\ m.directory = Nowhere => answer = Failed
                /\ msgs' = (msgs \ {m}) \cup {answer}
       \/ /\ m.type = "search"
          /\ \E entries \in {Entries(m.directory), <<>>} :
                msgs' = (msgs \ {m}) \cup {Found(m, entries)}
    /\ UNCHANGED <<world, opened, open, allowed, browser, find, outcome, disturbed>>

\* A listing of this picker is shown; any message at all makes it ready.
Message(m) ==
    /\ m.type \in {"listing", "failed"}
    /\ msgs' = msgs \ {m}
    /\ IF ~open THEN UNCHANGED <<browser, disturbed>>
       ELSE /\ ready' = TRUE /\ UNCHANGED dir
            /\ IF m.type = "listing" /\ m.picker = opened
                 THEN files' = m.entries /\ from' = m.directory
                 ELSE UNCHANGED <<files, from>>
            /\ disturbed' = (disturbed \/ from' # dir)
    /\ UNCHANGED <<world, opened, open, allowed, find, outcome>>

\* A message that is not the picker's: the blinking of a cursor, the mouse.
Stray ==
    /\ open /\ ~ready
    /\ ready' = TRUE /\ disturbed' = TRUE
    /\ UNCHANGED <<world, opened, open, allowed, dir, files, from, find, msgs, outcome>>

Current(m) ==
    open /\ filtering /\ m.generation = generation /\ m.directory = dir /\ m.query = query

\* applyFuzzyMatches.
ApplyMatches(m) ==
    /\ m.type = "found"
    /\ msgs' = msgs \ {m}
    /\ IF Current(m)
         THEN /\ searching' = FALSE
              /\ matches' = [directory |-> m.directory, query |-> m.query,
                             entries |-> m.entries]
         ELSE UNCHANGED <<searching, matches>>
    /\ UNCHANGED <<world, opened, open, allowed, browser, filtering, query, generation,
                   outcome, disturbed>>

\* Another program creates or removes a file.
Change ==
    /\ changes < MaxChanges
    /\ changes' = changes + 1 /\ disturbed' = TRUE
    /\ \E d \in Dirs, f \in Files :
          disk' = [disk EXCEPT ![d] = IF f \in @ THEN @ \ {f} ELSE @ \cup {f}]
    /\ UNCHANGED <<opened, open, allowed, browser, find, msgs, outcome>>

Key ==
    OpenPicker \/ Close \/ ChooseFolder \/ EnterEntry \/ Walk
        \/ StartFind \/ TypeQuery \/ EscFind \/ EnterMatch

Next ==
    \/ Key /\ Cardinality(msgs') <= MaxPending
    \/ \E m \in msgs : RunCommand(m) \/ Message(m) \/ ApplyMatches(m)
    \/ Stray
    \/ Change

Spec == Init /\ [][Next]_vars

-----------------------------------------------------------------------------
(* Safety. *)

\* The results on the screen are those of the query, in the directory shown,
\* whatever answers to earlier searches or of earlier pickers arrive.
MatchesAreCurrent ==
    open /\ matches # NoMatches => matches.directory = dir /\ matches.query = query

\* A picker that says it is searching has its answer still to come, and it will
\* be taken: no sequence of keys leaves it searching for good.
SearchAnswered ==
    open /\ searching =>
        /\ filtering
        /\ \E m \in msgs :
              /\ m.type \in {"search", "found"}
              /\ m.generation = generation /\ m.directory = dir /\ m.query = query

\* In a picker of files the path returned is that of the entry shown, found or
\* not, as long as the files do not change, they can be read, and the message
\* that makes the picker ready is the listing it awaits (overlays.go:83-86).
UndisturbedChoice == ~disturbed /\ "dir" \notin allowed /\ chosen # NoFile => chosen = meant.path
=============================================================================
