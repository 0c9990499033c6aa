\* Two pickers, a file that may exist in each of two directories, two changes
\* of the query, two messages under way, one change of the files.
CONSTANTS
    Top = Top
    Sub = Sub
    Nowhere = Nowhere
    Files = {1}
    Queries = {q1, q2}
    Blank = Blank
    MaxPickers = 2
    MaxGenerations = 2
    MaxPending = 2
    MaxChanges = 1
SPECIFICATION Spec
INVARIANTS MatchesAreCurrent SearchAnswered UndisturbedChoice
CHECK_DEADLOCK FALSE
