----------------------------- MODULE Benchmark -----------------------------
(***************************************************************************)
(* Service.Benchmark and Service.Recommend: every combination of a codec   *)
(* and a cipher is tried in a fixed order, successes and failures are      *)
(* collected, the report is published if one was asked for, and a          *)
(* recommendation is the success with the best score.  The user may cancel *)
(* at any time.  Codecs and ciphers are numbered as their names are        *)
(* sorted; the order in which they are tried is another.                   *)
(***************************************************************************)
EXTENDS Integers, SequencesExt

CONSTANTS Codecs, Ciphers,   \* in the order of AllCodecs and AllCipherIDs
          Durations, Sizes,  \* that a trial may take and give
          OriginalSize,
          Weight             \* of the ratio against the duration (1e9)

ConstantsAssumption ==
    /\ Codecs \in Seq(Nat) /\ IsInjective(Codecs)
    /\ Ciphers \in Seq(Nat) /\ IsInjective(Ciphers)
    /\ Durations \subseteq Nat /\ Sizes \subseteq Nat
    /\ OriginalSize \in Nat /\ Weight \in Nat

VARIABLES
    goal,      \* the goal of a recommendation, or "report" or "none"
    phase,        \* "validate", "try", "report", "returned", "answered"
    index,        \* of the next combination
    cancelled,
    successes, failures,
    reported,    \* the report at the output path
    err,          \* what Benchmark returned: "nil" or the first error
    answer        \* what Recommend returned

vars == <<goal, phase, index, cancelled, successes, failures, reported, err, answer>>

Goals == {"balanced", "size", "protect-speed", "restore-speed"}
NoAnswer == [ok |-> FALSE]
NoReport == [there |-> FALSE]

\* Faulty: the ciphers of the last codec are left out.
AllButLast ==
    [i \in 1..((Len(Codecs) - 1) * Len(Ciphers)) |->
        [codec |-> Codecs[((i - 1) \div Len(Ciphers)) + 1],
         cipher |-> Ciphers[((i - 1) % Len(Ciphers)) + 1]]]

\* report.AllCombinations.
AllCombinations ==
    [i \in 1..(Len(Codecs) * Len(Ciphers)) |->
        [codec |-> Codecs[((i - 1) \div Len(Ciphers)) + 1],
         cipher |-> Ciphers[((i - 1) % Len(Ciphers)) + 1]]]

\* float64(originalSize) / float64(finalSize), and none of nothing.
Ratio(size) == IF size > 0 THEN OriginalSize \div size ELSE 0

-----------------------------------------------------------------------------
(* Benchmark. *)

Return(e) == phase' = "returned" /\ err' = e

\* The source and the output path are checked; what is there is not replaced.
Validate ==
    /\ phase = "validate"
    /\ \/ phase' = "try" /\ UNCHANGED err
       \/ Return("invalid")
       \/ cancelled /\ Return("cancelled")
    /\ UNCHANGED <<goal, index, cancelled, successes, failures, reported, answer>>

\* A trial of a cancelled benchmark fails unless it was about to end.
Try ==
    /\ phase = "try" /\ index <= Len(AllCombinations) /\ ~cancelled
    /\ LET c == AllCombinations[index] IN
       \/ /\ \E d \in Durations, n \in Sizes :
                successes' = Append(successes, [combination |-> c, duration |-> d, size |-> n,
                                                ratio |-> Ratio(n)])
          /\ UNCHANGED failures
       \/ failures' = Append(failures, c) /\ UNCHANGED successes
    /\ index' = index + 1
    /\ cancelled' \in BOOLEAN
    /\ UNCHANGED <<goal, phase, reported, err, answer>>

TryCancelled ==
    /\ phase = "try" /\ index <= Len(AllCombinations) /\ cancelled
    /\ Return("cancelled")
    /\ UNCHANGED <<goal, index, cancelled, successes, failures, reported, answer>>

\* The report of all combinations is published, unless a cancellation or another
\* error prevents it; the workspace may fail to close after that.
WriteReport ==
    /\ phase = "try" /\ index > Len(AllCombinations)
    /\ LET outcome(reportErr) ==
              Return(IF successes = <<>> THEN "no success" ELSE reportErr)
       IN
       \/ /\ goal = "report" /\ ~cancelled
          /\ reported' = [there |-> TRUE, successes |-> successes, failures |-> failures]
          /\ outcome("nil") \/ outcome("report")
       \/ /\ goal = "report"
          /\ outcome("report") /\ UNCHANGED reported
       \/ /\ goal # "report"
          /\ outcome("nil") /\ UNCHANGED reported
    /\ UNCHANGED <<goal, index, cancelled, successes, failures, answer>>

-----------------------------------------------------------------------------
(* Recommend. *)

Score(x) ==
    CASE goal = "size" -> 0 - x.size
      [] goal \in {"protect-speed", "restore-speed"} -> 0 - x.duration
      [] OTHER -> x.ratio * Weight - x.duration

Before(a, b) == a.codec < b.codec \/ (a.codec = b.codec /\ a.cipher < b.cipher)

\* Faulty: the successes stay in the order in which they were tried.
AsTried(xs) == {xs}

\* What sort.Slice may make of them: every one of them once, and none after one that
\* it is to come before.
Sorted(xs) ==
    LET InOrder(p) == \A i, j \in DOMAIN xs :
            i < j => ~Before(xs[p[j]].combination, xs[p[i]].combination)
    IN  {[i \in DOMAIN xs |-> xs[p[i]]] :
            p \in {p \in Bijection(DOMAIN xs, DOMAIN xs) : InOrder(p)}}

\* The loop over the sorted successes.
Best(xs) ==
    LET best[i \in 1..Len(xs)] ==
            IF i = 1 THEN xs[1]
            ELSE IF Score(xs[i]) > Score(best[i - 1]) THEN xs[i]
            ELSE best[i - 1]
    IN  best[Len(xs)]

\* An error of the benchmark counts only when nothing succeeded before it.
Recommend ==
    /\ phase = "returned" /\ goal \in Goals
    /\ phase' = "answered"
    /\ IF successes = <<>> THEN answer' = NoAnswer
       ELSE \E xs \in Sorted(successes) :
               answer' = [ok |-> TRUE, combination |-> Best(xs).combination]
    /\ UNCHANGED <<goal, index, cancelled, successes, failures, reported, err>>

Cancel ==
    /\ phase \in {"validate", "try"} /\ ~cancelled
    /\ cancelled' = TRUE
    /\ UNCHANGED <<goal, phase, index, successes, failures, reported, err, answer>>

-----------------------------------------------------------------------------
InitWith(goals) ==
    /\ goal \in goals
    /\ phase = "validate" /\ index = 1 /\ cancelled = FALSE
    /\ successes = <<>> /\ failures = <<>>
    /\ reported = NoReport /\ err = "nil" /\ answer = NoAnswer

Init == InitWith(Goals \cup {"report", "none"})

Next == Validate \/ Try \/ TryCancelled \/ WriteReport \/ Recommend \/ Cancel

Spec == Init /\ [][Next]_vars

-----------------------------------------------------------------------------
(* Properties. *)

Combinations == {[codec |-> c, cipher |-> x] : c \in ToSet(Codecs), x \in ToSet(Ciphers)}

Tried(ss, fs) == {s.combination : s \in ToSet(ss)} \cup ToSet(fs)

\* Every combination is among them, and none twice.
Complete(ss, fs) ==
    /\ Tried(ss, fs) = Combinations
    /\ IsInjective([i \in DOMAIN ss |-> ss[i].combination]) /\ IsInjective(fs)
    /\ \A s \in ToSet(ss) : s.combination \notin ToSet(fs)

\* A benchmark that returns no error, and a report that is published even though
\* it ends with one, account for every combination exactly once, however many
\* trials failed and wherever it was cancelled (benchmark.go:47-91).
ReportIsComplete ==
    /\ phase \in {"returned", "answered"} /\ err = "nil" =>
           Complete(successes, failures) /\ successes # <<>>
    /\ reported.there => Complete(reported.successes, reported.failures)
    /\ goal = "report" /\ phase = "returned" /\ err = "nil" => reported.there

\* The recommended combination is one that was tried and succeeded, none that did
\* has a better score, and among equals it is the first by name: the answer does
\* not depend on the order of the trials (recommend.go:44-74).
RecommendationIsBest ==
    answer.ok => \E x \in ToSet(successes) :
        /\ x.combination = answer.combination
        /\ \A y \in ToSet(successes) :
              \/ Score(y) < Score(x)
              \/ Score(y) = Score(x) /\ ~Before(y.combination, x.combination)

\* A benchmark accounts for everything and is judged on all of it.
BenchmarkIsComplete == ReportIsComplete /\ RecommendationIsBest
=============================================================================
