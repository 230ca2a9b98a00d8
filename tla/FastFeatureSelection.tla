------------------------- MODULE FastFeatureSelection -------------------------
(***************************************************************************)
(* FastFeatureSelection (selection.cpp), the driver main() runs: the       *)
(* greedy loop of FeatureSelection with the TCachingBinScorer, stopping   *)
(* after featureCount features.                                            *)
(*                                                                         *)
(* Each iteration scans the disabled bins with ParallelMaxElementBy: one   *)
(* task per bin on a pool of threadCount threads, each calling             *)
(* binScorer.Evaluate(bg, bin, stepCount).  The tasks only read bg and    *)
(* each writes only Cache[bin], so a task is one atomic step             *)
(* (EvaluateBin) and the tasks of an iteration interleave in any order.   *)
(* When all are done the results are reduced by position (SelectBest).    *)
(***************************************************************************)
EXTENDS CachingBinScorer, Functions

CONSTANTS
    EvalStepCount,          \* options.EvalStepCount (-t)
    FeatureCountToSelect    \* options.FeatureCountToSelect (--select-count)

ASSUME EvalStepCount \in Nat \ {0}
ASSUME FeatureCountToSelect \in Nat \ {0}
ASSUME BinCount > 0 /\ GetFeatureCount > 0

VARIABLES
    seed,       \* the sample data of label and features
    bg,         \* the driver's TBackground
    cache,      \* TCachingBinScorer::Cache
    pending,    \* bins whose Evaluate task of this iteration has not run
    selected,   \* the feature indexes passed to onFeatureSelected
    phase       \* "start", "scan", "done" or "aborted"

vars == <<seed, bg, cache, pending, selected, phase>>

\* Min(featureCount, features.GetFeatureCount()) - 1
FeaturesToSelectCount ==
    (IF FeatureCountToSelect < GetFeatureCount
        THEN FeatureCountToSelect ELSE GetFeatureCount) - 1

\* The kernel's Min(bg.EnabledBinIndexes().ysize(), evalStepCount)
StepCount(background) ==
    IF Cardinality(background.on) < EvalStepCount
       THEN Cardinality(background.on) ELSE EvalStepCount

\* bg.DisabledBinIndexes(): the bins the scan evaluates, in order.
ScanCandidatesAll(background) == BinIndexesOf(Bins)

ScanCandidates(background) == BinIndexesOf(DisabledBinIndexes(background))

\* The scan list taken from the background before the new feature.
StartIterationStaleBg(newBg, sel) ==
    IF Len(sel) - 1 < FeaturesToSelectCount
       THEN /\ pending' = DisabledBinIndexes(bg)
            /\ phase' = "scan"
       ELSE /\ pending' = {}
            /\ phase' = "done"

\* One iteration too many.
StartIterationOffByOne(newBg, sel) ==
    IF Len(sel) - 1 <= FeaturesToSelectCount
       THEN /\ pending' = DisabledBinIndexes(newBg)
            /\ phase' = "scan"
       ELSE /\ pending' = {}
            /\ phase' = "done"

\* Entering the loop body for step = Len(sel) - 1, or leaving the loop.
StartIteration(newBg, sel) ==
    IF Len(sel) - 1 < FeaturesToSelectCount
       THEN /\ pending' = DisabledBinIndexes(newBg)
            /\ phase' = "scan"
       ELSE /\ pending' = {}
            /\ phase' = "done"

Init ==
    /\ seed \in Seeds
    /\ bg = NewBackground
    /\ cache = [b \in Bins |-> EmptyScore]
    /\ pending = {}
    /\ selected = <<>>
    /\ phase = "start"

\* Disable all, enable the feature of the bin with the highest mutual
\* information with the label, emit it, build the scorer, enter the loop.
SelectFirst ==
    /\ phase = "start"
    /\ LET f   == GetFeatureIndexByBinIndex(BinWithMaximalMutualInformation(seed))
           bg1 == SetFeatureEnabled(DisableAll(bg), f, TRUE)
       IN  /\ bg' = bg1
           /\ selected' = <<f>>
           /\ StartIteration(bg1, <<f>>)
    /\ UNCHANGED <<seed, cache>>

\* One task of the scan: the kernel for one disabled bin.  An exception
\* in the task is rethrown by the future's Get() and ends the program.
EvaluateBin(b) ==
    /\ phase = "scan"
    /\ b \in pending
    /\ LET r == Evaluate(seed, bg, b, StepCount(bg), cache[b])
       IN  \/ /\ pending' = pending \ {b}
              /\ r.ok
              /\ cache' = [cache EXCEPT ![b] = r.entry]
              /\ UNCHANGED phase
           \/ /\ phase' = "aborted"
              /\ ~r.ok
              /\ UNCHANGED <<cache, pending>>
    /\ UNCHANGED <<seed, bg, selected>>

\* The reduction: the first disabled bin of highest cached score.
BestScannedMin(cands) ==
    cands[ParallelMinElementBy([i \in DOMAIN cands |-> cache[cands[i]].score])]

BestScanned(cands) ==
    cands[ParallelMaxElementBy([i \in DOMAIN cands |-> cache[cands[i]].score])]

\* The reduction of the scan, then the rest of the loop body.
SelectBest ==
    /\ phase = "scan"
    /\ pending = {}
    /\ LET cands == ScanCandidates(bg)
       IN  IF cands = <<>>
              THEN /\ phase' = "aborted"          \* Y_VERIFY(bestBinIter != end)
                   /\ UNCHANGED <<bg, selected, pending>>
              ELSE LET best == BestScanned(cands)
                       f    == GetFeatureIndexByBinIndex(best)
                       bg1  == SetFeatureEnabled(bg, f, TRUE)
                   IN  /\ bg' = bg1
                       /\ selected' = Append(selected, f)
                       /\ StartIteration(bg1, Append(selected, f))
    /\ UNCHANGED <<seed, cache>>

Next ==
    \/ SelectFirst
    \/ \E b \in Bins : EvaluateBin(b)
    \/ SelectBest

(***************************************************************************)
(* Every path of the driver is finite (each step either finishes a task   *)
(* or selects a feature), and it waits on nothing but its own tasks, so   *)
(* the only fairness needed is that it does not stop while it can move.   *)
(***************************************************************************)
Spec == Init /\ [][Next]_vars /\ WF_vars(Next)

-----------------------------------------------------------------------------

TypeOK ==
    /\ seed \in Seeds
    /\ bg.on \subseteq Bins
    /\ pending \subseteq DisabledBinIndexes(bg)
    /\ \A b \in Bins : DOMAIN cache[b] = {"score", "max", "min"}
    /\ selected \in Seq(Features)
    /\ phase \in {"start", "scan", "done", "aborted"}

(***************************************************************************)
(* Caching equivalence (spec 8.6, caching_bin_scorer_ut.cpp): every bin    *)
(* evaluated in the current iteration holds in Cache exactly the TBinScore *)
(* the non-caching eval scorer computes from scratch on the same           *)
(* background and step count: the same maximize steps, the same minimize   *)
(* steps and the same score.  It takes a sequence of iterations in which  *)
(* the cache is reused across a growing background to break it.            *)
(***************************************************************************)
CacheMatchesEvalScorer ==
    phase = "scan" =>
        \A b \in DisabledBinIndexes(bg) \ pending :
            LET ref == EvalScore(seed, bg, b, StepCount(bg))
            IN  /\ ref.ok
                /\ cache[b] = [score |-> ref.score, max |-> ref.max, min |-> ref.min]

(***************************************************************************)
(* The driver never aborts: no Evaluate throws or fails its Y_VERIFY, and *)
(* the scan never runs out of disabled bins before featureCount features   *)
(* are selected.                                                           *)
(***************************************************************************)
NeverAborts == phase # "aborted"

(***************************************************************************)
(* Spec 8.10: no feature is emitted twice.  The scan only looks at        *)
(* disabled bins, and a selected feature is enabled whole, so a later     *)
(* iteration cannot pick a bin of a feature already emitted.              *)
(***************************************************************************)
NoDuplicateFeatures ==
    \A i, j \in DOMAIN selected : i # j => selected[i] # selected[j]

(***************************************************************************)
(* Spec 8.10: the run ends with exactly Min(featureCount, F) features     *)
(* emitted.                                                                *)
(***************************************************************************)
SelectsRequestedCount ==
    <>(phase = "done" /\ Len(selected) = FeaturesToSelectCount + 1)

(***************************************************************************)
(* The steps of every score evaluated in this iteration are real and     *)
(* distinct: no step still holds a resize or Fill sentinel (-1), the bins *)
(* of the maximize steps are pairwise distinct, and so are those of the   *)
(* minimize steps.  For the maximize steps Evaluate relies on the "dirty  *)
(* hack" that erases earlier helpers from enabledBins                     *)
(* (caching_bin_scorer.cpp:53), since a pool reset widens binsToProcess   *)
(* back to the whole background; it must hold whichever of several       *)
(* equal-CMI bins a step keeps.                                            *)
(***************************************************************************)
CachedStepsUseDistinctBins ==
    phase = "scan" =>
        \A b \in DisabledBinIndexes(bg) \ pending :
            LET maxBins == [i \in DOMAIN cache[b].max |-> cache[b].max[i].bin]
                minBins == [i \in DOMAIN cache[b].min |-> cache[b].min[i].bin]
            IN  /\ IsInjective(maxBins)
                /\ IsInjective(minBins)
                /\ Range(maxBins) \cup Range(minBins) \subseteq Bins

(***************************************************************************)
(* FastFeatureSelection implements FeatureSelection (selection_ut.cpp,     *)
(* FastIsOK): under the mapping below every step of the fast driver is a  *)
(* step of the reference driver or leaves it unchanged, so with            *)
(* featureCount at least the feature count it emits the same features in  *)
(* the same order.  The scan's Evaluate tasks are stuttering steps of the *)
(* reference, whose one SelectNext step scores all bins afresh.  This is  *)
(* the safety part of Reference!Spec; that the fast driver gets to "done" *)
(* is SelectsRequestedCount.                                               *)
(***************************************************************************)
Reference == INSTANCE FeatureSelection
    WITH phase <- IF phase = "scan" THEN "loop" ELSE phase

ImplementsFeatureSelection ==
    Reference!Init /\ [][Reference!Next]_Reference!vars

=============================================================================
