----------------------------- MODULE FeatureScore -----------------------------
(***************************************************************************)
(* The scoring entry points of the library besides the selection drivers: *)
(* the EFAM and BTM bin scorers (bin_score.cpp), GetFeatureScore and       *)
(* GetCmimScore (feature_score.cpp).  Each call is a pure function of the *)
(* sample data and of the background it is handed by value, so one state  *)
(* of this module is a background and the result of the last call.        *)
(* Scores are not normalised (EBinScoreNormalization::None).               *)
(***************************************************************************)
EXTENDS Miximizer, SequencesExt

CONSTANT StepCount     \* the stepCount the scorers are built with

ASSUME StepCount \in Nat \ {0}

VARIABLES
    seed,       \* the sample data of label and features
    bg,         \* the background handed to the call
    result      \* the call made and what it returned

vars == <<seed, bg, result>>

NoResult == [call |-> "none"]

Scorers == {"eval", "efam", "btm"}

\* GetScoreWithEvalFeatureAwareMaximization: the eval bin's whole feature
\* is enabled for the maximize phase and disabled for the minimize phase.
GetScoreWithEvalFeatureAwareMaximization(s, background, evalBin, maxSteps, minSteps) ==
    LET f     == GetFeatureIndexByBinIndex(evalBin)
        bgMax == SetFeatureEnabled(background, f, TRUE)
        bgMin == SetFeatureEnabled(bgMax, f, FALSE)
    IN  IF evalBin \notin Bins THEN Failed
        ELSE TwoPhaseScore(s, bgMax, bgMin, evalBin, maxSteps, minSteps)

\* GetScoreWithBtm: every bin is enabled for the maximize phase; only the
\* eval bin is disabled for the minimize phase.  GetBin checks the index.
GetScoreWithBtm(s, background, evalBin, maxSteps, minSteps) ==
    IF evalBin \notin Bins THEN Failed
    ELSE TwoPhaseScore(s, EnabledAll(background),
                       SetBinEnabled(background, evalBin, FALSE),
                       evalBin, maxSteps, minSteps)

\* The three IBinScorers, built with (stepCount - 1, stepCount).
BinScorer(kind, s, background, b) ==
    CASE kind = "eval" -> GetBinScore(s, background, b, StepCount - 1, StepCount)
      [] kind = "efam" -> GetScoreWithEvalFeatureAwareMaximization(
                              s, background, b, StepCount - 1, StepCount)
      [] kind = "btm"  -> GetScoreWithBtm(s, background, b, StepCount - 1, StepCount)

(***************************************************************************)
(* GetFeatureScore: every bin of the feature is scored on the same         *)
(* background (the scorer takes it by value) and the feature's score is    *)
(* the highest.  A throwing scorer ends the call; for a feature with no    *)
(* bins MaxElementBy returns end() of an empty vector and its dereference  *)
(* crashes.                                                                *)
(***************************************************************************)
GetFeatureScore(s, background, f, kind) ==
    LET bins   == BinIndexesOf(GetFeatureBinIndexes(f))
        scores == [i \in DOMAIN bins |-> BinScorer(kind, s, background, bins[i])]
    IN  IF bins = <<>> THEN [ok |-> FALSE, crashed |-> TRUE]
        ELSE IF \E i \in DOMAIN scores : ~scores[i].ok THEN Failed
        ELSE [ok |-> TRUE, scores |-> scores,
              score |-> scores[ParallelMaxElementBy(
                            [i \in DOMAIN scores |-> scores[i].score])].score]

(***************************************************************************)
(* GetCmimScore: the label is the first variable and the feature's bins   *)
(* the second; the kernel adds a feature's bins as conditions.  The       *)
(* feature is disabled and the kernel minimised over the features still   *)
(* enabled.  The result takes the position of the minimum in that list    *)
(* (bestFeatureIter - searchRange.begin()) as the feature index, and      *)
(* recomputes the kernel of that index.                                    *)
(***************************************************************************)
CmimKernel(s, f, g) == CmiOf(s, GetFeatureBinIndexes(f), GetFeatureBinIndexes(g))

GetCmimScore(s, background, f) ==
    LET searchRange == EnabledFeatureIndexes(SetFeatureEnabled(background, f, FALSE))
        best == ParallelMinElementBy([i \in DOMAIN searchRange |->
                                         CmimKernel(s, f, searchRange[i])])
    IN  IF best = 0 THEN [score |-> 0, index |-> 0]
        ELSE [score |-> CmimKernel(s, f, best - 1), index |-> best - 1]

Init ==
    /\ seed \in Seeds
    /\ bg \in {[on |-> S, last |-> <<0, 0>>] : S \in SUBSET Bins}
    /\ result = NoResult

\* GetFeatureScore(bg, f, *scorer, None).
ScoreFeature(f, kind) ==
    /\ result = NoResult
    /\ result' = [call |-> "feature", feature |-> f, scorer |-> kind,
                  value |-> GetFeatureScore(seed, bg, f, kind)]
    /\ UNCHANGED <<seed, bg>>

\* GetCmimScore(label, bg, f, threadCount).
CmimScore(f) ==
    /\ result = NoResult
    /\ result' = [call |-> "cmim", feature |-> f, value |-> GetCmimScore(seed, bg, f)]
    /\ UNCHANGED <<seed, bg>>

Next ==
    \/ \E f \in Features, kind \in Scorers : ScoreFeature(f, kind)
    \/ \E f \in Features : CmimScore(f)

Spec == Init /\ [][Next]_vars
-----------------------------------------------------------------------------

(***************************************************************************)
(* TCmimScore (feature_score.h): MinimizingFeatureIndex is the enabled    *)
(* feature, other than the one scored, whose bins as condition give the   *)
(* least CMI, and Score is that CMI.                                       *)
(***************************************************************************)
CmimScoreIsMinimum ==
    result.call = "cmim" =>
        LET f     == result.feature
            range == Range(EnabledFeatureIndexes(SetFeatureEnabled(bg, f, FALSE)))
            v     == result.value
        IN  range # {} =>
                /\ v.index \in range
                /\ v.score = CmimKernel(seed, f, v.index)
                /\ \A g \in range : v.score <= CmimKernel(seed, f, g)

(***************************************************************************)
(* A scoring call throws only for want of bins (spec 4.3: a phase "fails  *)
(* if fewer than k bins are enabled"), and then for the whole feature:    *)
(* GetFeatureScore returns a score exactly when, for every bin of the     *)
(* feature, the background the policy hands the maximize phase has        *)
(* StepCount - 1 enabled bins and the one it hands the minimize phase has  *)
(* StepCount.  The eval scorer maximizes over the caller's bins and the   *)
(* eval bin and minimizes without the eval bin's feature; EFAM maximizes  *)
(* over the caller's bins and the whole feature; BTM maximizes over every *)
(* bin and minimizes without the eval bin only.  The Y_ENSUREs of         *)
(* miximizers.cpp (lines 18 and 47) and the policies of bin_score.cpp     *)
(* together decide it.                                                     *)
(***************************************************************************)
ScoreFailsOnlyWithoutEnoughBins ==
    result.call = "feature" =>
        LET f              == result.feature
            own            == GetFeatureBinIndexes(f)
            MaxView(b)     == CASE result.scorer = "eval" -> bg.on \cup {b}
                                [] result.scorer = "efam" -> bg.on \cup own
                                [] result.scorer = "btm"  -> Bins
            MinView(b)     == IF result.scorer = "btm" THEN bg.on \ {b}
                              ELSE bg.on \ own
            Enough(b)      == /\ Cardinality(MaxView(b)) >= StepCount - 1
                              /\ Cardinality(MinView(b)) >= StepCount
        IN  result.value.ok <=> (own # {} /\ \A b \in own : Enough(b))

====
