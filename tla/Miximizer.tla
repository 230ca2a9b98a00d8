------------------------------ MODULE Miximizer ------------------------------
(***************************************************************************)
(* TParallelMiximizer (miximizers.cpp) and the eval bin scorer built on it *)
(* (GetBinScore / BuildBinScorerForEval in bin_score.cpp).                 *)
(*                                                                         *)
(* Every operator is a pure function of the sample data (the seed) and    *)
(* the background it is handed; a failed Y_ENSURE is the record Failed.   *)
(***************************************************************************)
EXTENDS CmiCalculator, Algorithm

\* TStepResult
Step(b, v) == [bin |-> b, cmi |-> v]

Failed == [ok |-> FALSE]

\* The loop of DoMaximizePhase: pick the enabled bin of highest CMI as a
\* condition, disable it in the local copy, fold it into the calculator.
\* The pass state [calc, on, steps] is bound to a value (s) before use, so
\* TLC evaluates each pass once.
MaximizePass(s) ==
    LET cands == BinIndexesOf(s.on)
        best  == cands[ParallelMaxElementBy(
                     [i \in DOMAIN cands |-> GetValueWithConditionBin(s.calc, cands[i])])]
    IN  [calc  |-> AddConditionBin(s.calc, best),
         on    |-> s.on \ {best},
         steps |-> Append(s.steps, Step(best, GetValueWithConditionBin(s.calc, best)))]

RECURSIVE MaximizeSteps(_, _)
MaximizeSteps(st, n) ==
    CHOOSE r \in {IF n = 0 THEN s ELSE MaximizeSteps(MaximizePass(s), n - 1) :
                     s \in {st}} : TRUE

\* The phase's result, or Failed when an AddBin of its calculator aborted.
PhaseResult(s) ==
    IF BinCountFits(s.calc) THEN [ok |-> TRUE, steps |-> s.steps] ELSE Failed

DoMaximizePhase(seed, bg, evalBin, maxSteps) ==
    IF Cardinality(bg.on) < maxSteps THEN Failed
    ELSE PhaseResult(MaximizeSteps([calc  |-> AddSecondVariableBin(NewCmi(seed), evalBin),
                                    on    |-> bg.on,
                                    steps |-> <<>>], maxSteps))

\* The loop of DoMinimizePhase: pick the enabled bin of lowest CMI, disable
\* it, fold it in as a condition and, while there are maximize steps left,
\* fold the maximize step of the same index in as a second variable.
MinimizePass(s, maxSteps, step) ==
    LET cands == BinIndexesOf(s.on)
        best  == cands[ParallelMinElementBy(
                     [i \in DOMAIN cands |-> GetValueWithConditionBin(s.calc, cands[i])])]
        cond  == AddConditionBin(s.calc, best)
    IN  [calc  |-> IF step < Len(maxSteps)
                      THEN AddSecondVariableBin(cond, maxSteps[step + 1].bin)
                      ELSE cond,
         on    |-> s.on \ {best},
         steps |-> Append(s.steps, Step(best, GetValueWithConditionBin(s.calc, best)))]

RECURSIVE MinimizeSteps(_, _, _, _)
MinimizeSteps(st, maxSteps, step, n) ==
    CHOOSE r \in {IF step = n THEN s
                  ELSE MinimizeSteps(MinimizePass(s, maxSteps, step), maxSteps, step + 1, n) :
                     s \in {st}} : TRUE

\* Y_ENSURE(enabled > MinSteps): one bin too many required.
DoMinimizePhaseOffByOne(seed, bg, evalBin, maxSteps, minSteps) ==
    IF Cardinality(bg.on) <= minSteps THEN Failed
    ELSE PhaseResult(MinimizeSteps([calc  |-> AddSecondVariableBin(NewCmi(seed), evalBin),
                                    on    |-> bg.on,
                                    steps |-> <<>>], maxSteps, 0, minSteps))

DoMinimizePhase(seed, bg, evalBin, maxSteps, minSteps) ==
    IF Cardinality(bg.on) < minSteps THEN Failed
    ELSE PhaseResult(MinimizeSteps([calc  |-> AddSecondVariableBin(NewCmi(seed), evalBin),
                                    on    |-> bg.on,
                                    steps |-> <<>>], maxSteps, 0, minSteps))

\* The two phases of a bin scorer: maximize on bgMax, then minimize on bgMin
\* against the maximize steps; the score is the CMI of the last minimize step.
TwoPhaseScore(seed, bgMax, bgMin, evalBin, maxSteps, minSteps) ==
    CHOOSE r \in
      {IF ~maxR.ok THEN Failed
       ELSE CHOOSE r2 \in
              {IF ~minR.ok THEN Failed
               ELSE [ok    |-> TRUE,
                     score |-> minR.steps[Len(minR.steps)].cmi,
                     max   |-> maxR.steps,
                     min   |-> minR.steps] :
                  minR \in {DoMinimizePhase(seed, bgMin, evalBin, maxR.steps, minSteps)}} : TRUE :
         maxR \in {DoMaximizePhase(seed, bgMax, evalBin, maxSteps)}} : TRUE

(***************************************************************************)
(* GetBinScore: enable the eval bin for the maximize phase, disable its    *)
(* whole feature for the minimize phase.  BuildBinScorerForEval(label,     *)
(* stepCount - 1, stepCount) is the scorer the selection drivers use.      *)
(***************************************************************************)
GetBinScore(seed, background, evalBin, maxSteps, minSteps) ==
    LET bgMax == SetBinEnabled(background, evalBin, TRUE)
        bgMin == SetFeatureEnabled(bgMax, GetFeatureIndexByBinIndex(evalBin), FALSE)
    IN  IF evalBin \notin Bins THEN Failed
        ELSE TwoPhaseScore(seed, bgMax, bgMin, evalBin, maxSteps, minSteps)

\* GetBinWithMaximalMutualInformationWithLabel (selection.cpp)
BinWithMaximalMutualInformation(s) ==
    LET cands == BinIndexesOf(Bins)
    IN  cands[ParallelMaxElementBy(
                  [i \in DOMAIN cands |-> GetValueWithSecondVariableBin(s, cands[i])])]

EvalScore(seed, background, evalBin, stepCount) ==
    GetBinScore(seed, background, evalBin, stepCount - 1, stepCount)

=============================================================================
