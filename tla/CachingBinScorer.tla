--------------------------- MODULE CachingBinScorer ---------------------------
(***************************************************************************)
(* TCachingBinScorer::Evaluate (caching_bin_scorer.cpp).                  *)
(*                                                                         *)
(* The scorer keeps, per eval bin, the TBinScore of its last evaluation:   *)
(* the maximize and minimize steps and the score.  Evaluate re-searches a *)
(* step only among binsToProcess, which starts as the background's last    *)
(* enabled span; a strictly better bin at a step overwrites it, resets the *)
(* later cached steps to sentinels and widens binsToProcess to the whole   *)
(* background.  Evaluate is one call on a private copy of the background  *)
(* that touches only Cache[evalBin], so it is one pure operator here:      *)
(* it returns the new cache entry, or ok = FALSE when it throws or a       *)
(* Y_VERIFY fails.                                                         *)
(***************************************************************************)
EXTENDS Miximizer

\* A value-initialised TBinScore, as built by Cache(binCount).
EmptyScore == [score |-> 0, max |-> <<>>, min |-> <<>>]

\* The sentinels: resize() and Fill() use different "not found" values.
MaxResizeSentinel == Step(-1, -1)
MinResizeSentinel == Step(-1, 1000000)
MaxFillSentinel   == Step(-1, -1)
MinFillSentinel   == Step(-1, 100000)

\* yvector::resize(n, x)
Resize(s, n, x) ==
    IF n <= Len(s) THEN SubSeq(s, 1, n)
    ELSE s \o [i \in 1 .. n - Len(s) |-> x]

\* Fill(s.begin() + k, s.end(), x) for a 0-based k.
FillFrom(s, k, x) == [i \in DOMAIN s |-> IF i > k THEN x ELSE s[i]]

\* binsToProcess after a step: the whole background when the step found a
\* strictly better bin, else unchanged.
NextPoolKept(improved, on, pool) == pool

NextPool(improved, on, pool) == IF improved THEN on ELSE pool

\* The enabled bins suffice for stepCount steps besides the eval bin.
EnoughEnabledBinsOffByOne(bg, stepCount) == Cardinality(bg.on) > stepCount + 1

EnoughEnabledBins(bg, stepCount) == Cardinality(bg.on) >= stepCount + 1

\* Without the loop that erases the earlier helpers from enabledBins.
MaxStepNoErase(st, on, step) ==
    LET cands == BinIndexesOf(st.pool)
        vals  == [i \in DOMAIN cands |->
                     GetValueWithConditionBin(st.calc, cands[i])]
    IN  IF cands = <<>> THEN [st EXCEPT !.ok = FALSE]
        ELSE LET best     == cands[ParallelMaxElementBy(vals)]
                 binCmi   == GetValueWithConditionBin(st.calc, best)
                 improved == binCmi > st.max[step + 1].cmi
                 max2 == IF improved
                            THEN FillFrom([st.max EXCEPT ![step + 1] =
                                              Step(best, binCmi)],
                                          step + 1, MaxFillSentinel)
                            ELSE st.max
             IN  [st EXCEPT
                    !.calc = AddConditionBin(@, max2[step + 1].bin),
                    !.max  = max2,
                    !.min  = IF improved
                                THEN FillFrom(@, step + 1, MinFillSentinel)
                                ELSE @,
                    !.pool = NextPool(improved, on, @)]

(***************************************************************************)
(* One pass of the maximize loop.  st is the loop's state: the           *)
(* calculator, the cached max and min steps and binsToProcess; on is the *)
(* background with the eval bin enabled.                                   *)
(***************************************************************************)
MaxStep(st, on, step) ==
    LET helpers == {st.max[j].bin : j \in 1 .. step}
        cands   == BinIndexesOf(st.pool \ helpers)
        vals    == [i \in DOMAIN cands |->
                       GetValueWithConditionBin(st.calc, cands[i])]
    IN  IF cands = <<>> THEN [st EXCEPT !.ok = FALSE]     \* Y_VERIFY
        ELSE LET best     == cands[ParallelMaxElementBy(vals)]
                 binCmi   == GetValueWithConditionBin(st.calc, best)
                 improved == binCmi > st.max[step + 1].cmi
                 max2 == IF improved
                            THEN FillFrom([st.max EXCEPT ![step + 1] =
                                              Step(best, binCmi)],
                                          step + 1, MaxFillSentinel)
                            ELSE st.max
             IN  [st EXCEPT
                    !.calc = AddConditionBin(@, max2[step + 1].bin),
                    !.max  = max2,
                    !.min  = IF improved
                                THEN FillFrom(@, step + 1, MinFillSentinel)
                                ELSE @,
                    !.pool = NextPool(improved, on, @)]

(***************************************************************************)
(* One pass of the minimize loop; st.on is the background, from which    *)
(* every chosen bin is disabled.                                           *)
(***************************************************************************)
MinStep(st, step) ==
    LET cands == BinIndexesOf(st.pool)
        vals  == [i \in DOMAIN cands |->
                     GetValueWithConditionBin(st.calc, cands[i])]
    IN  IF cands = <<>> THEN [st EXCEPT !.ok = FALSE]     \* Y_VERIFY
        ELSE LET best     == cands[ParallelMinElementBy(vals)]
                 binCmi   == GetValueWithConditionBin(st.calc, best)
                 improved == binCmi < st.min[step + 1].cmi
                 min2 == IF improved
                            THEN FillFrom([st.min EXCEPT ![step + 1] =
                                              Step(best, binCmi)],
                                          step + 1, MinFillSentinel)
                            ELSE st.min
                 chosen == min2[step + 1].bin
                 cond   == AddConditionBin(st.calc, chosen)
             IN  [st EXCEPT
                    !.calc = IF step < Len(st.max)
                                THEN AddSecondVariableBin(cond, st.max[step + 1].bin)
                                ELSE cond,
                    !.min  = min2,
                    !.pool = NextPool(improved, st.on, st.pool) \ {chosen},
                    !.on   = st.on \ {chosen}]

(***************************************************************************)
(* The loops.  Each pass binds the loop state to a value (s) before using *)
(* it, so that TLC evaluates every pass once.                              *)
(***************************************************************************)
RECURSIVE MaxLoop(_, _, _, _)
MaxLoop(st, on, step, n) ==
    CHOOSE r \in {IF step = n \/ ~s.ok THEN s
                  ELSE MaxLoop(MaxStep(s, on, step), on, step + 1, n) : s \in {st}} :
        TRUE

RECURSIVE MinLoop(_, _, _)
MinLoop(st, step, n) ==
    CHOOSE r \in {IF step = n \/ ~s.ok THEN s
                  ELSE MinLoop(MinStep(s, step), step + 1, n) : s \in {st}} :
        TRUE

\* The end of Evaluate: the minimize phase after the maximize phase mx.
MinimizeAfter(seed, bg, evalBin, stepCount, mx) ==
    LET mn == MinLoop([ok   |-> TRUE,
                       calc |-> AddSecondVariableBin(NewCmi(seed), evalBin),
                       max  |-> mx.max,
                       min  |-> mx.min,
                       pool |-> mx.pool \ {evalBin},
                       on   |-> bg.on \ {evalBin}], 0, stepCount)
    IN  CHOOSE r \in {IF ~m.ok \/ ~BinCountFits(m.calc) THEN [ok |-> FALSE]
                      ELSE [ok    |-> TRUE,
                            entry |-> [score |-> GetValue(m.calc),
                                       max   |-> mx.max,
                                       min   |-> m.min]] : m \in {mn}} :
            TRUE

Evaluate(seed, background, evalBin, stepCount, entry) ==
    LET binsToProcess == LastEnabled(background).on
        bg == SetBinEnabled(background, evalBin, TRUE)
        mx == MaxLoop([ok   |-> TRUE,
                       calc |-> AddSecondVariableBin(NewCmi(seed), evalBin),
                       max  |-> Resize(entry.max, stepCount - 1, MaxResizeSentinel),
                       min  |-> Resize(entry.min, stepCount, MinResizeSentinel),
                       pool |-> binsToProcess], bg.on, 0, stepCount - 1)
    IN  IF evalBin \notin Bins \/ ~EnoughEnabledBins(bg, stepCount)
           THEN [ok |-> FALSE]
        ELSE CHOOSE r \in {IF ~m.ok \/ ~BinCountFits(m.calc) THEN [ok |-> FALSE]
                           ELSE MinimizeAfter(seed, bg, evalBin, stepCount, m) :
                              m \in {mx}} :
                 TRUE

=============================================================================
