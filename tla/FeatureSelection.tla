--------------------------- MODULE FeatureSelection ---------------------------
(***************************************************************************)
(* FeatureSelection (selection.cpp): the greedy driver that scores every   *)
(* disabled bin with the non-caching eval scorer and enables the feature   *)
(* of the best one, until every feature is selected.  It is the reference *)
(* FastFeatureSelection is tested against (selection_ut.cpp, FastIsOK),    *)
(* and the abstract specification FastFeatureSelection.tla refines.       *)
(*                                                                         *)
(* One iteration of the loop is one step: the scan over the disabled bins *)
(* is sequential here (MaxElementBy) and touches no shared state.          *)
(***************************************************************************)
EXTENDS Miximizer

CONSTANT EvalStepCount

ASSUME EvalStepCount \in Nat \ {0}
ASSUME BinCount > 0 /\ GetFeatureCount > 0

VARIABLES
    seed,       \* the sample data of label and features
    bg,         \* the driver's TBackground
    selected,   \* the feature indexes passed to onFeatureSelected
    phase       \* "start", "loop", "done" or "aborted"

vars == <<seed, bg, selected, phase>>

\* int stepCount = Min(bg.EnabledBinIndexes().ysize(), evalStepCount)
StepCount(background) ==
    IF Cardinality(background.on) < EvalStepCount
       THEN Cardinality(background.on) ELSE EvalStepCount

Init ==
    /\ seed \in Seeds
    /\ bg = NewBackground
    /\ selected = <<>>
    /\ phase = "start"

\* The block before the loop: disable all, enable the feature of the bin
\* with the highest mutual information with the label, emit it.
SelectFirst ==
    /\ phase = "start"
    /\ LET f == GetFeatureIndexByBinIndex(BinWithMaximalMutualInformation(seed))
       IN  /\ bg' = SetFeatureEnabled(DisableAll(bg), f, TRUE)
           /\ selected' = <<f>>
           /\ phase' = IF 0 < GetFeatureCount - 1 THEN "loop" ELSE "done"
    /\ UNCHANGED seed

\* One iteration of the loop: step = Len(selected) - 1.
SelectNext ==
    /\ phase = "loop"
    /\ LET k      == StepCount(bg)
           cands  == BinIndexesOf(DisabledBinIndexes(bg))
           scores == [i \in DOMAIN cands |-> EvalScore(seed, bg, cands[i], k)]
       IN  IF cands = <<>> \/ \E i \in DOMAIN cands : ~scores[i].ok
              THEN /\ phase' = "aborted"
                   /\ UNCHANGED <<bg, selected>>
              ELSE LET best == cands[ParallelMaxElementBy(
                                   [i \in DOMAIN cands |-> scores[i].score])]
                       f    == GetFeatureIndexByBinIndex(best)
                   IN  /\ bg' = SetFeatureEnabled(bg, f, TRUE)
                       /\ selected' = Append(selected, f)
                       /\ phase' = IF Len(selected) < GetFeatureCount - 1
                                      THEN "loop" ELSE "done"
    /\ UNCHANGED seed

Next == SelectFirst \/ SelectNext

Spec == Init /\ [][Next]_vars /\ WF_vars(Next)

=============================================================================
