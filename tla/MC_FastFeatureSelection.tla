------------------------ MODULE MC_FastFeatureSelection ------------------------
(***************************************************************************)
(* Instances of FastFeatureSelection for TLC.  The bins are indexes, the   *)
(* sample data is one of CmiModulus - 1 seeds of the CMI hash.             *)
(***************************************************************************)
EXTENDS FastFeatureSelection

\* Three features of three bins: the first selected feature already has
\* EvalStepCount bins, as in caching_bin_scorer_ut.cpp, so the step count
\* is 3 from the first iteration on.
EqualFeatureStart == <<0, 3, 6>>

\* Five features of one bin each: the first selected feature has one bin,
\* so the step count Min(enabled bins, EvalStepCount) grows from 1 to
\* EvalStepCount over the first iterations and the cached steps are
\* resized while they are reused.
SingleBinFeatureStart == <<0, 1, 2, 3, 4>>

\* A bin-to-feature map that skips feature index 1: BinarizeWithMap builds
\* features[1] with no bins and AddFeature appends it as an empty feature.
GapFeatureStart == <<0, 3, 3>>

=============================================================================
