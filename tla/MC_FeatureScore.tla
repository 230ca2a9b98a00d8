---------------------------- MODULE MC_FeatureScore ----------------------------
(***************************************************************************)
(* An instance of FeatureScore for TLC.                                   *)
(***************************************************************************)
EXTENDS FeatureScore

\* Three features of two bins each: every feature has a bin besides the
\* eval bin, which the maximize phase can take when the feature is enabled.
PairFeatureStart == <<0, 2, 4>>

=============================================================================
