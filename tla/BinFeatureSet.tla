---------------------------- MODULE BinFeatureSet ----------------------------
(***************************************************************************)
(* TBinFeatureSet and TBackground (cmicot/lib/bin_feature_set.{h,cpp}).    *)
(*                                                                         *)
(* A feature set is a flat array of BinCount bins partitioned into        *)
(* features by the ascending offsets FeatureStart: feature f (0-based)     *)
(* owns the bins [FeatureStart[f+1], FeatureStart[f+2]) and the last       *)
(* feature runs to BinCount.  A bin's data (its N booleans) is not needed  *)
(* here: a bin is its index.                                               *)
(*                                                                         *)
(* A background is a value (the C++ class is copied by value): the set of  *)
(* enabled bins and LastEnabledBins, the [first, second) span enabled most *)
(* recently.  Every operator below is one method; the ones that mutate     *)
(* the C++ object return the new value.                                    *)
(***************************************************************************)
EXTENDS Integers, Sequences, FiniteSets

CONSTANTS
    FeatureStart,   \* TBinFeatureSet::FeatureStart, 0-based offsets
    BinCount        \* TBinFeatureSet::Bins.size()

Bins == 0 .. BinCount - 1

GetFeatureCount == Len(FeatureStart)

Features == 0 .. GetFeatureCount - 1

\* One past the last bin of feature f.
FeatureEnd(f) ==
    IF f < GetFeatureCount - 1 THEN FeatureStart[f + 2] ELSE BinCount

GetFeatureBinIndexes(f) == FeatureStart[f + 1] .. FeatureEnd(f) - 1

\* GetFeature(index).size(): the bins from the feature's offset up to the
\* next feature's offset, or up to the end for the last feature.
GetFeatureSize(f) == FeatureEnd(f) - FeatureStart[f + 1]

(***************************************************************************)
(* LowerBound(FeatureStart.begin(), FeatureStart.end(), v): the binary     *)
(* search of std::lower_bound, returning the 0-based position of the first *)
(* offset that is >= v (GetFeatureCount when there is none).               *)
(***************************************************************************)
RECURSIVE LowerBoundFrom(_, _, _)
LowerBoundFrom(v, first, count) ==
    IF count = 0 THEN first
    ELSE LET half == count \div 2
             mid  == first + half
         IN  IF FeatureStart[mid + 1] < v
                THEN LowerBoundFrom(v, mid + 1, count - half - 1)
                ELSE LowerBoundFrom(v, first, half)

\* The search for binIndex itself rather than binIndex + 1.
GetFeatureIndexByBinIndexNoIncrement(binIndex) ==
    LowerBoundFrom(binIndex, 0, GetFeatureCount) - 1

GetFeatureIndexByBinIndex(binIndex) ==
    LowerBoundFrom(binIndex + 1, 0, GetFeatureCount) - 1

(***************************************************************************)
(* TBackground.  The constructor enables every bin and sets               *)
(* LastEnabledBins to (0, 0).                                              *)
(***************************************************************************)
NewBackground == [on |-> Bins, last |-> <<0, 0>>]

SetFeatureEnabled(bg, f, enabled) ==
    LET span == GetFeatureBinIndexes(f)
    IN  [on   |-> IF enabled THEN bg.on \cup span ELSE bg.on \ span,
         last |-> IF enabled THEN <<FeatureStart[f + 1], FeatureEnd(f)>>
                             ELSE bg.last]

SetBinEnabled(bg, i, enabled) ==
    [on   |-> IF enabled THEN bg.on \cup {i} ELSE bg.on \ {i},
     last |-> IF enabled THEN <<i, i + 1>> ELSE bg.last]

\* A fresh background with only the last enabled span turned on.
LastEnabled(bg) ==
    [on |-> bg.last[1] .. bg.last[2] - 1, last |-> <<0, 0>>]

DisableAll(bg) == [bg EXCEPT !.on = {}]

EnabledAll(bg) == [bg EXCEPT !.on = Bins]

IsFeatureEnabled(bg, f) == GetFeatureBinIndexes(f) \subseteq bg.on

DisabledBinIndexes(bg) == Bins \ bg.on

\* EnabledFeatureIndexes(): the features all of whose bins are enabled, in
\* order (an empty feature counts as enabled).
EnabledFeatureIndexes(bg) ==
    SelectSeq([i \in 1 .. GetFeatureCount |-> i - 1], LAMBDA f : IsFeatureEnabled(bg, f))

\* The loop of EnabledBinIndexes() and DisabledBinIndexes(): the bins of S
\* in ascending index order.
BinIndexesOf(S) == SelectSeq([i \in 1 .. BinCount |-> i - 1], LAMBDA b : b \in S)

=============================================================================
