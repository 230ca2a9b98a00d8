--------------------------- MODULE EntropyCalculator ---------------------------
(***************************************************************************)
(* TEntropyCalculator (entropy_calculator.{h,cpp}).                       *)
(*                                                                         *)
(* The calculator packs the bins added so far into one unsigned key per   *)
(* sample (AddBin shifts every key left and ors in the sample's bit) and  *)
(* computes the entropy of the key column with a frequency counter: a     *)
(* dense TVectorCounter over [min, max] when that range is small, a       *)
(* THashMapCounter otherwise.  Keys are ui64 and the bound is              *)
(* MAX_BIN_COUNT = 64, so the arithmetic is kept modulo 2^KeyWidth with    *)
(* MaxBinCount = KeyWidth, scaled down from 64.                            *)
(*                                                                         *)
(* The entropy of a key column depends only on the multiset of the key    *)
(* frequencies, so a query is modelled by the bag of counts the counter   *)
(* ends with and whether every Add stayed inside a dense counter's array  *)
(* (an index past its end is undefined behaviour).  history is an auxiliary variable: the bits *)
(* added for every sample, from which the true joint entropy is defined.  *)
(***************************************************************************)
EXTENDS Integers, SequencesExt, FiniteSets, Functions, Bitwise

CONSTANTS
    SampleCount,        \* binSize: the samples of a bin
    KeyWidth,           \* bits of ui64
    MaxBinCount,        \* TEntropyCalculator::MAX_BIN_COUNT
    DenseRangeLimit     \* 1 << 22 in BuildFrequencyCounter

ASSUME SampleCount \in Nat \ {0} /\ KeyWidth \in Nat \ {0}
ASSUME MaxBinCount \in 1 .. KeyWidth /\ DenseRangeLimit \in Nat

Samples == 1 .. SampleCount

KeyModulus == 2 ^ KeyWidth

\* A TBin: one bit per sample.
TBin == [Samples -> {0, 1}]

VARIABLES
    binCount,   \* TEntropyCalculator::BinCount
    values,     \* TEntropyCalculator::Values, one key per sample
    history,    \* auxiliary: the bits added, per sample
    aborted     \* a Y_VERIFY failed and the process ended

vars == <<binCount, values, history, aborted>>

\* The multiset of the frequencies of the values of f, as a function from a
\* frequency to how many distinct values have it.
CountBag(f) ==
    LET freq(v) == Cardinality({i \in DOMAIN f : f[i] = v})
    IN  [c \in {freq(v) : v \in Range(f)} |->
            Cardinality({v \in Range(f) : freq(v) = c})]

(***************************************************************************)
(* BuildFrequencyCounter(minValue, maxValue) followed by Add(x) for every  *)
(* key: the range size is computed in ui64, so it wraps; a TVectorCounter  *)
(* is sized by the same expression and indexed by x - MinValue.           *)
(***************************************************************************)
CountKeys(keys, minValue, maxValue) ==
    LET rangeSize == (maxValue - minValue + 1) % KeyModulus
        index(i)  == (keys[i] - minValue) % KeyModulus
    IN  IF rangeSize > DenseRangeLimit
           THEN [inBounds |-> TRUE, counts |-> CountBag(keys)]   \* THashMapCounter
           ELSE [inBounds |-> \A i \in Samples : index(i) < rangeSize,
                 counts   |-> CountBag([i \in Samples |-> index(i)])]

MinKey(keys) == CHOOSE k \in Range(keys) : \A i \in Samples : k <= keys[i]
MaxKey(keys) == CHOOSE k \in Range(keys) : \A i \in Samples : k >= keys[i]

\* GetEntropy()
GetEntropy == CountKeys(values, MinKey(values), MaxKey(values))

\* GetEntropyWithExtraBin(bin): the keys and the bounds are doubled in ui64.
GetEntropyWithExtraBin(bin) ==
    CountKeys([i \in Samples |-> (2 * values[i] + bin[i]) % KeyModulus],
              (2 * MinKey(values)) % KeyModulus,
              (2 * MaxKey(values) + 1) % KeyModulus)

\* TEntropyCalculator(binSize)
Init ==
    /\ binCount = 0
    /\ values = [i \in Samples |-> 0]
    /\ history = [i \in Samples |-> <<>>]
    /\ aborted = FALSE

\* The capacity checked before the increment: Y_VERIFY(BinCount++ <= MAX).
AddBinPostIncrement(bin) ==
    /\ ~aborted
    /\ IF binCount > MaxBinCount
          THEN /\ aborted' = TRUE
               /\ UNCHANGED <<binCount, values, history>>
          ELSE /\ binCount' = binCount + 1
               /\ values' = [i \in Samples |-> (2 * values[i] + bin[i]) % KeyModulus]
               /\ history' = [i \in Samples |-> Append(history[i], bin[i])]
               /\ UNCHANGED aborted

\* The bit or-ed in without the shift.
AddBinNoShift(bin) ==
    /\ ~aborted
    /\ IF binCount + 1 > MaxBinCount
          THEN /\ aborted' = TRUE
               /\ UNCHANGED <<binCount, values, history>>
          ELSE /\ binCount' = binCount + 1
               /\ values' = [i \in Samples |-> values[i] | bin[i]]
               /\ history' = [i \in Samples |-> Append(history[i], bin[i])]
               /\ UNCHANGED aborted

\* AddBin(bin): Y_VERIFY(++BinCount <= MAX_BIN_COUNT), then shift in the bits.
AddBin(bin) ==
    /\ ~aborted
    /\ IF binCount + 1 > MaxBinCount
          THEN /\ aborted' = TRUE
               /\ UNCHANGED <<binCount, values, history>>
          ELSE /\ binCount' = binCount + 1
               /\ values' = [i \in Samples |-> (2 * values[i] + bin[i]) % KeyModulus]
               /\ history' = [i \in Samples |-> Append(history[i], bin[i])]
               /\ UNCHANGED aborted

(***************************************************************************)
(* entropy.{h,cpp}: the stateless path, used for the label entropy        *)
(* (caching_bin_scorer.cpp, bin_score_normalize.cpp) and Entropy(bin) of   *)
(* TMutualInformationCalculator.  Impl::Flatten packs a bin into the keys *)
(* like AddBin, sizing an empty result to the bin, but checks no capacity. *)
(***************************************************************************)
Flatten(result, bin) ==
    LET r == IF result = <<>> THEN [i \in DOMAIN bin |-> 0] ELSE result
    IN  [i \in DOMAIN r |->
            IF i <= Len(bin) THEN (2 * r[i] + bin[i]) % KeyModulus ELSE r[i]]

\* Impl::FlattenBins(result, args...): the bins of every argument in turn.
FlattenInto(result, bins) == FoldLeft(Flatten, result, bins)

FlattenBins(bins) == FlattenInto(<<>>, bins)

\* Entropy(values): a hash count of the keys; no keys give 0.0 / 0, NaN.
Entropy(keys) == [defined |-> keys # <<>>, counts |-> CountBag(keys)]

\* Entropy(args...) = Entropy(FlattenBins(args...)).
EntropyOfBins(bins) == Entropy(FlattenBins(bins))

\* The buffer of the joint key reused for the last term.
ConditionalMutualInformationNoCopy(first, second, condition) ==
    LET c   == FlattenInto(<<>>, condition)
        cf  == FlattenInto(c, first)
        cfs == FlattenInto(cf, second)
        cs  == FlattenInto(cfs, second)
    IN  <<Entropy(cf), Entropy(c), Entropy(cfs), Entropy(cs)>>

(***************************************************************************)
(* ConditionalMutualInformation(first, second, condition): the four terms  *)
(* H(cond,first) - H(cond) - H(cond,first,second) + H(cond,second), with   *)
(* the condition's keys copied before first and second are flattened into *)
(* the buffer in place.                                                    *)
(***************************************************************************)
ConditionalMutualInformation(first, second, condition) ==
    LET c   == FlattenInto(<<>>, condition)
        cf  == FlattenInto(c, first)
        cfs == FlattenInto(cf, second)
        cs  == FlattenInto(c, second)
    IN  <<Entropy(cf), Entropy(c), Entropy(cfs), Entropy(cs)>>

Next == \E bin \in TBin : AddBin(bin)

Spec == Init /\ [][Next]_vars

-----------------------------------------------------------------------------

TypeOK ==
    /\ binCount \in 0 .. MaxBinCount
    /\ values \in [Samples -> 0 .. KeyModulus - 1]
    /\ history \in [Samples -> Seq({0, 1})]
    /\ aborted \in BOOLEAN

\* The entropy of the bins added: the bag of the sizes of the classes of
\* samples that got the same bits.
TrueEntropy(h) == CountBag(h)

(***************************************************************************)
(* The packing of AddBin loses nothing: two samples get the same key      *)
(* exactly when every bin added so far has the same bit for both, up to  *)
(* the MAX_BIN_COUNT bins AddBin accepts into a KeyWidth-bit key.         *)
(***************************************************************************)
PackingIsExact ==
    \A i, j \in Samples : values[i] = values[j] <=> history[i] = history[j]

(***************************************************************************)
(* GetEntropy() computes the joint entropy of every bin added, for every   *)
(* sequence of AddBin calls that AddBin accepts: the counter neither       *)
(* merges two distinct samples nor writes outside its array.               *)
(***************************************************************************)
EntropyOfBinsAdded ==
    GetEntropy = [inBounds |-> TRUE, counts |-> TrueEntropy(history)]

(***************************************************************************)
(* Spec 8.4: GetEntropyWithExtraBin(bin) is the entropy GetEntropy() would *)
(* give after AddBin(bin), for every bin sequence within capacity.  The    *)
(* method does not check the capacity itself, so it is asked for every     *)
(* state of the calculator.                                                *)
(***************************************************************************)
ExtraBinEntropyOfBinsAdded ==
    \A bin \in TBin :
        GetEntropyWithExtraBin(bin) =
            [inBounds |-> TRUE,
             counts   |-> TrueEntropy([i \in Samples |-> Append(history[i], bin[i])])]


\* The bins added so far, as a sequence of TBins.
BinsAdded == [k \in 1 .. Len(history[1]) |-> [i \in Samples |-> history[i][k]]]

\* The entropy of the joint value of a sequence of bins.
JointEntropy(bins) ==
    [defined |-> TRUE,
     counts  |-> TrueEntropy([i \in Samples |-> [k \in DOMAIN bins |-> bins[k][i]]])]

(***************************************************************************)
(* ConditionalMutualInformation computes each of its four terms on the    *)
(* right bins although it flattens into one buffer in place and copies it *)
(* in between: for the bins added so far as condition (one at least, and  *)
(* two bits of the key left for first and second) and any first and       *)
(* second bin, the terms are the joint entropies of (cond, first),        *)
(* cond, (cond, first, second) and (cond, second).                        *)
(***************************************************************************)
CmiTermsAreJointEntropies ==
    1 <= Len(BinsAdded) /\ Len(BinsAdded) + 2 <= KeyWidth =>
        \A first, second \in TBin :
            ConditionalMutualInformation(<<first>>, <<second>>, BinsAdded) =
                << JointEntropy(BinsAdded \o <<first>>),
                   JointEntropy(BinsAdded),
                   JointEntropy(BinsAdded \o <<first, second>>),
                   JointEntropy(BinsAdded \o <<second>>) >>

=============================================================================
