------------------------------ MODULE Ingestion ------------------------------
(***************************************************************************)
(* How main() (cmicot/feature_selection.cpp) gets its feature set, and    *)
(* how it writes one out:                                                  *)
(*   --pool: BinarizeRawPool, one feature of at least one bin per raw      *)
(*     column (BinarizeFeature returns a constant bin when there are no    *)
(*     borders);                                                           *)
(*   --binary-pool and --map: ReadBinToFeatureMap, then BinarizeWithMap    *)
(*     regroups the 0/1 columns into features;                             *)
(*   --binary-pool-output and --map-output: OutputPool writes the bins in  *)
(*     AllBins() order and OutputBinFeatureMap one "feature<TAB>bin" line   *)
(*     per bin.                                                            *)
(* A later run reads those two files back (ReadBack).  The data of a      *)
(* feature bin is abstracted to an identifier: the column it came from.   *)
(* The label is kept with its values: BinarizeFeature turns the label     *)
(* column into bins, one per border in the hash set's order, and          *)
(* OutputPool writes UniteLabelBins of them as the first column.  Text    *)
(* parsing is left out: a map file is its sequence of (feature, bin)      *)
(* pairs.                                                                  *)
(***************************************************************************)
EXTENDS Integers, SequencesExt, Functions, Bitwise

CONSTANTS
    MinColumns,         \* feature columns of a pool (after the label)
    MaxColumns,
    MaxFeatureSize,     \* bins BinarizeFeature makes of one raw column
    MaxFeatureIndex,    \* feature indexes a map file may name
    MaxMapLines,        \* lines of a map file
    SampleCount,        \* lines of a pool (samples)
    MaxLabelValue,      \* label values are 0 .. MaxLabelValue
    MaxBorders,         \* largest -x (BorderCount) of a run
    IntWidth            \* bits of an int; a ui64 has 2 * IntWidth

ASSUME SampleCount >= 1 /\ MaxBorders >= 0 /\ IntWidth >= 1

VARIABLES
    featureStart,   \* the feature set's FeatureStart
    binCount,       \* its Bins.size()
    binSource,      \* the data of each bin: the pool column it came from
    label,          \* the label feature's bins, each a 0/1 value per sample
    files,          \* the binary pool and map written out, or NoFiles
    options,        \* the options of the first run of main()
    borderCount,    \* its -x, options.BorderCount; 0 stands for any value <= 0
    phase           \* "start", "loaded", "written", "reread", "selecting",
                    \* "usage", "rejected", "crashed"

vars == <<featureStart, binCount, binSource, label, files, options, borderCount, phase>>

FSOf(fs, bc) == INSTANCE BinFeatureSet WITH FeatureStart <- fs, BinCount <- bc

NoFiles == [none |-> TRUE]

\* The value ReadBinToFeatureMap fills the map with before reading it.
Uninitialized == -1

\* One line of the map file: grow the map up to the bin, reject a bin seen
\* twice, record its feature.  A thrown exception ends the fold (ok FALSE).
ReadMapLine(acc, line) ==
    LET f     == line[1]
        b     == line[2]
        grown == IF b >= Len(acc.result)
                    THEN acc.result \o [i \in 1 .. b + 1 - Len(acc.result) |-> Uninitialized]
                    ELSE acc.result
    IN  IF ~acc.ok THEN acc
        ELSE IF grown[b + 1] # Uninitialized THEN [acc EXCEPT !.ok = FALSE]
        ELSE [ok |-> TRUE, result |-> [grown EXCEPT ![b + 1] = f]]

\* ReadBinToFeatureMap: every line, then the check that no bin is missing.
ReadBinToFeatureMap(lines) ==
    LET r == FoldLeft(ReadMapLine, [ok |-> TRUE, result |-> <<>>], lines)
    IN  [r EXCEPT !.ok = @ /\ Uninitialized \notin Range(r.result)]

\* FeatureStart after the default constructor and AddFeature of features of
\* the given sizes, in order.
AppendFeaturesAfter(sizes) ==
    [f \in DOMAIN sizes |-> FoldLeft(LAMBDA x, y : x + y, 0, SubSeq(sizes, 1, f))]

AppendFeatures(sizes) ==
    [f \in DOMAIN sizes |-> FoldLeft(LAMBDA x, y : x + y, 0, SubSeq(sizes, 1, f - 1))]

(***************************************************************************)
(* BinarizeWithMap(columns, map): the sizes must agree; features has       *)
(* max(map) + 1 slots and column i goes to slot map[i], in column order;   *)
(* then every slot is added as a feature, empty or not.  For an empty map *)
(* MaxElement returns end() of a vector that never allocated, and its      *)
(* dereference crashes.                                                    *)
(***************************************************************************)
BinarizeWithMap(columns, map) ==
    IF Len(columns) # Len(map) THEN [ok |-> FALSE, outcome |-> "rejected"]
    ELSE IF map = <<>> THEN [ok |-> FALSE, outcome |-> "crashed"]
    ELSE LET featureCount == Max(Range(map))
             slot(f) == SelectSeq([i \in DOMAIN map |-> i], LAMBDA i : map[i] = f)
             slots   == [f \in 1 .. featureCount + 1 |-> slot(f - 1)]
         IN  [ok           |-> TRUE,
              featureStart |-> AppendFeatures([f \in DOMAIN slots |-> Len(slots[f])]),
              binCount     |-> Len(columns),
              bins         |-> [j \in 1 .. Len(columns) |->
                                   columns[FlattenSeq(slots)[j]]]]

\* OutputBinFeatureMap: for every feature, one line per bin of
\* GetFeature(featureIndex), numbered by a running globalBinIndex.
OutputBinFeatureMapLocalIndex(fs, bc) ==
    LET size(f) == FSOf(fs, bc)!GetFeatureSize(f)
    IN  FlattenSeq([f \in DOMAIN fs |-> [k \in 1 .. size(f - 1) |-> <<f - 1, k - 1>>]])

OutputBinFeatureMap(fs, bc) ==
    LET size(f) == FSOf(fs, bc)!GetFeatureSize(f)
        owner   == FlattenSeq([f \in DOMAIN fs |-> [k \in 1 .. size(f - 1) |-> f - 1]])
    IN  [j \in DOMAIN owner |-> <<owner[j], j - 1>>]

Samples == 1 .. SampleCount

(***************************************************************************)
(* The border builder (options.Binarizer->BestSplit, a library) returns a  *)
(* yhash_set<float>.  For x > border over a column's values a float border *)
(* acts as the largest value of the column not above it, or as BelowAll   *)
(* when it is under every value; distinct floats may act alike.  A border *)
(* set is therefore a sequence of such classes, in the hash set's          *)
(* iteration order, which no caller controls.                              *)
(***************************************************************************)
BelowAll == -1

BorderClasses(column) == {BelowAll} \cup Range(column)

\* BestSplit(values, options.BorderCount): at most count borders.
BorderSets(column, count) == SeqOf(BorderClasses(column), count)

\* BinarizeFeature: one bin per border, x > border per value; no border
\* gives one bin of zeros.
BinarizeFeature(feature, borders) ==
    IF borders = <<>> THEN <<[i \in DOMAIN feature |-> 0]>>
    ELSE [k \in DOMAIN borders |->
            [i \in DOMAIN feature |-> IF feature[i] > borders[k] THEN 1 ELSE 0]]

UnitedModulus == 2 ^ (2 * IntWidth)

\* The int 1 << k, converted to ui64 by |=: at the sign bit it is INT_MIN,
\* which sign-extends.
IntOneShifted(k) ==
    IF k = IntWidth - 1 THEN UnitedModulus - 2 ^ (IntWidth - 1) ELSE 2 ^ k

(***************************************************************************)
(* binarizedLabel[binIndex][valueIndex] << binIndex: the bool is promoted  *)
(* to int, so a shift by IntWidth or more is undefined.  The scalar shift *)
(* instructions of the usual targets (x86-64 SHL, AArch64 LSL on a 32-bit  *)
(* register) use the count modulo IntWidth, and that is the outcome taken. *)
(***************************************************************************)
ShiftedBit(bit, binIndex) ==
    IF bit = 0 THEN 0 ELSE IntOneShifted(binIndex % IntWidth)

\* result[valueIndex] = instead of |=: only the last bin's shift is kept.
UniteLabelBinsAssign(bins) ==
    [i \in DOMAIN bins[1] |-> ShiftedBit(bins[Len(bins)][i], Len(bins) - 1)]

\* UniteLabelBins: result[valueIndex] |= the shifted bit of every bin.
UniteLabelBins(bins) ==
    [i \in DOMAIN bins[1] |->
        FoldLeft(LAMBDA acc, k : acc | ShiftedBit(bins[k][i], k - 1), 0,
                 [k \in DOMAIN bins |-> k])]

\* Reading a binary pool and a map: ReadBinarizedPool; done is the phase
\* reached when both are accepted.  The label is the pool's first column,
\* binarized with the border builder.
LoadBinarized(lines, columns, labelColumn, count, done) ==
    LET r == ReadBinToFeatureMap(lines)
        b == BinarizeWithMap(columns, r.result)
    IN  IF ~r.ok
           THEN phase' = "rejected" /\ UNCHANGED <<featureStart, binCount, binSource, label>>
        ELSE IF ~b.ok
           THEN phase' = b.outcome /\ UNCHANGED <<featureStart, binCount, binSource, label>>
        ELSE /\ \E borders \in BorderSets(labelColumn, count) :
                   label' = BinarizeFeature(labelColumn, borders)
             /\ featureStart' = b.featureStart
             /\ binCount' = b.binCount
             /\ binSource' = b.bins
             /\ phase' = done

\* --binary-pool, --map and --pool.
InputOptions == {"binaryPool", "map", "pool"}

\* --just-binarize PoolFile,MapFile sets both BinaryPoolOutputFile and
\* FeatureBinMapOutputFile.
JustBinarize == "justBinarize"

\* main() writes the pool and map when both output files are set, which
\* --just-binarize does; otherwise it runs the selection.
OutputsGiven(opts) == JustBinarize \in opts

\* -t, --thread-count or --select-count given a value of 0 or less, or
\* --binarization given a name builderByName has no entry for, or a free
\* argument (SetFreeArgsMax(0)).  All are rejected alike by the parser
\* (Y_ENSURE, yhash::at, the free-argument count), so one element stands
\* for any of them; the accepted values only feed the selection's
\* constants (FastFeatureSelection's EvalStepCount, FeatureCountToSelect).
BadValue == "badValue"

\* The handlers' EnsurePositive, run while the options are parsed.
EnsurePositive(value) == value > 0

\* Every option handler accepts its value.
OptionValuesAccepted == EnsurePositive(borderCount) /\ BadValue \notin options

\* A handler throws while TOptsParseResult parses the command line, before
\* main() reads a file: the parser reports the error and exits.
RejectOptionValue ==
    /\ phase = "start"
    /\ ~OptionValuesAccepted
    /\ phase' = "usage"
    /\ UNCHANGED <<featureStart, binCount, binSource, label, files, options, borderCount>>

\* main()'s dispatch on the input options.
RawPoolGiven(opts) == "pool" \in opts /\ {"binaryPool", "map"} \cap opts = {}

BinaryPoolGiven(opts) == "pool" \notin opts /\ {"binaryPool", "map"} \subseteq opts

Init ==
    /\ options \in SUBSET (InputOptions \cup {JustBinarize, BadValue})
    /\ borderCount \in 0 .. MaxBorders
    /\ featureStart = <<>>
    /\ binCount = 0
    /\ binSource = <<>>
    /\ label = <<>>
    /\ files = NoFiles
    /\ phase = "start"

MapLine == (0 .. MaxFeatureIndex) \X (0 .. MaxColumns)

LabelColumns == [Samples -> 0 .. MaxLabelValue]

\* --pool: BinarizeRawPool over a label column and raw columns binarized
\* into sizes[c] bins; the bins are numbered as the data they carry.
LoadRawPool ==
    /\ phase = "start"
    /\ OptionValuesAccepted
    /\ RawPoolGiven(options)
    /\ \E sizes \in SeqOf(1 .. MaxFeatureSize, MaxColumns), column \in LabelColumns :
          /\ Len(sizes) >= MinColumns
          /\ \E borders \in BorderSets(column, borderCount) :
                label' = BinarizeFeature(column, borders)
          /\ featureStart' = AppendFeatures(sizes)
          /\ binCount' = FoldLeft(LAMBDA x, y : x + y, 0, sizes)
          /\ binSource' = [j \in 1 .. binCount' |-> j - 1]
    /\ phase' = "loaded"
    /\ UNCHANGED <<files, options, borderCount>>

\* --binary-pool and --map: a map file of up to MaxMapLines lines and a
\* pool of a label column and n feature columns.
LoadBinaryPool ==
    /\ phase = "start"
    /\ OptionValuesAccepted
    /\ BinaryPoolGiven(options)
    /\ \E lines \in SeqOf(MapLine, MaxMapLines), n \in MinColumns .. MaxColumns,
         column \in LabelColumns :
          LoadBinarized(lines, [i \in 1 .. n |-> i - 1], column, borderCount, "loaded")
    /\ UNCHANGED <<files, options, borderCount>>

\* --pool together with --binary-pool or --map (return 1), or neither a
\* raw pool nor both binary inputs (return 2): main() prints the usage.
RejectOptions ==
    /\ phase = "start"
    /\ OptionValuesAccepted
    /\ ~RawPoolGiven(options)
    /\ ~BinaryPoolGiven(options)
    /\ phase' = "usage"
    /\ UNCHANGED <<featureStart, binCount, binSource, label, files, options, borderCount>>

\* Without --just-binarize main() runs FastFeatureSelection on the set
\* loaded (FastFeatureSelection.tla).
SelectFeatures ==
    /\ phase = "loaded"
    /\ ~OutputsGiven(options)
    /\ phase' = "selecting"
    /\ UNCHANGED <<featureStart, binCount, binSource, label, files, options, borderCount>>

\* OutputPool, whose first column is UniteLabelBins of the label's bins,
\* and OutputBinFeatureMap.  origin keeps the label and feature set that
\* were written, for the properties only.
WriteOutputs ==
    /\ phase = "loaded"
    /\ OutputsGiven(options)
    /\ files' = [label  |-> UniteLabelBins(label),
                 pool   |-> binSource,
                 map    |-> OutputBinFeatureMap(featureStart, binCount),
                 origin |-> [featureStart |-> featureStart, binCount |-> binCount,
                             bins |-> binSource, label |-> label]]
    /\ phase' = "written"
    /\ UNCHANGED <<featureStart, binCount, binSource, label, options, borderCount>>

\* A second run of main() on the files written, with --binary-pool and --map.
ReadBack ==
    /\ phase = "written"
    /\ \E count \in 1 .. MaxBorders :
          LoadBinarized(files.map, files.pool, files.label, count, "reread")
    /\ UNCHANGED <<files, options, borderCount>>

Next ==
    \/ LoadRawPool
    \/ LoadBinaryPool
    \/ RejectOptionValue
    \/ RejectOptions
    \/ WriteOutputs
    \/ SelectFeatures
    \/ ReadBack

Spec == Init /\ [][Next]_vars

-----------------------------------------------------------------------------

\* A feature set is FeatureStart offsets from 0, ascending, within the bins.
TypeOK ==
    /\ binCount \in 0 .. MaxColumns * MaxFeatureSize
    /\ featureStart \in Seq(0 .. binCount)
    /\ featureStart # <<>> => featureStart[1] = 0
    /\ \A f \in 1 .. Len(featureStart) - 1 : featureStart[f] <= featureStart[f + 1]
    /\ binSource \in [1 .. binCount -> 0 .. MaxColumns * MaxFeatureSize]
    /\ label \in Seq([Samples -> {0, 1}])
    /\ options \subseteq InputOptions \cup {JustBinarize, BadValue}
    /\ borderCount \in 0 .. MaxBorders
    /\ phase \in {"start", "loaded", "written", "reread", "selecting", "usage",
                  "rejected", "crashed"}

(***************************************************************************)
(* Writing a feature set with --binary-pool-output and --map-output and   *)
(* reading the two files back with --binary-pool and --map gives the same *)
(* feature set: the same features, the same bins in the same order, the   *)
(* same data in each bin.  It depends on OutputBinFeatureMap's running     *)
(* bin counter, on ReadBinToFeatureMap accepting what it wrote, and on     *)
(* BinarizeWithMap rebuilding the features it came from, empty ones       *)
(* included.                                                               *)
(***************************************************************************)
RoundTrip ==
    files # NoFiles /\ phase # "written" =>
        /\ phase = "reread"
        /\ featureStart = files.origin.featureStart
        /\ binCount = files.origin.binCount
        /\ binSource = files.origin.bins

(***************************************************************************)
(* Spec 8.1, the partition invariant, on every feature set main() can     *)
(* load: GetFeatureIndexByBinIndex, the lower_bound over FeatureStart,     *)
(* returns for every bin the one feature whose GetFeatureBinIndexes range  *)
(* contains it, whatever empty features (repeated offsets) a map with     *)
(* gaps puts before or after it.                                           *)
(***************************************************************************)
FeatureIndexByBinIndexIsInverse ==
    \A b \in FSOf(featureStart, binCount)!Bins :
        LET f == FSOf(featureStart, binCount)!GetFeatureIndexByBinIndex(b)
        IN  /\ f \in FSOf(featureStart, binCount)!Features
            /\ b \in FSOf(featureStart, binCount)!GetFeatureBinIndexes(f)

(***************************************************************************)
(* OutputPool's label column keeps the label: a sample whose label bins    *)
(* are all at most another's, and one of them lower, gets a smaller ui64   *)
(* value, and samples with the same bins get the same value.  This is     *)
(* binarize_ut's BinarizaionSavesRelativeOrder for UniteLabelBins of      *)
(* BinarizeFeature, whatever order the hash set gives the borders; a      *)
(* later run re-binarizes this column as its label.  It needs every       *)
(* bin's shifted bit to be distinct and the same for every sample.        *)
(***************************************************************************)
LabelColumnKeepsOrder ==
    files # NoFiles =>
        LET bins == files.origin.label
            atMost(i, j) == \A k \in DOMAIN bins : bins[k][i] <= bins[k][j]
        IN  \A i, j \in Samples :
               atMost(i, j) =>
                   IF atMost(j, i) THEN files.label[i] = files.label[j]
                   ELSE files.label[i] < files.label[j]

=============================================================================
