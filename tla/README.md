# TLA+ models of CMICOT feature selection

CMICOT selects features greedily. Each candidate bin is scored by the
conditional mutual information (CMI) of the label with that bin, given the
best "helper" bins (maximize phase) and the worst "opponent" bins (minimize
phase) found by two greedy searches. The bins are found among those of the
features already selected. This directory holds TLA+ models of that core
(`src/cmicot/lib`) and the TLC configurations that check them.

## The system and how its parts interact

| Part | Source | What it does |
|---|---|---|
| Feature set, background | `bin_feature_set.{h,cpp}` | Bins grouped into features by the offsets `FeatureStart`. A `TBackground` is the enabled/disabled flag per bin plus `LastEnabledBins`, the span enabled most recently. |
| Entropy calculator | `entropy_calculator.cpp` | Packs the bins added into one `ui64` key per sample (shift, or), then counts key frequencies in a dense vector or a hash map. |
| Entropy of bins | `entropy.{h,cpp}` | The stateless path: `FlattenBins` packs bins the same way without a capacity check, `Entropy` counts the keys in a hash map. Used for the label entropy and for `Entropy(bin)` in the mutual-information calculator. |
| CMI calculator | `cmi_calculator.cpp`, `mutual_information_calculator.cpp` | Four entropy calculators. `I(A;B\|C)` for the label A, the second-variable bins B and the condition bins C. |
| Extremal search | `algorithm.h`, `parallel_algorithm.h` | Evaluates a function on every element in a thread pool, collects the values by position, and keeps the first strictly best. |
| Miximizer, eval scorer | `miximizers.cpp`, `bin_score.cpp` | The two greedy phases. The score is the CMI after the last minimize step. |
| Caching scorer | `caching_bin_scorer.cpp` | The same score, re-searching cached steps only among the bins enabled since the last call. |
| Drivers | `selection.cpp` | `FeatureSelection` (eval scorer) and `FastFeatureSelection` (caching scorer, parallel scan per iteration, used by `main`). |
| Other scorers | `bin_score.cpp`, `feature_score.cpp` | The EFAM and BTM bin scorers; `GetFeatureScore` (best bin score of a feature) and `GetCmimScore` (the enabled feature minimising the CMI). Library entry points; no driver here calls them. |
| Pool reader | `io.cpp` `ReadPool` | Reads the text in batches of lines, parses each batch as a task on a thread queue, then waits on the futures in order and appends the columns. |
| Ingestion and output | `binarize.{h,cpp}`, `io.cpp`, `options.cpp`, `cmicot/feature_selection.cpp` | `main` checks its input options, loads a raw pool (`BinarizeRawPool`) or a binary pool with a bin-to-feature map (`ReadBinToFeatureMap`, `BinarizeWithMap`), then either runs `FastFeatureSelection` or writes the pool and map out (`OutputPool`, `OutputBinFeatureMap`). |

The drivers own a background. Each iteration scores every disabled bin, which
calls the scorer, which runs the miximizer searches, which query the CMI
calculator, which is built from entropy calculators. The best bin's feature
is then enabled. In `FastFeatureSelection` the scan of one iteration runs
one `Evaluate` task per bin on the pool. The tasks share `bg` read-only and
each writes only its own `Cache[bin]`.

## Modules

| Module | Models | State / actions |
|---|---|---|
| `BinFeatureSet` | `TBinFeatureSet`, `TBackground` | Operators only. A background is the record `[on, last]`; each mutating method returns the new value. `LowerBoundFrom` is the binary search of `std::lower_bound`. |
| `EntropyCalculator` | `TEntropyCalculator` and its counters | Variables `binCount`, `values`, `aborted`, plus the auxiliary `history`. Action `AddBin(bin)`. Queries `GetEntropy` and `GetEntropyWithExtraBin`. Also the operators of `entropy.h`: `Flatten`, `FlattenBins`, `Entropy`, `ConditionalMutualInformation`. |
| `CmiCalculator` | `TCmiCalculator`, `TMutualInformationCalculator` | A calculator is the set of second-variable bins, the set of condition bins, and `count`, the bins `FirstSecondCondition` has received: the label's `LabelBinCount` plus one per Add call. `CmiOf` is the value. A phase whose calculator has passed `MaxBinCount` fails (`BinCountFits`): its `AddBin` `Y_VERIFY` aborts the program. |
| `Algorithm` | `ExtremeElementBy`, `ParallelMax/MinElementBy` | A recursive scan over the values collected by position. |
| `Miximizer` | `DoMaximizePhase`, `DoMinimizePhase`, `GetBinScore`, `BuildBinScorerForEval` | Pure operators; `EvalScore` is the eval scorer. |
| `CachingBinScorer` | `TCachingBinScorer::Evaluate` | One operator for the whole call: checks, resize, the maximize loop with invalidation and pool reset, the minimize loop, the score. |
| `FeatureSelection` | `FeatureSelection` | Variables `seed`, `bg`, `selected`, `phase`. Actions `SelectFirst` and `SelectNext` (one whole loop iteration). |
| `FastFeatureSelection` | `FastFeatureSelection` | Adds `cache` and `pending`. Actions `SelectFirst`, `EvaluateBin(b)` (one pool task) and `SelectBest` (the reduction and the rest of the loop body). The tasks of an iteration interleave in any order. |
| `MC_FastFeatureSelection` | — | The feature layouts the runs use. |
| `FeatureScore` | EFAM, BTM, `GetFeatureScore`, `GetCmimScore` | Variables `seed`, `bg` (any background a caller can hand in) and `result`. Actions `ScoreFeature(f, kind)` and `CmimScore(f)`, one whole call each. |
| `MC_FeatureScore` | — | Three 2-bin features. |
| `PoolReaderSpec` | spec §6 and §7 | The abstract reader: variables `text`, `status`, `pool`; one action `Read` that returns the file's columns or fails as a whole. A text is the shape of its lines (which tokens parse); every number is distinct, `10 * line + column`. |
| `PoolReader` | `ReadPool`, `TBatchParser` | Variables `text`, `linesInBatch`, `lineNo`, `readDone`, `futures` (one record per batch), `waited`, `result`, `status`, `error`. Calling-thread actions `ReadBatch`, `WaitNext`, `Finish`; `RunBatch(i)` is a queue thread running batch i's task. Refines `PoolReaderSpec` through `Sequential == INSTANCE PoolReaderSpec WITH pool <- ...`. |
| `Ingestion` | `main` | Variables `featureStart`, `binCount`, `binSource` (the column each bin came from), `files`, `options`, `phase`. It also has `label` (the label column's bins) and `borderCount` (`-x`, 0 standing for any value ≤ 0). Actions `RejectOptionValue` (`EnsurePositive` on `-x`, and the element `BadValue` for any other value the option handlers reject: a count ≤ 0, an unknown binarizer name, a free argument), `RejectOptions` (the usage exits 1 and 2), `LoadRawPool`, `LoadBinaryPool`, `WriteOutputs` (with `--just-binarize`, `OutputsGiven`), `SelectFeatures` (without), `ReadBack` (a second run of `main` on the files written). A map file is its sequence of (feature, bin) pairs; text parsing is left out. |

### Abstractions

- **CMI.** An entropy of packed keys depends only on the partition of the
  samples the keys induce. `PackingIsExact` checks that the packing keeps
  that partition. So a calculator is fully described by its two bin sets, and
  its value is a function of (sample data, B, C).
  - The sample data is a `seed`. `CmiOf` is a deterministic hash of
    (seed, B \ C, C) and is 0 when B ⊆ C.
  - With `TieFree`, candidates of one step never tie. This is the assumption
    of spec §4.3.
  - Dropping it (`TieFree = FALSE`) makes the two scorers disagree; see Runs.
  - The division of the score by `LabelEntropy` is left out. It preserves
    order when the label entropy is positive.
- **Key width.** `ui64` and `MAX_BIN_COUNT = 64` become `KeyWidth = 3` and
  `MaxBinCount = 3`, with arithmetic `% 2^KeyWidth`. The dense-counter
  threshold `1 << 22` becomes `DenseRangeLimit = 2`. The ratio of threshold
  to key range is different, but both counter kinds and the wrap are reached.
- **Borders.** A float border splits a column the same way as the largest
  column value at or below it, or as `BelowAll` when there is none. So
  `BestSplit`'s result is a sequence of such classes (`BorderSets`), at most
  `-x` long, in any order, repeats allowed. The order is free because the
  borders come out of a hash set. `BinarizeFeature` is then exact.
- **Label width.** `UniteLabelBins` shifts an `int` 1 (`TBin` is a
  `vector<bool>`, so the bool is promoted to `int`) and ORs the result into a
  `ui64`. `IntWidth = 2` stands for 32 and the `ui64` is `2 * IntWidth` bits.
  A shift by `IntWidth - 1` gives `INT_MIN`, which sign-extends. A shift by
  `IntWidth` or more is undefined behaviour; the model takes what x86-64 and
  AArch64 scalar shifts give, a shift by the count modulo `IntWidth`.
- **Evaluation of the recursive operators.** The recursive loops bind their
  state to a value (`CHOOSE r \in {... : s \in {st}} : TRUE`), so TLC
  evaluates each pass once, also inside primed and temporal formulas.

## Runs

| Run | Module / cfg | Expect | Shows |
|---|---|---|---|
| FastEquiv | MC_FastFeatureSelection / FastEquiv.cfg | pass | Three 3-bin features, step count 3, all 22 seeds. For every task interleaving: each evaluated cache entry equals the eval scorer's result (spec 8.6); no abort; no feature twice; the fast driver refines `FeatureSelection`. |
| FastTermination | FastTermination.cfg | pass | With ties allowed, every cached score's steps are real, distinct bins (`CachedStepsUseDistinctBins`: no `-1` sentinel left, maximize bins pairwise distinct thanks to the erase at caching_bin_scorer.cpp:53, minimize bins likewise), and under `WF_vars(Next)` the driver reaches `done` with `Min(featureCount, F)` features. |
| StepGrowth | StepGrowth.cfg | violation | Five 1-bin features and evalStepCount 3: the step count grows from 1, and the resized max step is searched only among the last enabled bins. The cache differs from the eval scorer. |
| EmptyFeature | EmptyFeature.cfg | violation | Feature offsets `<<0,3,3>>`, which `BinarizeWithMap` builds from a map with a gap, give an empty feature. The scan runs out of bins and `Y_VERIFY` at selection.cpp:52 aborts the run. |
| EntropyPacking | EntropyCalculator / EntropyPacking.cfg | pass | Every AddBin sequence up to capacity, 3 samples: equal keys iff equal bit histories. And `ConditionalMutualInformation`, which flattens first and second into the condition's buffer in place and copies it in between, computes H(C,A), H(C), H(C,A,B), H(C,B) for the bins added as C and every A and B. |
| EntropyFull | EntropyFull.cfg | violation | At full capacity the range size `max - min + 1` wraps to 0 and the dense counter is indexed past its end. |
| EntropyExtraBin | EntropyExtraBin.cfg | violation | `GetEntropyWithExtraBin` doubles the bounds in `ui64` (`2*min`, `2*max+1`). One bin below capacity they span all of `ui64`, so the range size `max - min + 1` wraps to 0 (spec 8.4). |
| RoundTrip | Ingestion / RoundTrip.cfg | pass | For every option set, every feature set loaded from a raw pool of 1–3 columns (1–2 bins each) or from a map of up to 4 lines, written out and read back, is the same feature set with the same bin data. On every set loaded, `GetFeatureIndexByBinIndex` is the inverse of `GetFeatureBinIndexes` (spec 8.1), empty features included. `LabelColumnKeepsOrder`: the label written (`UniteLabelBins`) keeps the order of the label bins: a sample whose bins are all at most another's gets a value at most the other's, equal only when its bins are equal. With `IntWidth = 2` and `-x` up to 2 this covers the sign-extended top bit. |
| LabelWidth | LabelWidth.cfg | violation | With `-x 3` (33 and more at full width) the third label bin is shifted by the width of `int`, lands on bit 0 and is ORed over the first. Two samples with different label bins are written with the same label value, which contradicts binarize_ut's `BinarizaionSavesRelativeOrder`. |
| FeatureScores | MC_FeatureScore / FeatureScores.cfg | pass | All 64 backgrounds, 6 seeds, 3 scorers: `GetFeatureScore` throws exactly when, for a bin of the feature, the background the policy hands the maximize phase has fewer than `StepCount - 1` enabled bins or the one it hands the minimize phase fewer than `StepCount` (`ScoreFailsOnlyWithoutEnoughBins`). Eval and EFAM minimize without the whole feature and BTM without the eval bin, so the caller's enabled count alone does not decide it. |
| PoolRead | PoolReader / PoolRead.cfg | pass | Every text of up to 4 lines of 1–2 tokens, every batch size 1–3, every order of the batch tasks: `ReadPool` implements `PoolReaderSpec` (the columns in line order, or failure exactly for a malformed file, never part of a pool), and it terminates. 118,101 states, about 30 s. |
| CmimScore | Cmim.cfg | violation | `GetCmimScore` returns the position of the minimum in the enabled-feature list as the feature index (feature_score.cpp:34), and scores that position. With no other feature enabled it returns `{}` (index 0, score 0), which a caller cannot tell from "feature 0 minimises"; the property constrains only calls that have a candidate. |

A raw pool with only the label column also breaks `RoundTrip` when
`MinColumns = 0`: `main` writes an empty map, and reading it back
dereferences `*MaxElement` of an empty vector (binarize.h:44). This had a run
of its own in an earlier version of the project; it is kept here as text.

Two disagreements met while modelling have no run of their own. With ties
allowed (`TieFree = FALSE`) the caching scorer keeps the older bin (`>` at
caching_bin_scorer.cpp:71) where the eval scorer keeps the lowest index;
spec §4.3 takes exact ties not to occur. And the eval scorer enables only the
eval bin for its maximize phase (bin_score.cpp:42), while spec §4.3 says the
eval-style policy enables the bin's whole feature, which is what the EFAM
scorer does.

A third concerns the pool reader's errors. Spec §6 says a malformed pool is
reported with the line number. The property

    ErrorLocatesBadRecord == status = "failed" =>
        error.line \in DOMAIN file /\ Sequential!LineIsBad(file, error.line)

added to `PoolReader` fails on a two-line file whose second line has two
columns, read with batch size 1. The batches agree internally, and the
calling thread's check (io.cpp:106) reports only the two sizes. The check
inside a batch (io.cpp:54) compares a line with the batch's first line. So
when that first line is the odd one, the line it names agrees with line 1.

Each property of a passing run has a mutant in `PROJECT.json`: a plausible
bug in the mapped code (a kept pool instead of the reset, an off-by-one
capacity check, the scan over all bins, a missing shift, ...) under which TLC
reports that property violated.

### Bounds

- **Feature layouts.** Three features of three bins with step count 3 give
  iterations in which the maximize phase has two steps, the pool reset
  happens, and the minimize phase rebinds the second variable.
- **Seeds.** The 22 seeds (`CmiModulus = 23`) give every candidate ordering
  that matters for these bins.
- **StepGrowth.** Uses 1-bin features so that the step count changes between
  iterations.
- **Bin capacity.** FastEquiv sets `LabelBinCount = 2` and `MaxBinCount = 8`:
  the minimize calculator receives 2 + 1 + 3 + 2 = 8 bins, exactly the
  capacity, so an off-by-one in the check aborts the run. The other runs keep
  the real 64.
- **FastTermination.** Uses `TieFree = FALSE` and `CmiModulus = 3`: with three
  CMI values, equal candidates are frequent, so the step that keeps the older
  of two equal bins is explored, while the state space stays small. Its
  properties depend on the control flow and on which bins a step can keep,
  not on the CMI values.
- **Ingestion.** Up to 3 feature columns of 1–2 bins, and map files of up to 4
  lines over features 0–2 and bins 0–3: enough for multi-bin features, gaps,
  duplicates, missing bins and a map longer than the pool.
- **PoolReader.** Four lines and batch sizes 1–3 give single-line
  batches, a batch boundary inside the file and a partial last batch. One-
  and two-token lines make both column checks fire, inside a batch and
  across batches, along with the parse error and the empty file.
- **FeatureScore.** Two bins per feature are the least for which the eval,
  EFAM and BTM policies differ; every background is an initial state, so
  every enabled count from 0 to 6 meets the step count 2 at its boundary.

### Fairness

The driver waits only on its own tasks. `ParallelForEach` blocks on every
future, and every path has a finite number of steps. So the only fairness
the code justifies, and the only one assumed, is `WF_vars(Next)`: the
program does not stop while it can move. The thread pool's own fairness is
not needed. `Ingestion` and `FeatureScore` check only safety; their runs set
`CHECK_DEADLOCK FALSE` because `main` and a scoring call end.

`PoolReader` assumes weak fairness of the calling thread and of "some queue
thread runs some pending task". The queue is a `TMtpQueue` started with 16
threads and an unbounded queue, so a submitted task is never dropped, and
nothing else runs on it. There are finitely many tasks, each run once, so
every task runs in the end. A reader that has returned or thrown stops, so
its run sets `CHECK_DEADLOCK FALSE`.

## Not modelled

- The numeric border search of the binarizer (`BestSplit`): only the set of splits it can produce is modelled.
- The label read back as `double` and stored in a `float` (io.cpp:39): values above 2^24 lose bits.
- Which binarizer `--binarization` selects (all produce borders from the same set of splits), and the comma split of `--just-binarize`'s value: only that outputs are requested is modelled. The handlers' rejections are modelled (`RejectOptionValue`).
- The eval bin kept as its own helper (caching_bin_scorer.cpp:73): it needs a CMI that rounds below 0, and the hash has only non-negative values.
- Tokenising: a token is "a number" or "not a number" (`TryFromString`). The text of a map file is its (feature, bin) pairs.
- `OutputScore`, `OutputFeatureSizes`, `OutputUsedBins`, `BuildOutputChain` and the `Out<>` formatters. They are text layout, and no driver in the repository calls the chains.
- The `Log2` sums of `entropy.cpp` and of the counters (floating point): an entropy is the bag of key frequencies it is computed from.
- `bin_score_normalize.cpp` (the scores are unnormalised).
- `test_pool_gen`.
- The thread pool's internals: futures, and teardown after an exception.

## Open directions

1. A four-feature FastEquiv instance: it exceeds the five-minute budget of a
   run at the current bounds.
2. Connect `Ingestion` to `FastFeatureSelection`: the driver run on every
   feature set the loader can produce, empty features included.
3. The crashes at feature_score.cpp:54 and io.cpp:130/136 and the selection
   at selection.cpp:80 each need a violation run of their own; they are
   listed as hazards with a note.
