---------------------------- MODULE CmiCalculator ----------------------------
(***************************************************************************)
(* TCmiCalculator (cmi_calculator.{h,cpp}) and                            *)
(* TMutualInformationCalculator (mutual_information_calculator.cpp).      *)
(*                                                                         *)
(* The first variable is always the label, added once.  The calculator    *)
(* then only remembers which bins were added as second variable and which *)
(* as condition: each of its four TEntropyCalculators packs its bins into  *)
(* per-sample keys, and the entropy of a key column depends only on the    *)
(* partition of the samples it induces, i.e. on the SET of bins packed     *)
(* (EntropyCalculator.tla checks this of the packing).  Hence              *)
(*   I(label; B | C) = H(label,C) - H(C) - H(label,B,C) + H(B,C)          *)
(* is a function of the two sets B and C and of the sample data.          *)
(*                                                                         *)
(* The sample data is abstracted to a seed and CmiOf is a deterministic    *)
(* hash of (seed, B, C).  It keeps the two identities of CMI the scorers  *)
(* meet: I(label; B | C) = I(label; B \ C | C), and it is 0 when B is     *)
(* contained in C (a bin conditioned on itself carries no information).   *)
(* With TieFree, two candidates of one greedy step never get equal values *)
(* (the low bits are the code of the condition set), which is the          *)
(* assumption of spec section 4.3 that exact floating ties never occur.   *)
(***************************************************************************)
EXTENDS BinFeatureSet, FiniteSetsExt

CONSTANTS
    CmiModulus,     \* range of the hash
    TieFree,        \* BOOLEAN: break every tie between candidates of a step
    LabelBinCount,  \* bins of the label feature
    MaxBinCount     \* TEntropyCalculator::MAX_BIN_COUNT

Seeds == 1 .. CmiModulus - 1

\* A set of bins as a number, bit b set for bin b (tabulated once).
BinCode == [S \in SUBSET Bins |-> MapThenSumSet(LAMBDA b : 2 ^ b, S)]

Code(S) == BinCode[S]

CmiOf(seed, B, C) ==
    IF B \subseteq C THEN 0
    ELSE LET h == (seed * (37 * Code(B \ C) + 11 * Code(C) + 5)) % CmiModulus
         IN  IF TieFree THEN h * 2 ^ BinCount + Code(C) ELSE h

(***************************************************************************)
(* The calculator as a value: the constructor followed by the              *)
(* AddFirstVariableBin calls for every label bin.  count is the BinCount  *)
(* of FirstSecondCondition, the one of the four entropy calculators that  *)
(* receives every bin added: each Add call counts, even for a bin already  *)
(* in the set.                                                             *)
(***************************************************************************)
NewCmi(seed) == [seed |-> seed, second |-> {}, cond |-> {}, count |-> LabelBinCount]

AddSecondVariableBin(calc, b) == [calc EXCEPT !.second = @ \cup {b}, !.count = @ + 1]

AddConditionBin(calc, b) == [calc EXCEPT !.cond = @ \cup {b}, !.count = @ + 1]

\* Y_VERIFY(++BinCount < MAX_BIN_COUNT): one bin fewer allowed.
BinCountFitsStrict(calc) == calc.count < MaxBinCount

\* Every AddBin of FirstSecondCondition passed its
\* Y_VERIFY(++BinCount <= MAX_BIN_COUNT); the count only grows, so it is
\* enough to look at it after the last Add.
BinCountFits(calc) == calc.count <= MaxBinCount

GetValueWithConditionBin(calc, b) ==
    CmiOf(calc.seed, calc.second, calc.cond \cup {b})

GetValue(calc) == CmiOf(calc.seed, calc.second, calc.cond)

\* TMutualInformationCalculator::GetValueWithSecondVariableBin:
\* H(label) + H(b) - H(label, b) = I(label; b | nothing).
GetValueWithSecondVariableBin(seed, b) == CmiOf(seed, {b}, {})

=============================================================================
