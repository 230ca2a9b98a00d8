------------------------------ MODULE Algorithm ------------------------------
(***************************************************************************)
(* The extremum searches of cmicot/lib/algorithm.h.                       *)
(*                                                                         *)
(* ParallelExtremeElementBy first evaluates the function on every element *)
(* (ParallelForEach stores the results by position, whatever order the    *)
(* tasks finish in) and then runs the sequential ExtremeElementBy over the *)
(* values, so both are modelled by the scan below over the sequence of     *)
(* values.  The scan keeps the first position whose value is strictly      *)
(* better: ties go to the lowest position.  Position 0 stands for the end *)
(* iterator returned for an empty range.                                   *)
(***************************************************************************)
EXTENDS Integers, Sequences, FiniteSets

\* Impl::ExtremeElementBy with pred = std::greater<>.  Each step binds the
\* position kept so far to a value (b) before comparing with it.
RECURSIVE MaxScan(_, _, _)
MaxScan(vals, i, best) ==
    CHOOSE r \in {IF i > Len(vals) THEN b
                  ELSE MaxScan(vals, i + 1, IF vals[i] > vals[b] THEN i ELSE b) :
                     b \in {best}} : TRUE

\* Impl::ExtremeElementBy with pred = std::less<>.
RECURSIVE MinScan(_, _, _)
MinScan(vals, i, best) ==
    CHOOSE r \in {IF i > Len(vals) THEN b
                  ELSE MinScan(vals, i + 1, IF vals[i] < vals[b] THEN i ELSE b) :
                     b \in {best}} : TRUE

\* The values are computed once, by position, then scanned.
ParallelMaxElementBy(vals) ==
    CHOOSE r \in {IF v = <<>> THEN 0 ELSE MaxScan(v, 2, 1) :
                     v \in {[i \in DOMAIN vals |-> vals[i]]}} : TRUE

ParallelMinElementBy(vals) ==
    CHOOSE r \in {IF v = <<>> THEN 0 ELSE MinScan(v, 2, 1) :
                     v \in {[i \in DOMAIN vals |-> vals[i]]}} : TRUE

=============================================================================
