--------------------------- MODULE ReportHelpers ---------------------------
(***************************************************************************)
(* The pure helper of runner/utils.py that Reporter.print relies on: the   *)
(* class percentile (sort, then interpolate linearly between the closest   *)
(* ranks).  The module-level function percentile is shadowed by the class *)
(* of the same name and never called.                                      *)
(*                                                                         *)
(* A response time is a natural (a number of clock ticks) and a percent   *)
(* is the fraction num/den.  get() is computed times den, so that the     *)
(* interpolation stays exact.  For the eight percents print uses and any   *)
(* n below 100000, floor and ceil of Python's float k = (n-1)*percent      *)
(* equal those of the exact k, so the model takes the same branches.       *)
(***************************************************************************)
EXTENDS Naturals, Sequences, FiniteSets, TLC

None == "None"

(* percentile.__init__: self.data = sorted(data).                          *)
Percentile(data) == SortSeq(data, <)

(* Mutant of PercentileGet: the interpolation weights (c-k) and (k-f)     *)
(* swapped between the two ranks.                                          *)
PercentileGetSwapped(sorted, num, den) ==
  IF sorted = <<>> THEN None
  ELSE LET K == (Len(sorted) - 1) * num
           f == K \div den
           c == IF K % den = 0 THEN f ELSE f + 1
       IN IF f = c THEN sorted[f + 1] * den
          ELSE sorted[f + 1] * (K - f * den) + sorted[c + 1] * (c * den - K)

(* percentile.get(num/den), times den: None for no data; k = (n-1)*p,     *)
(* f = floor(k), c = ceil(k); data[k] when k is whole, else                *)
(* data[f]*(c-k) + data[c]*(k-f) (Python indexes from 0).                  *)
PercentileGet(sorted, num, den) ==
  IF sorted = <<>> THEN None
  ELSE LET K == (Len(sorted) - 1) * num    \* k * den
           f == K \div den                  \* math.floor(k)
           c == IF K % den = 0 THEN f ELSE f + 1   \* math.ceil(k)
       IN IF f = c THEN sorted[f + 1] * den
          ELSE sorted[f + 1] * (c * den - K) + sorted[c + 1] * (K - f * den)

-----------------------------------------------------------------------------
(* Reference definitions, independent of the code's arithmetic.           *)

(* The i-th smallest element of s (i from 0): the value x of s with at     *)
(* most i elements below it and more than i at or below it.               *)
OrderStat(s, i) ==
  CHOOSE x \in {s[j] : j \in DOMAIN s} :
     /\ Cardinality({j \in DOMAIN s : s[j] < x}) <= i
     /\ Cardinality({j \in DOMAIN s : s[j] <= x}) > i

(* Linear interpolation between closest ranks: rank (n-1)*p = i + r/den   *)
(* with 0 <= r < den; the result times den.                                *)
RefPercentile(s, num, den) ==
  IF s = <<>> THEN None
  ELSE LET K == (Len(s) - 1) * num
           i == K \div den
           r == K % den
       IN OrderStat(s, i) * (den - r) + IF r = 0 THEN 0 ELSE OrderStat(s, i + 1) * r

-----------------------------------------------------------------------------
MaxSamples == 4          \* samples per input list
SampleTimes == 0..3      \* response times, in ticks
(* The percents Reporter.print asks for: 50, 66 (2.0/3), 75, 80, 85, 90,  *)
(* 95 and 100, as <<num, den>>.                                            *)
PrintedPercents ==
  {<<1, 2>>, <<2, 3>>, <<3, 4>>, <<4, 5>>, <<17, 20>>, <<9, 10>>, <<19, 20>>, <<1, 1>>}

Samples == UNION {[1..m -> SampleTimes] : m \in 0..MaxSamples}

(* Every percentile Reporter.print prints, of any list of response times, *)
(* is the linear interpolation between the closest ranks of the sorted    *)
(* times, and None exactly for an empty list.                              *)
PercentileMatchesReference ==
  \A s \in Samples, p \in PrintedPercents :
     PercentileGet(Percentile(s), p[1], p[2]) = RefPercentile(s, p[1], p[2])

=============================================================================
