----------------------------- MODULE CallCount -----------------------------
(***************************************************************************)
(* Call counts and the checks on a rule's configuration, from              *)
(* src/src/expectation.rs.  A count is a closed interval of calls whose    *)
(* upper end may be missing; the conversions translate Rust's range types. *)
(***************************************************************************)
EXTENDS Integers

CONSTANTS UsizeMax,   \* the largest usize
          NoCount,    \* Config.count is None
          NoSequence  \* Config.sequence is None

ASSUME UsizeMaxAssumption == UsizeMax \in Nat \ {0}

Usize == 0 .. UsizeMax

\* CallCount.max is None.
NoMax == -1

CallCounts == [min : Usize, max : Usize \cup {NoMax}]

ASSUME NoCountAssumption == NoCount \notin CallCounts

-----------------------------------------------------------------------------
FromExact(n) == [min |-> n, max |-> n]

\* start..end without the check: the subtraction wraps.
FromRange_Wrapping(start, end) ==
  [min |-> start, max |-> (end - 1) % (UsizeMax + 1)]

\* start..end.  checked_sub keeps `..0` from wrapping: an empty range becomes
\* an interval that validate refuses.
FromRange(start, end) ==
  IF end = 0 THEN [min |-> 1, max |-> 0] ELSE [min |-> start, max |-> end - 1]

FromRangeInclusive(start, end) == [min |-> start, max |-> end]

FromRangeFrom(start) == [min |-> start, max |-> NoMax]

FromRangeTo(end) == FromRange(0, end)

FromRangeToInclusive(end) == FromRangeInclusive(0, end)

FromRangeFull == FromRangeFrom(0)

-----------------------------------------------------------------------------
Bounded(count) == count.max # NoMax

\* CallCount::validate
ValidCount(count) == ~(Bounded(count) /\ count.min > count.max)

\* The counts of calls that an interval admits.
Admits(count) ==
  {n \in Usize : n >= count.min /\ (Bounded(count) => n <= count.max)}

-----------------------------------------------------------------------------
(* Config: what a builder collected, [count, sequence].                    *)

\* Config::for_once fixes the count of a one-shot response.
ForOnceCount(config) ==
  IF config.count = NoCount THEN FromExact(1) ELSE config.count

ForOnceAccepts_AnyCount(config) == ValidCount(ForOnceCount(config))

ForOnceAccepts(config) ==
  LET count == ForOnceCount(config)
  IN  ValidCount(count) /\ Bounded(count) /\ count.max <= 1

\* Config::validate.  A rule in a sequence needs an exact positive count.
ConfigCount(config) ==
  IF config.count = NoCount THEN FromRangeFull ELSE config.count

ConfigAccepts(config) ==
  LET count == ConfigCount(config)
  IN  /\ ValidCount(count)
      /\ config.sequence # NoSequence => count.min # 0 /\ count.max = count.min
=============================================================================
