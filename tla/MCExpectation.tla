--------------------------- MODULE MCExpectation ---------------------------
(* Instances of Expectation for TLC.                                       *)
EXTENDS Expectation, TLC

CONSTANTS t1, t2, m1, m2, r1, r2, r3, s1, a1, a2

Request(count, asked, sequence, once, accepts) ==
  [count |-> count, asked |-> asked, sequence |-> sequence, once |-> once,
   accepts |-> accepts]

\* Unlimited, limited, forbidden, one-shot and never matching rules, and
\* requests that for_once and validate refuse.
CountRequests ==
  {Request(NoCount, Usize, NoSequence, FALSE, {a1}),
   Request(NoCount, {1}, NoSequence, TRUE, {a1}),
   Request(FromRangeTo(2), {0, 1}, NoSequence, FALSE, {a1}),
   Request(FromExact(0), {0}, NoSequence, FALSE, {a1}),
   Request(FromExact(1), {1}, NoSequence, FALSE, {}),
   Request(FromRangeFrom(1), Usize \ {0}, NoSequence, TRUE, {a1}),
   Request(FromRangeTo(0), {}, NoSequence, FALSE, {a1})}

SelfCalls == {<<m1, m1>>}

\* Rules of one sequence that answer different calls; validate refuses the last.
SequenceRequests ==
  {Request(FromExact(1), {1}, s1, FALSE, {a1}),
   Request(FromExact(2), {2}, s1, FALSE, {a2}),
   Request(FromRangeToInclusive(1), {0, 1}, s1, FALSE, {a1})}

\* A response of m1 calls m2, and m2 tries to call itself.
NestedCalls == {<<m1, m2>>, <<m2, m2>>}

ContractRequests ==
  {Request(FromRangeInclusive(1, 2), {1, 2}, NoSequence, FALSE, {a1}),
   Request(FromExact(1), {1}, s1, FALSE, {a1}),
   Request(FromExact(0), {0}, NoSequence, FALSE, {a2})}

LivenessRequests == {Request(NoCount, Usize, NoSequence, FALSE, {a1})}

OneWay == {<<m1, m2>>}

Symmetric == Permutations(Threads)
=============================================================================
