----------------------------- MODULE MCRouting -----------------------------
(* Instances of Routing for TLC.                                           *)
EXTENDS Routing, TLC

CONSTANTS t1, t2, f1, f2, s1, s2, s3, s4

\* Two mock! sites and one replace! site that sends f1 to f2.
OneReplacement == (s1 :> NoFunction) @@ (s2 :> NoFunction) @@ (s3 :> f2)

\* Two replace! sites that would send f1 and f2 to each other.
Circular == (s1 :> NoFunction) @@ (s2 :> NoFunction) @@ (s3 :> f2) @@ (s4 :> f1)

GlobalUses == {<<s1, f1>>, <<s2, f1>>, <<s3, f1>>, <<s4, f2>>}

LiveUses == {<<s1, f1>>, <<s3, f1>>, <<s4, f2>>}

\* s1 is tried for both functions; local installation refuses the second.
LocalUses == {<<s1, f1>>, <<s2, f1>>, <<s1, f2>>, <<s3, f1>>}

Symmetric == Permutations(Threads)
=============================================================================
