---------------------------- MODULE AtomicWrite ----------------------------
(***************************************************************************)
(* What a caller of memory::write in src/src/memory.rs relies on.  A write *)
(* that returns Ok replaced exactly the requested bytes, which were the    *)
(* expected ones; one that returns an error changed nothing.  Both leave   *)
(* the permissions of every page as they were.  Nothing is promised of a   *)
(* process that aborts.                                                    *)
(***************************************************************************)
EXTENDS Integers, Sequences

CONSTANTS Addresses, Pages, Bytes, Rights,
          Requests   \* [address, expected, replacement]

VARIABLES bytes, access, request, status

vars == <<bytes, access, request, status>>

\* The addresses a request is about.
Target(q) == q.address .. q.address + Len(q.expected) - 1

Matches(q) ==
  /\ Len(q.expected) = Len(q.replacement) /\ Target(q) \subseteq Addresses
  /\ \A a \in Target(q) : bytes[a] = q.expected[a - q.address + 1]

Replaced(q) ==
  [a \in Addresses |-> IF a \in Target(q) THEN q.replacement[a - q.address + 1] ELSE bytes[a]]

Start ==
  /\ status \in {"idle", "ok", "err"} /\ status' = "busy"
  /\ request' \in Requests
  /\ UNCHANGED <<bytes, access>>

Succeed ==
  /\ status = "busy" /\ status' = "ok"
  /\ Matches(request) /\ bytes' = Replaced(request)
  /\ UNCHANGED <<access, request>>

Fail ==
  /\ status = "busy" /\ status' = "err"
  /\ UNCHANGED <<bytes, access, request>>

Abort ==
  /\ status = "busy" /\ status' = "aborted"
  /\ bytes' \in [Addresses -> Bytes] /\ access' \in [Pages -> Rights]
  /\ UNCHANGED request

Init ==
  /\ bytes \in [Addresses -> Bytes] /\ access \in [Pages -> Rights]
  /\ request \in Requests /\ status = "idle"

Next == Start \/ Succeed \/ Fail \/ Abort

Spec == Init /\ [][Next]_vars
=============================================================================
