---------------------------- MODULE MemoryWrite ----------------------------
(***************************************************************************)
(* memory::write of src/src/memory.rs on the platforms that change page    *)
(* permissions in place (all but Apple Silicon), one system call at a      *)
(* time.  Any system call may fail; a failed call changes nothing.  The    *)
(* caller keeps other code away from the bytes and the pages meanwhile.    *)
(***************************************************************************)
EXTENDS CodePages

CONSTANT MaxFailures

ASSUME FailuresAssumption == MaxFailures \in Nat

VARIABLES
  mem,       \* the bytes in memory
  fetched,   \* the bytes the processor would execute: its instruction cache
  prot,      \* permissions of each page
  cuts,      \* pages at which the system reports a new region
  request,   \* arguments of the current write
  original,  \* the saved bytes
  pages,     \* the page ranges to change
  index,     \* the next of them
  limit,     \* the last of them to close after a failure
  failures,  \* failed system calls so far
  pc

vars == <<mem, fetched, prot, cuts, request, original, pages, index, limit, failures, pc>>

saved == <<request, original, pages, limit>>

Busy == {"check", "unlock", "copy", "flush", "lock", "reopen", "copyback", "flushback", "close"}

TypeOK ==
  /\ mem \in [Addresses -> Bytes] /\ fetched \in [Addresses -> Bytes]
  /\ prot \in [Pages -> Rights] /\ cuts \subseteq Pages
  /\ request \in Requests /\ original \in Seq(Bytes)
  /\ pages \in Seq([address : Usize, length : Usize, prot : Rights])
  /\ index \in 1 .. Len(pages) + 1 /\ limit \in 0 .. Len(pages)
  /\ failures \in 0 .. MaxFailures
  /\ pc \in Busy \cup {"idle", "ok", "err", "aborted"}

Init ==
  /\ mem \in Contents /\ fetched = mem
  /\ prot \in Layouts /\ cuts \in SUBSET {p \in Pages : p - 1 \in Pages}
  /\ request = CHOOSE q \in Requests : TRUE
  /\ original = <<>> /\ pages = <<>> /\ index = 1 /\ limit = 0
  /\ failures = 0 /\ pc = "idle"

-----------------------------------------------------------------------------
Goto(next) == pc' = next /\ index' = 1

Fails == failures < MaxFailures /\ failures' = failures + 1

Works == UNCHANGED failures

-----------------------------------------------------------------------------
Begin ==
  /\ pc \in {"idle", "ok", "err"}
  /\ request' \in Requests
  /\ original' = <<>> /\ pages' = <<>> /\ limit' = 0
  /\ Goto("check")
  /\ UNCHANGED <<mem, fetched, prot, cuts, failures>>

Accepted == Accepts(mem, prot, cuts, request)

\* A check refuses, or a query or a read fails (a short read compares unequal).
Refuse ==
  /\ pc = "check"
  /\ (~Accepted /\ Works) \/ Fails
  /\ Goto("err")
  /\ UNCHANGED <<mem, fetched, prot, cuts, saved>>

Prepare ==
  /\ pc = "check" /\ Accepted
  /\ original' = [i \in 1 .. Length(request) |-> mem[request.address + i - 1]]
  /\ pages' = RangesOf(prot, cuts, request)
  /\ limit' = Len(pages')
  /\ Goto("unlock")
  /\ UNCHANGED <<mem, fetched, prot, cuts, request, failures>>

-----------------------------------------------------------------------------
\* platform::protect
Access_NotExecutable(range, writable) == IF writable THEN {"r", "w"} ELSE range.prot

Access(range, writable) == IF writable THEN range.prot \cup {"w"} ELSE range.prot

Protect(range, writable) ==
  prot' = [p \in Pages |-> IF p \in PagesIn(range) THEN Access(range, writable) ELSE prot[p]]

\* One step of a loop over the page ranges up to `last`.
Loop(at, last, writable) ==
  /\ pc = at /\ index <= last
  /\ Protect(pages[index], writable)
  /\ index' = index + 1 /\ Works
  /\ UNCHANGED <<mem, fetched, cuts, saved, pc>>

LoopEnds(at, last, next) ==
  /\ pc = at /\ index > last
  /\ Goto(next)
  /\ UNCHANGED <<mem, fetched, prot, cuts, saved, failures>>

\* The write itself; ptr::copy.
Store(bytes, at, next) ==
  /\ pc = at
  /\ mem' = Stored(mem, request, bytes)
  /\ Goto(next)
  /\ UNCHANGED <<fetched, prot, cuts, saved, failures>>

Flush(at, next) ==
  /\ pc = at
  /\ fetched' = [a \in Addresses |-> IF a \in Span(request) THEN mem[a] ELSE fetched[a]]
  /\ Goto(next) /\ Works
  /\ UNCHANGED <<mem, prot, cuts, saved>>

-----------------------------------------------------------------------------
Unlock == Loop("unlock", Len(pages), TRUE) \/ LoopEnds("unlock", Len(pages), "copy")

\* The ranges opened so far are closed again.
UndoLimit_None == 0

UndoLimit == index - 1

UnlockFails ==
  /\ pc = "unlock" /\ index <= Len(pages)
  /\ Fails
  /\ limit' = UndoLimit
  /\ Goto("close")
  /\ UNCHANGED <<mem, fetched, prot, cuts, request, original, pages>>

Copy == Store(request.replacement, "copy", "flush")

FlushNew == Flush("flush", "lock")

Lock == Loop("lock", Len(pages), FALSE) \/ LoopEnds("lock", Len(pages), "ok")

\* A late failure undoes the write, from the permissions on.
Rollback_Fatal == "aborted"

Rollback == "reopen"

LateFailure ==
  /\ pc = "flush" \/ (pc = "lock" /\ index <= Len(pages))
  /\ Fails
  /\ Goto(Rollback)
  /\ UNCHANGED <<mem, fetched, prot, cuts, saved>>

Reopen == Loop("reopen", Len(pages), TRUE) \/ LoopEnds("reopen", Len(pages), "copyback")

CopyBack == Store(original, "copyback", "flushback")

FlushBack_Skipped ==
  /\ pc = "flushback" /\ Goto("close")
  /\ UNCHANGED <<mem, fetched, prot, cuts, saved, failures>>

FlushBack == Flush("flushback", "close")

Close == Loop("close", limit, FALSE) \/ LoopEnds("close", limit, "err")

\* fatal(): a system call of the rollback failed.
Abort ==
  /\ \/ pc = "reopen" /\ index <= Len(pages)
     \/ pc = "flushback"
     \/ pc = "close" /\ index <= limit
  /\ Fails
  /\ Goto("aborted")
  /\ UNCHANGED <<mem, fetched, prot, cuts, saved>>

Step == \/ Refuse \/ Prepare \/ Unlock \/ UnlockFails \/ Copy \/ FlushNew \/ Lock
        \/ LateFailure \/ Reopen \/ CopyBack \/ FlushBack \/ Close \/ Abort

\* The process aborted.
Stopped == pc = "aborted" /\ UNCHANGED vars

Next == Begin \/ Step \/ Stopped

Spec == Init /\ [][Next]_vars

-----------------------------------------------------------------------------
(* Properties.                                                             *)

\* ptr::copy never faults, in the write or in the rollback: every byte it stores
\* to is on a page that is writable by then, however regions and pages divide the
\* range.
StoresAllowed ==
  pc \in {"copy", "copyback"} =>
    \A a \in Span(request) : a \in Addresses /\ "w" \in prot[PageOf(a)]

\* The processor executes what memory holds once write returned, with Ok or with
\* an error: every store was followed by a flush that succeeded.
Coherent == pc \notin Busy \cup {"aborted"} => fetched = mem

\* write aborts only when undoing a failure failed as well.
AbortNeedsTwoFailures == pc = "aborted" => failures >= 2

\* While a write is under way pages only gain the right to write, and only pages
\* that hold some of its bytes do: code that runs on them stays executable.
OnlyWriteAdded ==
  [][\A p \in Pages : prot'[p] # prot[p] =>
       /\ prot'[p] \cup {"w"} = prot[p] \cup {"w"}
       /\ \E a \in Span(request) : PageOf(a) = p]_vars

\* While the write is under way its caller has seen no change yet.
Undone == pc \in Busy /\ original # <<>>

RangeOf(p) == {i \in DOMAIN pages : p \in PagesIn(pages[i])}

Atomic == INSTANCE AtomicWrite WITH
  bytes <- IF Undone THEN Stored(mem, request, original) ELSE mem,
  access <- [p \in Pages |->
              IF Undone /\ RangeOf(p) # {} THEN pages[CHOOSE i \in RangeOf(p) : TRUE].prot ELSE prot[p]],
  status <- IF pc \in Busy THEN "busy" ELSE pc

\* write implements AtomicWrite: Ok replaced exactly the requested bytes, an error
\* changed nothing, and neither left a permission changed, whichever system calls
\* fail.
WriteIsAtomic == Atomic!Spec
=============================================================================
