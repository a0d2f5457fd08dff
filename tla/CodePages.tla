----------------------------- MODULE CodePages -----------------------------
(***************************************************************************)
(* The view of memory that src/src/memory.rs works with: regions reported  *)
(* by the system, the scan for executable ones, and the page ranges whose  *)
(* permissions a write must change.                                        *)
(*                                                                         *)
(* Memory is a few small pages.  A region is a run of pages with the same  *)
(* permissions; the system may also report a boundary at any of `cuts`.    *)
(***************************************************************************)
EXTENDS Integers, Sequences, FiniteSetsExt

CONSTANTS UsizeMax, PageSize,
          Pages,              \* numbers of the mapped pages
          Bytes,
          Requests,           \* arguments of memory::write: [address, expected, replacement]
          Contents, Layouts   \* what memory may hold and permit at first

ASSUME PagesAssumption ==
  /\ UsizeMax \in Nat /\ PageSize \in Nat \ {0}
  /\ Pages \subseteq 1 .. (UsizeMax \div PageSize) - 1

Usize == 0 .. UsizeMax

PageOf(a) == a \div PageSize

\* What region_at and read_bytes tell of memory.
Addresses == {a \in Usize : PageOf(a) \in Pages}

Rights == {{"r", "w", "x"}, {"r", "x"}, {"r"}, {}}

ASSUME RequestsAssumption ==
  /\ \A q \in Requests : /\ q.address \in Usize
                         /\ q.expected \in Seq(Bytes) /\ q.replacement \in Seq(Bytes)
  /\ Contents \subseteq [Addresses -> Bytes] /\ Layouts \subseteq [Pages -> Rights]

\* platform::region_at: the run of pages around page p.
Run(prot, cuts, p) ==
  {q \in Pages : \A k \in Min({p, q}) .. Max({p, q}) :
     /\ k \in Pages /\ prot[k] = prot[p]
     /\ k \in cuts => k = Min({p, q})}

RegionAt(prot, cuts, a) ==
  LET run == Run(prot, cuts, PageOf(a))
  IN  [start |-> Min(run) * PageSize, end |-> (Max(run) + 1) * PageSize,
       prot |-> prot[PageOf(a)]]

Executable(prot, a) == PageOf(a) \in Pages /\ {"r", "x"} \subseteq prot[PageOf(a)]

-----------------------------------------------------------------------------
\* checked_end refuses the null address, an empty range and a wrapping end.
CheckedEnd(a, n) == a # 0 /\ n # 0 /\ a + n <= UsizeMax

\* executable_regions: empty when the first byte is not in executable memory.
ExecutableRegions(prot, cuts, a, n) ==
  LET scan[cursor \in Usize] ==
        IF cursor >= a + n \/ ~Executable(prot, cursor) THEN <<>>
        ELSE LET region == RegionAt(prot, cuts, cursor)
             IN  <<region>> \o scan[Min({region.end, a + n})]
  IN  scan[a]

Covers(regions, end) == regions # <<>> /\ regions[Len(regions)].end >= end

\* The end of the last page of the write, rounded up.
LastPageEnd_Down(end) == PageOf(end) * PageSize

LastPageEnd(end) == PageOf(end + PageSize - 1) * PageSize

FirstPage(a) == PageOf(a) * PageSize

PageRanges_Regions(regions, a, end) ==
  [i \in DOMAIN regions |-> [address |-> regions[i].start, prot |-> regions[i].prot,
                             length |-> regions[i].end - regions[i].start]]

PageRanges(regions, a, end) ==
  [i \in DOMAIN regions |->
     LET start == Max({regions[i].start, FirstPage(a)})
     IN  [address |-> start, length |-> Min({regions[i].end, LastPageEnd(end)}) - start,
          prot |-> regions[i].prot]]

\* The pages and the addresses of one range.
PagesIn(range) == {p \in Pages : p * PageSize \in range.address .. range.address + range.length - 1}

BytesIn(range) == {a \in Addresses : PageOf(a) \in PagesIn(range)}

-----------------------------------------------------------------------------
(* The part of replace that comes before any change.                       *)

Length(q) == Len(q.expected)

End(q) == q.address + Length(q)

Span(q) == q.address .. End(q) - 1

RegionsOf(prot, cuts, q) == ExecutableRegions(prot, cuts, q.address, Length(q))

\* Whether replace goes on to change anything; else it returns an error.
Accepts_AnyBytes(mem, prot, cuts, q) ==
  /\ Length(q) = Len(q.replacement)
  /\ CheckedEnd(q.address, Length(q))
  /\ Covers(RegionsOf(prot, cuts, q), End(q))
  /\ End(q) + PageSize - 1 <= UsizeMax

Accepts(mem, prot, cuts, q) ==
  /\ Length(q) = Len(q.replacement)
  /\ CheckedEnd(q.address, Length(q))
  /\ Covers(RegionsOf(prot, cuts, q), End(q))
  /\ \A i \in 1 .. Length(q) : mem[q.address + i - 1] = q.expected[i]
  /\ End(q) + PageSize - 1 <= UsizeMax

RangesOf(prot, cuts, q) == PageRanges(RegionsOf(prot, cuts, q), q.address, End(q))

\* Memory with the bytes of s stored at the address of q.
Stored(mem, q, s) ==
  [a \in DOMAIN mem |->
     IF a \in q.address .. q.address + Len(s) - 1 THEN s[a - q.address + 1] ELSE mem[a]]
=============================================================================
