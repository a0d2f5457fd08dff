----------------------------- MODULE RemapWrite ----------------------------
(***************************************************************************)
(* memory::write on Apple Silicon: replace_pages of                        *)
(* src/src/memory/macos/remap.rs.  Code pages never become writable; each  *)
(* page range is staged in two private images, one with the old and one    *)
(* with the new bytes, and the images are mapped over the code.            *)
(***************************************************************************)
EXTENDS CodePages

CONSTANT MaxFailures

ASSUME FailuresAssumption == MaxFailures \in Nat

VARIABLES
  mem, fetched, prot, cuts, request, failures, pc,   \* as in MemoryWrite
  pages,     \* the page ranges to replace
  images,    \* staged so far: [page, original, updated], the bytes of each image
  index,     \* the next range to install, or to put back
  live,      \* private images that are mapped: <<number of the range, which of its two>>
  owned,     \* the Image values in scope, whose drop unmaps them
  result     \* what is returned once they are dropped

vars == <<mem, fetched, prot, cuts, request, failures, pc, pages, images, index, live, owned,
          result>>

memory == <<mem, fetched, prot, cuts>>

plan == <<request, pages, images>>

mapped == <<live, owned>>

Busy == {"check", "stage", "seal", "install", "flush", "undo", "undoflush", "release"}

Init ==
  /\ mem \in Contents /\ fetched = mem
  /\ prot \in Layouts /\ cuts \in SUBSET {p \in Pages : p - 1 \in Pages}
  /\ request = CHOOSE q \in Requests : TRUE
  /\ pages = <<>> /\ images = <<>> /\ index = 1 /\ live = {} /\ owned = {}
  /\ failures = 0 /\ pc = "idle" /\ result = "err"

Fails == failures < MaxFailures /\ failures' = failures + 1

Works == UNCHANGED failures

-----------------------------------------------------------------------------
Begin ==
  /\ pc \in {"idle", "ok", "err"} /\ pc' = "check"
  /\ request' \in Requests
  /\ pages' = <<>> /\ images' = <<>> /\ index' = 1 /\ result' = "err"
  /\ UNCHANGED <<memory, mapped, failures>>

Refuse ==
  /\ pc = "check" /\ pc' = "err"
  /\ (~Accepts(mem, prot, cuts, request) /\ Works) \/ Fails
  /\ UNCHANGED <<memory, plan, index, mapped, result>>

Prepare ==
  /\ pc = "check" /\ pc' = "stage"
  /\ Accepts(mem, prot, cuts, request)
  /\ pages' = RangesOf(prot, cuts, request)
  /\ UNCHANGED <<memory, request, images, index, mapped, result, failures>>

\* The bytes of the two images of one range.
ImagesOf(page) ==
  LET here == BytesIn(page)
      new == Stored(mem, request, request.replacement)
  IN  [page |-> page, original |-> [a \in here |-> mem[a]], updated |-> [a \in here |-> new[a]]]

Staging == Len(images) + 1

\* Image::new maps private memory.  The Image exists, and owns it, from then on.
Allocate ==
  /\ pc = "stage" /\ Staging <= Len(pages) /\ Works
  /\ LET image == <<Staging, IF <<Staging, "original">> \in owned THEN "updated" ELSE "original">>
     IN  live' = live \cup {image} /\ owned' = owned \cup {image}
  /\ pc' = "seal"
  /\ UNCHANGED <<memory, plan, index, result>>

\* Reading the range or mapping an image fails.
StageFails ==
  /\ pc = "stage" /\ Staging <= Len(pages) /\ Fails
  /\ pc' = "release"
  /\ UNCHANGED <<memory, plan, index, mapped, result>>

\* The image is filled, sealed and flushed.  The second one completes the range.
Seal ==
  /\ pc = "seal" /\ Works
  /\ images' = IF <<Staging, "updated">> \in owned THEN Append(images, ImagesOf(pages[Staging]))
               ELSE images
  /\ pc' = "stage"
  /\ UNCHANGED <<memory, request, pages, index, mapped, result>>

SealFails_NotYetOwned ==
  /\ pc = "seal" /\ Fails
  /\ owned' = owned \ {<<Staging, IF <<Staging, "updated">> \in owned THEN "updated" ELSE "original">>}
  /\ pc' = "release"
  /\ UNCHANGED <<memory, plan, index, live, result>>

SealFails ==
  /\ pc = "seal" /\ Fails
  /\ pc' = "release"
  /\ UNCHANGED <<memory, plan, index, mapped, result>>

-----------------------------------------------------------------------------
\* Image::install maps the image, with its permissions, over the code.
Map(page, bytes) ==
  /\ mem' = [a \in Addresses |-> IF a \in DOMAIN bytes THEN bytes[a] ELSE mem[a]]
  /\ prot' = [p \in Pages |-> IF p \in PagesIn(page) THEN page.prot ELSE prot[p]]
  /\ UNCHANGED <<fetched, cuts>>

FlushPages(page) ==
  /\ fetched' = [a \in Addresses |-> IF a \in BytesIn(page) THEN mem[a] ELSE fetched[a]]
  /\ UNCHANGED <<mem, prot, cuts>>

Install ==
  /\ pc = "install" /\ index <= Len(images) /\ Works
  /\ Map(images[index].page, images[index].updated)
  /\ pc' = "flush"
  /\ UNCHANGED <<plan, index, mapped, result>>

FlushNew ==
  /\ pc = "flush" /\ Works
  /\ FlushPages(images[index].page)
  /\ index' = index + 1 /\ pc' = "install"
  /\ UNCHANGED <<plan, mapped, result>>

\* images[..=index] are put back, last first.
UndoFrom_Earlier == index - 1

UndoFrom == index

InstallFails ==
  /\ \/ pc = "install" /\ index <= Len(images)
     \/ pc = "flush"
  /\ Fails
  /\ index' = UndoFrom /\ pc' = "undo"
  /\ UNCHANGED <<memory, plan, mapped, result>>

Undo ==
  /\ pc = "undo" /\ index > 0 /\ Works
  /\ Map(images[index].page, images[index].original)
  /\ pc' = "undoflush"
  /\ UNCHANGED <<plan, index, mapped, result>>

UndoFlush ==
  /\ pc = "undoflush" /\ Works
  /\ FlushPages(images[index].page)
  /\ index' = index - 1 /\ pc' = "undo"
  /\ UNCHANGED <<plan, mapped, result>>

\* The loops over all ranges end.
Done ==
  /\ \/ pc = "stage" /\ Len(images) = Len(pages) /\ pc' = "install" /\ UNCHANGED result
     \/ pc = "install" /\ index > Len(images) /\ pc' = "release" /\ result' = "ok"
     \/ pc = "undo" /\ index = 0 /\ pc' = "release" /\ UNCHANGED result
  /\ UNCHANGED <<memory, plan, index, mapped, failures>>

\* Image::drop unmaps; the result is returned once every Image in scope is dropped.
Release ==
  /\ pc = "release" /\ Works
  /\ \/ \E image \in owned :
          live' = live \ {image} /\ owned' = owned \ {image} /\ UNCHANGED pc
     \/ owned = {} /\ pc' = result /\ UNCHANGED mapped
  /\ UNCHANGED <<memory, plan, index, result>>

\* fatal(), or finish in Image::drop.
Abort ==
  /\ \/ pc = "undo" /\ index > 0
     \/ pc = "undoflush"
     \/ pc = "release" /\ owned # {}
  /\ Fails
  /\ pc' = "aborted"
  /\ UNCHANGED <<memory, plan, index, mapped, result>>

Stopped == pc = "aborted" /\ UNCHANGED vars

Next == \/ Begin \/ Refuse \/ Prepare \/ Allocate \/ StageFails \/ Seal \/ SealFails \/ Install
        \/ FlushNew \/ InstallFails \/ Undo \/ UndoFlush \/ Done \/ Release \/ Abort \/ Stopped

Spec == Init /\ [][Next]_vars

-----------------------------------------------------------------------------
(* Properties.                                                             *)

\* Once replace_pages returned, the processor executes what memory holds: every
\* range that was mapped, in the write or back again, was flushed after it.
Coherent == pc \in {"idle", "ok", "err"} => fetched = mem

\* Private images are mapped as long as the code may be replaced by them or put
\* back, and no return, whichever call failed before it, leaves one behind: the
\* Image of a mapping exists before the next call can fail (Image::new, drop).
ImagesReleased ==
  /\ pc \in {"idle", "ok", "err"} => live = {}
  /\ pc \in {"install", "flush", "undo", "undoflush"} =>
       (DOMAIN images) \X {"original", "updated"} \subseteq live

\* The byte at a as the caller last saw it.
Before(a) ==
  LET here == {i \in DOMAIN images : a \in DOMAIN images[i].original}
  IN  IF here = {} THEN mem[a] ELSE images[CHOOSE i \in here : TRUE].original[a]

Atomic == INSTANCE AtomicWrite WITH
  bytes <- [a \in Addresses |-> IF pc \in Busy THEN Before(a) ELSE mem[a]],
  access <- prot,
  status <- IF pc \in Busy THEN "busy" ELSE pc

\* replace_pages implements AtomicWrite, like the writes in place: Ok replaced
\* exactly the requested bytes, an error changed nothing, whichever calls fail.
WriteIsAtomic == Atomic!Spec
=============================================================================
