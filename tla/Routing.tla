------------------------------ MODULE Routing ------------------------------
(***************************************************************************)
(* Sessions and call routing: src/src/lib.rs (Session), src/src/routing.rs *)
(* and the dispatchers that macros/src/lib.rs generates for mock! and      *)
(* replace!.  Threads open local or global sessions, install and remove    *)
(* mocks and replacements, and call functions meanwhile.                   *)
(*                                                                         *)
(* An address is a function or a site: the generated dispatcher of one     *)
(* macro call.  Functions occupy disjoint code, so an address lies in a    *)
(* function's patched bytes only if it is that function.  A call is        *)
(* followed instruction by instruction where it reads shared state.        *)
(***************************************************************************)
EXTENDS Integers, Sequences, FiniteSets

CONSTANTS Threads, Functions, Sites,
          Replaces,      \* target of each replace! site; NoFunction for mock! sites
          Uses,          \* <<site, function>>: what the program installs where
          Kinds,         \* kinds of session the program opens
          StopCalls,     \* callers keep the documented rules on stopping calls
          MaxSessions, MaxFailures,
          NoFunction, NoThread, NoSite

Address == Functions \cup Sites

ASSUME RoutingAssumption ==
  /\ Functions \cap Sites = {}
  /\ Replaces \in [Sites -> Functions \cup {NoFunction}]
  /\ Uses \subseteq Sites \X Functions
  /\ Kinds \subseteq {"local", "global"}
  /\ StopCalls \in BOOLEAN
  /\ MaxSessions \in Nat /\ MaxFailures \in Nat
  /\ NoFunction \notin Address /\ NoSite \notin Address /\ NoThread \notin Threads

VARIABLES
  code,      \* where the entry of each function leads: itself, or a patched jump
  entry,     \* every Entry ever leaked: [source, dispatcher, global, next]
  head,      \* HEAD, an index into entry; 0 is null
  records,   \* ENTRIES: the entry and the sites of each patched function
  holder,    \* the thread that holds the ENTRIES mutex
  local,     \* LOCAL of each thread: [source, dispatcher, target]
  slot,      \* __SHIMFORGE_LOCAL: the sites whose slot is filled on each thread
  shared,    \* __SHIMFORGE_GLOBAL: the sites whose global slot is filled
  active,    \* __SHIMFORGE_GLOBAL_ACTIVE
  session,   \* each thread's Session: [kind, local, routes, patches, mocks]
  op,        \* what the thread's session is doing: [pc, site, source, entry]
  call,      \* the call a thread is in: [pc, fn, site, entry, outcome]
  used,      \* sessions opened and failed writes so far: [sessions, failures]
  aborted,   \* the process aborted: a patch could not be removed on drop
  promised   \* history: what the sessions promised for t's call since it began

state == <<code, entry, head, records, holder, local, slot, shared, active,
           session, op, call, used, aborted>>

vars == <<state, promised>>

table == <<entry, head, records, holder>>

patched == <<code, entry, head, records, holder>>

slots == <<local, slot, shared, active>>

rest == <<call, used, aborted>>

-----------------------------------------------------------------------------
IsMock(s) == Replaces[s] = NoFunction

\* What install is given as target: the dispatcher itself for a mock.
TargetOf(s) == IF IsMock(s) THEN s ELSE Replaces[s]

NoSession == [kind |-> "none", local |-> {}, routes |-> <<>>, patches |-> <<>>, mocks |-> {}]

NoOp == [pc |-> "idle", site |-> NoSite, source |-> NoFunction, entry |-> 0]

NoCall == [pc |-> "idle", fn |-> NoFunction, site |-> NoSite, entry |-> 0, outcome |-> <<>>]

NoRecord == [entry |-> 0, sites |-> {}]

Init ==
  /\ code = [f \in Functions |-> f]
  /\ entry = <<>> /\ head = 0
  /\ records = [f \in Functions |-> NoRecord]
  /\ holder = NoThread
  /\ local = [t \in Threads |-> {}]
  /\ slot = [t \in Threads |-> {}]
  /\ shared = {} /\ active = {}
  /\ session = [t \in Threads |-> NoSession]
  /\ op = [t \in Threads |-> NoOp]
  /\ call = [t \in Threads |-> NoCall]
  /\ used = [sessions |-> 0, failures |-> 0]
  /\ aborted = FALSE
  /\ promised = [t \in Threads |-> {}]

-----------------------------------------------------------------------------
InCall(t) == call[t].pc # "idle"

\* The thread is in its own code: it may call or use its session.
Free(t) == ~aborted /\ op[t].pc = "idle" /\ ~InCall(t)

Kind(t) == session[t].kind

Patched(f) == records[f].entry # 0

Step(t, pc) == op' = [op EXCEPT ![t].pc = pc]

EndOp(t) == op' = [op EXCEPT ![t] = NoOp]

MayFail == used.failures < MaxFailures

CountFailure == used' = [used EXCEPT !.failures = @ + 1]

-----------------------------------------------------------------------------
(* The documented rules for callers: stop calls to a function while its    *)
(* code is written, and join workers before a global session ends.         *)

\* A function that replacements call is reached by calls to others as well.
CallsStopped(f) ==
  \A t \in Threads : InCall(t) =>
    call[t].fn # f /\ \A s \in Sites : Replaces[s] # f

\* Some session may be writing the entry of f.
BeingWritten(f) ==
  \E t \in Threads :
    \/ op[t].source = f /\ ~Patched(f)
    \/ Kind(t) = "global" /\ op[t].pc \in {"restore", "drop"}

MayCall(f) ==
  StopCalls =>
    /\ ~BeingWritten(f)
    /\ \A s \in Sites : ~IsMock(s) => ~BeingWritten(Replaces[s])

MayInstall(t, s, f) ==
  /\ StopCalls /\ ~Patched(f) => CallsStopped(f)
  /\ Kind(t) = "global" => \A g \in Functions : s \in records[g].sites => g = f

MayEnd(t) == StopCalls /\ Kind(t) = "global" => \A u \in Threads : ~InCall(u)

-----------------------------------------------------------------------------
(* Opening a session: the SESSION lock has one writer or many readers.     *)

Open(t, kind) ==
  /\ Free(t) /\ Kind(t) = "none"
  /\ used.sessions < MaxSessions
  /\ used' = [used EXCEPT !.sessions = @ + 1]
  /\ Step(t, IF kind = "local" THEN "waitlocal" ELSE "waitglobal")
  /\ UNCHANGED <<patched, slots, session, call, aborted>>

Acquirable(kind) ==
  \A u \in Threads : Kind(u) = "none" \/ (kind = "local" /\ Kind(u) = "local")

Acquire(t, kind) ==
  /\ op[t].pc = IF kind = "local" THEN "waitlocal" ELSE "waitglobal"
  /\ Acquirable(kind)
  /\ session' = [session EXCEPT ![t].kind = kind]
  /\ EndOp(t)
  /\ UNCHANGED <<patched, slots, rest>>

-----------------------------------------------------------------------------
(* Installing.  A mock! site first fills its slot (and raises its flag in  *)
(* a global session); a refused installation takes both back.              *)

InstallBegin(t, s, f) ==
  /\ Free(t) /\ Kind(t) # "none"
  /\ <<s, f>> \in Uses /\ TargetOf(s) # f
  /\ MayInstall(t, s, f)
  /\ op' = [op EXCEPT ![t] = [pc |-> IF IsMock(s) THEN "slot" ELSE "install",
                              site |-> s, source |-> f, entry |-> 0]]
  /\ UNCHANGED <<patched, slots, session, rest>>

Occupied(t, s) == s \in IF Kind(t) = "local" THEN slot[t] ELSE shared

FillSlot(t) ==
  /\ op[t].pc = "slot"
  /\ LET s == op[t].site
     IN  \/ /\ Occupied(t, s)
            /\ EndOp(t)
            /\ UNCHANGED <<slot, shared>>
         \/ /\ ~Occupied(t, s) /\ Kind(t) = "local"
            /\ slot' = [slot EXCEPT ![t] = @ \cup {s}]
            /\ Step(t, "install")
            /\ UNCHANGED shared
         \/ /\ ~Occupied(t, s) /\ Kind(t) = "global"
            /\ shared' = shared \cup {s}
            /\ Step(t, "flag")
            /\ UNCHANGED slot
  /\ UNCHANGED <<patched, local, active, session, rest>>

RaiseFlag(t) ==
  /\ op[t].pc = "flag"
  /\ active' = active \cup {op[t].site}
  /\ Step(t, "install")
  /\ UNCHANGED <<patched, local, slot, shared, session, rest>>

\* An error drops the OwnedMock, which detaches the slot again.
Refuse_SlotKept(t) == EndOp(t)

Refuse(t) ==
  IF ~IsMock(op[t].site) THEN EndOp(t)
  ELSE Step(t, IF Kind(t) = "global" THEN "undoflag" ELSE "undoslot")

UndoFlag(t) ==
  /\ op[t].pc = "undoflag"
  /\ active' = active \ {op[t].site}
  /\ Step(t, "undoslot")
  /\ UNCHANGED <<patched, local, slot, shared, session, rest>>

UndoSlot(t) ==
  /\ op[t].pc = "undoslot"
  /\ IF Kind(t) = "local"
     THEN slot' = [slot EXCEPT ![t] = @ \ {op[t].site}] /\ UNCHANGED shared
     ELSE shared' = shared \ {op[t].site} /\ UNCHANGED slot
  /\ EndOp(t)
  /\ UNCHANGED <<patched, local, active, session, rest>>

\* This session has the source, or patched the target, already.
Aliased(t) ==
  \/ \E r \in local[t] : r.source = op[t].source
  \/ \E i \in 1 .. Len(session[t].patches) :
       session[t].patches[i].source \in {op[t].source, TargetOf(op[t].site)}

\* Under the ENTRIES lock, the overlap checks, reading, planning and allocating
\* may all refuse.
InstallRefused(t) ==
  /\ op[t].pc = "install"
  /\ Aliased(t) \/ holder = NoThread
  /\ Refuse(t)
  /\ UNCHANGED <<patched, slots, session, rest>>

-----------------------------------------------------------------------------
(* Local installation: install_replacement, under the ENTRIES mutex.       *)

Overlaps_SitesOnly(s, f) ==
  \E g \in Functions : Patched(g) /\ f # g /\ s \in records[g].sites

Overlaps_TargetsOnly(s, f) == \E g \in Functions : Patched(g) /\ TargetOf(s) = g

Overlaps(s, f) ==
  \E g \in Functions :
    Patched(g) /\ (TargetOf(s) = g \/ (f # g /\ s \in records[g].sites))

MayInstallLocal(t) ==
  /\ op[t].pc = "install" /\ Kind(t) = "local"
  /\ ~Aliased(t) /\ holder = NoThread
  /\ ~Overlaps(op[t].site, op[t].source)

Owned(t) == IF IsMock(op[t].site) THEN {op[t].site} ELSE {}

Item(t) == [source |-> op[t].source, site |-> op[t].site]

\* The route is pushed on LOCAL and the source on the session's local_patches.
AddLocal(t, dispatcher) ==
  /\ local' = [local EXCEPT ![t] = @ \cup
       {[source |-> op[t].source, dispatcher |-> dispatcher,
         target |-> TargetOf(op[t].site)]}]
  /\ session' = [session EXCEPT ![t].local = @ \cup {Item(t)},
                                ![t].mocks = @ \cup Owned(t)]
  /\ EndOp(t)

JoinEntry(t) ==
  /\ MayInstallLocal(t) /\ Patched(op[t].source)
  /\ LET f == op[t].source
     IN  /\ records' = [records EXCEPT ![f].sites = @ \cup {op[t].site}]
         /\ AddLocal(t, entry[records[f].entry].dispatcher)
  /\ UNCHANGED <<code, entry, head, holder, slot, shared, active, rest>>

\* The first installation publishes the entry before it writes the code.
PublishEntry_CodeFirst(t) ==
  /\ MayInstallLocal(t) /\ ~Patched(op[t].source)
  /\ entry' = Append(entry, [source |-> op[t].source, dispatcher |-> op[t].site,
                             global |-> NoSite, next |-> head])
  /\ code' = [code EXCEPT ![op[t].source] = op[t].site]
  /\ holder' = t
  /\ op' = [op EXCEPT ![t].pc = "write", ![t].entry = Len(entry) + 1]
  /\ UNCHANGED <<head, records, slots, session, rest>>

PublishEntry(t) ==
  /\ MayInstallLocal(t) /\ ~Patched(op[t].source)
  /\ entry' = Append(entry, [source |-> op[t].source, dispatcher |-> op[t].site,
                             global |-> NoSite, next |-> head])
  /\ head' = Len(entry) + 1
  /\ holder' = t
  /\ op' = [op EXCEPT ![t].pc = "write", ![t].entry = Len(entry) + 1]
  /\ UNCHANGED <<code, records, slots, session, rest>>

WriteEntry(t) ==
  /\ op[t].pc = "write"
  /\ code' = [code EXCEPT ![op[t].source] = op[t].site]
  /\ Step(t, "written")
  /\ UNCHANGED <<table, slots, session, rest>>

\* Every way out of install_replacement drops the ENTRIES guard.
Release == holder' = NoThread

RecordEntry(t) ==
  /\ op[t].pc = "written"
  /\ records' = [records EXCEPT ![op[t].source] =
                   [entry |-> op[t].entry, sites |-> {op[t].site}]]
  /\ Release
  /\ AddLocal(t, op[t].site)
  /\ UNCHANGED <<code, entry, head, slot, shared, active, rest>>

\* memory::write fails before or after it changed the bytes, and undoes them.
WriteFails(t) ==
  /\ op[t].pc \in {"write", "written"}
  /\ MayFail /\ CountFailure
  /\ code' = [code EXCEPT ![op[t].source] = op[t].source]
  /\ Step(t, "unpublish")
  /\ UNCHANGED <<table, slots, session, call, aborted>>

Previous_Null(t) == 0

Previous(t) == entry[op[t].entry].next

Unpublish(t) ==
  /\ op[t].pc = "unpublish"
  /\ head' = Previous(t)
  /\ Release
  /\ Refuse(t)
  /\ UNCHANGED <<code, entry, records, slots, session, rest>>

-----------------------------------------------------------------------------
(* Global installation: install_raw and routing::global.                   *)

MayInstallGlobal(t) ==
  /\ op[t].pc = "install" /\ Kind(t) = "global"
  /\ ~Aliased(t) /\ holder = NoThread
  /\ \A g \in Functions : Patched(g) => TargetOf(op[t].site) # g

\* A function with an entry gets a global target; its code is not written.
\* The compare_exchange refuses a second one.
SetGlobal(t) ==
  /\ MayInstallGlobal(t) /\ Patched(op[t].source)
  /\ LET e == records[op[t].source].entry
     IN  /\ entry[e].global = NoSite
         /\ entry' = [entry EXCEPT ![e].global = TargetOf(op[t].site)]
  /\ session' = [session EXCEPT ![t].routes = Append(@, Item(t)),
                                ![t].mocks = @ \cup Owned(t)]
  /\ EndOp(t)
  /\ UNCHANGED <<code, head, records, holder, slots, rest>>

PatchRaw(t) ==
  /\ MayInstallGlobal(t) /\ ~Patched(op[t].source)
  /\ code' = [code EXCEPT ![op[t].source] = TargetOf(op[t].site)]
  /\ session' = [session EXCEPT ![t].patches = Append(@, Item(t)),
                                ![t].mocks = @ \cup Owned(t)]
  /\ EndOp(t)
  /\ UNCHANGED <<table, slots, rest>>

-----------------------------------------------------------------------------
(* Session::restore and drop: remove the local routes, the global targets  *)
(* and the patches, last first, then detach every mock.                    *)

Ending(t) == op[t].pc \in {"restore", "drop"}

EndBegin(t, how) ==
  /\ Free(t) /\ Kind(t) # "none"
  /\ MayEnd(t)
  /\ local' = [local EXCEPT ![t] =
       {r \in @ : \A i \in session[t].local : i.source # r.source}]
  /\ session' = [session EXCEPT ![t].local = {}]
  /\ Step(t, how)
  /\ UNCHANGED <<patched, slot, shared, active, rest>>

\* Vec::pop, after the last item was removed.
ButLast_Kept(q) == q

ButLast(q) == SubSeq(q, 1, Len(q) - 1)

\* remove_global stores 0 in the entry of f.
WithoutGlobal_Kept(f) == entry

WithoutGlobal(f) == [entry EXCEPT ![records[f].entry].global = NoSite]

RemoveGlobal(t) ==
  /\ Ending(t) /\ session[t].routes # <<>>
  /\ holder = NoThread
  /\ entry' = WithoutGlobal(session[t].routes[Len(session[t].routes)].source)
  /\ session' = [session EXCEPT ![t].routes = ButLast(@)]
  /\ UNCHANGED <<code, head, records, holder, slots, op, rest>>

AtPatches(t) == Ending(t) /\ session[t].routes = <<>> /\ session[t].patches # <<>>

RestorePatch_JumpKept(t) ==
  /\ AtPatches(t)
  /\ session' = [session EXCEPT ![t].patches = ButLast(@)]
  /\ UNCHANGED <<patched, slots, op, rest>>

RestorePatch(t) ==
  /\ AtPatches(t)
  /\ LET f == session[t].patches[Len(session[t].patches)].source
     IN  code' = [code EXCEPT ![f] = f]
  /\ session' = [session EXCEPT ![t].patches = ButLast(@)]
  /\ UNCHANGED <<table, slots, op, rest>>

\* restore panics and keeps the patch; drop aborts the process.
RestoreFails(t) ==
  /\ AtPatches(t)
  /\ MayFail /\ CountFailure
  /\ aborted' = (op[t].pc = "drop")
  /\ EndOp(t)
  /\ UNCHANGED <<patched, slots, session, call>>

\* OwnedMock::drop comes after every patch and route is gone.
AtMocks(t) == Ending(t) /\ session[t].routes = <<>> /\ session[t].patches = <<>>

LowerFlag(t, s) ==
  /\ AtMocks(t) /\ Kind(t) = "global"
  /\ s \in session[t].mocks /\ s \in active
  /\ active' = active \ {s}
  /\ UNCHANGED <<patched, local, slot, shared, session, op, rest>>

EmptySlot(t, s) ==
  /\ AtMocks(t) /\ s \in session[t].mocks /\ s \notin active
  /\ IF Kind(t) = "local"
     THEN slot' = [slot EXCEPT ![t] = @ \ {s}] /\ UNCHANGED shared
     ELSE shared' = shared \ {s} /\ UNCHANGED slot
  /\ session' = [session EXCEPT ![t].mocks = @ \ {s}]
  /\ UNCHANGED <<patched, local, active, op, rest>>

\* drop releases the SESSION lock last.
EndDone(t) ==
  /\ AtMocks(t) /\ session[t].mocks = {}
  /\ session' = IF op[t].pc = "drop" THEN [session EXCEPT ![t] = NoSession] ELSE session
  /\ EndOp(t)
  /\ UNCHANGED <<patched, slots, rest>>

-----------------------------------------------------------------------------
(* A call, followed from the function's entry to what answers it.          *)

Go(t, next) == call' = [call EXCEPT ![t] = next]

OnlyCall == UNCHANGED <<patched, slots, session, op, used, aborted>>

Answer(t, outcome) == [call[t] EXCEPT !.pc = "answered", !.outcome = outcome]

\* Control reaches an address.  A mock! dispatcher looks at its slots first.
Arrive(t, x) ==
  IF x \in Functions THEN Answer(t, <<"goto", x>>)
  ELSE [call[t] EXCEPT !.pc = IF IsMock(x) THEN "dispatch" ELSE "route", !.site = x]

CallBegin(t, f) ==
  /\ Free(t) /\ MayCall(f)
  /\ Go(t, [NoCall EXCEPT !.pc = "entry", !.fn = f])
  /\ OnlyCall

ReadCode(t) ==
  /\ call[t].pc = "entry"
  /\ LET f == call[t].fn
     IN  Go(t, IF code[f] = f THEN Answer(t, <<"original", f>>) ELSE Arrive(t, code[f]))
  /\ OnlyCall

CheckLocalSlot(t) ==
  /\ call[t].pc = "dispatch"
  /\ Go(t, IF call[t].site \in slot[t] THEN Answer(t, <<"mock", call[t].site>>)
           ELSE [call[t] EXCEPT !.pc = "flag"])
  /\ OnlyCall

CheckFlag(t) ==
  /\ call[t].pc = "flag"
  /\ Go(t, [call[t] EXCEPT !.pc = IF call[t].site \in active THEN "slot" ELSE "route"])
  /\ OnlyCall

CheckShared(t) ==
  /\ call[t].pc = "slot"
  /\ Go(t, IF call[t].site \in shared THEN Answer(t, <<"mock", call[t].site>>)
           ELSE [call[t] EXCEPT !.pc = "route"])
  /\ OnlyCall

\* The list of published entries, from any of its elements.
Reach == LET from[i \in 0 .. Len(entry)] ==
               IF i = 0 THEN {} ELSE {i} \cup from[entry[i].next]
         IN  from

Found_Newest(s) == {i \in Reach[head] : i = head}

\* The entries that fallback can find for a dispatcher, newest first.
Found(s) == {i \in Reach[head] : entry[i].dispatcher = s}

LocalRoutes(t, s) == {r \in local[t] : r.dispatcher = s /\ r.target # s}

\* route: the thread's own target, else the published entry; none is a panic.
Route(t) ==
  /\ call[t].pc = "route"
  /\ LET s == call[t].site
     IN  Go(t, IF LocalRoutes(t, s) # {}
               THEN Arrive(t, (CHOOSE r \in LocalRoutes(t, s) : TRUE).target)
               ELSE IF Found(s) # {}
               THEN [call[t] EXCEPT !.pc = "global",
                       !.entry = CHOOSE i \in Found(s) : \A j \in Found(s) : i >= j]
               ELSE [call[t] EXCEPT !.pc = "panic"])
  /\ OnlyCall

GlobalTarget_Ignored(e) == NoSite

GlobalTarget(e) == entry[e].global

ReadGlobal(t) ==
  /\ call[t].pc = "global"
  /\ LET e == call[t].entry
     IN  Go(t, IF GlobalTarget(e) = NoSite THEN Answer(t, <<"original", entry[e].source>>)
               ELSE Arrive(t, GlobalTarget(e)))
  /\ OnlyCall

\* The call returns, or goes on in the function that replaces its own.
Return(t) ==
  /\ call[t].pc \in {"answered", "panic"}
  /\ Go(t, IF call[t].pc = "answered" /\ call[t].outcome[1] = "goto"
           THEN [NoCall EXCEPT !.pc = "entry", !.fn = call[t].outcome[2]]
           ELSE NoCall)
  /\ OnlyCall

-----------------------------------------------------------------------------
\* What a session with these installations promises to do with calls of f.
OutcomeOf(s) == IF IsMock(s) THEN <<"mock", s>> ELSE <<"goto", Replaces[s]>>

Installed(t) ==
  session[t].local \cup {session[t].routes[i] : i \in 1 .. Len(session[t].routes)}
                   \cup {session[t].patches[i] : i \in 1 .. Len(session[t].patches)}

\* The session whose mocks apply to thread t: its own, or the global one.
Governs(u, t) == Kind(u) # "none" /\ (u = t \/ Kind(u) = "global")

\* A function is mocked or original; while its installation is under way, or a
\* session is ending or failed to end, it may be either.
Promises(t, f) ==
  LET by == {u \in Threads : Governs(u, t)}
      firm == {OutcomeOf(i.site) : i \in {j \in UNION {Installed(u) : u \in by} : j.source = f}}
      starting == {OutcomeOf(op[u].site) : u \in {v \in by : op[v].source = f}}
      ending == {OutcomeOf(s) : s \in {m \in UNION {session[u].mocks : u \in by} :
                   /\ <<m, f>> \in Uses
                   /\ \A u \in by : [source |-> f, site |-> m] \notin Installed(u)}}
  IN  firm \cup starting \cup ending \cup (IF firm = {} THEN {<<"original", f>>} ELSE {})

Observe ==
  promised' = [t \in Threads |->
    IF call'[t].pc = "idle" THEN {}
    ELSE Promises(t, call[t].fn)' \cup (IF call[t].pc # "idle" /\ call'[t].pc # "entry"
                                         THEN promised[t] ELSE {})]

\* What the library does by itself, once a call or an operation has begun.
CallStepOf(t) ==
  /\ ~aborted
  /\ \/ ReadCode(t) \/ CheckLocalSlot(t) \/ CheckFlag(t) \/ CheckShared(t)
     \/ Route(t) \/ ReadGlobal(t) \/ Return(t)

OpStepOf(t) ==
  /\ ~aborted
  /\ \/ \E kind \in Kinds : Acquire(t, kind)
     \/ FillSlot(t) \/ RaiseFlag(t) \/ UndoFlag(t) \/ UndoSlot(t) \/ InstallRefused(t)
     \/ JoinEntry(t) \/ PublishEntry(t) \/ WriteEntry(t) \/ RecordEntry(t)
     \/ WriteFails(t) \/ Unpublish(t) \/ SetGlobal(t) \/ PatchRaw(t)
     \/ RemoveGlobal(t) \/ RestorePatch(t) \/ RestoreFails(t) \/ EndDone(t)
     \/ \E s \in Sites : LowerFlag(t, s) \/ EmptySlot(t, s)

\* What the program may choose to do.
UserStep(t) ==
  \/ \E kind \in Kinds : Open(t, kind)
  \/ \E s \in Sites, f \in Functions : InstallBegin(t, s, f)
  \/ \E how \in {"restore", "drop"} : EndBegin(t, how)
  \/ \E f \in Functions : CallBegin(t, f)

\* The process aborted.
Stopped == aborted /\ UNCHANGED state

Next ==
  /\ (\E t \in Threads : CallStepOf(t) \/ OpStepOf(t) \/ UserStep(t)) \/ Stopped
  /\ Observe

Spec == Init /\ [][Next]_vars

-----------------------------------------------------------------------------
(* Properties.                                                             *)

\* Every call is answered by what its thread's session, or the global one,
\* promised at some moment since the call began: a mock of the right site, the
\* replacement, or the original of the function that was called.  Other threads'
\* local sessions, however they interleave, change nothing (route, fallback).
PromiseKept ==
  \A t \in Threads : call[t].pc = "answered" => call[t].outcome \in promised[t]

\* "A thread that reaches the dispatcher while the entry is being written must
\* still find the saved original": route never returns None.
RouteFound == \A t \in Threads : call[t].pc # "panic"

\* A session that has ended, or an installation that was refused, leaves no
\* route, slot, flag, global target or raw jump behind: the entry of a function
\* leads to its dispatcher if it was patched for good, to the target of the raw
\* patch that an open global session owns, and to the function itself otherwise.
NothingLeaks ==
  \A t \in Threads : op[t].pc = "idle" =>
    /\ {r.source : r \in local[t]} = {i.source : i \in session[t].local}
    /\ slot[t] = IF Kind(t) = "local" THEN session[t].mocks ELSE {}
    /\ (\A u \in Threads : Kind(u) # "global") =>
         /\ shared = {} /\ active = {}
         /\ \A e \in 1 .. Len(entry) : entry[e].global = NoSite
         /\ holder = NoThread => \A f \in Functions :
              code[f] = IF Patched(f) THEN entry[records[f].entry].dispatcher ELSE f
    /\ Kind(t) = "global" =>
         /\ shared = session[t].mocks /\ active = session[t].mocks
         /\ \A f \in Functions : ~Patched(f) /\ code[f] # f =>
              \E i \in 1 .. Len(session[t].patches) :
                /\ session[t].patches[i].source = f
                /\ code[f] = TargetOf(session[t].patches[i].site)

\* Where thread t goes from a call of f, if not to a body or a mock.
Hops(t, f) ==
  {Replaces[i.site] : i \in {j \in UNION {Installed(u) : u \in {v \in Threads : Governs(v, t)}} :
                               j.source = f /\ ~IsMock(j.site)}}

\* "Check for aliases and cycles": whatever is installed in whatever order and
\* on whichever threads, replacements never lead a thread in a circle.
NoCycle ==
  \A t \in Threads : \A C \in SUBSET Functions :
    C # {} => \E f \in C : Hops(t, f) \cap C = {}

\* Liveness: threads are scheduled; programs open finitely many sessions.
Fairness ==
  \A t \in Threads : WF_vars(CallStepOf(t) /\ Observe) /\ WF_vars(OpStepOf(t) /\ Observe)

FairSpec == Spec /\ Fairness

\* Dispatchers never forward a call to each other, or to themselves, forever.
CallsEnd == \A t \in Threads : InCall(t) ~> aborted \/ ~InCall(t)

\* No session operation waits forever for the ENTRIES lock.
OpsEnd ==
  \A t \in Threads :
    op[t].pc \notin {"idle", "waitlocal", "waitglobal"} ~> aborted \/ op[t].pc = "idle"
=============================================================================
