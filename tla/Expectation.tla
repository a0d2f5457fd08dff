---------------------------- MODULE Expectation ----------------------------
(***************************************************************************)
(* The expectation engine of src/src/expectation.rs: mocks with ordered    *)
(* rules, call counts, sequences shared between mocks, and the threads     *)
(* whose calls claim rules and run their responses.                        *)
(*                                                                         *)
(* One step is one critical section of the code, so calls, rule            *)
(* installation, checkpoints and the end of the session interleave where   *)
(* the code holds no common lock.  User closures (matchers and responses)  *)
(* run between steps and may call mocks themselves.                        *)
(***************************************************************************)
EXTENDS CallCount, Sequences, FiniteSets

CONSTANTS Threads, Mocks, Rules, SequenceIds,
          Args,       \* argument values a matcher can tell apart
          Requests,   \* what builders ask for, see RequestType
          Nested,     \* <<m, n>>: a closure of mock m may call mock n
          Contract,   \* callers stop calls around configuration and checks
          NoRequest

\* asked holds the numbers of calls that the builder's words contain; the code
\* never sees it, only the count made of it.
RequestType == [count : CallCounts \cup {NoCount},
                asked : SUBSET Usize,
                sequence : SequenceIds \cup {NoSequence},
                once : BOOLEAN,
                accepts : SUBSET Args]

ASSUME ConstantsAssumption ==
  /\ Mocks # {}
  /\ Requests \subseteq RequestType
  /\ Nested \subseteq Mocks \X Mocks
  /\ Contract \in BOOLEAN
  /\ NoSequence \notin SequenceIds
  /\ NoRequest \notin [mock : Mocks, request : Requests, rule : Rules]

VARIABLES
  inner,     \* State.inner of each mock: [active, rules, failed]
  attached,  \* the dispatcher's slot still holds the mock's State
  meta,      \* Meta and action of each rule ever added
  progress,  \* SequenceProgress of each sequence: [next, cursor]
  stack,     \* the calls each thread is inside, innermost last
  building,  \* the rule a thread is adding, between add_with's two checks
  audit,     \* verify_inner in progress: it holds the mock's inner lock
  session,   \* the end of the session: [phase, left, verdict]
  rejected   \* history: the mocks that refused a call

vars == <<inner, attached, meta, progress, stack, building, audit, session, rejected>>

-----------------------------------------------------------------------------
\* Where a call is: about to snapshot the rules, trying rule number `at`,
\* waiting for the claimed rule's action lock, running its response, or about
\* to record a failure and panic.  "reused" is the panic of a one-shot response
\* that was already taken.
CallStep == {"select", "scan", "wait", "respond", "fail", "reused"}

Frame == [mock : Mocks, arg : Args, pc : CallStep, rules : Seq(Rules), at : Nat]

MetaType == [added : BOOLEAN, mock : Mocks, count : CallCounts,
             sequence : SequenceIds \cup {NoSequence}, index : Usize,
             calls : Usize, failed : BOOLEAN, once : BOOLEAN, taken : BOOLEAN,
             accepts : SUBSET Args]

Building == [mock : Mocks, request : Requests, rule : Rules]

TypeOK ==
  /\ inner \in [Mocks -> [active : BOOLEAN, rules : Seq(Rules), failed : BOOLEAN]]
  /\ attached \in [Mocks -> BOOLEAN]
  /\ meta \in [Rules -> MetaType]
  /\ progress \in [SequenceIds -> [next : Usize, cursor : Usize]]
  /\ stack \in [Threads -> Seq(Frame)]
  /\ building \in [Threads -> Building \cup {NoRequest}]
  /\ audit \in [Mocks -> [by : {"nobody", "checkpoint", "session"}, at : Nat]]
  /\ session \in [phase : {"open", "checking", "detaching"},
                  left : SUBSET Mocks, verdict : {"ok", "failed"}]
  /\ rejected \subseteq Mocks

-----------------------------------------------------------------------------
InCall(t) == stack[t] # <<>>

Depth(t) == Len(stack[t])

Top(t) == stack[t][Depth(t)]

\* The rule the innermost call of t is trying or has claimed.
Current(t) == Top(t).rules[Top(t).at]

\* ACTIVE_CALLS of thread t: one CallGuard per call it is inside.
ActiveCalls(t) == {stack[t][d].mock : d \in 1 .. Depth(t)}

Push(t, frame) == stack' = [stack EXCEPT ![t] = Append(@, frame)]

Replace(t, frame) == stack' = [stack EXCEPT ![t] = [@ EXCEPT ![Len(@)] = frame]]

\* Return or unwind: the CallGuard and any action lock are dropped.
Pop(t) == stack' = [stack EXCEPT ![t] = SubSeq(@, 1, Len(@) - 1)]

\* The innermost call has a rule to try: its matcher runs.
Scanning(t) ==
  InCall(t) /\ Top(t).pc = "scan" /\ Top(t).at <= Len(Top(t).rules)

Quiet == \A t \in Threads : ~InCall(t) /\ building[t] = NoRequest

InnerUnlocked(m) == audit[m].by = "nobody"

Unlocked == [by |-> "nobody", at |-> 0]

\* Some call is running the response of rule r, under its action mutex.
ActionHeld_FromClaim(r) ==
  \E t \in Threads : \E d \in 1 .. Depth(t) :
    /\ stack[t][d].pc \in {"wait", "respond"}
    /\ stack[t][d].rules[stack[t][d].at] = r

ActionHeld(r) ==
  \E t \in Threads : \E d \in 1 .. Depth(t) :
    /\ stack[t][d].pc = "respond"
    /\ stack[t][d].rules[stack[t][d].at] = r

-----------------------------------------------------------------------------
Init ==
  /\ inner = [m \in Mocks |-> [active |-> TRUE, rules |-> <<>>, failed |-> FALSE]]
  /\ attached = [m \in Mocks |-> TRUE]
  /\ meta = [r \in Rules |->
               [added |-> FALSE, mock |-> CHOOSE m \in Mocks : TRUE,
                count |-> FromRangeFull, sequence |-> NoSequence, index |-> 0,
                calls |-> 0, failed |-> FALSE, once |-> FALSE, taken |-> FALSE,
                accepts |-> {}]]
  /\ progress = [s \in SequenceIds |-> [next |-> 0, cursor |-> 0]]
  /\ stack = [t \in Threads |-> <<>>]
  /\ building = [t \in Threads |-> NoRequest]
  /\ audit = [m \in Mocks |-> Unlocked]
  /\ session = [phase |-> "open", left |-> {}, verdict |-> "ok"]
  /\ rejected = {}

-----------------------------------------------------------------------------
(* The documented rule for global mocks: stop a mock's calls while it is   *)
(* configured or checked, and join the callers before the session ends.    *)

CallsStopped(m) == \A t \in Threads : m \notin ActiveCalls(t)

NotConfigured(m) ==
  \A t \in Threads : building[t] # NoRequest => building[t].mock # m

MayCall(m) ==
  Contract => session.phase = "open" /\ NotConfigured(m) /\ InnerUnlocked(m)

MayConfigure(m) == Contract => session.phase = "open" /\ CallsStopped(m)

MayCheckpoint(m) ==
  Contract => session.phase = "open" /\ CallsStopped(m) /\ NotConfigured(m)

MayFinish == Contract => Quiet

-----------------------------------------------------------------------------
(* A call through the generated dispatcher.                                *)

\* The dispatcher clones the slot's State, then State::enter takes a CallGuard.
\* A mock that this thread is already inside rejects the call.
NewCall_Unguarded(t, m, a) ==
  [mock |-> m, arg |-> a, pc |-> "select", rules |-> <<>>, at |-> 0]

NewCall(t, m, a) ==
  [mock |-> m, arg |-> a, rules |-> <<>>, at |-> 0,
   pc |-> IF m \in ActiveCalls(t) THEN "fail" ELSE "select"]

\* Thread t runs user code that may call m: its own, or a matcher or a response.
MayReach(t, m) ==
  \/ ~InCall(t) /\ building[t] = NoRequest
  \/ /\ Scanning(t) \/ (InCall(t) /\ Top(t).pc = "respond")
     /\ <<Top(t).mock, m>> \in Nested

Enter(t, m, a) ==
  /\ MayReach(t, m)
  /\ MayCall(m)
  /\ attached[m]
  /\ Push(t, NewCall(t, m, a))
  /\ UNCHANGED <<inner, attached, meta, progress, building, audit, session, rejected>>

\* select clones the rules under the inner lock.
Snapshot(t) ==
  /\ InCall(t) /\ Top(t).pc = "select"
  /\ InnerUnlocked(Top(t).mock)
  /\ Replace(t, IF inner[Top(t).mock].active
                THEN [Top(t) EXCEPT !.pc = "scan", !.at = 1,
                                    !.rules = inner[Top(t).mock].rules]
                ELSE [Top(t) EXCEPT !.pc = "fail"])
  /\ UNCHANGED <<inner, attached, meta, progress, building, audit, session, rejected>>

Matches(t) == Top(t).arg \in meta[Current(t)].accepts

\* Meta::claim, in the order of its early returns.
Spent_OffByOne(r) == Bounded(meta[r].count) /\ meta[r].calls > meta[r].count.max

Spent(r) == Bounded(meta[r].count) /\ meta[r].calls >= meta[r].count.max

OutOfOrder_Later(r) ==
  /\ meta[r].sequence # NoSequence
  /\ progress[meta[r].sequence].cursor > meta[r].index

OutOfOrder(r) ==
  /\ meta[r].sequence # NoSequence
  /\ progress[meta[r].sequence].cursor # meta[r].index

Claim_Unchecked(r) ==
  IF meta[r].count.max = 0 THEN "rejected"
  ELSE IF Spent(r) THEN "exhausted"
  ELSE IF OutOfOrder(r) THEN "rejected"
  ELSE "taken"

Claim(r) ==
  IF meta[r].count.max = 0 THEN "rejected"
  ELSE IF Spent(r) THEN "exhausted"
  ELSE IF meta[r].calls = UsizeMax THEN "rejected"
  ELSE IF OutOfOrder(r) THEN "rejected"
  ELSE "taken"

\* The claim of the last allowed call of a sequenced rule opens the next slot.
\* The sequence's lock is taken inside the rule's, so this is one step.
CursorAfter_EveryCall(r) ==
  IF meta[r].sequence = NoSequence THEN progress
  ELSE [progress EXCEPT ![meta[r].sequence].cursor = @ + 1]

CursorAfter(r) ==
  IF meta[r].sequence # NoSequence /\ meta[r].count.max = meta[r].calls + 1
  THEN [progress EXCEPT ![meta[r].sequence].cursor = @ + 1]
  ELSE progress

TakeRule(t) ==
  /\ Scanning(t) /\ Matches(t)
  /\ Claim(Current(t)) = "taken"
  /\ progress' = CursorAfter(Current(t))
  /\ meta' = [meta EXCEPT ![Current(t)].calls = @ + 1]
  /\ Replace(t, [Top(t) EXCEPT !.pc = "wait"])
  /\ UNCHANGED <<inner, attached, building, audit, session, rejected>>

\* The loop moves on from a rule that does not match or has no calls left.
Passes_Rejected(t) == Matches(t) => Claim(Current(t)) # "taken"

Passes(t) == Matches(t) => Claim(Current(t)) = "exhausted"

PassRule(t) ==
  /\ Scanning(t) /\ Passes(t)
  /\ Replace(t, [Top(t) EXCEPT !.at = @ + 1])
  /\ UNCHANGED <<inner, attached, meta, progress, building, audit, session, rejected>>

\* Meta::fail: the rule keeps the failure, then select calls State::fail.
RejectClaim(t) ==
  /\ Scanning(t) /\ Matches(t)
  /\ Claim(Current(t)) = "rejected"
  /\ meta' = [meta EXCEPT ![Current(t)].failed = TRUE]
  /\ Replace(t, [Top(t) EXCEPT !.pc = "fail"])
  /\ UNCHANGED <<inner, attached, progress, building, audit, session, rejected>>

NoRuleLeft(t) ==
  /\ InCall(t) /\ Top(t).pc = "scan" /\ Top(t).at > Len(Top(t).rules)
  /\ Replace(t, [Top(t) EXCEPT !.pc = "fail"])
  /\ UNCHANGED <<inner, attached, meta, progress, building, audit, session, rejected>>

\* State::fail records that the mock failed and panics out of the call.
FailedMocks_IfActive(t) ==
  [inner EXCEPT ![Top(t).mock].failed = @ \/ inner[Top(t).mock].active]

FailedMocks(t) == [inner EXCEPT ![Top(t).mock].failed = TRUE]

Fail(t) ==
  /\ InCall(t) /\ Top(t).pc = "fail"
  /\ InnerUnlocked(Top(t).mock)
  /\ inner' = FailedMocks(t)
  /\ Pop(t)
  /\ rejected' = rejected \cup {Top(t).mock}
  /\ UNCHANGED <<attached, meta, progress, building, audit, session>>

\* The dispatcher locks the rule's action; a one-shot response is moved out.
Respond(t) ==
  /\ InCall(t) /\ Top(t).pc = "wait"
  /\ ~ActionHeld(Current(t))
  /\ Replace(t, [Top(t) EXCEPT !.pc =
       IF meta[Current(t)].once /\ meta[Current(t)].taken THEN "reused" ELSE "respond"])
  /\ meta' = [meta EXCEPT ![Current(t)].taken = @ \/ meta[Current(t)].once]
  /\ UNCHANGED <<inner, attached, progress, building, audit, session, rejected>>

\* The response returns or panics.
Leave(t) ==
  /\ InCall(t) /\ Top(t).pc \in {"respond", "reused"}
  /\ Pop(t)
  /\ UNCHANGED <<inner, attached, meta, progress, building, audit, session, rejected>>

\* A user matcher panics: the call unwinds without claiming anything.
MatcherPanics(t) ==
  /\ Scanning(t)
  /\ Pop(t)
  /\ UNCHANGED <<inner, attached, meta, progress, building, audit, session, rejected>>

-----------------------------------------------------------------------------
(* Adding a rule.                                                          *)

\* The builder's last call: for_once for a one-shot response, then validate.
RequestConfig(q) ==
  [count |-> IF q.once THEN ForOnceCount(q) ELSE q.count, sequence |-> q.sequence]

RequestAccepted(q) ==
  (q.once => ForOnceAccepts(q)) /\ ConfigAccepts(RequestConfig(q))

\* Rules stands for the heap; these are not in use.  Its size bounds the model.
Allocatable ==
  {r \in Rules :
     ~meta[r].added /\ \A t \in Threads : building[t] # NoRequest => building[t].rule # r}

\* add_with validates and checks that the mock is active, then builds the rule
\* with no lock held.  A refused request changes nothing.  A closure that adds
\* a rule in the middle of a call is the same step taken by another thread.
AddBegin(t, m, q) ==
  /\ ~InCall(t) /\ building[t] = NoRequest
  /\ MayConfigure(m)
  /\ RequestAccepted(q)
  /\ InnerUnlocked(m) /\ inner[m].active
  /\ Allocatable # {}
  /\ building' = [building EXCEPT ![t] =
       [mock |-> m, request |-> q, rule |-> CHOOSE r \in Allocatable : TRUE]]
  /\ UNCHANGED <<inner, attached, meta, progress, stack, audit, session, rejected>>

NewMeta(m, q) ==
  [added |-> TRUE, mock |-> m, count |-> ConfigCount(RequestConfig(q)),
   sequence |-> q.sequence,
   index |-> IF q.sequence = NoSequence THEN 0 ELSE progress[q.sequence].next,
   calls |-> 0, failed |-> FALSE, once |-> q.once, taken |-> FALSE,
   accepts |-> q.accepts]

SequenceFull(q) ==
  q.sequence # NoSequence /\ progress[q.sequence].next = UsizeMax

\* add_with checks again under the lock it pushes with.  A mock that ended
\* meanwhile, or a full sequence, returns an error and adds nothing.
MayCommit_NoRecheck(m, q) == ~SequenceFull(q)

MayCommit(m, q) == inner[m].active /\ ~SequenceFull(q)

\* Sequence::reserve, reached only once nothing else can refuse the rule.
Reserve_Early(m, q) ==
  IF q.sequence # NoSequence /\ ~SequenceFull(q)
  THEN [progress EXCEPT ![q.sequence].next = @ + 1]
  ELSE progress

Reserve(m, q) ==
  IF q.sequence # NoSequence /\ MayCommit(m, q)
  THEN [progress EXCEPT ![q.sequence].next = @ + 1]
  ELSE progress

AddCommit(t) ==
  /\ building[t] # NoRequest
  /\ LET m == building[t].mock
         q == building[t].request
         r == building[t].rule
     IN  /\ InnerUnlocked(m)
         /\ progress' = Reserve(m, q)
         /\ IF MayCommit(m, q)
            THEN /\ meta' = [meta EXCEPT ![r] = NewMeta(m, q)]
                 /\ inner' = [inner EXCEPT ![m].rules = Append(@, r)]
            ELSE UNCHANGED <<inner, meta>>
  /\ building' = [building EXCEPT ![t] = NoRequest]
  /\ UNCHANGED <<attached, stack, audit, session, rejected>>

-----------------------------------------------------------------------------
(* Verification: verify_inner looks at the mock's failure, then at one     *)
(* rule after another under each rule's own lock.  It holds the inner lock *)
(* throughout; claims do not take that lock and may run in between.        *)

RuleVerifies_FailureOnly(r) == ~meta[r].failed

RuleVerifies(r) == ~meta[r].failed /\ meta[r].calls >= meta[r].count.min

Lock(m, by) == audit' = [audit EXCEPT ![m] = [by |-> by, at |-> 1]]

Unlock_Leaked(m) == audit' = [audit EXCEPT ![m].at = 1]

Unlock(m) == audit' = [audit EXCEPT ![m] = Unlocked]

\* State::checkpoint starts; one that fails at once changes nothing.
CheckpointBegin(m) ==
  /\ InnerUnlocked(m)
  /\ MayCheckpoint(m)
  /\ inner[m].active /\ ~inner[m].failed
  /\ Lock(m, "checkpoint")
  /\ UNCHANGED <<inner, attached, meta, progress, stack, building, session, rejected>>

\* Session::check_expectations reaches mock m.
Reject == session' = [session EXCEPT !.verdict = "failed", !.phase = "detaching",
                                     !.left = Mocks]

CheckMock(m) ==
  /\ session.phase = "checking" /\ m \in session.left
  /\ \A n \in Mocks : audit[n].by # "session"
  /\ InnerUnlocked(m)
  /\ \/ ~inner[m].failed /\ Lock(m, "session") /\ UNCHANGED session
     \/ inner[m].failed /\ Reject /\ UNCHANGED audit
  /\ UNCHANGED <<inner, attached, meta, progress, stack, building, rejected>>

AuditRule(m) ==
  /\ ~InnerUnlocked(m)
  /\ audit[m].at <= Len(inner[m].rules)
  /\ \/ /\ RuleVerifies(inner[m].rules[audit[m].at])
        /\ audit' = [audit EXCEPT ![m].at = @ + 1]
        /\ UNCHANGED session
     \/ /\ ~RuleVerifies(inner[m].rules[audit[m].at])
        /\ Unlock(m)
        /\ IF audit[m].by = "session" THEN Reject ELSE UNCHANGED session
  /\ UNCHANGED <<inner, attached, meta, progress, stack, building, rejected>>

\* The mock verified: a checkpoint takes its rules, the session goes on.
AuditEnd(m) ==
  /\ ~InnerUnlocked(m)
  /\ audit[m].at > Len(inner[m].rules)
  /\ Unlock(m)
  /\ \/ /\ audit[m].by = "checkpoint"
        /\ inner' = [inner EXCEPT ![m].rules = <<>>]
        /\ UNCHANGED session
     \/ /\ audit[m].by = "session"
        /\ session' = [session EXCEPT !.left = @ \ {m}]
        /\ UNCHANGED inner
  /\ UNCHANGED <<attached, meta, progress, stack, building, rejected>>

-----------------------------------------------------------------------------
(* The end of the session (restore or drop): check every mock up to the    *)
(* first failure, then drop each OwnedMock, which clears the dispatcher's  *)
(* slot and deactivates the State.                                         *)

Finish ==
  /\ session.phase = "open"
  /\ MayFinish
  /\ session' = [session EXCEPT !.phase = "checking", !.left = Mocks]
  /\ UNCHANGED <<inner, attached, meta, progress, stack, building, audit, rejected>>

StartDetach ==
  /\ session.phase = "checking" /\ session.left = {}
  /\ session' = [session EXCEPT !.phase = "detaching", !.left = Mocks]
  /\ UNCHANGED <<inner, attached, meta, progress, stack, building, audit, rejected>>

Detach_WhenIdle(m) ==
  /\ session.phase = "detaching" /\ m \in session.left
  /\ \A n \in session.left : attached[n]
  /\ CallsStopped(m)
  /\ attached' = [attached EXCEPT ![m] = FALSE]
  /\ UNCHANGED <<inner, meta, progress, stack, building, audit, session, rejected>>

Detach(m) ==
  /\ session.phase = "detaching" /\ m \in session.left
  /\ \A n \in session.left : attached[n]
  /\ attached' = [attached EXCEPT ![m] = FALSE]
  /\ UNCHANGED <<inner, meta, progress, stack, building, audit, session, rejected>>

Deactivate(m) ==
  /\ session.phase = "detaching" /\ m \in session.left
  /\ ~attached[m]
  /\ InnerUnlocked(m)
  /\ inner' = [inner EXCEPT ![m].active = FALSE, ![m].rules = <<>>]
  /\ session' = [session EXCEPT !.left = @ \ {m}]
  /\ UNCHANGED <<attached, meta, progress, stack, building, audit, rejected>>

-----------------------------------------------------------------------------
\* What thread t does by itself once it has started.
CallStepOf(t) ==
  \/ Snapshot(t) \/ TakeRule(t) \/ PassRule(t) \/ RejectClaim(t)
  \/ NoRuleLeft(t) \/ Fail(t) \/ Respond(t) \/ Leave(t)

SessionStep ==
  StartDetach \/ \E m \in Mocks : CheckMock(m) \/ Detach(m) \/ Deactivate(m)

AuditStep(m) == AuditRule(m) \/ AuditEnd(m)

\* The session is over and every thread is back in its own code.
Done ==
  /\ session.phase = "detaching" /\ session.left = {}
  /\ Quiet
  /\ UNCHANGED vars

Next ==
  \/ \E t \in Threads :
       \/ \E m \in Mocks, a \in Args : Enter(t, m, a)
       \/ \E m \in Mocks, q \in Requests : AddBegin(t, m, q)
       \/ CallStepOf(t) \/ MatcherPanics(t) \/ AddCommit(t)
  \/ \E m \in Mocks : CheckpointBegin(m) \/ AuditStep(m)
  \/ Finish \/ SessionStep \/ Done

Spec == Init /\ [][Next]_vars

-----------------------------------------------------------------------------
(* Safety.                                                                 *)

\* Concurrent claims never take a rule past its upper count (Meta::claim).
CountsRespected ==
  \A r \in Rules : Bounded(meta[r].count) => meta[r].calls <= meta[r].count.max

\* A rule that a builder may add admits exactly the numbers of calls its range
\* contains, and an empty range is refused, also at the ends of usize (the
\* From conversions, for_once, validate).
RangesConverted ==
  \A t \in Threads : building[t] # NoRequest =>
    LET q == building[t].request
    IN  q.asked # {} /\ Admits(ConfigCount(RequestConfig(q))) = q.asked

InSequence(r, s) == meta[r].added /\ meta[r].sequence = s

\* A sequenced rule answers a call only after every earlier rule of its
\* sequence, on whichever mock, has answered all of its calls.
SequenceInOrder ==
  \A s \in SequenceIds : \A p, r \in Rules :
    /\ InSequence(p, s) /\ InSequence(r, s)
    /\ meta[p].index < meta[r].index /\ meta[r].calls > 0
    => meta[p].calls = meta[p].count.max

\* A refused or half-finished add never uses up a slot, and the slot at the
\* cursor always belongs to a rule with calls left: a sequence cannot wait for
\* a rule that does not exist or is already done (add_with, claim).
SequenceNeverStuck ==
  \A s \in SequenceIds :
    /\ progress[s].cursor <= progress[s].next
    /\ progress[s].cursor < progress[s].next =>
         \E r \in Rules : /\ InSequence(r, s)
                          /\ meta[r].index = progress[s].cursor
                          /\ meta[r].calls < meta[r].count.max

\* "The first matching rule with calls left wins": when a call has claimed a
\* rule, every earlier rule of its snapshot that matches the argument has
\* answered all of its calls, whatever other threads and a checkpoint did.
FirstMatchWins ==
  \A t \in Threads : \A d \in 1 .. Depth(t) :
    LET f == stack[t][d]
    IN  f.pc \in {"wait", "respond"} =>
          \A i \in 1 .. f.at - 1 :
            f.arg \in meta[f.rules[i]].accepts =>
              /\ meta[f.rules[i]].count.max > 0
              /\ meta[f.rules[i]].calls = meta[f.rules[i]].count.max

\* The dispatcher never finds a one-shot response already moved out
\* ("one-use return was already used").
OneShotOnce ==
  \A t \in Threads : \A d \in 1 .. Depth(t) : stack[t][d].pc # "reused"

\* A rule's failure reaches its mock: the mock has recorded a failure or the
\* call that failed is still on its way to record it, also when a checkpoint or
\* the end of the session has meanwhile removed the rule.
FailureReachesMock ==
  \A r \in Rules :
    meta[r].failed =>
      \/ inner[meta[r].mock].failed
      \/ \E t \in Threads : \E d \in 1 .. Depth(t) :
           stack[t][d].mock = meta[r].mock /\ stack[t][d].pc = "fail"

\* CallGuard: a thread never waits for an action lock that it holds itself.
NoSelfWait ==
  \A t \in Threads : \A d, e \in 1 .. Depth(t) :
    /\ stack[t][d].pc = "wait" /\ stack[t][e].pc = "respond"
    => stack[t][d].rules[stack[t][d].at] # stack[t][e].rules[stack[t][e].at]

\* A mock that has ended keeps no rule alive: an add that saw it active cannot
\* push its rule afterwards (add_with, deactivate).
EndedMockStaysEmpty == \A m \in Mocks : ~inner[m].active => inner[m].rules = <<>>

\* When callers follow the contract, the session's verdict is exact: it passes
\* if and only if no mock refused a call and every rule ever added, including
\* those that checkpoints removed, got at least its minimum of calls.
VerdictExact ==
  Contract /\ session.phase = "detaching" =>
    (session.verdict = "ok" <=>
       /\ rejected = {}
       /\ \A r \in Rules : meta[r].added => meta[r].calls >= meta[r].count.min)

-----------------------------------------------------------------------------
(* The inductive invariant behind the theorems of ExpectationProofs.       *)

\* Rules under construction are private to their builder and well formed.
BuildingInv ==
  /\ \A r \in Rules : ~meta[r].added => meta[r].sequence = NoSequence
  /\ \A t \in Threads : building[t] # NoRequest =>
       /\ RequestAccepted(building[t].request)
       /\ ~meta[building[t].rule].added
       /\ \A u \in Threads :
            building[u] # NoRequest /\ building[u].rule = building[t].rule => u = t

\* A call that tries or has claimed a rule points into its snapshot.
FrameInv ==
  \A t \in Threads : \A d \in 1 .. Depth(t) :
    LET f == stack[t][d]
    IN  /\ f.pc = "scan" => f.at >= 1
        /\ f.pc \in {"wait", "respond", "reused"} => f.at \in 1 .. Len(f.rules)

\* The cursor divides a sequence: rules before it are done, the rule at it is
\* not, and rules behind it have not started.  Slots are handed out once.
SlotsOK(s) ==
  /\ progress[s].cursor <= progress[s].next
  /\ \A i \in 0 .. progress[s].next - 1 :
       \E r \in Rules : InSequence(r, s) /\ meta[r].index = i
  /\ \A r \in Rules : InSequence(r, s) =>
       /\ meta[r].count.max >= 1
       /\ meta[r].index < progress[s].next
       /\ meta[r].index < progress[s].cursor => meta[r].calls = meta[r].count.max
       /\ meta[r].index = progress[s].cursor => meta[r].calls < meta[r].count.max
       /\ meta[r].index > progress[s].cursor => meta[r].calls = 0
       /\ \A p \in Rules :
            InSequence(p, s) /\ meta[p].index = meta[r].index => p = r

\* Every sequence is in that shape.
SequenceInv == \A s \in SequenceIds : SlotsOK(s)

\* A rule never exceeds its count, slots of a sequence are used in order and
\* every call and every rule under construction is well formed.
IInv == TypeOK /\ BuildingInv /\ FrameInv /\ SequenceInv /\ CountsRespected

-----------------------------------------------------------------------------
(* Liveness.  Fairness: threads are scheduled, mutexes are handed on, and  *)
(* user closures return, so a call at any depth does not stay forever      *)
(* between two of its steps.                                               *)

\* CallGuard lets a thread into each mock once; a call that it refuses is one more.
Deepest ==
  IF \E m \in Mocks : <<m, m>> \in Nested THEN Cardinality(Mocks) + 1 ELSE Cardinality(Mocks)

CallFairness ==
  /\ \A t \in Threads :
       /\ WF_vars(AddCommit(t))
       /\ \A d \in 1 .. Deepest : SF_vars(Depth(t) = d /\ CallStepOf(t))
  /\ \A m \in Mocks : WF_vars(AuditStep(m))

\* The thread that ends the session gets each lock it waits for in the end.
SessionFairness == SF_vars(SessionStep)

CallsFairSpec == Spec /\ CallFairness

FairSpec == Spec /\ CallFairness /\ SessionFairness

\* Every call on a mock comes back, unless mocks of different threads can call
\* each other in a cycle.
EveryCallEnds == \A t \in Threads : InCall(t) ~> ~InCall(t)

\* A session that starts to end finishes its checks and drops every mock, while
\* other threads go on calling, adding rules and running checkpoints.
SessionEnds ==
  session.phase # "open" ~> session.phase = "detaching" /\ session.left = {}
=============================================================================
