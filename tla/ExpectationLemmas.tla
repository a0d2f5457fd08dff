------------------------- MODULE ExpectationLemmas -------------------------
(***************************************************************************)
(* Lemmas about Expectation: accepted counts, the stacks of calls, and the *)
(* steps that change neither rules nor sequences.                          *)
(***************************************************************************)
EXTENDS Expectation, SequenceTheorems, TLAPS

-----------------------------------------------------------------------------
(* Counts.                                                                 *)

\* What the builder accepts is a well-formed count, and an exact positive one
\* when the rule is in a sequence (Config::validate, Config::for_once).
LEMMA AcceptedCount ==
  ASSUME NEW q \in Requests, RequestAccepted(q)
  PROVE  /\ ConfigCount(RequestConfig(q)) \in CallCounts
         /\ q.sequence # NoSequence =>
              /\ ConfigCount(RequestConfig(q)).max >= 1
              /\ ConfigCount(RequestConfig(q)).max # NoMax
  <1> DEFINE c == ConfigCount(RequestConfig(q))
  <1>1. /\ q \in RequestType
        /\ q.count \in CallCounts \cup {NoCount}
    BY ConstantsAssumption DEF RequestType
  <1>2. FromExact(1) \in CallCounts /\ FromRangeFull \in CallCounts
    BY UsizeMaxAssumption
    DEF FromExact, FromRangeFull, FromRangeFrom, CallCounts, Usize, NoMax
  <1>3. c \in CallCounts
    BY <1>1, <1>2, NoCountAssumption DEF ConfigCount, RequestConfig, ForOnceCount
  <1>4. c.min \in Usize /\ c.max \in Usize \cup {NoMax}
    BY <1>3 DEF CallCounts
  <1>5. ASSUME q.sequence # NoSequence
        PROVE  c.min # 0 /\ c.max = c.min
    BY <1>5 DEF RequestAccepted, ConfigAccepts, RequestConfig
  <1>6. QED
    BY <1>3, <1>4, <1>5 DEF Usize, NoMax

-----------------------------------------------------------------------------
(* The stacks of calls.                                                    *)

\* A call that points into its snapshot whenever it needs a rule.
GoodFrame(f) ==
  /\ f \in Frame
  /\ f.pc = "scan" => f.at >= 1
  /\ f.pc \in {"wait", "respond", "reused"} => f.at \in 1 .. Len(f.rules)

StacksOK == stack \in [Threads -> Seq(Frame)] /\ FrameInv

\* The innermost call is well formed.
LEMMA TopFrame ==
  ASSUME StacksOK, NEW t \in Threads, InCall(t)
  PROVE  /\ Depth(t) \in Nat \ {0}
         /\ GoodFrame(Top(t))
  <1>1. stack[t] \in Seq(Frame) /\ stack[t] # <<>>
    BY DEF StacksOK, InCall
  <1>2. Len(stack[t]) \in Nat \ {0}
    BY <1>1
  <1>3. stack[t][Len(stack[t])] \in Frame
    BY <1>1, <1>2
  <1>4. /\ Top(t).pc = "scan" => Top(t).at >= 1
        /\ Top(t).pc \in {"wait", "respond", "reused"} =>
             Top(t).at \in 1 .. Len(Top(t).rules)
    <2> DEFINE d == Len(stack[t])
    <2>1. d \in 1 .. Depth(t)
      BY <1>2 DEF Depth
    <2>2. QED
      BY <2>1, ZenonT(30) DEF StacksOK, FrameInv, Top, Depth
  <1>5. QED
    BY <1>2, <1>3, <1>4 DEF Depth, Top, GoodFrame

\* Entering a call keeps the stacks well formed (State::enter).
LEMMA PushStack ==
  ASSUME StacksOK, NEW t \in Threads, NEW f, GoodFrame(f), Push(t, f)
  PROVE  StacksOK'
  <1>1. \A u \in Threads : stack[u] \in Seq(Frame) /\ Len(stack[u]) \in Nat
    BY DEF StacksOK
  <1>2. stack' = [stack EXCEPT ![t] = Append(stack[t], f)]
    BY DEF Push
  <1>3. f \in Frame
    BY DEF GoodFrame
  <1>4. stack' \in [Threads -> Seq(Frame)]
    BY <1>1, <1>2, <1>3 DEF StacksOK
  <1>5. ASSUME NEW u \in Threads, NEW d \in 1 .. Len(stack'[u])
        PROVE  GoodFrame(stack'[u][d])
    <2>1. CASE u = t /\ d = Len(stack[t]) + 1
      BY <1>1, <1>2, <1>3, <2>1 DEF StacksOK
    <2>2. CASE ~(u = t /\ d = Len(stack[t]) + 1)
      <3>1. d \in 1 .. Len(stack[u]) /\ stack'[u][d] = stack[u][d]
        BY <1>1, <1>2, <1>3, <2>2 DEF StacksOK
      <3>2. stack[u][d] \in Frame
        BY <3>1, <1>1
      <3>3. QED
        BY <3>1, <3>2, ZenonT(30) DEF StacksOK, FrameInv, GoodFrame, Depth
    <2>3. QED
      BY <2>1, <2>2
  <1>6. QED
    BY <1>4, <1>5 DEF StacksOK, FrameInv, GoodFrame, Depth

\* Moving the innermost call on keeps the stacks well formed.
LEMMA ReplaceStack ==
  ASSUME StacksOK, NEW t \in Threads, InCall(t), NEW f, GoodFrame(f), Replace(t, f)
  PROVE  StacksOK'
  <1>1. \A u \in Threads : stack[u] \in Seq(Frame) /\ Len(stack[u]) \in Nat
    BY DEF StacksOK
  <1>2. stack' = [stack EXCEPT ![t] = [stack[t] EXCEPT ![Len(stack[t])] = f]]
    BY DEF Replace
  <1>3. f \in Frame
    BY DEF GoodFrame
  <1>4. [stack[t] EXCEPT ![Len(stack[t])] = f] \in Seq(Frame)
    BY <1>1, <1>3, ExceptSeq, TopFrame DEF Depth
  <1>5. stack' \in [Threads -> Seq(Frame)]
    BY <1>1, <1>2, <1>4 DEF StacksOK
  <1>6. ASSUME NEW u \in Threads, NEW d \in 1 .. Len(stack'[u])
        PROVE  GoodFrame(stack'[u][d])
    <2>1. Len(stack'[u]) = Len(stack[u])
      BY <1>1, <1>2, <1>3, ExceptSeq, TopFrame DEF StacksOK, Depth
    <2>2. CASE u = t /\ d = Len(stack[t])
      BY <1>1, <1>2, <2>1, <2>2 DEF StacksOK
    <2>3. CASE ~(u = t /\ d = Len(stack[t]))
      <3>1. d \in 1 .. Len(stack[u]) /\ stack'[u][d] = stack[u][d]
        BY <1>1, <1>2, <2>1, <2>3 DEF StacksOK
      <3>2. stack[u][d] \in Frame
        BY <3>1, <1>1
      <3>3. QED
        BY <3>1, <3>2, ZenonT(30) DEF StacksOK, FrameInv, GoodFrame, Depth
    <2>4. QED
      BY <2>2, <2>3
  <1>7. QED
    BY <1>5, <1>6, ZenonT(30) DEF StacksOK, FrameInv, GoodFrame, Depth

\* Leaving a call keeps the stacks well formed (CallGuard::drop).
LEMMA PopStack ==
  ASSUME StacksOK, NEW t \in Threads, InCall(t), Pop(t)
  PROVE  StacksOK'
  <1>1. \A u \in Threads : stack[u] \in Seq(Frame) /\ Len(stack[u]) \in Nat
    BY DEF StacksOK
  <1>2. stack' = [stack EXCEPT ![t] = SubSeq(stack[t], 1, Len(stack[t]) - 1)]
    BY DEF Pop
  <1>3. Len(stack[t]) \in Nat \ {0}
    BY TopFrame DEF Depth
  <1>4. /\ SubSeq(stack[t], 1, Len(stack[t]) - 1) \in Seq(Frame)
        /\ Len(SubSeq(stack[t], 1, Len(stack[t]) - 1)) = Len(stack[t]) - 1
        /\ \A d \in 1 .. Len(stack[t]) - 1 :
             SubSeq(stack[t], 1, Len(stack[t]) - 1)[d] = stack[t][d]
    BY <1>1, <1>3
  <1>5. stack' \in [Threads -> Seq(Frame)]
    BY <1>1, <1>2, <1>4 DEF StacksOK
  <1>6. ASSUME NEW u \in Threads, NEW d \in 1 .. Len(stack'[u])
        PROVE  GoodFrame(stack'[u][d])
    <2>1. d \in 1 .. Len(stack[u]) /\ stack'[u][d] = stack[u][d]
      BY <1>1, <1>2, <1>3, <1>4 DEF StacksOK
    <2>2. stack[u][d] \in Frame
      BY <2>1, <1>1
    <2>3. QED
      BY <2>1, <2>2, ZenonT(30) DEF StacksOK, FrameInv, GoodFrame, Depth
  <1>7. QED
    BY <1>5, <1>6, ZenonT(30) DEF StacksOK, FrameInv, GoodFrame, Depth

-----------------------------------------------------------------------------
(* Steps that touch no rule, no sequence and no builder.                   *)

\* The part of TypeOK about mocks and the session.
MocksOK ==
  /\ inner \in [Mocks -> [active : BOOLEAN, rules : Seq(Rules), failed : BOOLEAN]]
  /\ attached \in [Mocks -> BOOLEAN]
  /\ audit \in [Mocks -> [by : {"nobody", "checkpoint", "session"}, at : Nat]]
  /\ session \in [phase : {"open", "checking", "detaching"},
                  left : SUBSET Mocks, verdict : {"ok", "failed"}]
  /\ rejected \subseteq Mocks

\* The parts of the invariant that a step may have to re-establish.
LEMMA InvParts == IInv => MocksOK /\ StacksOK
  BY DEF IInv, TypeOK, MocksOK, StacksOK

\* A step that leaves mocks and session alone keeps them well formed.
LEMMA MocksSame ==
  ASSUME MocksOK, UNCHANGED <<inner, attached, audit, session, rejected>>
  PROVE  MocksOK'
  BY DEF MocksOK

\* SequenceInv, one sequence at a time.
LEMMA SlotsDef ==
  /\ SequenceInv <=> \A s \in SequenceIds : SlotsOK(s)
  /\ SequenceInv' <=> \A s \in SequenceIds : SlotsOK(s)'
  BY DEF SequenceInv

\* A sequence whose rules and progress a step leaves alone stays in shape.
LEMMA SlotsUnaffected ==
  ASSUME NEW s \in SequenceIds, SlotsOK(s), progress'[s] = progress[s],
         \A x \in Rules : /\ InSequence(x, s)' <=> InSequence(x, s)
                          /\ InSequence(x, s) => /\ meta'[x].count = meta[x].count
                                                 /\ meta'[x].index = meta[x].index
                                                 /\ meta'[x].calls = meta[x].calls
  PROVE  SlotsOK(s)'
  <1>1. ASSUME NEW i \in 0 .. progress'[s].next - 1
        PROVE  \E x \in Rules : InSequence(x, s)' /\ meta'[x].index = i
    <2>1. PICK x \in Rules : InSequence(x, s) /\ meta[x].index = i
      BY DEF SlotsOK
    <2>2. QED
      BY <2>1
  <1>2. ASSUME NEW x \in Rules, InSequence(x, s)'
        PROVE  /\ meta'[x].count.max >= 1
               /\ meta'[x].index < progress'[s].next
               /\ meta'[x].index < progress'[s].cursor =>
                    meta'[x].calls = meta'[x].count.max
               /\ meta'[x].index = progress'[s].cursor =>
                    meta'[x].calls < meta'[x].count.max
               /\ meta'[x].index > progress'[s].cursor => meta'[x].calls = 0
    BY <1>2 DEF SlotsOK
  <1>3. ASSUME NEW x \in Rules, InSequence(x, s)', NEW p \in Rules,
               InSequence(p, s)', meta'[p].index = meta'[x].index
        PROVE  p = x
    BY <1>3 DEF SlotsOK
  <1>4. progress'[s].cursor <= progress'[s].next
    BY DEF SlotsOK
  <1>5. QED
    BY <1>1, <1>2, <1>3, <1>4 DEF SlotsOK

\* Steps that touch neither rules nor sequences keep SequenceInv.
LEMMA SlotsSame ==
  ASSUME SequenceInv, UNCHANGED <<meta, progress>>
  PROVE  SequenceInv'
  <1> SUFFICES ASSUME NEW s \in SequenceIds PROVE SlotsOK(s)'
    BY SlotsDef
  <1>1. SlotsOK(s)
    BY SlotsDef
  <1>2. QED
    BY <1>1 DEF SlotsOK, InSequence

\* A step that leaves rules, sequences and builders alone (most steps of
\* select, of checkpoints and of the session's end) only has its mocks and
\* stacks to keep well formed.
LEMMA RulesUntouched ==
  ASSUME IInv, MocksOK', StacksOK', UNCHANGED <<meta, progress, building>>
  PROVE  IInv'
  <1>1. TypeOK'
    BY DEF IInv, TypeOK, MocksOK, StacksOK
  <1>2. BuildingInv'
    BY DEF IInv, BuildingInv
  <1>3. SequenceInv'
    BY SlotsSame DEF IInv
  <1>4. CountsRespected'
    BY DEF IInv, CountsRespected
  <1>5. QED
    BY <1>1, <1>2, <1>3, <1>4 DEF IInv, StacksOK

\* The rule that a call tries, or has claimed, is a rule.
LEMMA CurrentRule ==
  ASSUME IInv, NEW t \in Threads, InCall(t),
         Scanning(t) \/ Top(t).pc = "wait"
  PROVE  Current(t) \in Rules
  <1>1. GoodFrame(Top(t))
    BY InvParts, TopFrame
  <1>2. Top(t).rules \in Seq(Rules) /\ Top(t).at \in Nat
    BY <1>1 DEF GoodFrame, Frame
  <1>3. Top(t).at \in 1 .. Len(Top(t).rules)
    BY <1>1, <1>2 DEF GoodFrame, Scanning
  <1>4. QED
    BY <1>2, <1>3 DEF Current

\* A call that has taken its snapshot is well formed.
LEMMA SnapshotFrame ==
  ASSUME NEW f \in Frame, NEW s \in Seq(Rules)
  PROVE  GoodFrame([f EXCEPT !.pc = "scan", !.at = 1, !.rules = s])
  <1> DEFINE g == [f EXCEPT !.pc = "scan", !.at = 1, !.rules = s]
  <1>1. g \in Frame
    BY ZenonT(30) DEF Frame, CallStep
  <1>2. g.pc = "scan" /\ g.at = 1
    BY DEF Frame
  <1>3. QED
    BY <1>1, <1>2 DEF GoodFrame

\* Steps of a call that only move it on, or end it.
LEMMA CallMoves ==
  ASSUME IInv, NEW t \in Threads,
         \/ \E m \in Mocks, a \in Args : Enter(t, m, a)
         \/ Snapshot(t) \/ PassRule(t) \/ NoRuleLeft(t)
         \/ Fail(t) \/ Leave(t) \/ MatcherPanics(t)
  PROVE  IInv'
  <1> USE InvParts
  <1>1. ASSUME NEW m \in Mocks, NEW a \in Args, Enter(t, m, a) PROVE IInv'
    <2>1. GoodFrame(NewCall(t, m, a))
      BY DEF GoodFrame, Frame, CallStep, NewCall
    <2>2. QED
      BY <1>1, <2>1, PushStack, MocksSame, RulesUntouched DEF Enter
  <1>2. CASE Snapshot(t)
    <2> DEFINE f == Top(t)
               m == f.mock
               g == IF inner[m].active
                    THEN [f EXCEPT !.pc = "scan", !.at = 1, !.rules = inner[m].rules]
                    ELSE [f EXCEPT !.pc = "fail"]
    <2>1. InCall(t) /\ f \in Frame
      BY <1>2, TopFrame DEF Snapshot, GoodFrame
    <2>2. inner[m].rules \in Seq(Rules)
      BY <2>1 DEF MocksOK, Frame
    <2>3. GoodFrame(g)
      <3>1. CASE inner[m].active
        <4>1. g = [f EXCEPT !.pc = "scan", !.at = 1, !.rules = inner[m].rules]
          BY <3>1
        <4>2. QED
          BY <2>1, <2>2, <4>1, SnapshotFrame, ZenonT(30)
      <3>2. CASE ~inner[m].active
        <4>1. g = [f EXCEPT !.pc = "fail"]
          BY <3>2
        <4>2. QED
          BY <2>1, <4>1 DEF GoodFrame, Frame, CallStep
      <3>3. QED
        BY <3>1, <3>2
    <2>4. Replace(t, g)
      BY <1>2 DEF Snapshot
    <2>5. QED
      BY <1>2, <2>1, <2>3, <2>4, ReplaceStack, MocksSame, RulesUntouched DEF Snapshot
  <1>3. CASE PassRule(t)
    <2>1. InCall(t) /\ GoodFrame(Top(t)) /\ Top(t).pc = "scan"
      BY <1>3, TopFrame DEF PassRule, Scanning
    <2>2. GoodFrame([Top(t) EXCEPT !.at = @ + 1])
      BY <2>1 DEF GoodFrame, Frame
    <2>3. QED
      BY <1>3, <2>1, <2>2, ReplaceStack, MocksSame, RulesUntouched DEF PassRule
  <1>4. CASE NoRuleLeft(t)
    <2>1. InCall(t) /\ GoodFrame(Top(t))
      BY <1>4, TopFrame DEF NoRuleLeft
    <2>2. GoodFrame([Top(t) EXCEPT !.pc = "fail"])
      BY <2>1 DEF GoodFrame, Frame, CallStep
    <2>3. QED
      BY <1>4, <2>1, <2>2, ReplaceStack, MocksSame, RulesUntouched DEF NoRuleLeft
  <1>5. CASE Fail(t)
    <2>1. InCall(t) /\ Top(t).mock \in Mocks
      BY <1>5, TopFrame DEF Fail, GoodFrame, Frame
    <2>2. MocksOK'
      BY <1>5, <2>1, ZenonT(30) DEF MocksOK, Fail, FailedMocks
    <2>3. QED
      BY <1>5, <2>1, <2>2, PopStack, RulesUntouched DEF Fail
  <1>6. CASE Leave(t)
    BY <1>6, PopStack, MocksSame, RulesUntouched DEF Leave
  <1>7. CASE MatcherPanics(t)
    BY <1>7, PopStack, MocksSame, RulesUntouched DEF MatcherPanics, Scanning
  <1>8. QED
    BY <1>1, <1>2, <1>3, <1>4, <1>5, <1>6, <1>7

\* A mock whose rules were taken (checkpoint, deactivate) is well formed.
LEMMA EmptiedMock ==
  ASSUME NEW i \in [active : BOOLEAN, rules : Seq(Rules), failed : BOOLEAN]
  PROVE  /\ [i EXCEPT !.rules = <<>>]
              \in [active : BOOLEAN, rules : Seq(Rules), failed : BOOLEAN]
         /\ [i EXCEPT !.active = FALSE, !.rules = <<>>]
              \in [active : BOOLEAN, rules : Seq(Rules), failed : BOOLEAN]
  <1>1. <<>> \in Seq(Rules)
    OBVIOUS
  <1>2. QED
    BY <1>1, ZenonT(30)

\* Checkpoints, the session's checks and its end.
LEMMA MockSteps ==
  ASSUME IInv,
         \/ \E m \in Mocks : CheckpointBegin(m) \/ AuditStep(m)
         \/ Finish \/ SessionStep
  PROVE  IInv'
  <1> USE InvParts
  <1> DEFINE SessionType == [phase : {"open", "checking", "detaching"},
                             left : SUBSET Mocks, verdict : {"ok", "failed"}]
             AuditType == [by : {"nobody", "checkpoint", "session"}, at : Nat]
             InnerType == [active : BOOLEAN, rules : Seq(Rules), failed : BOOLEAN]
  <1>1. UNCHANGED stack => StacksOK'
    BY ZenonT(30) DEF StacksOK, FrameInv, Depth
  <1>0. ASSUME Reject PROVE session' \in SessionType
    BY <1>0, ZenonT(30) DEF MocksOK, Reject
  <1>9. ASSUME NEW m \in Mocks, session' = [session EXCEPT !.left = @ \ {m}]
        PROVE  session' \in SessionType
    <2>1. session.left \ {m} \in SUBSET Mocks
      BY DEF MocksOK
    <2>2. QED
      BY <1>9, <2>1, ZenonT(30) DEF MocksOK
  <1>2. ASSUME NEW m \in Mocks, CheckpointBegin(m) PROVE IInv'
    <2>1. MocksOK'
      BY <1>2 DEF MocksOK, CheckpointBegin, Lock
    <2>2. QED
      BY <1>1, <1>2, <2>1, RulesUntouched DEF CheckpointBegin
  <1>3. ASSUME NEW m \in Mocks, AuditRule(m) PROVE IInv'
    <2>1. MocksOK'
      <3>1. audit' \in [Mocks -> AuditType]
        <4>1. audit \in [Mocks -> AuditType] /\ audit[m] \in AuditType
          BY DEF MocksOK
        <4>2. [audit[m] EXCEPT !.at = @ + 1] \in AuditType
          BY <4>1
        <4>3. Unlocked \in AuditType
          BY DEF Unlocked
        <4>4. \/ audit' = [audit EXCEPT ![m] = [audit[m] EXCEPT !.at = @ + 1]]
              \/ audit' = [audit EXCEPT ![m] = Unlocked]
          BY <1>3 DEF AuditRule, Unlock
        <4> HIDE DEF AuditType
        <4>5. QED
          BY <4>1, <4>2, <4>3, <4>4
      <3>2. session' \in SessionType
        BY <1>3, <1>0 DEF MocksOK, AuditRule
      <3>3. QED
        BY <1>3, <3>1, <3>2 DEF MocksOK, AuditRule
    <2>2. QED
      BY <1>1, <1>3, <2>1, RulesUntouched DEF AuditRule
  <1>4. ASSUME NEW m \in Mocks, AuditEnd(m) PROVE IInv'
    <2>1. MocksOK'
      <3>1. audit' \in [Mocks -> AuditType]
        BY <1>4 DEF MocksOK, AuditEnd, Unlock, Unlocked
      <3>2. inner' \in [Mocks -> InnerType]
        <4>1. inner \in [Mocks -> InnerType] /\ inner[m] \in InnerType
          BY DEF MocksOK
        <4>2. [inner[m] EXCEPT !.rules = <<>>] \in InnerType
          BY <4>1, EmptiedMock, ZenonT(30)
        <4>3. \/ inner' = [inner EXCEPT ![m] = [inner[m] EXCEPT !.rules = <<>>]]
              \/ UNCHANGED inner
          BY <1>4 DEF AuditEnd
        <4> HIDE DEF InnerType
        <4>4. QED
          BY <4>1, <4>2, <4>3
      <3>3. session' \in SessionType
        BY <1>4, <1>9 DEF MocksOK, AuditEnd
      <3>4. QED
        BY <1>4, <3>1, <3>2, <3>3 DEF MocksOK, AuditEnd
    <2>2. QED
      BY <1>1, <1>4, <2>1, RulesUntouched DEF AuditEnd
  <1>5. CASE Finish \/ StartDetach
    <2>1. MocksOK'
      BY <1>5, ZenonT(30) DEF MocksOK, Finish, StartDetach
    <2>2. QED
      BY <1>1, <1>5, <2>1, RulesUntouched DEF Finish, StartDetach
  <1>6. ASSUME NEW m \in Mocks, CheckMock(m) PROVE IInv'
    <2>1. MocksOK'
      <3>1. audit' \in [Mocks -> AuditType]
        <4>1. audit \in [Mocks -> AuditType]
          BY DEF MocksOK
        <4>2. [by |-> "session", at |-> 1] \in AuditType
          OBVIOUS
        <4>3. \/ audit' = [audit EXCEPT ![m] = [by |-> "session", at |-> 1]]
              \/ UNCHANGED audit
          BY <1>6 DEF CheckMock, Lock
        <4> HIDE DEF AuditType
        <4>4. QED
          BY <4>1, <4>2, <4>3
      <3>2. session' \in SessionType
        BY <1>6, <1>0 DEF MocksOK, CheckMock
      <3>3. QED
        BY <1>6, <3>1, <3>2 DEF MocksOK, CheckMock
    <2>2. QED
      BY <1>1, <1>6, <2>1, RulesUntouched DEF CheckMock
  <1>7. ASSUME NEW m \in Mocks, Detach(m) \/ Deactivate(m) PROVE IInv'
    <2>1. MocksOK'
      <3>1. attached' \in [Mocks -> BOOLEAN]
        BY <1>7, ZenonT(30) DEF MocksOK, Detach, Deactivate
      <3>2. inner' \in [Mocks -> InnerType]
        <4> DEFINE ended == [inner[m] EXCEPT !.active = FALSE, !.rules = <<>>]
        <4>1. inner \in [Mocks -> InnerType] /\ inner[m] \in InnerType
          BY DEF MocksOK
        <4>3. ended \in InnerType
          BY <4>1, EmptiedMock, ZenonT(30)
        <4>4. inner' = [inner EXCEPT ![m] = ended] \/ UNCHANGED inner
          BY <1>7, <4>1, ZenonT(30) DEF Detach, Deactivate
        <4> HIDE DEF InnerType, ended
        <4>5. QED
          BY <4>1, <4>3, <4>4
      <3>3. session' \in SessionType
        BY <1>7, <1>9 DEF MocksOK, Detach, Deactivate
      <3>4. QED
        BY <1>7, <3>1, <3>2, <3>3 DEF MocksOK, Detach, Deactivate
    <2>2. QED
      BY <1>1, <1>7, <2>1, RulesUntouched DEF Detach, Deactivate
  <1>8. QED
    BY <1>2, <1>3, <1>4, <1>5, <1>6, <1>7 DEF AuditStep, SessionStep
=============================================================================
