------------------------- MODULE ExpectationProofs -------------------------
(***************************************************************************)
(* Proofs about Expectation, for any threads, mocks, rules, sequences,     *)
(* requests and any width of usize, with or without the caller contract.   *)
(***************************************************************************)
EXTENDS ExpectationLemmas

-----------------------------------------------------------------------------
(* Steps that change rules and sequences.                                  *)

\* The last call of the rule at the cursor opens the next slot.
LEMMA SlotTaken ==
  ASSUME NEW s \in SequenceIds, NEW r \in Rules, SlotsOK(s), InSequence(r, s),
         meta[r].index = progress[s].cursor,
         meta[r].count.max = meta[r].calls + 1,
         \A x \in Rules : /\ InSequence(x, s)' <=> InSequence(x, s)
                          /\ meta'[x].count = meta[x].count
                          /\ meta'[x].index = meta[x].index
                          /\ meta[x].index \in Int
                          /\ meta[x].count.max \in Int,
         \A x \in Rules : meta'[x].calls = IF x = r THEN meta[r].calls + 1
                                                    ELSE meta[x].calls,
         progress[s].cursor \in Int, progress[s].next \in Int,
         progress[s].cursor + 1 <= progress[s].next,
         progress'[s].cursor = progress[s].cursor + 1,
         progress'[s].next = progress[s].next
  PROVE  SlotsOK(s)'
  <1>1. progress'[s].cursor <= progress'[s].next
    OBVIOUS
  <1>2. ASSUME NEW i \in 0 .. progress'[s].next - 1
        PROVE  \E x \in Rules : InSequence(x, s)' /\ meta'[x].index = i
    <2>1. PICK x \in Rules : InSequence(x, s) /\ meta[x].index = i
      BY DEF SlotsOK
    <2>2. QED
      BY <2>1
  <1>3. ASSUME NEW x \in Rules, InSequence(x, s)'
        PROVE  /\ meta'[x].count.max >= 1
               /\ meta'[x].index < progress'[s].next
               /\ \A p \in Rules :
                    InSequence(p, s)' /\ meta'[p].index = meta'[x].index => p = x
    BY <1>3 DEF SlotsOK
  <1>4. ASSUME NEW x \in Rules, InSequence(x, s)'
        PROVE  /\ meta'[x].index < progress'[s].cursor =>
                    meta'[x].calls = meta'[x].count.max
               /\ meta'[x].index = progress'[s].cursor =>
                    meta'[x].calls < meta'[x].count.max
               /\ meta'[x].index > progress'[s].cursor => meta'[x].calls = 0
    <2>1. CASE x = r
      BY <2>1
    <2>2. CASE x # r
      <3>1. InSequence(x, s) /\ meta[x].index # meta[r].index
        BY <1>4, <2>2 DEF SlotsOK
      <3>2. /\ meta[x].index < progress[s].cursor => meta[x].calls = meta[x].count.max
            /\ meta[x].index > progress[s].cursor => meta[x].calls = 0
            /\ meta[x].count.max >= 1
        BY <3>1 DEF SlotsOK
      <3>3. QED
        BY <2>2, <3>1, <3>2
    <2>3. QED
      BY <2>1, <2>2
  <1>5. QED
    BY <1>1, <1>2, <1>3, <1>4 DEF SlotsOK

\* A new rule gets the slot behind all others.
LEMMA SlotAdded ==
  ASSUME NEW s \in SequenceIds, NEW r \in Rules, NEW new, SlotsOK(s),
         \A x \in Rules : /\ InSequence(x, s)' <=> InSequence(x, s) \/ x = r
                          /\ x # r => meta'[x] = meta[x]
                          /\ x = r => meta'[x] = new /\ ~InSequence(x, s)
                          /\ meta[x].index \in Nat,
         new.index = progress[s].next, new.calls = 0, new.count.max >= 1,
         new.count.max \in Int,
         progress[s].next \in Nat, progress[s].cursor \in Nat,
         progress'[s].cursor = progress[s].cursor,
         progress'[s].next = progress[s].next + 1
  PROVE  SlotsOK(s)'
  <1>1. progress[s].cursor <= progress[s].next
    BY DEF SlotsOK
  <1>2. ASSUME NEW i \in 0 .. progress'[s].next - 1
        PROVE  \E x \in Rules : InSequence(x, s)' /\ meta'[x].index = i
    <2>1. CASE i = progress[s].next
      BY <2>1
    <2>2. CASE i # progress[s].next
      <3>1. PICK x \in Rules : InSequence(x, s) /\ meta[x].index = i
        BY <2>2 DEF SlotsOK
      <3>2. QED
        BY <3>1
    <2>3. QED
      BY <2>1, <2>2
  <1>3. \A p \in Rules : InSequence(p, s) => meta[p].index < progress[s].next
    BY DEF SlotsOK
  <1>4. ASSUME NEW x \in Rules, InSequence(x, s)', NEW p \in Rules,
               InSequence(p, s)', meta'[p].index = meta'[x].index
        PROVE  p = x
    <2>1. p # r => InSequence(p, s) /\ meta'[p] = meta[p]
      BY <1>4
    <2>2. x # r => InSequence(x, s) /\ meta'[x] = meta[x]
      BY <1>4
    <2>3. p = r <=> x = r
      BY <1>3, <1>4, <2>1, <2>2
    <2>4. QED
      BY <1>4, <2>1, <2>2, <2>3 DEF SlotsOK
  <1>5. ASSUME NEW x \in Rules, InSequence(x, s)'
        PROVE  /\ meta'[x].count.max >= 1
               /\ meta'[x].index < progress'[s].next
               /\ meta'[x].index < progress'[s].cursor =>
                    meta'[x].calls = meta'[x].count.max
               /\ meta'[x].index = progress'[s].cursor =>
                    meta'[x].calls < meta'[x].count.max
               /\ meta'[x].index > progress'[s].cursor => meta'[x].calls = 0
    <2>1. CASE x = r
      BY <1>1, <2>1
    <2>2. CASE x # r
      <3>1. InSequence(x, s) /\ meta'[x] = meta[x]
        BY <1>5, <2>2
      <3>2. QED
        BY <1>3, <3>1 DEF SlotsOK
    <2>3. QED
      BY <2>1, <2>2
  <1>6. progress'[s].cursor <= progress'[s].next
    BY <1>1
  <1>7. QED
    BY <1>2, <1>4, <1>5, <1>6 DEF SlotsOK

\* Marking a rule as failed or its response as taken concerns no count.
LEMMA RulesMarked ==
  ASSUME IInv, MocksOK', StacksOK', UNCHANGED <<progress, building>>,
         meta' \in [Rules -> MetaType],
         \A r \in Rules : /\ meta'[r].added = meta[r].added
                          /\ meta'[r].count = meta[r].count
                          /\ meta'[r].sequence = meta[r].sequence
                          /\ meta'[r].index = meta[r].index
                          /\ meta'[r].calls = meta[r].calls
  PROVE  IInv'
  <1>1. TypeOK'
    BY DEF IInv, TypeOK, MocksOK, StacksOK
  <1>2. BuildingInv'
    BY ZenonT(30) DEF IInv, TypeOK, BuildingInv, Building
  <1>3. SequenceInv'
    <2> SUFFICES ASSUME NEW s \in SequenceIds PROVE SlotsOK(s)'
      BY SlotsDef
    <2>1. SlotsOK(s)
      BY SlotsDef DEF IInv
    <2>2. \A x \in Rules : InSequence(x, s)' <=> InSequence(x, s)
      BY DEF InSequence
    <2>3. QED
      BY <2>1, <2>2, SlotsUnaffected
  <1>4. CountsRespected'
    BY DEF IInv, CountsRespected, Bounded
  <1>5. QED
    BY <1>1, <1>2, <1>3, <1>4 DEF IInv, StacksOK

\* Meta::fail and taking the response.
LEMMA MarkingSteps ==
  ASSUME IInv, NEW t \in Threads, RejectClaim(t) \/ Respond(t)
  PROVE  IInv'
  <1> USE InvParts
  <1> DEFINE r == Current(t)
  <1>1. InCall(t) /\ GoodFrame(Top(t))
    BY TopFrame DEF RejectClaim, Respond, Scanning
  <1>2. r \in Rules /\ meta \in [Rules -> MetaType] /\ meta[r] \in MetaType
    BY <1>1, CurrentRule DEF RejectClaim, Respond, IInv, TypeOK
  <1>3. CASE RejectClaim(t)
    <2>1. [meta[r] EXCEPT !.failed = TRUE] \in MetaType
      BY <1>2, ZenonT(30) DEF MetaType
    <2>2. meta' = [meta EXCEPT ![r] = [meta[r] EXCEPT !.failed = TRUE]]
      BY <1>3 DEF RejectClaim
    <2>3. meta' \in [Rules -> MetaType]
      BY <1>2, <2>1, <2>2
    <2>4. \A x \in Rules : /\ meta'[x].added = meta[x].added
                           /\ meta'[x].count = meta[x].count
                           /\ meta'[x].sequence = meta[x].sequence
                           /\ meta'[x].index = meta[x].index
                           /\ meta'[x].calls = meta[x].calls
      BY <1>2, <2>2 DEF MetaType
    <2>5. GoodFrame([Top(t) EXCEPT !.pc = "fail"])
      BY <1>1 DEF GoodFrame, Frame, CallStep
    <2>6. StacksOK'
      BY <1>1, <1>3, <2>5, ReplaceStack DEF RejectClaim
    <2>7. QED
      BY <1>3, <2>3, <2>4, <2>6, MocksSame, RulesMarked DEF RejectClaim
  <1>4. CASE Respond(t)
    <2> DEFINE taken == meta[r].taken \/ meta[r].once
               pc == IF meta[r].once /\ meta[r].taken THEN "reused" ELSE "respond"
    <2>1. taken \in BOOLEAN
      OBVIOUS
    <2>2. [meta[r] EXCEPT !.taken = taken] \in MetaType
      <3> HIDE DEF taken
      <3> QED
        BY <1>2, <2>1 DEF MetaType
    <2>3. meta' = [meta EXCEPT ![r] = [meta[r] EXCEPT !.taken = taken]]
      BY <1>4 DEF Respond
    <2>4. meta' \in [Rules -> MetaType]
      BY <1>2, <2>2, <2>3
    <2>5. \A x \in Rules : /\ meta'[x].added = meta[x].added
                           /\ meta'[x].count = meta[x].count
                           /\ meta'[x].sequence = meta[x].sequence
                           /\ meta'[x].index = meta[x].index
                           /\ meta'[x].calls = meta[x].calls
      BY <1>2, <2>3 DEF MetaType
    <2>6. pc \in {"reused", "respond"} /\ Top(t).pc = "wait"
      BY <1>4 DEF Respond
    <2>7. GoodFrame([Top(t) EXCEPT !.pc = pc])
      <3> HIDE DEF pc
      <3> QED
        BY <1>1, <2>6 DEF GoodFrame, Frame, CallStep
    <2>8. Replace(t, [Top(t) EXCEPT !.pc = pc])
      BY <1>4 DEF Respond
    <2>9. StacksOK'
      <3> HIDE DEF pc
      <3> QED
        BY <1>1, <2>7, <2>8, ReplaceStack
    <2>10. QED
      BY <1>4, <2>4, <2>5, <2>9, MocksSame, RulesMarked DEF Respond
  <1>5. QED
    BY <1>3, <1>4

\* Meta::claim keeps counts and the order of sequences.
LEMMA TakeStep ==
  ASSUME IInv, NEW t \in Threads, TakeRule(t)
  PROVE  IInv'
  <1> USE InvParts
  <1> DEFINE r == Current(t)
             s == meta[r].sequence
  <1>1. InCall(t) /\ GoodFrame(Top(t)) /\ Scanning(t)
    BY TopFrame DEF TakeRule, Scanning
  <1>2. /\ r \in Rules
        /\ meta \in [Rules -> MetaType]
        /\ progress \in [SequenceIds -> [next : Usize, cursor : Usize]]
        /\ UsizeMax \in Nat
    BY <1>1, CurrentRule, UsizeMaxAssumption DEF IInv, TypeOK
  <1>3. /\ meta[r].calls \in Usize /\ meta[r].count \in CallCounts
        /\ s \in SequenceIds \cup {NoSequence} /\ meta[r].index \in Usize
        /\ meta[r].added \in BOOLEAN
    BY <1>2 DEF MetaType
  <1>4. meta[r].calls + 1 \in Usize /\ ~Spent(r) /\ ~OutOfOrder(r)
    BY <1>2, <1>3 DEF TakeRule, Claim, Usize
  <1>5. meta' = [meta EXCEPT ![r] = [meta[r] EXCEPT !.calls = meta[r].calls + 1]]
    BY DEF TakeRule
  <1>6. \A x \in Rules : /\ meta'[x].added = meta[x].added
                         /\ meta'[x].count = meta[x].count
                         /\ meta'[x].sequence = meta[x].sequence
                         /\ meta'[x].index = meta[x].index
                         /\ meta'[x].calls = IF x = r THEN meta[r].calls + 1
                                             ELSE meta[x].calls
    BY <1>2, <1>5 DEF MetaType
  <1>7. meta' \in [Rules -> MetaType]
    <2>1. [meta[r] EXCEPT !.calls = meta[r].calls + 1] \in MetaType
      BY <1>2, <1>4, ZenonT(30) DEF MetaType
    <2>2. QED
      BY <1>2, <1>5, <2>1
  <1>8. MocksOK'
    BY MocksSame DEF TakeRule
  <1>9. StacksOK'
    <2>1. Top(t).pc = "scan" /\ Top(t).at <= Len(Top(t).rules)
      BY <1>1 DEF Scanning
    <2>2. GoodFrame([Top(t) EXCEPT !.pc = "wait"])
      BY <1>1, <2>1 DEF GoodFrame, Frame, CallStep
    <2>3. QED
      BY <1>1, <2>2, ReplaceStack DEF TakeRule
  <1>10. CountsRespected'
    BY <1>2, <1>3, <1>4, <1>6, SMTT(60)
    DEF IInv, CountsRespected, Bounded, Spent, CallCounts, Usize, NoMax
  <1>11. BuildingInv'
    BY <1>6 DEF TakeRule, IInv, TypeOK, BuildingInv, Building
  <1>12. CASE s = NoSequence \/ meta[r].count.max # meta[r].calls + 1
    <2>1. UNCHANGED progress
      BY <1>12 DEF TakeRule, CursorAfter
    <2>2. TypeOK'
      BY <1>7, <1>8, <1>9, <2>1 DEF TakeRule, IInv, TypeOK, MocksOK, StacksOK
    <2>3. SequenceInv'
      <3> SUFFICES ASSUME NEW q \in SequenceIds PROVE SlotsOK(q)'
        BY SlotsDef
      <3>1. SlotsOK(q) /\ q # NoSequence
        BY SlotsDef, ConstantsAssumption DEF IInv
      <3>2. ASSUME NEW x \in Rules, InSequence(x, q)
            PROVE  /\ x # r => meta'[x].calls = meta[x].calls
                   /\ x = r => /\ meta[x].index = progress[q].cursor
                               /\ meta'[x].calls < meta[x].count.max
        <4>1. meta[x].calls \in Int /\ meta[x].count.max \in Int
          BY <1>2, <3>2 DEF MetaType, CallCounts, Usize, NoMax
        <4>2. CASE x # r
          BY <1>6, <4>2
        <4>3. CASE x = r
          <5>1. meta[x].index = progress[q].cursor
            BY <1>4, <3>1, <3>2, <4>3 DEF OutOfOrder, InSequence
          <5>2. meta[x].calls < meta[x].count.max
            BY <3>1, <3>2, <5>1 DEF SlotsOK
          <5>3. meta'[x].calls = meta[x].calls + 1 /\ meta[x].count.max # meta[x].calls + 1
            BY <1>6, <1>12, <3>1, <3>2, <4>3 DEF InSequence
          <5>4. QED
            BY <4>1, <4>3, <5>1, <5>2, <5>3
        <4>4. QED
          BY <4>2, <4>3
      <3>3. \A x \in Rules : InSequence(x, q)' <=> InSequence(x, q)
        BY <1>6 DEF InSequence
      <3>4. \A x \in Rules : /\ meta'[x].count = meta[x].count
                             /\ meta'[x].index = meta[x].index
                             /\ meta[x].index \in Int
        BY <1>2, <1>6 DEF MetaType, Usize
      <3>5. progress[q].cursor \in Int
        BY <1>2 DEF Usize
      <3>6. QED
        BY <2>1, <3>1, <3>2, <3>3, <3>4, <3>5, SMTT(60) DEF SlotsOK
    <2>4. QED
      BY <1>9, <1>10, <1>11, <2>2, <2>3 DEF IInv, StacksOK
  <1>13. CASE s # NoSequence /\ meta[r].count.max = meta[r].calls + 1
    <2>1. /\ s \in SequenceIds /\ InSequence(r, s) /\ SlotsOK(s)
          /\ meta[r].index = progress[s].cursor
      BY <1>2, <1>3, <1>4, <1>13, SlotsDef
      DEF OutOfOrder, InSequence, IInv, BuildingInv
    <2>2. /\ progress[s].cursor \in Usize /\ progress[s].next \in Usize
          /\ progress[s].cursor + 1 <= progress[s].next
      <3>1. progress[s].cursor \in Usize /\ progress[s].next \in Usize
        BY <1>2, <2>1
      <3>2. progress[s].cursor < progress[s].next
        <4> HIDE DEF r, s
        <4> QED
          BY <1>2, <2>1 DEF SlotsOK
      <3>3. QED
        BY <1>2, <3>1, <3>2 DEF Usize
    <2>3. progress' = [progress EXCEPT ![s] =
                        [progress[s] EXCEPT !.cursor = progress[s].cursor + 1]]
      BY <1>13 DEF TakeRule, CursorAfter
    <2>4. progress' \in [SequenceIds -> [next : Usize, cursor : Usize]]
      <3>1. progress[s].cursor + 1 \in Usize
        BY <1>2, <2>2 DEF Usize
      <3>2. QED
        BY <1>2, <2>1, <2>3, <3>1
    <2>5. TypeOK'
      BY <1>7, <1>8, <1>9, <2>4 DEF TakeRule, IInv, TypeOK, MocksOK, StacksOK
    <2>6. SequenceInv'
      <3> SUFFICES ASSUME NEW q \in SequenceIds PROVE SlotsOK(q)'
        BY SlotsDef
      <3>1. SlotsOK(q)
        BY SlotsDef DEF IInv
      <3>2. \A x \in Rules : /\ InSequence(x, q)' <=> InSequence(x, q)
                             /\ meta'[x].count = meta[x].count
                             /\ meta'[x].index = meta[x].index
                             /\ meta[x].index \in Int
                             /\ meta[x].count.max \in Int
        BY <1>2, <1>6 DEF InSequence, MetaType, CallCounts, Usize, NoMax
      <3>3. CASE q # s
        <4>1. progress'[q] = progress[q]
          BY <1>2, <2>3, <3>3
        <4>2. \A x \in Rules : InSequence(x, q) => meta'[x].calls = meta[x].calls
          BY <1>6, <3>3 DEF InSequence
        <4>3. QED
          BY <3>1, <3>2, <4>1, <4>2, SlotsUnaffected
      <3>4. CASE q = s
        <4>1. /\ progress'[q].cursor = progress[q].cursor + 1
              /\ progress'[q].next = progress[q].next
          BY <1>2, <2>1, <2>3, <3>4
        <4>2. progress[q].cursor \in Int /\ progress[q].next \in Int
          BY <1>2, <2>2, <3>4, SMTT(30) DEF Usize
        <4>3. /\ InSequence(r, q) /\ meta[r].index = progress[q].cursor
              /\ progress[q].cursor + 1 <= progress[q].next
          BY <2>1, <2>2, <3>4
        <4>4. QED
          BY <1>2, <1>6, <1>13, <3>1, <3>2, <4>1, <4>2, <4>3, SlotTaken, ZenonT(30)
      <3>5. QED
        BY <3>3, <3>4
    <2>7. QED
      BY <1>9, <1>10, <1>11, <2>5, <2>6 DEF IInv, StacksOK
  <1>14. QED
    BY <1>12, <1>13

-----------------------------------------------------------------------------
(* Adding a rule.                                                          *)

\* The first half of add_with: the new rule is not used by anyone.
LEMMA AddBeginStep ==
  ASSUME IInv, NEW t \in Threads, NEW m \in Mocks, NEW q \in Requests,
         AddBegin(t, m, q)
  PROVE  IInv'
  <1> USE InvParts
  <1> DEFINE r == CHOOSE x \in Allocatable : TRUE
             b == [mock |-> m, request |-> q, rule |-> r]
  <1>1. r \in Allocatable
    BY DEF AddBegin
  <1>2. /\ r \in Rules /\ ~meta[r].added
        /\ \A u \in Threads : building[u] # NoRequest => building[u].rule # r
    BY <1>1 DEF Allocatable
  <1>4. /\ building \in [Threads -> Building \cup {NoRequest}]
        /\ building' = [building EXCEPT ![t] = b]
    BY DEF AddBegin, IInv, TypeOK
  <1> HIDE DEF r
  <1>3. b \in Building /\ b # NoRequest
    BY <1>2, ConstantsAssumption DEF Building
  <1>5. b.rule = r /\ b.request = q
    OBVIOUS
  <1> HIDE DEF b
  <1>6. TypeOK'
    <2>1. building' \in [Threads -> Building \cup {NoRequest}]
      BY <1>3, <1>4
    <2>2. UNCHANGED <<inner, attached, meta, progress, stack, audit, session, rejected>>
      BY DEF AddBegin
    <2>3. QED
      BY <2>1, <2>2 DEF IInv, TypeOK
  <1>7. BuildingInv'
    <2>1. \A x \in Rules : ~meta'[x].added => meta'[x].sequence = NoSequence
      BY DEF AddBegin, IInv, BuildingInv
    <2>2. ASSUME NEW u \in Threads, building'[u] # NoRequest
          PROVE  /\ RequestAccepted(building'[u].request)
                 /\ ~meta'[building'[u].rule].added
                 /\ \A v \in Threads :
                      building'[v] # NoRequest /\ building'[v].rule = building'[u].rule
                        => v = u
      <3>1. CASE u = t
        BY <1>2, <1>4, <1>5, <2>2, <3>1, ZenonT(30) DEF AddBegin
      <3>2. CASE u # t
        <4>1. building'[u] = building[u] /\ building[u] # NoRequest /\ UNCHANGED meta
          BY <1>4, <2>2, <3>2 DEF AddBegin
        <4>2. \A v \in Threads :
                /\ v # t => building'[v] = building[v]
                /\ v = t => building'[v].rule = r
          BY <1>4, <1>5
        <4>3. QED
          BY <1>2, <4>1, <4>2 DEF IInv, BuildingInv
      <3>3. QED
        BY <3>1, <3>2
    <2>3. QED
      BY <2>1, <2>2 DEF BuildingInv, RequestAccepted
  <1>8. FrameInv' /\ SequenceInv' /\ CountsRespected'
    <2>1. UNCHANGED <<stack, meta, progress>>
      BY DEF AddBegin
    <2>2. FrameInv'
      BY <2>1 DEF IInv, FrameInv, Depth
    <2>3. SequenceInv'
      BY <2>1, SlotsSame DEF IInv
    <2>4. CountsRespected'
      BY <2>1 DEF IInv, CountsRespected
    <2>5. QED
      BY <2>2, <2>3, <2>4
  <1>9. QED
    BY <1>6, <1>7, <1>8 DEF IInv

\* The second half of add_with, with Sequence::reserve.
LEMMA AddCommitStep ==
  ASSUME IInv, NEW t \in Threads, AddCommit(t)
  PROVE  IInv'
  <1> USE InvParts
  <1> DEFINE m == building[t].mock
             q == building[t].request
             r == building[t].rule
  <1>1. /\ building \in [Threads -> Building \cup {NoRequest}]
        /\ meta \in [Rules -> MetaType]
        /\ progress \in [SequenceIds -> [next : Usize, cursor : Usize]]
        /\ building[t] # NoRequest
    BY DEF AddCommit, IInv, TypeOK
  <1>2. m \in Mocks /\ q \in Requests /\ r \in Rules /\ q \in RequestType
    BY <1>1, ConstantsAssumption DEF Building
  <1>3. /\ RequestAccepted(q) /\ ~meta[r].added
        /\ meta[r].sequence = NoSequence
        /\ \A u \in Threads : building[u] # NoRequest /\ building[u].rule = r => u = t
    BY <1>1, <1>2 DEF IInv, BuildingInv
  <1>4. building' = [building EXCEPT ![t] = NoRequest]
    BY DEF AddCommit
  <1>5. building' \in [Threads -> Building \cup {NoRequest}]
    BY <1>1, <1>4
  <1>6. StacksOK'
    BY DEF AddCommit, StacksOK, FrameInv, Depth
  <1>7. CASE ~MayCommit(m, q)
    <2>1. UNCHANGED <<inner, meta, progress>>
      BY <1>7 DEF AddCommit, Reserve
    <2>2. TypeOK'
      BY <1>5, <2>1 DEF AddCommit, IInv, TypeOK
    <2>3. BuildingInv'
      BY <1>1, <1>4, <2>1 DEF IInv, BuildingInv
    <2>4. SequenceInv' /\ CountsRespected'
      BY <2>1, SlotsSame DEF IInv, CountsRespected
    <2>5. QED
      BY <1>6, <2>2, <2>3, <2>4 DEF IInv, StacksOK
  <1>8. CASE MayCommit(m, q)
    <2> DEFINE new == NewMeta(m, q)
    <2>1. /\ meta' = [meta EXCEPT ![r] = new]
          /\ inner' = [inner EXCEPT ![m].rules = Append(inner[m].rules, r)]
          /\ progress' = IF q.sequence # NoSequence
                         THEN [progress EXCEPT ![q.sequence] =
                                [progress[q.sequence] EXCEPT
                                   !.next = progress[q.sequence].next + 1]]
                         ELSE progress
      BY <1>8 DEF AddCommit, Reserve
    <2>2. /\ q.sequence \in SequenceIds \cup {NoSequence}
          /\ q.once \in BOOLEAN /\ q.accepts \in SUBSET Args
      BY <1>2 DEF RequestType
    <2>3. /\ ConfigCount(RequestConfig(q)) \in CallCounts
          /\ q.sequence # NoSequence =>
               /\ ConfigCount(RequestConfig(q)).max >= 1
               /\ ConfigCount(RequestConfig(q)).max # NoMax
      BY <1>2, <1>3, AcceptedCount
    <2>4. q.sequence # NoSequence =>
            /\ progress[q.sequence].next \in Usize
            /\ progress[q.sequence].next + 1 \in Usize
      <3> SUFFICES ASSUME q.sequence # NoSequence
                   PROVE  /\ progress[q.sequence].next \in Usize
                          /\ progress[q.sequence].next + 1 \in Usize
        OBVIOUS
      <3>1. progress[q.sequence].next \in Usize
        BY <1>1, <2>2
      <3>2. progress[q.sequence].next # UsizeMax
        BY <1>8 DEF MayCommit, SequenceFull
      <3>3. QED
        BY <3>1, <3>2, UsizeMaxAssumption DEF Usize
    <2>5. new \in MetaType
      <3> DEFINE ix == IF q.sequence = NoSequence THEN 0 ELSE progress[q.sequence].next
                 c == ConfigCount(RequestConfig(q))
      <3>1. ix \in Usize /\ 0 \in Usize
        BY <2>4, UsizeMaxAssumption DEF Usize
      <3>2. new = [added |-> TRUE, mock |-> m, count |-> c, sequence |-> q.sequence,
                   index |-> ix, calls |-> 0, failed |-> FALSE, once |-> q.once,
                   taken |-> FALSE, accepts |-> q.accepts]
        BY DEF NewMeta
      <3> HIDE DEF ix, c, new, m
      <3>3. c \in CallCounts /\ m \in Mocks
        BY <1>2, <2>3 DEF c
      <3>4. QED
        BY <2>2, <3>1, <3>2, <3>3 DEF MetaType
    <2>6. /\ new.added = TRUE /\ new.calls = 0 /\ new.sequence = q.sequence
          /\ new.count = ConfigCount(RequestConfig(q))
          /\ q.sequence # NoSequence => new.index = progress[q.sequence].next
      BY ZenonT(30) DEF NewMeta
    <2> HIDE DEF new
    <2>7. meta' \in [Rules -> MetaType]
      BY <1>1, <1>2, <2>1, <2>5
    <2>8. progress' \in [SequenceIds -> [next : Usize, cursor : Usize]]
      BY <1>1, <2>1, <2>2, <2>4
    <2>9. MocksOK'
      <3> DEFINE InnerType == [active : BOOLEAN, rules : Seq(Rules), failed : BOOLEAN]
                 grown == [inner[m] EXCEPT !.rules = Append(inner[m].rules, r)]
      <3>1. inner \in [Mocks -> InnerType] /\ inner[m] \in InnerType
        BY <1>2 DEF MocksOK
      <3>2. Append(inner[m].rules, r) \in Seq(Rules)
        <4> HIDE DEF m, r
        <4>1. inner[m].rules \in Seq(Rules) /\ r \in Rules
          BY <1>2, <3>1
        <4>2. QED
          BY <4>1, AppendProperties
      <3>3. grown \in InnerType
        BY <3>1, <3>2, ZenonT(30)
      <3>4. inner' = [inner EXCEPT ![m] = grown]
        BY <2>1
      <3>5. inner' \in [Mocks -> InnerType]
        <4> HIDE DEF InnerType, grown
        <4> QED
          BY <1>2, <3>1, <3>3, <3>4
      <3>6. QED
        BY <3>5 DEF AddCommit, MocksOK
    <2>10. TypeOK'
      BY <1>5, <1>6, <2>7, <2>8, <2>9 DEF TypeOK, MocksOK, StacksOK
    <2>11. \A x \in Rules : meta'[x] = IF x = r THEN new ELSE meta[x]
      BY <1>1, <1>2, <2>1
    <2>12. BuildingInv'
      <3>1. \A x \in Rules : ~meta'[x].added => meta'[x].sequence = NoSequence
        BY <2>6, <2>11 DEF IInv, BuildingInv
      <3>2. ASSUME NEW u \in Threads, building'[u] # NoRequest
            PROVE  /\ u # t /\ building'[u] = building[u]
                   /\ building[u].rule \in Rules /\ building[u].rule # r
        BY <1>1, <1>3, <1>4, <3>2 DEF Building
      <3>3. QED
        BY <2>11, <3>1, <3>2, SMTT(60) DEF IInv, BuildingInv, RequestAccepted
    <2>13. CountsRespected'
      <3>1. ~Bounded(new.count) \/ new.calls <= new.count.max
        BY <2>3, <2>6, UsizeMaxAssumption DEF Bounded, CallCounts, Usize, NoMax
      <3>2. QED
        BY <2>11, <3>1 DEF IInv, CountsRespected, Bounded
    <2>14. SequenceInv'
      <3> SUFFICES ASSUME NEW s \in SequenceIds PROVE SlotsOK(s)'
        BY SlotsDef
      <3>1. SlotsOK(s) /\ s # NoSequence
        BY SlotsDef, ConstantsAssumption DEF IInv
      <3>2. CASE q.sequence # s
        <4>1. progress'[s] = progress[s]
          BY <1>1, <2>1, <3>2
        <4>2. \A x \in Rules : /\ InSequence(x, s)' <=> InSequence(x, s)
                               /\ InSequence(x, s) => meta'[x] = meta[x]
          BY <1>3, <2>6, <2>11, <3>1, <3>2 DEF InSequence
        <4>3. QED
          BY <3>1, <4>1, <4>2, SlotsUnaffected
      <3>3. CASE q.sequence = s
        <4>1. /\ progress'[s].cursor = progress[s].cursor
              /\ progress'[s].next = progress[s].next + 1
              /\ progress[s].next \in Nat /\ progress[s].cursor \in Nat
          BY <1>1, <2>1, <3>1, <3>3, UsizeMaxAssumption DEF Usize
        <4>2. \A x \in Rules : /\ InSequence(x, s)' <=> InSequence(x, s) \/ x = r
                               /\ x # r => meta'[x] = meta[x]
                               /\ x = r => meta'[x] = new /\ ~InSequence(x, s)
                               /\ meta[x].index \in Nat
          <5>1. \A x \in Rules : meta[x].index \in Nat
            BY <1>1, UsizeMaxAssumption DEF MetaType, Usize
          <5>2. ~InSequence(r, s)
            BY <1>3 DEF InSequence
          <5>3. ASSUME NEW x \in Rules
                PROVE  InSequence(x, s)' <=> InSequence(x, s) \/ x = r
            <6>1. CASE x = r
              BY <2>6, <2>11, <3>3, <6>1 DEF InSequence
            <6>2. CASE x # r
              BY <2>11, <6>2 DEF InSequence
            <6>3. QED
              BY <6>1, <6>2
          <5>4. QED
            BY <2>11, <5>1, <5>2, <5>3
        <4>3. new.index = progress[s].next /\ new.calls = 0 /\ new.count.max >= 1
          BY <2>3, <2>6, <3>1, <3>3
        <4>4. new.count.max \in Int
          BY <2>3, <2>6 DEF CallCounts, Usize, NoMax
        <4>5. QED
          <5> HIDE DEF m, q, r
          <5> QED
            BY <1>2, <3>1, <4>1, <4>2, <4>3, <4>4, SlotAdded, ZenonT(30)
      <3>4. QED
        BY <3>2, <3>3
    <2>15. QED
      BY <1>6, <2>10, <2>12, <2>13, <2>14 DEF IInv, StacksOK
  <1>9. QED
    BY <1>7, <1>8

-----------------------------------------------------------------------------
(* The theorems.                                                           *)

\* A new session, with mocks that have no rules, satisfies the invariant.
LEMMA InitInv == Init => IInv
  <1> SUFFICES ASSUME Init PROVE IInv
    OBVIOUS
  <1>1. FromRangeFull \in CallCounts /\ 0 \in Usize
    BY UsizeMaxAssumption DEF FromRangeFull, FromRangeFrom, CallCounts, Usize, NoMax
  <1>2. meta \in [Rules -> MetaType]
    <2>1. (CHOOSE m \in Mocks : TRUE) \in Mocks
      BY ConstantsAssumption
    <2> DEFINE blank ==
          [added |-> FALSE, mock |-> CHOOSE m \in Mocks : TRUE,
           count |-> FromRangeFull, sequence |-> NoSequence, index |-> 0,
           calls |-> 0, failed |-> FALSE, once |-> FALSE, taken |-> FALSE,
           accepts |-> {}]
    <2>2. blank \in MetaType
      BY <1>1, <2>1 DEF MetaType
    <2>3. meta = [r \in Rules |-> blank]
      BY DEF Init
    <2> HIDE DEF blank
    <2>4. QED
      BY <2>2, <2>3
  <1>3. inner \in [Mocks -> [active : BOOLEAN, rules : Seq(Rules), failed : BOOLEAN]]
    BY SMTT(30) DEF Init
  <1>4. /\ attached \in [Mocks -> BOOLEAN]
        /\ progress \in [SequenceIds -> [next : Usize, cursor : Usize]]
        /\ stack \in [Threads -> Seq(Frame)]
        /\ building \in [Threads -> Building \cup {NoRequest}]
    BY <1>1, SMTT(30) DEF Init
  <1>5. /\ audit \in [Mocks -> [by : {"nobody", "checkpoint", "session"}, at : Nat]]
        /\ session \in [phase : {"open", "checking", "detaching"},
                        left : SUBSET Mocks, verdict : {"ok", "failed"}]
        /\ rejected \subseteq Mocks
    BY ZenonT(30) DEF Init, Unlocked
  <1>6. TypeOK
    BY <1>2, <1>3, <1>4, <1>5 DEF TypeOK
  <1>7. BuildingInv
    <2>1. /\ \A r \in Rules : meta[r].sequence = NoSequence
          /\ \A t \in Threads : building[t] = NoRequest
      BY DEF Init
    <2>2. QED
      BY <2>1 DEF BuildingInv
  <1>8. FrameInv
    <2>1. \A t \in Threads : stack[t] = <<>>
      BY DEF Init
    <2>2. QED
      BY <2>1 DEF FrameInv, Depth
  <1>9. SequenceInv
    <2> SUFFICES ASSUME NEW s \in SequenceIds PROVE SlotsOK(s)
      BY SlotsDef
    <2>1. progress[s].cursor = 0 /\ progress[s].next = 0
      BY DEF Init
    <2>2. \A r \in Rules : ~InSequence(r, s)
      BY DEF Init, InSequence
    <2>3. QED
      BY <2>1, <2>2 DEF SlotsOK
  <1>10. CountsRespected
    BY DEF Init, CountsRespected, Bounded, FromRangeFull, FromRangeFrom
  <1>11. QED
    BY <1>6, <1>7, <1>8, <1>9, <1>10 DEF IInv

\* Every step of calls, builders, checkpoints and the session keeps it.
LEMMA StepInv == IInv /\ [Next]_vars => IInv'
  <1> SUFFICES ASSUME IInv, [Next]_vars PROVE IInv'
    OBVIOUS
  <1>1. ASSUME NEW t \in Threads,
               \/ \E m \in Mocks, a \in Args : Enter(t, m, a)
               \/ \E m \in Mocks, q \in Requests : AddBegin(t, m, q)
               \/ CallStepOf(t) \/ MatcherPanics(t) \/ AddCommit(t)
        PROVE  IInv'
    BY <1>1, CallMoves, MarkingSteps, TakeStep, AddBeginStep, AddCommitStep DEF CallStepOf
  <1>2. CASE (\E m \in Mocks : CheckpointBegin(m) \/ AuditStep(m)) \/ Finish \/ SessionStep
    BY <1>2, MockSteps
  <1>3. CASE Done \/ UNCHANGED vars
    <2>1. UNCHANGED vars
      BY <1>3 DEF Done
    <2>2. MocksOK' /\ StacksOK'
      BY <2>1, InvParts DEF vars, MocksOK, StacksOK, FrameInv, Depth
    <2>3. QED
      BY <2>1, <2>2, RulesUntouched DEF vars
  <1>4. QED
    BY <1>1, <1>2, <1>3 DEF Next

\* Every reachable state satisfies the inductive invariant.
THEOREM Invariance == Spec => []IInv
  BY InitInv, StepInv, PTL DEF Spec

\* Types: in particular no counter, slot or cursor leaves usize, although
\* Meta::claim and Sequence::reserve increment them (the code's checked_add).
THEOREM TypeCorrect == Spec => []TypeOK
  <1>1. IInv => TypeOK
    BY DEF IInv
  <1>2. QED
    BY <1>1, Invariance, PTL

\* However calls interleave, a rule never answers more than its upper count.
THEOREM CountsHold == Spec => []CountsRespected
  <1>1. IInv => CountsRespected
    BY DEF IInv
  <1>2. QED
    BY <1>1, Invariance, PTL

\* The rules of a sequence answer in the order in which they were added.
THEOREM SequencesOrdered == Spec => []SequenceInOrder
  <1>1. IInv => SequenceInOrder
    <2> SUFFICES ASSUME IInv, NEW s \in SequenceIds, NEW p \in Rules, NEW r \in Rules,
                        InSequence(p, s), InSequence(r, s),
                        meta[p].index < meta[r].index, meta[r].calls > 0
                 PROVE  meta[p].calls = meta[p].count.max
      BY DEF SequenceInOrder
    <2>1. SlotsOK(s)
      BY DEF IInv, SequenceInv
    <2>2. /\ meta[p].index \in Int /\ meta[r].index \in Int
          /\ meta[r].calls \in Int /\ progress[s].cursor \in Int
      BY DEF IInv, TypeOK, MetaType, Usize
    <2>3. meta[r].index <= progress[s].cursor
      BY <2>1, <2>2, SMTT(30) DEF SlotsOK
    <2>4. QED
      BY <2>1, <2>2, <2>3, SMTT(30) DEF SlotsOK
  <1>2. QED
    BY <1>1, Invariance, PTL

\* A sequence never waits at a slot without a rule that can still answer.
THEOREM SequencesProgress == Spec => []SequenceNeverStuck
  <1>1. IInv => SequenceNeverStuck
    <2> SUFFICES ASSUME IInv, NEW s \in SequenceIds
                 PROVE  /\ progress[s].cursor <= progress[s].next
                        /\ progress[s].cursor < progress[s].next =>
                             \E r \in Rules : /\ InSequence(r, s)
                                              /\ meta[r].index = progress[s].cursor
                                              /\ meta[r].calls < meta[r].count.max
      BY DEF SequenceNeverStuck
    <2>1. SlotsOK(s) /\ progress[s].cursor \in Nat /\ progress[s].next \in Nat
      BY UsizeMaxAssumption DEF IInv, SequenceInv, TypeOK, Usize
    <2>2. QED
      BY <2>1, SMTT(30) DEF SlotsOK
  <1>2. QED
    BY <1>1, Invariance, PTL

\* A mock that has ended holds no rule, also when an add had already begun.
THEOREM EndedMocksEmpty == Spec => []EndedMockStaysEmpty
  <1>1. Init => EndedMockStaysEmpty
    <2> SUFFICES ASSUME Init PROVE EndedMockStaysEmpty
      OBVIOUS
    <2>1. \A m \in Mocks : inner[m].rules = <<>>
      BY DEF Init
    <2>2. QED
      BY <2>1 DEF EndedMockStaysEmpty
  <1>2. IInv /\ EndedMockStaysEmpty /\ [Next]_vars => EndedMockStaysEmpty'
    <2> SUFFICES ASSUME IInv, EndedMockStaysEmpty, [Next]_vars, NEW n \in Mocks,
                        ~inner'[n].active
                 PROVE  inner'[n].rules = <<>>
      BY DEF EndedMockStaysEmpty
    <2> DEFINE InnerType == [active : BOOLEAN, rules : Seq(Rules), failed : BOOLEAN]
    <2>0. inner \in [Mocks -> InnerType] /\ inner[n] \in InnerType
      BY DEF IInv, TypeOK
    <2>1. CASE UNCHANGED inner
      BY <2>1 DEF EndedMockStaysEmpty
    <2>2. ASSUME NEW t \in Threads, Fail(t) PROVE inner'[n].rules = <<>>
      <3>1. inner'[n].active = inner[n].active /\ inner'[n].rules = inner[n].rules
        BY <2>0, <2>2 DEF Fail, FailedMocks
      <3>2. QED
        BY <3>1 DEF EndedMockStaysEmpty
    <2>3. ASSUME NEW t \in Threads, AddCommit(t) PROVE inner'[n].rules = <<>>
      BY <2>0, <2>1, <2>3, ZenonT(30) DEF AddCommit, MayCommit, EndedMockStaysEmpty
    <2>4. ASSUME NEW m \in Mocks, AuditEnd(m) PROVE inner'[n].rules = <<>>
      BY <2>0, <2>1, <2>4 DEF AuditEnd, EndedMockStaysEmpty
    <2>5. ASSUME NEW m \in Mocks, Deactivate(m) PROVE inner'[n].rules = <<>>
      BY <2>0, <2>5 DEF Deactivate, EndedMockStaysEmpty
    <2>6. QED
      BY <2>1, <2>2, <2>3, <2>4, <2>5, ZenonT(30)
      DEF Next, vars, CallStepOf, AuditStep, SessionStep, Enter, Snapshot, TakeRule,
          PassRule, RejectClaim, NoRuleLeft, Respond, Leave, MatcherPanics, AddBegin,
          CheckpointBegin, AuditRule, CheckMock, Finish, StartDetach, Detach, Done
  <1>3. QED
    BY <1>1, <1>2, Invariance, PTL DEF Spec
=============================================================================
