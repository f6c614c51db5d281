-------------------------- MODULE ControlCycle_proofs --------------------------
(***************************************************************************)
(* The control state of the cycle for any processes, Top2 sets, rungs,     *)
(* quotes, batches and crashes: its types and, when every invocation takes *)
(* the runner's lock, its agreement with the positions.                    *)
(***************************************************************************)
EXTENDS ControlCycle, FiniteSetTheorems, TLAPS

-----------------------------------------------------------------------------
(* Types *)

\* What a process has read before the steps that use it.
HasRead(p) ==
  /\ pc[p] \in {"begin", "classify", "settle", "plan"} =>
       cand[p] \in Member /\ prev[p] \in Member
  /\ pc[p] \in {"orders", "create", "promote"} => dec[p] \in Decision
  /\ pc[p] \in {"orders", "create"} => dec[p].event = "TRADE"

\* A signal has a rung in CRASH, and only there.
Agrees(s) == (s.mode = "CRASH") <=> (s.rung > 0)
SignalsAgree ==
  /\ Agrees(signal)
  /\ \A d \in DOMAIN flows : Agrees(d.signal)
  /\ \A p \in Proc : dec[p] \in Decision => Agrees(dec[p].signal)

TypeInv == TypeOK /\ (\A p \in Proc : HasRead(p)) /\ SignalsAgree

LEMMA NoDecisionIsNone == NoDecision \notin Decision
BY DEF NoDecision, Decision

LEMMA DecisionFields ==
  ASSUME NEW d \in Decision
  PROVE  /\ d.signal \in Signal /\ d.member \in Member /\ d.mix \in Top2
         /\ d.rebalance \in BOOLEAN /\ d.event \in {"HOLD", "TRADE"}
         /\ d.event = "TRADE" => d.rev \in Nat
         /\ d.event = "HOLD" => d.rebalance = FALSE
BY DEF Decision

LEMMA InitTyped == Init => TypeInv
<1> SUFFICES ASSUME Init PROVE TypeInv
  OBVIOUS
<1>1. PICK s \in Top2 :
        /\ strategy = "NORMAL" /\ overlay = 0 /\ mix = s /\ revision = 1
        /\ member = [month |-> 1, set |-> s] /\ mstate = "ACTIVE"
        /\ keys = {} /\ candidate = NoMember /\ flows = [d \in {} |-> 0]
        /\ signal = [day |-> 0, mode |-> "NORMAL", rung |-> 0]
        /\ frozen = member /\ done = [rung |-> 0, set |-> s] /\ near = {}
        /\ pc = [p \in Proc |-> "idle"] /\ dec = [p \in Proc |-> NoDecision]
        /\ cand = [p \in Proc |-> NoMember] /\ prev = [p \in Proc |-> NoMember]
        /\ lock = NoProc /\ crashes = 0
  BY DEF Init
<1>2. /\ 0 \in Rung /\ 0 \in 0..LastDay /\ 1 \in 1..LastMonth /\ 0 \in 0..CrashBudget
  BY ConstantsAssumption
<1>3. member \in Member /\ signal \in Signal /\ done \in Holding
  BY <1>1, <1>2 DEF Member, Signal, Holding
<1>4. DOMAIN flows = {}  BY <1>1
<1>5. TypeOK
  BY <1>1, <1>2, <1>3, <1>4 DEF TypeOK
<1>6. \A p \in Proc : HasRead(p)  BY <1>1 DEF HasRead
<1>7. SignalsAgree
  BY <1>1, <1>4, NoDecisionIsNone DEF SignalsAgree, Agrees
<1>8. QED  BY <1>5, <1>6, <1>7 DEF TypeInv

\* The parts of the type invariant, by what they are about.
ControlType ==
  /\ strategy \in {"NORMAL", "CRASH", "POST_HANDOFF"} /\ overlay \in Rung
  /\ (strategy = "CRASH") <=> (overlay > 0)
  /\ member \in Member /\ mix = member.set /\ revision \in Nat
  /\ mstate \in {"ACTIVE", "MONTH_END_PENDING", "REBALANCE_PENDING"}
  /\ keys \subseteq Key /\ candidate \in Member \cup {NoMember}
FlowsType ==
  /\ DOMAIN flows \subseteq Decision
  /\ \A d \in DOMAIN flows :
       /\ flows[d] \in [status: {"ACTIVE", "COMPLETE", "STOPPED"}, left: Nat, sent: BOOLEAN]
       /\ Agrees(d.signal)
WorldType ==
  /\ signal \in Signal /\ Agrees(signal) /\ frozen \in Member
  /\ done \in Holding /\ near \subseteq Holding
Label == {"idle", "pending", "recover", "work", "member", "begin",
          "classify", "settle", "plan", "orders", "create", "promote"}
ProcsType ==
  /\ pc \in [Proc -> Label]
  /\ cand \in [Proc -> Member \cup {NoMember}]
  /\ prev \in [Proc -> Member \cup {NoMember}]
  /\ dec \in [Proc -> Decision \cup {NoDecision}]
  /\ lock \in Proc \cup {NoProc} /\ crashes \in 0..CrashBudget
  /\ \A p \in Proc : HasRead(p) /\ (dec[p] \in Decision => Agrees(dec[p].signal))

LEMMA TypeParts == TypeInv <=> ControlType /\ FlowsType /\ WorldType /\ ProcsType
BY DEF TypeInv, TypeOK, SignalsAgree, ControlType, FlowsType, WorldType, ProcsType, Label

LEMMA TypedAgain ==
  ASSUME ControlType', FlowsType', WorldType', ProcsType'
  PROVE  TypeInv'
BY DEF TypeInv, TypeOK, SignalsAgree, ControlType, FlowsType, WorldType, ProcsType, Label

LEMMA GotoTyped ==
  ASSUME ProcsType, NEW p \in Proc, NEW l \in Label, Goto(p, l),
         cand' \in [Proc -> Member \cup {NoMember}],
         prev' \in [Proc -> Member \cup {NoMember}],
         dec' \in [Proc -> Decision \cup {NoDecision}],
         \A q \in Proc \ {p} : cand'[q] = cand[q] /\ prev'[q] = prev[q] /\ dec'[q] = dec[q],
         l \in {"begin", "classify", "settle", "plan"} => cand'[p] \in Member /\ prev'[p] \in Member,
         l \in {"orders", "create", "promote"} => dec'[p] \in Decision,
         l \in {"orders", "create"} => dec'[p].event = "TRADE",
         dec'[p] \in Decision => Agrees(dec'[p].signal)
  PROVE  ProcsType' /\ pc'[p] = l /\ \A q \in Proc \ {p} : pc'[q] = pc[q]
<1>1. /\ pc' \in [Proc -> Label] /\ pc'[p] = l /\ \A q \in Proc \ {p} : pc'[q] = pc[q]
      /\ lock' = lock /\ crashes' = crashes
  BY DEF Goto, ProcsType
<1>2. \A q \in Proc : HasRead(q)' /\ (dec'[q] \in Decision => Agrees(dec'[q].signal))
  <2> SUFFICES ASSUME NEW q \in Proc
               PROVE  HasRead(q)' /\ (dec'[q] \in Decision => Agrees(dec'[q].signal))
    OBVIOUS
  <2>1. CASE q = p  BY <1>1, <2>1 DEF HasRead
  <2>2. CASE q # p  BY <1>1, <2>2 DEF HasRead, ProcsType
  <2>3. QED  BY <2>1, <2>2
<1>3. QED  BY <1>1, <1>2 DEF ProcsType, Agrees

LEMMA ExitTyped ==
  ASSUME ProcsType, NEW p \in Proc,
         pc' = [pc EXCEPT ![p] = "idle"],
         cand' = [cand EXCEPT ![p] = NoMember], prev' = [prev EXCEPT ![p] = NoMember],
         dec' = [dec EXCEPT ![p] = NoDecision],
         lock' = IF lock = p THEN NoProc ELSE lock, crashes' \in 0..CrashBudget
  PROVE  ProcsType' /\ pc'[p] = "idle" /\ \A q \in Proc \ {p} : pc'[q] = pc[q]
<1>1. /\ pc' \in [Proc -> Label] /\ pc'[p] = "idle" /\ \A q \in Proc \ {p} : pc'[q] = pc[q]
      /\ dec'[p] = NoDecision
      /\ \A q \in Proc \ {p} : cand'[q] = cand[q] /\ prev'[q] = prev[q] /\ dec'[q] = dec[q]
  BY DEF ProcsType, Label
<1>2. \A q \in Proc : HasRead(q)' /\ (dec'[q] \in Decision => Agrees(dec'[q].signal))
  <2> SUFFICES ASSUME NEW q \in Proc
               PROVE  HasRead(q)' /\ (dec'[q] \in Decision => Agrees(dec'[q].signal))
    OBVIOUS
  <2>1. CASE q = p  BY <1>1, <2>1, NoDecisionIsNone DEF HasRead
  <2>2. CASE q # p  BY <1>1, <2>2 DEF HasRead, ProcsType
  <2>3. QED  BY <2>1, <2>2
<1>3. /\ cand' \in [Proc -> Member \cup {NoMember}] /\ prev' \in [Proc -> Member \cup {NoMember}]
      /\ dec' \in [Proc -> Decision \cup {NoDecision}]
  BY DEF ProcsType
<1>4. QED  BY <1>1, <1>2, <1>3 DEF ProcsType, Agrees

LEMMA ExitIsTyped ==
  ASSUME ProcsType, NEW p \in Proc, Exit(p)
  PROVE  ProcsType' /\ pc'[p] = "idle" /\ \A q \in Proc \ {p} : pc'[q] = pc[q]
BY ExitTyped DEF Exit, ProcsType

LEMMA GotoIsTyped ==
  ASSUME ProcsType, NEW p \in Proc, NEW l \in Label, Goto(p, l), UNCHANGED locals,
         l \in {"begin", "classify", "settle", "plan"} => cand[p] \in Member /\ prev[p] \in Member,
         l \in {"orders", "create", "promote"} => dec[p] \in Decision,
         l \in {"orders", "create"} => dec[p].event = "TRADE"
  PROVE  ProcsType' /\ pc'[p] = l /\ \A q \in Proc \ {p} : pc'[q] = pc[q]
<1>1. cand' = cand /\ prev' = prev /\ dec' = dec  BY DEF locals
<1>2. QED  BY <1>1, GotoTyped DEF ProcsType

\* What a step leaves alone keeps its types.
LEMMA KeptTypes ==
  ASSUME TypeInv
  PROVE  /\ UNCHANGED control /\ keys' = keys /\ candidate' = candidate => ControlType'
         /\ UNCHANGED flows => FlowsType'
         /\ UNCHANGED world => WorldType'
         /\ UNCHANGED durable => ControlType' /\ FlowsType'
         /\ UNCHANGED <<pc, locals, lock, crashes>> => ProcsType'
         /\ ControlType /\ FlowsType /\ WorldType /\ ProcsType
<1>1. ControlType /\ FlowsType /\ WorldType /\ ProcsType  BY TypeParts
<1>2. UNCHANGED control /\ keys' = keys /\ candidate' = candidate => ControlType'
  BY <1>1 DEF control, ControlType
<1>3. UNCHANGED flows => FlowsType'  BY <1>1 DEF FlowsType, Agrees
<1>4. UNCHANGED world => WorldType'  BY <1>1 DEF world, WorldType, Agrees
<1>5. UNCHANGED durable => ControlType' /\ FlowsType'  BY <1>2, <1>3 DEF durable
<1>6. UNCHANGED <<pc, locals, lock, crashes>> => ProcsType'
  BY <1>1 DEF locals, ProcsType, HasRead, Agrees
<1>7. QED  BY <1>1, <1>2, <1>3, <1>4, <1>5, <1>6

LEMMA StartTyped ==
  ASSUME TypeInv, NEW p \in Proc, Start(p)
  PROVE  TypeInv' /\ pc'[p] = "pending" /\ \A q \in Proc \ {p} : pc'[q] = pc[q]
<1>1. ProcsType  BY KeptTypes
<1>2. /\ pc' = [pc EXCEPT ![p] = "pending"] /\ UNCHANGED <<durable, world, locals, crashes>>
      /\ lock' \in Proc \cup {NoProc}
  BY <1>1 DEF Start, ProcsType
<1>3. /\ pc' \in [Proc -> Label] /\ pc'[p] = "pending" /\ \A q \in Proc \ {p} : pc'[q] = pc[q]
  BY <1>1, <1>2 DEF ProcsType, Label
<1>4. ProcsType'
  <2>1. \A q \in Proc : HasRead(q)'
    BY <1>1, <1>2, <1>3 DEF ProcsType, HasRead, locals
  <2>2. QED  BY <1>1, <1>2, <1>3, <2>1 DEF ProcsType, locals, Agrees
<1>5. QED  BY <1>2, <1>3, <1>4, KeptTypes, TypedAgain

LEMMA PendingTyped ==
  ASSUME TypeInv, NEW p \in Proc, Pending(p)
  PROVE  TypeInv'
<1>0. ProcsType /\ FlowsType  BY KeptTypes
<1>1. UNCHANGED <<durable, world>>  BY DEF Pending
<1>2. ProcsType'
  <2>1. CASE Exit(p)  BY <1>0, <2>1, ExitIsTyped
  <2>2. CASE Goto(p, "recover") /\ UNCHANGED locals
    BY <1>0, <2>2, GotoIsTyped DEF Label
  <2>3. CASE (\E d \in Unpromoted : dec' = [dec EXCEPT ![p] = d])
             /\ Goto(p, "promote") /\ UNCHANGED <<cand, prev>>
    <3>1. PICK d \in Unpromoted : dec' = [dec EXCEPT ![p] = d]  BY <2>3
    <3>2. d \in Decision /\ Agrees(d.signal)  BY <1>0 DEF Unpromoted, FlowsType
    <3>3. /\ dec' \in [Proc -> Decision \cup {NoDecision}] /\ dec'[p] = d
          /\ \A q \in Proc \ {p} : dec'[q] = dec[q]
      BY <1>0, <3>1, <3>2 DEF ProcsType
    <3>4. cand' = cand /\ prev' = prev /\ Goto(p, "promote")  BY <2>3
    <3>5. "promote" \in Label  BY DEF Label
    <3>6. QED  BY <1>0, <3>2, <3>3, <3>4, <3>5, GotoTyped DEF ProcsType
  <2>4. QED  BY <2>1, <2>2, <2>3 DEF Pending
<1>3. QED  BY <1>1, <1>2, KeptTypes, TypedAgain

LEMMA RecoverTyped ==
  ASSUME TypeInv, NEW p \in Proc, Recover(p)
  PROVE  TypeInv'
<1>0. ProcsType  BY KeptTypes
<1>1. PICK l \in {"member", "work"} : Goto(p, l)  BY DEF Recover
<1>2. UNCHANGED <<durable, world, locals>>  BY DEF Recover
<1>3. ProcsType'  BY <1>0, <1>1, <1>2, GotoIsTyped DEF Label
<1>4. QED  BY <1>2, <1>3, KeptTypes, TypedAgain

LEMMA RefuseTyped ==
  ASSUME TypeInv, NEW p \in Proc, Refuse(p)
  PROVE  TypeInv'
BY ExitIsTyped, KeptTypes, TypedAgain DEF Refuse

LEMMA SubmitTyped ==
  ASSUME TypeInv, NEW p \in Proc, Submit(p)
  PROVE  TypeInv'
<1>0. ProcsType /\ FlowsType  BY KeptTypes
<1>1. PICK d \in DOMAIN flows :
        /\ flows[d].left > 0
        /\ flows' = [flows EXCEPT ![d].left = @ - 1, ![d].sent = TRUE]
  BY DEF Submit, Unfinished
<1>2. UNCHANGED <<control, keys, candidate, world>> /\ Exit(p)  BY DEF Submit
<1>3. flows[d] \in [status: {"ACTIVE", "COMPLETE", "STOPPED"}, left: Nat, sent: BOOLEAN]
  BY <1>0 DEF FlowsType
<1>4. /\ DOMAIN flows' = DOMAIN flows /\ \A e \in DOMAIN flows \ {d} : flows'[e] = flows[e]
      /\ flows'[d] \in [status: {"ACTIVE", "COMPLETE", "STOPPED"}, left: Nat, sent: BOOLEAN]
  BY <1>1, <1>3
<1>5. FlowsType'  BY <1>0, <1>4 DEF FlowsType, Agrees
<1>6. QED  BY <1>0, <1>2, <1>5, ExitIsTyped, KeptTypes, TypedAgain

LEMMA StatusTyped ==
  ASSUME FlowsType, NEW d \in DOMAIN flows, NEW s \in {"COMPLETE", "STOPPED"},
         flows' = [flows EXCEPT ![d].status = s]
  PROVE  FlowsType'
<1>1. flows[d] \in [status: {"ACTIVE", "COMPLETE", "STOPPED"}, left: Nat, sent: BOOLEAN]
  BY DEF FlowsType
<1>2. /\ DOMAIN flows' = DOMAIN flows /\ \A e \in DOMAIN flows \ {d} : flows'[e] = flows[e]
      /\ flows'[d] \in [status: {"ACTIVE", "COMPLETE", "STOPPED"}, left: Nat, sent: BOOLEAN]
  BY <1>1
<1>3. QED  BY <1>2 DEF FlowsType, Agrees

LEMMA TargetTyped == ASSUME NEW d \in Decision PROVE Target(d) \in Holding
BY DecisionFields DEF Target, Holding, Signal, Member

LEMMA CompleteTyped ==
  ASSUME TypeInv, NEW p \in Proc, Complete(p)
  PROVE  TypeInv'
<1>0. ProcsType /\ FlowsType /\ ControlType /\ WorldType  BY KeptTypes
<1>1. PICK d \in DOMAIN flows :
        /\ flows' = [flows EXCEPT ![d].status = "COMPLETE"]
        /\ done' = Target(d) /\ near' = {}
  BY DEF Complete, Unfinished
<1>2. /\ Exit(p) /\ revision' = revision + 1 /\ UNCHANGED <<signal, frozen>>
      /\ UNCHANGED <<strategy, overlay, member, mstate, mix, keys, candidate>>
  BY DEF Complete
<1>3. FlowsType'  BY <1>0, <1>1, StatusTyped
<1>4. WorldType'
  <2>1. Target(d) \in Holding  BY <1>0, TargetTyped DEF FlowsType
  <2>2. QED  BY <1>0, <1>1, <1>2, <2>1 DEF WorldType, Agrees
<1>5. ControlType'  BY <1>0, <1>2 DEF ControlType
<1>6. QED  BY <1>0, <1>2, <1>3, <1>4, <1>5, ExitIsTyped, TypedAgain

LEMMA StopTyped ==
  ASSUME TypeInv, NEW p \in Proc, Stop(p)
  PROVE  TypeInv'
<1>0. ProcsType /\ FlowsType /\ ControlType /\ WorldType  BY KeptTypes
<1>1. PICK d \in DOMAIN flows : flows' = [flows EXCEPT ![d].status = "STOPPED"]
  BY DEF Stop, Unfinished
<1>2. /\ Exit(p) /\ revision' = revision + 1
      /\ UNCHANGED <<strategy, overlay, member, mstate, mix, keys, candidate, world>>
  BY DEF Stop
<1>3. FlowsType'  BY <1>0, <1>1, StatusTyped
<1>4. ControlType'  BY <1>0, <1>2 DEF ControlType
<1>5. QED  BY <1>0, <1>2, <1>3, <1>4, ExitIsTyped, KeptTypes, TypedAgain

LEMMA ReadMembershipTyped ==
  ASSUME TypeInv, NEW p \in Proc, ReadMembership(p)
  PROVE  TypeInv'
<1>0. ProcsType /\ ControlType /\ WorldType  BY KeptTypes
<1>1. UNCHANGED <<durable, world, dec>>  BY DEF ReadMembership
<1>2. ProcsType'
  <2>1. CASE Exit(p)  BY <1>0, <2>1, ExitIsTyped
  <2>2. CASE ~Exit(p)
    <3>1. PICK l \in {"classify", "begin", "plan"} : Goto(p, l)  BY <2>2 DEF ReadMembership
    <3>2. cand' = [cand EXCEPT ![p] = frozen] /\ prev' = [prev EXCEPT ![p] = member]
      BY <2>2 DEF ReadMembership
    <3>3. frozen \in Member /\ member \in Member  BY <1>0 DEF WorldType, ControlType
    <3>4. /\ cand' \in [Proc -> Member \cup {NoMember}] /\ cand'[p] \in Member
          /\ prev' \in [Proc -> Member \cup {NoMember}] /\ prev'[p] \in Member
          /\ \A q \in Proc \ {p} : cand'[q] = cand[q] /\ prev'[q] = prev[q]
      BY <1>0, <3>2, <3>3 DEF ProcsType
    <3>5. dec' = dec /\ l \in Label  BY <1>1 DEF Label
    <3>6. QED  BY <1>0, <3>1, <3>4, <3>5, GotoTyped DEF ProcsType
  <2>3. QED  BY <2>1, <2>2
<1>3. QED  BY <1>1, <1>2, KeptTypes, TypedAgain

LEMMA MemberKeys ==
  ASSUME NEW m \in Member
  PROVE  <<"begin", m>> \in Key /\ <<"classify", m>> \in Key
BY DEF Key

LEMMA DecisionKeys ==
  ASSUME NEW d \in Decision
  PROVE  <<"strategy", d>> \in Key /\ <<"member", d>> \in Key
BY DEF Key

LEMMA BeginMonthEndTyped ==
  ASSUME TypeInv, NEW p \in Proc, BeginMonthEnd(p)
  PROVE  TypeInv'
<1>0. ProcsType /\ ControlType /\ cand[p] \in Member /\ prev[p] \in Member
  <2>1. ProcsType /\ ControlType  BY KeptTypes
  <2>2. QED  BY <2>1 DEF BeginMonthEnd, ProcsType, HasRead
<1>1. UNCHANGED <<strategy, overlay, member, mix, candidate, flows, world>>
  BY DEF BeginMonthEnd
<1>2. "classify" \in Label  BY DEF Label
<1>3. CASE Goto(p, "classify") /\ UNCHANGED <<mstate, revision, keys, locals>>
  <2>1. ProcsType'  BY <1>0, <1>2, <1>3, GotoIsTyped
  <2>2. ControlType'  BY <1>0, <1>1, <1>3 DEF ControlType
  <2>3. QED  BY <1>1, <2>1, <2>2, KeptTypes, TypedAgain
<1>4. CASE /\ mstate' = "MONTH_END_PENDING" /\ Record(<<"begin", cand[p]>>)
           /\ Goto(p, "classify") /\ UNCHANGED locals
  <2>1. ProcsType'  BY <1>0, <1>2, <1>4, GotoIsTyped
  <2>2. ControlType'
    <3>0. keys \subseteq Key /\ revision \in Nat  BY <1>0 DEF ControlType
    <3>k. PICK k \in Key : Record(k)  BY <1>0, <1>4, MemberKeys
    <3>1. keys' \subseteq Key /\ revision' \in Nat
      <4>1. keys' = keys \cup {k} /\ revision' = revision + 1  BY <3>k DEF Record
      <4>2. QED  BY <3>0, <4>1
    <3>2. QED  BY <1>0, <1>1, <1>4, <3>1 DEF ControlType
  <2>3. QED  BY <1>1, <2>1, <2>2, KeptTypes, TypedAgain
<1>5. CASE Exit(p) /\ UNCHANGED <<mstate, revision, keys>>
  <2>1. ProcsType'  BY <1>0, <1>5, ExitIsTyped
  <2>2. ControlType'  BY <1>0, <1>1, <1>5 DEF ControlType
  <2>3. QED  BY <1>1, <2>1, <2>2, KeptTypes, TypedAgain
<1>6. QED  BY <1>3, <1>4, <1>5 DEF BeginMonthEnd

LEMMA ClassifyTyped ==
  ASSUME TypeInv, NEW p \in Proc, ClassifyMonthEnd(p)
  PROVE  TypeInv'
<1>0. ProcsType /\ ControlType /\ cand[p] \in Member /\ prev[p] \in Member
  <2>1. ProcsType /\ ControlType  BY KeptTypes
  <2>2. QED  BY <2>1 DEF ClassifyMonthEnd, ProcsType, HasRead
<1>1. UNCHANGED <<strategy, overlay, mix, flows, world>>  BY DEF ClassifyMonthEnd
<1>2. "settle" \in Label  BY DEF Label
<1>3. CASE Goto(p, "settle") /\ UNCHANGED <<member, mstate, candidate, revision, keys, locals>>
  <2>1. ProcsType'  BY <1>0, <1>2, <1>3, GotoIsTyped
  <2>2. ControlType'  BY <1>0, <1>1, <1>3 DEF ControlType
  <2>3. QED  BY <1>1, <2>1, <2>2, KeptTypes, TypedAgain
<1>4. CASE /\ mstate' = IF cand[p].set = member.set THEN "ACTIVE" ELSE "REBALANCE_PENDING"
           /\ Record(<<"classify", cand[p]>>)
           /\ member' = IF cand[p].set = member.set THEN cand[p] ELSE member
           /\ candidate' = IF cand[p].set = member.set THEN candidate ELSE cand[p]
           /\ Goto(p, "settle") /\ UNCHANGED locals
  <2>1. ProcsType'  BY <1>0, <1>2, <1>4, GotoIsTyped
  <2>2. ControlType'
    <3>0. keys \subseteq Key /\ revision \in Nat  BY <1>0 DEF ControlType
    <3>k. PICK k \in Key : Record(k)  BY <1>0, <1>4, MemberKeys
    <3>1. keys' \subseteq Key /\ revision' \in Nat
      <4>1. keys' = keys \cup {k} /\ revision' = revision + 1  BY <3>k DEF Record
      <4>2. QED  BY <3>0, <4>1
    <3>2. QED  BY <1>0, <1>1, <1>4, <3>1 DEF ControlType
  <2>3. QED  BY <1>1, <2>1, <2>2, KeptTypes, TypedAgain
<1>5. CASE Exit(p) /\ UNCHANGED <<member, mstate, candidate, revision, keys>>
  <2>1. ProcsType'  BY <1>0, <1>5, ExitIsTyped
  <2>2. ControlType'  BY <1>0, <1>1, <1>5 DEF ControlType
  <2>3. QED  BY <1>1, <2>1, <2>2, KeptTypes, TypedAgain
<1>6. QED  BY <1>3, <1>4, <1>5 DEF ClassifyMonthEnd

LEMMA SettleTyped ==
  ASSUME TypeInv, NEW p \in Proc, Settle(p)
  PROVE  TypeInv'
<1>0. ProcsType /\ ControlType /\ cand[p] \in Member /\ prev[p] \in Member
  <2>1. ProcsType /\ ControlType  BY KeptTypes
  <2>2. QED  BY <2>1 DEF Settle, ProcsType, HasRead
<1>1. UNCHANGED <<durable, world, dec>>  BY DEF Settle
<1>2. "plan" \in Label  BY DEF Label
<1>3. ProcsType'
  <2>1. CASE /\ cand' = [cand EXCEPT ![p] = member] /\ prev' = [prev EXCEPT ![p] = member]
             /\ Goto(p, "plan")
    <3>1. /\ cand' \in [Proc -> Member \cup {NoMember}] /\ cand'[p] \in Member
          /\ prev' \in [Proc -> Member \cup {NoMember}] /\ prev'[p] \in Member
          /\ \A q \in Proc \ {p} : cand'[q] = cand[q] /\ prev'[q] = prev[q]
      BY <1>0, <2>1 DEF ProcsType, ControlType
    <3>2. QED  BY <1>0, <1>1, <1>2, <2>1, <3>1, GotoTyped DEF ProcsType
  <2>2. CASE Goto(p, "plan") /\ UNCHANGED <<cand, prev>>
    BY <1>0, <1>1, <1>2, <2>2, GotoIsTyped DEF locals
  <2>3. CASE Exit(p)  BY <1>0, <2>3, ExitIsTyped
  <2>4. QED  BY <1>0, <2>1, <2>2, <2>3 DEF Settle, ControlType
<1>4. QED  BY <1>1, <1>3, KeptTypes, TypedAgain

\* A decision as _plan_new_work takes it.
LEMMA PlannedDecision ==
  ASSUME TypeInv, NEW p \in Proc, Plan(p)
  PROVE  \E d \in Decision :
           /\ dec' = [dec EXCEPT ![p] = d] /\ d.signal = signal /\ d.member = cand[p]
           /\ d.mix = (IF d.event = "HOLD" THEN mix ELSE cand[p].set)
           /\ d.rebalance = (prev[p].set # cand[p].set)
           /\ IF prev[p].set = cand[p].set /\ overlay = signal.rung
                THEN d.event = "HOLD" /\ Goto(p, "promote")
                ELSE d.event = "TRADE" /\ d.rev = revision /\ Goto(p, "orders")
<1>0. /\ cand[p] \in Member /\ prev[p] \in Member /\ signal \in Signal
      /\ mix \in Top2 /\ cand[p].set \in Top2 /\ revision \in Nat
  <2>1. ProcsType /\ ControlType /\ WorldType  BY KeptTypes
  <2>2. cand[p] \in Member /\ prev[p] \in Member  BY <2>1 DEF Plan, ProcsType, HasRead
  <2>3. QED  BY <2>1, <2>2 DEF ControlType, WorldType, Member
<1>1. CASE prev[p].set = cand[p].set /\ overlay = signal.rung
  <2>1. PICK d : d = [event |-> "HOLD", signal |-> signal, member |-> cand[p],
                      mix |-> mix, rebalance |-> FALSE]
    OBVIOUS
  <2>2. d \in Decision  BY <1>0, <2>1 DEF Decision
  <2>3. dec' = [dec EXCEPT ![p] = d] /\ Goto(p, "promote")  BY <1>1, <2>1 DEF Plan
  <2>4. /\ d.event = "HOLD" /\ d.signal = signal /\ d.member = cand[p] /\ d.mix = mix
        /\ d.rebalance = FALSE
    BY <2>1
  <2>5. QED  BY <1>1, <2>2, <2>3, <2>4
<1>2. CASE ~(prev[p].set = cand[p].set /\ overlay = signal.rung)
  <2>1. PICK q \in Quotes :
          dec' = [dec EXCEPT ![p] =
                   [event |-> "TRADE", signal |-> signal, member |-> cand[p],
                    mix |-> cand[p].set, rebalance |-> prev[p].set # cand[p].set,
                    rev |-> revision, quotes |-> q]]
    BY <1>2 DEF Plan
  <2>2. PICK d : d = [event |-> "TRADE", signal |-> signal, member |-> cand[p],
                      mix |-> cand[p].set, rebalance |-> prev[p].set # cand[p].set,
                      rev |-> revision, quotes |-> q]
    OBVIOUS
  <2>3. d \in Decision  BY <1>0, <2>2 DEF Decision
  <2>4. /\ d.event = "TRADE" /\ d.signal = signal /\ d.member = cand[p]
        /\ d.mix = cand[p].set /\ d.rebalance = (prev[p].set # cand[p].set)
        /\ d.rev = revision
    BY <2>2
  <2>5. dec' = [dec EXCEPT ![p] = d] /\ Goto(p, "orders")  BY <1>2, <2>1, <2>2 DEF Plan
  <2>6. QED  BY <1>2, <2>3, <2>4, <2>5
<1>3. QED  BY <1>1, <1>2

LEMMA PlanTyped ==
  ASSUME TypeInv, NEW p \in Proc, Plan(p)
  PROVE  TypeInv'
<1>0. ProcsType /\ WorldType  BY KeptTypes
<1>1. UNCHANGED <<durable, world, cand, prev>>  BY DEF Plan
<1>2. PICK d \in Decision :
        /\ dec' = [dec EXCEPT ![p] = d] /\ d.signal = signal
        /\ \/ d.event = "HOLD" /\ Goto(p, "promote")
           \/ d.event = "TRADE" /\ Goto(p, "orders")
  BY PlannedDecision
<1>3. /\ dec' \in [Proc -> Decision \cup {NoDecision}] /\ dec'[p] = d
      /\ \A q \in Proc \ {p} : dec'[q] = dec[q]
  BY <1>0, <1>2 DEF ProcsType
<1>4. Agrees(d.signal)  BY <1>0, <1>2 DEF WorldType
<1>5. "promote" \in Label /\ "orders" \in Label  BY DEF Label
<1>6. cand' \in [Proc -> Member \cup {NoMember}] /\ prev' \in [Proc -> Member \cup {NoMember}]
      /\ cand' = cand /\ prev' = prev
  BY <1>0, <1>1 DEF ProcsType
<1>7. ProcsType'
  <2>1. CASE Goto(p, "promote")  BY <1>0, <1>3, <1>4, <1>5, <1>6, <2>1, GotoTyped
  <2>2. CASE Goto(p, "orders") /\ d.event = "TRADE"
    BY <1>0, <1>3, <1>4, <1>5, <1>6, <2>2, GotoTyped
  <2>3. QED  BY <1>2, <2>1, <2>2
<1>8. QED  BY <1>1, <1>7, KeptTypes, TypedAgain

LEMMA OrdersTyped ==
  ASSUME TypeInv, NEW p \in Proc, Orders(p)
  PROVE  TypeInv'
<1>0. ProcsType /\ dec[p] \in Decision /\ dec[p].event = "TRADE"
  <2>1. ProcsType  BY KeptTypes
  <2>2. QED  BY <2>1 DEF Orders, ProcsType, HasRead
<1>1. PICK l \in {"promote", "create"} : Goto(p, l)  BY DEF Orders
<1>2. UNCHANGED <<durable, world, locals>> /\ l \in Label  BY DEF Orders, Label
<1>3. ProcsType'  BY <1>0, <1>1, <1>2, GotoIsTyped
<1>4. QED  BY <1>2, <1>3, KeptTypes, TypedAgain

\* What create_workflow does to the workflows.
LEMMA CreatedFlows ==
  ASSUME NEW p \in Proc, Create(p), ~UNCHANGED flows, Batches \subseteq Nat
  PROVE  /\ dec[p] \notin DOMAIN flows /\ Quiet /\ revision' = revision + 1
         /\ DOMAIN flows' = DOMAIN flows \cup {dec[p]}
         /\ \A d \in DOMAIN flows : flows'[d] = flows[d]
         /\ \E n \in Nat : flows'[dec[p]] = [status |-> "ACTIVE", left |-> n, sent |-> FALSE]
<1>1. dec[p] \notin DOMAIN flows /\ Quiet /\ revision' = revision + 1  BY DEF Create
<1>2. PICK n \in Batches :
        flows' = [d \in DOMAIN flows \cup {dec[p]} |->
                   IF d = dec[p] THEN [status |-> "ACTIVE", left |-> n, sent |-> FALSE]
                   ELSE flows[d]]
  BY <1>1 DEF Create
<1>3. QED  BY <1>1, <1>2

LEMMA CreateTyped ==
  ASSUME TypeInv, NEW p \in Proc, Create(p)
  PROVE  TypeInv'
<1>0. ProcsType /\ FlowsType /\ ControlType /\ dec[p] \in Decision /\ Agrees(dec[p].signal)
  <2>1. ProcsType /\ FlowsType /\ ControlType  BY KeptTypes
  <2>2. dec[p] \in Decision  BY <2>1 DEF Create, ProcsType, HasRead
  <2>3. QED  BY <2>1, <2>2 DEF ProcsType
<1>1. /\ Exit(p) /\ revision' \in {revision, revision + 1}
      /\ UNCHANGED <<strategy, overlay, member, mstate, mix, keys, candidate, world>>
  BY DEF Create
<1>2. FlowsType'
  <2>1. CASE UNCHANGED flows  BY <2>1, KeptTypes
  <2>2. CASE ~UNCHANGED flows
    <3>1. Batches \subseteq Nat  BY ConstantsAssumption
    <3>2. /\ DOMAIN flows' = DOMAIN flows \cup {dec[p]}
          /\ \A d \in DOMAIN flows : flows'[d] = flows[d]
          /\ flows'[dec[p]] \in [status: {"ACTIVE", "COMPLETE", "STOPPED"}, left: Nat,
                                 sent: BOOLEAN]
      <4>1. PICK n \in Nat : flows'[dec[p]] = [status |-> "ACTIVE", left |-> n, sent |-> FALSE]
        BY <2>2, <3>1, CreatedFlows
      <4>2. QED  BY <2>2, <3>1, <4>1, CreatedFlows
    <3>3. QED  BY <1>0, <3>2 DEF FlowsType, Agrees
  <2>3. QED  BY <2>1, <2>2
<1>3. ControlType'  BY <1>0, <1>1 DEF ControlType
<1>4. QED  BY <1>0, <1>1, <1>2, <1>3, ExitIsTyped, KeptTypes, TypedAgain

\* The three outcomes of a step of _apply_control_target: the strategy, the
\* membership, or nothing.
PromotesStrategy(p) ==
  LET d == dec[p]
  IN /\ <<"strategy", d>> \notin keys
     /\ Allowed(strategy, d.signal.mode, StrategyMoves, d.mix, member.set)
     /\ strategy' = d.signal.mode /\ overlay' = d.signal.rung /\ mix' = d.mix
     /\ Record(<<"strategy", d>>) /\ UNCHANGED <<member, mstate>>
     /\ \/ d.rebalance /\ Goto(p, "promote") /\ UNCHANGED locals
        \/ Exit(p)
PromotesMember(p) ==
  LET d == dec[p]
  IN /\ <<"strategy", d>> \in keys /\ d.rebalance
     /\ member' = d.member /\ mstate' = "ACTIVE" /\ mix' = d.member.set
     /\ Record(<<"member", d>>) /\ UNCHANGED <<strategy, overlay>> /\ Exit(p)

LEMMA PromoteCases ==
  ASSUME NEW p \in Proc, Promote(p)
  PROVE  /\ UNCHANGED <<candidate, flows, world>>
         /\ \/ PromotesStrategy(p)
            \/ PromotesMember(p)
            \/ Exit(p) /\ UNCHANGED <<control, keys>>
BY DEF Promote, PromotesStrategy, PromotesMember, control

LEMMA PromoteTyped ==
  ASSUME TypeInv, NEW p \in Proc, Promote(p)
  PROVE  TypeInv'
<1>0. ProcsType /\ ControlType /\ dec[p] \in Decision /\ Agrees(dec[p].signal)
  <2>1. ProcsType /\ ControlType  BY KeptTypes
  <2>2. dec[p] \in Decision  BY <2>1 DEF Promote, ProcsType, HasRead
  <2>3. QED  BY <2>1, <2>2 DEF ProcsType
<1>1. UNCHANGED <<candidate, flows, world>>  BY DEF Promote
<1>2. "promote" \in Label  BY DEF Label
<1>3. CASE PromotesStrategy(p)
  <2>1. ControlType'
    <3>1. dec[p].signal \in Signal /\ <<"strategy", dec[p]>> \in Key
      BY <1>0, DecisionFields, DecisionKeys
    <3>2. /\ strategy' = dec[p].signal.mode /\ overlay' = dec[p].signal.rung
          /\ mix' = dec[p].mix /\ dec[p].mix = member.set /\ UNCHANGED <<member, mstate>>
          /\ keys' = keys \cup {<<"strategy", dec[p]>>} /\ revision' = revision + 1
      BY <1>3 DEF PromotesStrategy, Allowed, Record
    <3>3. QED  BY <1>0, <1>1, <3>1, <3>2 DEF ControlType, Signal, Agrees
  <2>2. ProcsType'
    <3>1. CASE Exit(p)  BY <1>0, <3>1, ExitIsTyped
    <3>2. CASE Goto(p, "promote") /\ UNCHANGED locals  BY <1>0, <1>2, <3>2, GotoIsTyped
    <3>3. QED  BY <1>3, <3>1, <3>2 DEF PromotesStrategy
  <2>3. QED  BY <1>1, <2>1, <2>2, KeptTypes, TypedAgain
<1>4. CASE PromotesMember(p)
  <2>1. ControlType'
    <3>1. dec[p].member \in Member /\ <<"member", dec[p]>> \in Key
      BY <1>0, DecisionFields, DecisionKeys
    <3>2. QED  BY <1>0, <1>1, <1>4, <3>1 DEF ControlType, PromotesMember, Record
  <2>2. ProcsType'  BY <1>0, <1>4, ExitIsTyped DEF PromotesMember
  <2>3. QED  BY <1>1, <2>1, <2>2, KeptTypes, TypedAgain
<1>5. CASE Exit(p) /\ UNCHANGED <<control, keys>>
  BY <1>0, <1>1, <1>5, ExitIsTyped, KeptTypes, TypedAgain
<1>6. QED  BY <1>3, <1>4, <1>5, PromoteCases

LEMMA CrashTyped ==
  ASSUME TypeInv, NEW p \in Proc, Crash(p)
  PROVE  TypeInv' /\ pc'[p] = "idle" /\ \A q \in Proc \ {p} : pc'[q] = pc[q]
<1>1. ProcsType  BY KeptTypes
<1>2. crashes' \in 0..CrashBudget
  BY <1>1, ConstantsAssumption DEF Crash, ProcsType
<1>3. ProcsType' /\ pc'[p] = "idle" /\ \A q \in Proc \ {p} : pc'[q] = pc[q]
  BY <1>1, <1>2, ExitTyped DEF Crash
<1>4. UNCHANGED <<durable, world>>  BY DEF Crash
<1>5. QED  BY <1>3, <1>4, KeptTypes, TypedAgain

LEMMA WorldTyped ==
  ASSUME TypeInv, NextClose \/ Freeze \/ Drift
  PROVE  TypeInv'
<1>0. WorldType  BY KeptTypes
<1>1. UNCHANGED durable /\ UNCHANGED <<pc, locals, lock, crashes>>
  BY DEF NextClose, Freeze, Drift
<1>2. WorldType'
  <2>1. CASE NextClose
    <3>1. PICK m \in {"NORMAL", "CRASH", "POST_HANDOFF"}, r \in Rung :
            /\ (m = "CRASH") <=> (r > 0)
            /\ signal' = [day |-> signal.day + 1, mode |-> m, rung |-> r]
      BY <2>1 DEF NextClose
    <3>2. signal.day + 1 \in 0..LastDay
      BY <1>0, <2>1, ConstantsAssumption DEF NextClose, WorldType, Signal
    <3>3. signal' \in Signal  BY <3>1, <3>2 DEF Signal
    <3>4. signal'.mode = m /\ signal'.rung = r  BY <3>1
    <3>5. QED  BY <1>0, <2>1, <3>1, <3>3, <3>4 DEF NextClose, WorldType, Agrees
  <2>2. CASE Freeze  BY <1>0, <2>2 DEF Freeze, WorldType, Agrees
  <2>3. CASE Drift
    <3>1. near' \subseteq Holding  BY <2>3 DEF Drift, Holding
    <3>2. QED  BY <1>0, <2>3, <3>1 DEF Drift, WorldType, Agrees
  <2>4. QED  BY <2>1, <2>2, <2>3
<1>3. QED  BY <1>1, <1>2, KeptTypes, TypedAgain

LEMMA TypeStep == TypeInv /\ [Next]_vars => TypeInv'
<1> SUFFICES ASSUME TypeInv, [Next]_vars PROVE TypeInv'
  OBVIOUS
<1>1. ASSUME NEW p \in Proc, Cycle(p) PROVE TypeInv'
  BY <1>1, StartTyped, PendingTyped, RecoverTyped, SubmitTyped, CompleteTyped, StopTyped,
     ReadMembershipTyped, BeginMonthEndTyped, ClassifyTyped, SettleTyped, PlanTyped,
     OrdersTyped, CreateTyped, PromoteTyped DEF Cycle, Prepare, Decide
<1>2. CASE UNCHANGED vars  BY <1>2, KeptTypes, TypedAgain DEF vars
<1>3. QED  BY <1>1, <1>2, RefuseTyped, CrashTyped, WorldTyped DEF Next

LEMMA AlwaysTyped == Spec => []TypeInv
<1>1. QED  BY InitTyped, TypeStep, PTL DEF Spec

\* The variables keep their types, the mix stays that of the membership, and
\* the overlay has a rung in CRASH only, whatever cycles race and die.
THEOREM TypeCorrect == Spec => []TypeOK
<1>1. TypeInv => TypeOK  BY DEF TypeInv
<1>2. QED  BY AlwaysTyped, <1>1, PTL

-----------------------------------------------------------------------------
(* Under the runner's lock *)

\* Every invocation is started by the forward runner.
UnderLock == Timer = Proc

Mutex == \A p \in Proc : pc[p] # "idle" => lock = p

\* The mix of a decision is that of its own set, and it rebalances when that is
\* not the active one.
Fit(d) == d.mix = d.member.set /\ (d.rebalance <=> d.mix # member.set)

\* A decision whose holdings are there, or that changes none.
OnTarget(d) ==
  Target(d) \in {done} \cup near \/ (d.event = "HOLD" /\ d.signal.rung = overlay)

\* What the running invocation may rely on.
Local(p) ==
  /\ pc[p] \in Label \ {"idle", "pending", "promote"} => Unpromoted = {}
  /\ pc[p] \in {"begin", "classify", "settle", "plan"} => prev[p].set = member.set
  /\ pc[p] \in {"orders", "create"} => dec[p].rev = revision
  /\ pc[p] \in {"orders", "create", "promote"} => Fit(dec[p])
  /\ pc[p] = "promote" =>
       /\ OnTarget(dec[p]) /\ dec[p] \notin Unfinished
       /\ dec[p].event = "TRADE" => dec[p].rev <= revision

\* What a workflow asks for is there once it is COMPLETE; until then none of
\* its transitions is recorded.
FlowsAgree ==
  /\ \A d \in DOMAIN flows : d.event = "TRADE" /\ d.rev < revision
  /\ \A d \in Unfinished \cup Unpromoted : Fit(d)
  /\ \A d \in Unfinished : <<"strategy", d>> \notin keys
  /\ \A d, e \in Unpromoted : d = e
  /\ \A d \in Unpromoted : Target(d) = done

\* A decision that rebalances is never promoted, another one only once.
KeysAgree ==
  \A d \in Decision : <<"strategy", d>> \in keys =>
    ~d.rebalance /\ (d.event = "TRADE" => d.rev < revision)

LockInv ==
  /\ Mutex /\ (\A p \in Proc : Local(p)) /\ FlowsAgree /\ KeysAgree /\ ControlMatchesHoldings

LEMMA InitLock == Init => LockInv
<1> SUFFICES ASSUME Init PROVE LockInv
  OBVIOUS
<1>1. PICK s \in Top2 :
        /\ overlay = 0 /\ member = [month |-> 1, set |-> s]
        /\ keys = {} /\ flows = [d \in {} |-> 0]
        /\ done = [rung |-> 0, set |-> s] /\ pc = [p \in Proc |-> "idle"]
  BY DEF Init
<1>2. DOMAIN flows = {} /\ Unpromoted = {} /\ Unfinished = {}
  BY <1>1 DEF Unpromoted, Unfinished
<1>3. Mutex /\ \A p \in Proc : Local(p)  BY <1>1 DEF Mutex, Local
<1>4. FlowsAgree /\ KeysAgree  BY <1>1, <1>2 DEF FlowsAgree, KeysAgree
<1>5. ControlMatchesHoldings  BY <1>1 DEF ControlMatchesHoldings
<1>6. QED  BY <1>3, <1>4, <1>5 DEF LockInv

\* An idle process relies on nothing.
LEMMA IdleLocal == ASSUME NEW q \in Proc, pc'[q] = "idle" PROVE Local(q)'
BY DEF Local

\* With the lock held, or taken, by p every other process is idle.
LEMMA Alone ==
  ASSUME UnderLock, TypeInv, Mutex, NEW p \in Proc, pc[p] # "idle" \/ lock = NoProc
  PROVE  \A q \in Proc \ {p} : pc[q] = "idle"
<1>1. CASE pc[p] # "idle"  BY <1>1 DEF Mutex
<1>2. CASE lock = NoProc
  <2>1. NoProc \notin Proc  BY ConstantsAssumption
  <2>2. QED  BY <1>2, <2>1 DEF Mutex
<1>3. QED  BY <1>1, <1>2

\* A step of p: it alone has to keep what it relies on, and the lock.
LEMMA LockKept ==
  ASSUME UnderLock, TypeInv, Mutex, NEW p \in Proc, pc[p] # "idle",
         \A q \in Proc \ {p} : pc'[q] = pc[q],
         pc'[p] # "idle" => lock' = lock, Local(p)'
  PROVE  Mutex' /\ \A q \in Proc : Local(q)'
<1>1. \A q \in Proc \ {p} : pc'[q] = "idle"  BY Alone
<1>2. \A q \in Proc : Local(q)'  BY <1>1, IdleLocal
<1>3. Mutex'  BY <1>1 DEF Mutex
<1>4. QED  BY <1>2, <1>3

\* Where a step leaves the process it is of.
LEMMA PcKept ==
  ASSUME TypeInv, NEW p \in Proc
  PROVE  /\ Exit(p) => /\ pc'[p] = "idle" /\ \A q \in Proc \ {p} : pc'[q] = pc[q]
         /\ \A l \in Label : Goto(p, l) =>
              /\ pc'[p] = l /\ lock' = lock /\ \A q \in Proc \ {p} : pc'[q] = pc[q]
<1>1. ProcsType  BY KeptTypes
<1>2. QED  BY <1>1 DEF Exit, Goto, ProcsType

LEMMA ExitLock ==
  ASSUME UnderLock, TypeInv, Mutex, NEW p \in Proc, pc[p] # "idle", Exit(p)
  PROVE  Mutex' /\ \A q \in Proc : Local(q)'
<1>1. pc'[p] = "idle" /\ \A q \in Proc \ {p} : pc'[q] = pc[q]  BY PcKept
<1>2. Local(p)'  BY <1>1, IdleLocal
<1>3. QED  BY <1>1, <1>2, LockKept

LEMMA GotoLock ==
  ASSUME UnderLock, TypeInv, Mutex, NEW p \in Proc, pc[p] # "idle", NEW l \in Label,
         Goto(p, l), Local(p)'
  PROVE  Mutex' /\ \A q \in Proc : Local(q)'
<1>1. /\ pc'[p] = l /\ lock' = lock /\ \A q \in Proc \ {p} : pc'[q] = pc[q]
  BY PcKept
<1>2. QED  BY <1>1, LockKept

\* A step that leaves the durable state and the positions.
LEMMA SameState ==
  ASSUME LockInv, UNCHANGED durable, UNCHANGED <<done, near>>
  PROVE  /\ FlowsAgree' /\ KeysAgree' /\ ControlMatchesHoldings'
         /\ Unpromoted' = Unpromoted /\ Unfinished' = Unfinished
         /\ \A d : Fit(d)' <=> Fit(d)
<1>1. /\ overlay' = overlay /\ member' = member /\ revision' = revision
      /\ keys' = keys /\ flows' = flows
  BY DEF durable, control
<1>2. Unpromoted' = Unpromoted /\ Unfinished' = Unfinished
  BY <1>1 DEF Unpromoted, Unfinished, Promoted
<1>3. \A d : Fit(d)' <=> Fit(d)  BY <1>1 DEF Fit
<1>4. FlowsAgree'  BY <1>1, <1>2, <1>3 DEF LockInv, FlowsAgree
<1>5. KeysAgree'  BY <1>1 DEF LockInv, KeysAgree
<1>6. ControlMatchesHoldings'
  BY <1>1, <1>2 DEF LockInv, ControlMatchesHoldings, Quiet
<1>7. QED  BY <1>2, <1>3, <1>4, <1>5, <1>6

LEMMA StartLock ==
  ASSUME UnderLock, TypeInv, LockInv, NEW p \in Proc, Start(p)
  PROVE  LockInv'
<1>1. pc'[p] = "pending" /\ \A q \in Proc \ {p} : pc'[q] = pc[q]  BY StartTyped
<1>2. lock = NoProc /\ lock' = p /\ UNCHANGED <<durable, world>>
  BY DEF Start, UnderLock
<1>3. \A q \in Proc \ {p} : pc'[q] = "idle"  BY <1>1, <1>2, Alone DEF LockInv
<1>4. Mutex'  BY <1>2, <1>3 DEF Mutex
<1>5. \A q \in Proc : Local(q)'
  <2>1. Local(p)'  BY <1>1 DEF Local
  <2>2. QED  BY <1>3, <2>1, IdleLocal
<1>6. QED  BY <1>2, <1>4, <1>5, SameState DEF LockInv, world

LEMMA PendingLock ==
  ASSUME UnderLock, TypeInv, LockInv, NEW p \in Proc, Pending(p)
  PROVE  LockInv'
<1>0. Mutex /\ FlowsAgree /\ pc[p] # "idle" /\ UNCHANGED <<durable, world>>
  BY DEF LockInv, Pending
<1>1. /\ FlowsAgree' /\ KeysAgree' /\ ControlMatchesHoldings'
      /\ Unpromoted' = Unpromoted /\ Unfinished' = Unfinished
      /\ \A d : Fit(d)' <=> Fit(d)
  BY <1>0, SameState DEF world
<1>2. Mutex' /\ \A q \in Proc : Local(q)'
  <2>1. CASE Exit(p)  BY <1>0, <2>1, ExitLock
  <2>2. CASE Goto(p, "recover") /\ Unpromoted = {}
    <3>1. "recover" \in Label  BY DEF Label
    <3>2. pc'[p] = "recover"  BY <2>2, <3>1, PcKept
    <3>3. Local(p)'  BY <1>1, <2>2, <3>2 DEF Local
    <3>4. QED  BY <1>0, <2>2, <3>1, <3>3, GotoLock
  <2>3. CASE (\E d \in Unpromoted : dec' = [dec EXCEPT ![p] = d]) /\ Goto(p, "promote")
    <3>1. PICK d \in Unpromoted : dec' = [dec EXCEPT ![p] = d]  BY <2>3
    <3>2. "promote" \in Label  BY DEF Label
    <3>3. pc'[p] = "promote"  BY <2>3, <3>2, PcKept
    <3>4. dec'[p] = d
      <4>1. ProcsType  BY KeptTypes
      <4>2. QED  BY <3>1, <4>1 DEF ProcsType
    <3>5. Fit(d) /\ Target(d) = done /\ d \in DOMAIN flows /\ d \notin Unfinished
      BY <1>0 DEF FlowsAgree, Unpromoted, Unfinished
    <3>6. d.event = "TRADE" /\ d.rev < revision /\ d.rev \in Nat /\ revision \in Nat
      <4>1. FlowsType /\ ControlType  BY KeptTypes
      <4>2. d \in Decision /\ revision \in Nat  BY <3>5, <4>1 DEF FlowsType, ControlType
      <4>3. QED  BY <1>0, <3>5, <4>2, DecisionFields DEF FlowsAgree
    <3>7. revision' = revision /\ done' = done /\ near' = near /\ overlay' = overlay
      BY <1>0 DEF durable, control, world
    <3>8. Local(p)'
      <4>1. Fit(d)'  BY <1>1, <3>5
      <4>2. OnTarget(d)'  BY <3>5, <3>7 DEF OnTarget, Target
      <4>3. d \notin Unfinished'  BY <1>1, <3>5
      <4>4. d.rev <= revision'  BY <3>6, <3>7
      <4>5. QED  BY <3>3, <3>4, <4>1, <4>2, <4>3, <4>4 DEF Local, Fit, OnTarget, Target
    <3>9. QED  BY <1>0, <2>3, <3>2, <3>8, GotoLock
  <2>4. QED  BY <2>1, <2>2, <2>3 DEF Pending
<1>3. QED  BY <1>1, <1>2 DEF LockInv

LEMMA RecoverLock ==
  ASSUME UnderLock, TypeInv, LockInv, NEW p \in Proc, Recover(p)
  PROVE  LockInv'
<1>0. Mutex /\ Local(p) /\ pc[p] = "recover" /\ UNCHANGED <<durable, world, locals>>
  BY DEF LockInv, Recover
<1>1. /\ FlowsAgree' /\ KeysAgree' /\ ControlMatchesHoldings' /\ Unpromoted' = Unpromoted
  BY <1>0, SameState DEF world
<1>2. PICK l \in {"member", "work"} : Goto(p, l)  BY DEF Recover
<1>3. l \in Label /\ "recover" \in Label  BY DEF Label
<1>4. pc'[p] = l  BY <1>2, <1>3, PcKept
<1>5. Local(p)'  BY <1>0, <1>1, <1>3, <1>4 DEF Local
<1>6. QED  BY <1>0, <1>1, <1>2, <1>3, <1>5, GotoLock DEF LockInv

LEMMA RefuseLock ==
  ASSUME UnderLock, TypeInv, LockInv, NEW p \in Proc, Refuse(p)
  PROVE  LockInv'
<1>0. Mutex /\ pc[p] # "idle" /\ UNCHANGED <<durable, world>> /\ Exit(p)
  BY DEF LockInv, Refuse
<1>1. FlowsAgree' /\ KeysAgree' /\ ControlMatchesHoldings'
  BY <1>0, SameState DEF world
<1>2. QED  BY <1>0, <1>1, ExitLock DEF LockInv

\* A new status, or a count, of one workflow that is not promoted before.
LEMMA FlowChanges ==
  ASSUME TypeInv, LockInv, NEW d \in Unfinished, NEW f,
         flows' = [flows EXCEPT ![d] = f],
         revision' \in {revision, revision + 1},
         UNCHANGED <<overlay, member, keys>>,
         f.status # "COMPLETE" => UNCHANGED <<done, near>>,
         f.status = "COMPLETE" => Unpromoted = {} /\ done' = Target(d)
  PROVE  FlowsAgree' /\ KeysAgree' /\ ControlMatchesHoldings'
<1>0. FlowsAgree /\ KeysAgree /\ d \in DOMAIN flows /\ revision \in Nat
      /\ DOMAIN flows \subseteq Decision
  <2>1. FlowsType /\ ControlType  BY KeptTypes
  <2>2. QED  BY <2>1 DEF LockInv, Unfinished, FlowsType, ControlType
<1>1. DOMAIN flows' = DOMAIN flows /\ flows'[d] = f
      /\ \A e \in DOMAIN flows \ {d} : flows'[e] = flows[e]
  BY <1>0
<1>2. \A e : Promoted(e)' <=> Promoted(e)  BY DEF Promoted
<1>3. \A e : Fit(e)' <=> Fit(e)  BY DEF Fit
<1>4. ~Promoted(d)  BY <1>0 DEF FlowsAgree, Promoted
<1>5. Unfinished' = IF f.status = "COMPLETE" THEN Unfinished \ {d} ELSE Unfinished
  BY <1>0, <1>1 DEF Unfinished
<1>6. Unpromoted' = IF f.status = "COMPLETE" THEN Unpromoted \cup {d} ELSE Unpromoted
  BY <1>0, <1>1, <1>2, <1>4 DEF Unpromoted, Unfinished
<1>7. \A e \in DOMAIN flows' : e.event = "TRADE" /\ e.rev < revision'
  <2> SUFFICES ASSUME NEW e \in DOMAIN flows PROVE e.event = "TRADE" /\ e.rev < revision'
    BY <1>1
  <2>1. e.event = "TRADE" /\ e.rev < revision  BY <1>0 DEF FlowsAgree
  <2>2. e.rev \in Nat  BY <1>0, <2>1, DecisionFields
  <2>3. QED  BY <1>0, <2>1, <2>2
<1>8. \A e \in Unfinished' \cup Unpromoted' : Fit(e)'
  BY <1>0, <1>3, <1>5, <1>6 DEF FlowsAgree
<1>9. \A e \in Unfinished' : <<"strategy", e>> \notin keys'
  BY <1>0, <1>5 DEF FlowsAgree
<1>10. \A e, g \in Unpromoted' : e = g  BY <1>0, <1>6 DEF FlowsAgree
<1>11. \A e \in Unpromoted' : Target(e) = done'
  BY <1>0, <1>6 DEF FlowsAgree
<1>12. FlowsAgree'
  BY <1>7, <1>8, <1>9, <1>10, <1>11 DEF FlowsAgree, Target
<1>13. KeysAgree'
  <2> SUFFICES ASSUME NEW e \in Decision, <<"strategy", e>> \in keys
               PROVE  ~e.rebalance /\ (e.event = "TRADE" => e.rev < revision')
    BY DEF KeysAgree
  <2>1. ~e.rebalance /\ (e.event = "TRADE" => e.rev < revision)  BY <1>0 DEF KeysAgree
  <2>2. e.event = "TRADE" => e.rev \in Nat  BY DecisionFields
  <2>3. QED  BY <1>0, <2>1, <2>2
<1>14. ControlMatchesHoldings'
  <2>1. ~(Quiet' /\ Unpromoted' = {})  BY <1>5, <1>6 DEF Quiet
  <2>2. QED  BY <2>1 DEF ControlMatchesHoldings
<1>15. QED  BY <1>12, <1>13, <1>14

LEMMA SubmitLock ==
  ASSUME UnderLock, TypeInv, LockInv, NEW p \in Proc, Submit(p)
  PROVE  LockInv'
<1>0. Mutex /\ pc[p] # "idle" /\ Exit(p) /\ UNCHANGED <<control, keys, candidate, world>>
  BY DEF LockInv, Submit
<1>1. PICK d \in Unfinished :
        /\ flows[d].status = "ACTIVE"
        /\ flows' = [flows EXCEPT ![d].left = @ - 1, ![d].sent = TRUE]
  BY DEF Submit
<1>2. PICK f : f = [flows[d] EXCEPT !.left = @ - 1, !.sent = TRUE]  OBVIOUS
<1>3. flows[d] \in [status: {"ACTIVE", "COMPLETE", "STOPPED"}, left: Nat, sent: BOOLEAN]
      /\ d \in DOMAIN flows
  <2>1. FlowsType  BY KeptTypes
  <2>2. QED  BY <2>1 DEF FlowsType, Unfinished
<1>4. f.status = "ACTIVE" /\ flows' = [flows EXCEPT ![d] = f]
  BY <1>1, <1>2, <1>3
<1>5. FlowsAgree' /\ KeysAgree' /\ ControlMatchesHoldings'
  <2>1. UNCHANGED <<overlay, member, keys, revision, done, near>>
    BY <1>0 DEF control, world
  <2>2. QED  BY <1>4, <2>1, FlowChanges
<1>6. QED  BY <1>0, <1>5, ExitLock DEF LockInv

LEMMA CompleteLock ==
  ASSUME UnderLock, TypeInv, LockInv, NEW p \in Proc, Complete(p)
  PROVE  LockInv'
<1>0. Mutex /\ pc[p] = "work" /\ Exit(p) /\ Local(p)  BY DEF LockInv, Complete
<1>1. PICK d \in Unfinished :
        /\ flows' = [flows EXCEPT ![d].status = "COMPLETE"]
        /\ done' = Target(d) /\ near' = {}
  BY DEF Complete
<1>2. PICK f : f = [flows[d] EXCEPT !.status = "COMPLETE"]  OBVIOUS
<1>3. flows[d] \in [status: {"ACTIVE", "COMPLETE", "STOPPED"}, left: Nat, sent: BOOLEAN]
      /\ d \in DOMAIN flows
  <2>1. FlowsType  BY KeptTypes
  <2>2. QED  BY <2>1 DEF FlowsType, Unfinished
<1>4. f.status = "COMPLETE" /\ flows' = [flows EXCEPT ![d] = f]
  BY <1>1, <1>2, <1>3
<1>5. Unpromoted = {}
  <2>1. "work" \in Label \ {"idle", "pending", "promote"}  BY DEF Label
  <2>2. QED  BY <1>0, <2>1 DEF Local
<1>6. FlowsAgree' /\ KeysAgree' /\ ControlMatchesHoldings'
  <2>1. UNCHANGED <<overlay, member, keys>> /\ revision' = revision + 1  BY DEF Complete
  <2>2. QED  BY <1>1, <1>4, <1>5, <2>1, FlowChanges
<1>7. QED  BY <1>0, <1>6, ExitLock DEF LockInv

LEMMA StopLock ==
  ASSUME UnderLock, TypeInv, LockInv, NEW p \in Proc, Stop(p)
  PROVE  LockInv'
<1>0. Mutex /\ pc[p] # "idle" /\ Exit(p)  BY DEF LockInv, Stop
<1>1. PICK d \in Unfinished : flows' = [flows EXCEPT ![d].status = "STOPPED"]
  BY DEF Stop
<1>2. PICK f : f = [flows[d] EXCEPT !.status = "STOPPED"]  OBVIOUS
<1>3. flows[d] \in [status: {"ACTIVE", "COMPLETE", "STOPPED"}, left: Nat, sent: BOOLEAN]
      /\ d \in DOMAIN flows
  <2>1. FlowsType  BY KeptTypes
  <2>2. QED  BY <2>1 DEF FlowsType, Unfinished
<1>4. f.status = "STOPPED" /\ flows' = [flows EXCEPT ![d] = f]
  BY <1>1, <1>2, <1>3
<1>5. FlowsAgree' /\ KeysAgree' /\ ControlMatchesHoldings'
  <2>1. UNCHANGED <<overlay, member, keys, done, near>> /\ revision' = revision + 1
    BY DEF Stop, world
  <2>2. QED  BY <1>4, <2>1, FlowChanges
<1>6. QED  BY <1>0, <1>5, ExitLock DEF LockInv

LEMMA ReadMembershipLock ==
  ASSUME UnderLock, TypeInv, LockInv, NEW p \in Proc, ReadMembership(p)
  PROVE  LockInv'
<1>0. Mutex /\ Local(p) /\ pc[p] = "member" /\ UNCHANGED <<durable, world, dec>>
  BY DEF LockInv, ReadMembership
<1>1. /\ FlowsAgree' /\ KeysAgree' /\ ControlMatchesHoldings' /\ Unpromoted' = Unpromoted
  BY <1>0, SameState DEF world
<1>2. Mutex' /\ \A q \in Proc : Local(q)'
  <2>1. CASE Exit(p)  BY <1>0, <2>1, ExitLock
  <2>2. CASE ~Exit(p)
    <3>1. PICK l \in {"classify", "begin", "plan"} : Goto(p, l)  BY <2>2 DEF ReadMembership
    <3>2. l \in Label /\ "member" \in Label  BY DEF Label
    <3>3. pc'[p] = l  BY <3>1, <3>2, PcKept
    <3>4. prev'[p] = member /\ member' = member
      <4>1. ProcsType  BY KeptTypes
      <4>2. prev' = [prev EXCEPT ![p] = member]  BY <2>2 DEF ReadMembership
      <4>3. QED  BY <1>0, <4>1, <4>2 DEF ProcsType, durable, control
    <3>5. Local(p)'  BY <1>0, <1>1, <3>2, <3>3, <3>4 DEF Local
    <3>6. QED  BY <1>0, <3>1, <3>2, <3>5, GotoLock
  <2>3. QED  BY <2>1, <2>2
<1>3. QED  BY <1>1, <1>2 DEF LockInv

\* A step of the membership dimension: its keys are no decision's, and the set
\* stays the active one.
LEMMA MembershipStep ==
  ASSUME TypeInv, LockInv, NEW m, NEW kind \in {"begin", "classify"},
         keys' \in {keys, keys \cup {<<kind, m>>}},
         revision' \in {revision, revision + 1}, member'.set = member.set,
         UNCHANGED <<overlay, flows, done, near>>
  PROVE  /\ FlowsAgree' /\ KeysAgree' /\ ControlMatchesHoldings' /\ Unpromoted' = Unpromoted
<1>0. FlowsAgree /\ KeysAgree /\ ControlMatchesHoldings /\ revision \in Nat
      /\ DOMAIN flows \subseteq Decision
  <2>1. FlowsType /\ ControlType  BY KeptTypes
  <2>2. QED  BY <2>1 DEF LockInv, FlowsType, ControlType
<1>1. \A d : /\ <<"strategy", d>> \in keys' <=> <<"strategy", d>> \in keys
             /\ <<"member", d>> \in keys' <=> <<"member", d>> \in keys
  OBVIOUS
<1>2. Unpromoted' = Unpromoted /\ Unfinished' = Unfinished
  BY <1>1 DEF Unpromoted, Unfinished, Promoted
<1>3. \A d : Fit(d)' <=> Fit(d)  BY DEF Fit
<1>4. \A d \in Decision : d.event = "TRADE" /\ d.rev < revision => d.rev < revision'
  <2> SUFFICES ASSUME NEW d \in Decision, d.event = "TRADE", d.rev < revision
               PROVE  d.rev < revision'
    OBVIOUS
  <2>1. d.rev \in Nat  BY DecisionFields
  <2>2. QED  BY <1>0, <2>1
<1>5. FlowsAgree'
  <2>1. \A d \in DOMAIN flows' : d.event = "TRADE" /\ d.rev < revision'
    BY <1>0, <1>4 DEF FlowsAgree
  <2>2. \A d \in Unfinished' : <<"strategy", d>> \notin keys'
    BY <1>0, <1>1, <1>2 DEF FlowsAgree
  <2>3. QED  BY <1>0, <1>2, <1>3, <2>1, <2>2 DEF FlowsAgree, Target
<1>6. KeysAgree'  BY <1>0, <1>1, <1>4 DEF KeysAgree
<1>7. ControlMatchesHoldings'
  BY <1>0, <1>2 DEF ControlMatchesHoldings, Quiet
<1>8. QED  BY <1>2, <1>5, <1>6, <1>7

LEMMA BeginLock ==
  ASSUME UnderLock, TypeInv, LockInv, NEW p \in Proc, BeginMonthEnd(p)
  PROVE  LockInv'
<1>0. Mutex /\ Local(p) /\ pc[p] = "begin" /\ UNCHANGED <<overlay, member, flows, world>>
  BY DEF LockInv, BeginMonthEnd
<1>1. /\ keys' \in {keys, keys \cup {<<"begin", cand[p]>>}}
      /\ revision' \in {revision, revision + 1}
  BY DEF BeginMonthEnd, Record
<1>2. /\ FlowsAgree' /\ KeysAgree' /\ ControlMatchesHoldings' /\ Unpromoted' = Unpromoted
  BY <1>0, <1>1, MembershipStep DEF world
<1>3. Mutex' /\ \A q \in Proc : Local(q)'
  <2>1. CASE Exit(p)  BY <1>0, <2>1, ExitLock
  <2>2. CASE Goto(p, "classify") /\ UNCHANGED locals
    <3>1. "classify" \in Label /\ "begin" \in Label  BY DEF Label
    <3>2. pc'[p] = "classify"  BY <2>2, <3>1, PcKept
    <3>3. prev'[p].set = member'.set  BY <1>0, <2>2 DEF Local, locals
    <3>4. Local(p)'  BY <1>0, <1>2, <3>1, <3>2, <3>3 DEF Local
    <3>5. QED  BY <1>0, <2>2, <3>1, <3>4, GotoLock
  <2>3. QED  BY <2>1, <2>2 DEF BeginMonthEnd
<1>4. QED  BY <1>2, <1>3 DEF LockInv

LEMMA ClassifyLock ==
  ASSUME UnderLock, TypeInv, LockInv, NEW p \in Proc, ClassifyMonthEnd(p)
  PROVE  LockInv'
<1>0. Mutex /\ Local(p) /\ pc[p] = "classify" /\ UNCHANGED <<overlay, flows, world>>
  BY DEF LockInv, ClassifyMonthEnd
<1>1. /\ keys' \in {keys, keys \cup {<<"classify", cand[p]>>}}
      /\ revision' \in {revision, revision + 1} /\ member'.set = member.set
  BY DEF ClassifyMonthEnd, Record
<1>2. /\ FlowsAgree' /\ KeysAgree' /\ ControlMatchesHoldings' /\ Unpromoted' = Unpromoted
  BY <1>0, <1>1, MembershipStep DEF world
<1>3. Mutex' /\ \A q \in Proc : Local(q)'
  <2>1. CASE Exit(p)  BY <1>0, <2>1, ExitLock
  <2>2. CASE Goto(p, "settle") /\ UNCHANGED locals
    <3>1. "settle" \in Label /\ "classify" \in Label  BY DEF Label
    <3>2. pc'[p] = "settle"  BY <2>2, <3>1, PcKept
    <3>3. prev'[p].set = member'.set  BY <1>0, <1>1, <2>2 DEF Local, locals
    <3>4. Local(p)'  BY <1>0, <1>2, <3>1, <3>2, <3>3 DEF Local
    <3>5. QED  BY <1>0, <2>2, <3>1, <3>4, GotoLock
  <2>3. QED  BY <2>1, <2>2 DEF ClassifyMonthEnd
<1>4. QED  BY <1>2, <1>3 DEF LockInv

LEMMA SettleLock ==
  ASSUME UnderLock, TypeInv, LockInv, NEW p \in Proc, Settle(p)
  PROVE  LockInv'
<1>0. Mutex /\ Local(p) /\ pc[p] = "settle" /\ UNCHANGED <<durable, world, dec>>
  BY DEF LockInv, Settle
<1>1. /\ FlowsAgree' /\ KeysAgree' /\ ControlMatchesHoldings' /\ Unpromoted' = Unpromoted
  BY <1>0, SameState DEF world
<1>2. Mutex' /\ \A q \in Proc : Local(q)'
  <2>1. CASE Exit(p)  BY <1>0, <2>1, ExitLock
  <2>2. CASE Goto(p, "plan") /\ (prev' = [prev EXCEPT ![p] = member] \/ prev' = prev)
    <3>1. "plan" \in Label /\ "settle" \in Label  BY DEF Label
    <3>2. pc'[p] = "plan"  BY <2>2, <3>1, PcKept
    <3>3. prev'[p].set = member'.set
      <4>1. ProcsType /\ member' = member
        BY <1>0, KeptTypes DEF durable, control
      <4>2. QED  BY <1>0, <2>2, <4>1 DEF Local, ProcsType
    <3>4. Local(p)'  BY <1>0, <1>1, <3>1, <3>2, <3>3 DEF Local
    <3>5. QED  BY <1>0, <2>2, <3>1, <3>4, GotoLock
  <2>3. QED
    <3>1. ControlType  BY KeptTypes
    <3>2. QED  BY <2>1, <2>2, <3>1 DEF Settle, ControlType
<1>3. QED  BY <1>1, <1>2 DEF LockInv

LEMMA PlanLock ==
  ASSUME UnderLock, TypeInv, LockInv, NEW p \in Proc, Plan(p)
  PROVE  LockInv'
<1>0. /\ Mutex /\ Local(p) /\ FlowsAgree /\ pc[p] = "plan"
      /\ UNCHANGED <<durable, world, cand, prev>>
  BY DEF LockInv, Plan
<1>1. /\ FlowsAgree' /\ KeysAgree' /\ ControlMatchesHoldings'
      /\ Unpromoted' = Unpromoted /\ Unfinished' = Unfinished
  BY <1>0, SameState DEF world
<1>2. PICK d \in Decision :
        /\ dec' = [dec EXCEPT ![p] = d] /\ d.signal = signal /\ d.member = cand[p]
        /\ d.mix = (IF d.event = "HOLD" THEN mix ELSE cand[p].set)
        /\ d.rebalance = (prev[p].set # cand[p].set)
        /\ IF prev[p].set = cand[p].set /\ overlay = signal.rung
             THEN d.event = "HOLD" /\ Goto(p, "promote")
             ELSE d.event = "TRADE" /\ d.rev = revision /\ Goto(p, "orders")
  BY PlannedDecision
<1>3. /\ dec'[p] = d /\ mix = member.set
      /\ overlay' = overlay /\ member' = member /\ revision' = revision
      /\ done' = done /\ near' = near
  <2>1. ProcsType /\ ControlType  BY KeptTypes
  <2>2. QED  BY <1>0, <1>2, <2>1 DEF ProcsType, ControlType, durable, control, world
<1>4. prev[p].set = member.set  BY <1>0 DEF Local
<1>5. Fit(d)'
  <2>1. CASE d.event = "HOLD"
    <3>1. prev[p].set = cand[p].set  BY <1>2, <2>1
    <3>2. QED  BY <1>2, <1>3, <1>4, <2>1, <3>1 DEF Fit
  <2>2. CASE d.event # "HOLD"  BY <1>2, <1>3, <1>4, <2>2 DEF Fit
  <2>3. QED  BY <2>1, <2>2
<1>6. "plan" \in Label /\ "promote" \in Label /\ "orders" \in Label  BY DEF Label
<1>7. Mutex' /\ \A q \in Proc : Local(q)'
  <2>1. CASE d.event = "HOLD" /\ Goto(p, "promote") /\ overlay = signal.rung
    <3>1. pc'[p] = "promote"  BY <1>6, <2>1, PcKept
    <3>2. d \notin Unfinished  BY <1>0, <2>1 DEF FlowsAgree, Unfinished
    <3>3. OnTarget(d)'  BY <1>2, <1>3, <2>1 DEF OnTarget
    <3>4. Local(p)'
      BY <1>1, <1>3, <1>5, <2>1, <3>1, <3>2, <3>3 DEF Local, Fit, OnTarget, Target
    <3>5. QED  BY <1>0, <1>6, <2>1, <3>4, GotoLock
  <2>2. CASE d.event = "TRADE" /\ d.rev = revision /\ Goto(p, "orders")
    <3>1. pc'[p] = "orders"  BY <1>6, <2>2, PcKept
    <3>2. Unpromoted = {}  BY <1>0, <1>6 DEF Local
    <3>3. Local(p)'  BY <1>1, <1>3, <1>5, <2>2, <3>1, <3>2 DEF Local, Fit
    <3>4. QED  BY <1>0, <1>6, <2>2, <3>3, GotoLock
  <2>3. QED  BY <1>2, <2>1, <2>2
<1>8. QED  BY <1>1, <1>7 DEF LockInv

LEMMA OrdersLock ==
  ASSUME UnderLock, TypeInv, LockInv, NEW p \in Proc, Orders(p)
  PROVE  LockInv'
<1>0. /\ Mutex /\ Local(p) /\ FlowsAgree /\ pc[p] = "orders"
      /\ UNCHANGED <<durable, world, locals>>
  BY DEF LockInv, Orders
<1>1. /\ FlowsAgree' /\ KeysAgree' /\ ControlMatchesHoldings'
      /\ Unpromoted' = Unpromoted /\ Unfinished' = Unfinished
      /\ (Fit(dec[p])' <=> Fit(dec[p]))
  BY <1>0, SameState DEF world, locals, Fit
<1>2. /\ dec' = dec /\ revision' = revision /\ done' = done /\ near' = near
      /\ overlay' = overlay
  BY <1>0 DEF durable, control, world, locals
<1>3. "orders" \in Label /\ "promote" \in Label /\ "create" \in Label  BY DEF Label
<1>4. /\ Unpromoted = {} /\ dec[p].rev = revision /\ Fit(dec[p]) /\ Fit(dec[p])'
      /\ revision \in Nat
  <2>1. ControlType  BY KeptTypes
  <2>2. QED  BY <1>0, <1>1, <1>3, <2>1 DEF Local, ControlType
<1>5. Mutex' /\ \A q \in Proc : Local(q)'
  <2>1. CASE Target(dec[p]) \in {done} \cup near /\ Goto(p, "promote")
    <3>1. pc'[p] = "promote"  BY <1>3, <2>1, PcKept
    <3>2. dec[p] \notin Unfinished
      <4> SUFFICES ASSUME dec[p] \in DOMAIN flows PROVE FALSE
        BY DEF Unfinished
      <4>1. dec[p].rev < revision  BY <1>0 DEF FlowsAgree
      <4>2. QED  BY <1>4, <4>1
    <3>3. OnTarget(dec[p])'  BY <1>2, <2>1 DEF OnTarget, Target
    <3>4. dec[p].rev <= revision'  BY <1>2, <1>4
    <3>5. Local(p)'
      BY <1>1, <1>2, <1>4, <3>1, <3>2, <3>3, <3>4 DEF Local, Fit, OnTarget, Target
    <3>6. QED  BY <1>0, <1>3, <2>1, <3>5, GotoLock
  <2>2. CASE Goto(p, "create")
    <3>1. pc'[p] = "create"  BY <1>3, <2>2, PcKept
    <3>2. Local(p)'  BY <1>1, <1>2, <1>4, <3>1 DEF Local, Fit
    <3>3. QED  BY <1>0, <1>3, <2>2, <3>2, GotoLock
  <2>3. QED  BY <2>1, <2>2 DEF Orders
<1>6. QED  BY <1>1, <1>5 DEF LockInv

LEMMA CreateLock ==
  ASSUME UnderLock, TypeInv, LockInv, NEW p \in Proc, Create(p)
  PROVE  LockInv'
<1>0. /\ Mutex /\ Local(p) /\ FlowsAgree /\ KeysAgree /\ pc[p] = "create" /\ Exit(p)
      /\ UNCHANGED <<strategy, overlay, member, mstate, mix, keys, candidate, world>>
  BY DEF LockInv, Create
<1>1. FlowsAgree' /\ KeysAgree' /\ ControlMatchesHoldings'
  <2>1. CASE UNCHANGED <<flows, revision>>
    <3>1. UNCHANGED durable /\ UNCHANGED <<done, near>>
      BY <1>0, <2>1 DEF durable, control, world
    <3>2. QED  BY <3>1, SameState
  <2>2. CASE ~UNCHANGED <<flows, revision>>
    <3>0. /\ dec[p] \notin DOMAIN flows /\ Quiet /\ revision' = revision + 1
          /\ \E n \in Batches :
               flows' = [d \in DOMAIN flows \cup {dec[p]} |->
                 IF d = dec[p] THEN [status |-> "ACTIVE", left |-> n, sent |-> FALSE]
                 ELSE flows[d]]
      BY <2>2 DEF Create
    <3>1. PICK d \in Decision : d = dec[p] /\ d.event = "TRADE"
      <4>1. ProcsType  BY KeptTypes
      <4>2. QED  BY <1>0, <4>1 DEF ProcsType, HasRead
    <3>2. /\ DOMAIN flows' = DOMAIN flows \cup {d} /\ d \notin DOMAIN flows
          /\ \A e \in DOMAIN flows : flows'[e] = flows[e]
          /\ flows'[d].status = "ACTIVE"
      BY <3>0, <3>1
    <3>3. /\ Fit(d) /\ d.rev = revision /\ Unpromoted = {} /\ revision \in Nat
          /\ DOMAIN flows \subseteq Decision
      <4>1. ControlType /\ FlowsType  BY KeptTypes
      <4>2. "create" \in Label  BY DEF Label
      <4>3. QED  BY <1>0, <3>1, <4>1, <4>2 DEF Local, ControlType, FlowsType
    <3>4. Unfinished' = {d}
      <4>1. Unfinished = {}  BY <3>0 DEF Quiet
      <4>2. QED  BY <3>2, <4>1 DEF Unfinished
    <3>5. Unpromoted' = {}
      <4>1. \A e : Promoted(e)' <=> Promoted(e)  BY <1>0 DEF Promoted
      <4>2. QED  BY <3>2, <3>3, <4>1 DEF Unpromoted
    <3>6. <<"strategy", d>> \notin keys
      <4> SUFFICES ASSUME <<"strategy", d>> \in keys PROVE FALSE
        OBVIOUS
      <4>1. d.rev < revision  BY <1>0, <3>1 DEF KeysAgree
      <4>2. QED  BY <3>3, <4>1
    <3>7. \A e \in Decision : e.event = "TRADE" /\ (e.rev < revision \/ e.rev = revision)
            => e.rev < revision'
      <4> SUFFICES ASSUME NEW e \in Decision, e.event = "TRADE",
                          e.rev < revision \/ e.rev = revision
                   PROVE  e.rev < revision'
        OBVIOUS
      <4>1. e.rev \in Nat  BY DecisionFields
      <4>2. QED  BY <3>0, <3>3, <4>1
    <3>8. FlowsAgree'
      <4>1. \A e \in DOMAIN flows' : e.event = "TRADE" /\ e.rev < revision'
        BY <1>0, <3>1, <3>2, <3>3, <3>7 DEF FlowsAgree
      <4>2. Fit(d)'  BY <1>0, <3>3 DEF Fit
      <4>3. QED  BY <1>0, <3>4, <3>5, <3>6, <4>1, <4>2 DEF FlowsAgree, Fit
    <3>9. KeysAgree'  BY <1>0, <3>7 DEF KeysAgree
    <3>10. ControlMatchesHoldings'  BY <3>4 DEF ControlMatchesHoldings, Quiet
    <3>11. QED  BY <3>8, <3>9, <3>10
  <2>3. QED  BY <2>1, <2>2
<1>2. QED  BY <1>0, <1>1, ExitLock DEF LockInv

LEMMA PromoteLock ==
  ASSUME UnderLock, TypeInv, LockInv, NEW p \in Proc, Promote(p)
  PROVE  LockInv'
<1>0. /\ Mutex /\ Local(p) /\ FlowsAgree /\ KeysAgree /\ ControlMatchesHoldings
      /\ pc[p] = "promote" /\ UNCHANGED <<candidate, flows, world>>
  BY DEF LockInv, Promote
<1>1. PICK d \in Decision : d = dec[p]
  <2>1. ProcsType  BY KeptTypes
  <2>2. QED  BY <1>0, <2>1 DEF ProcsType, HasRead
<1>2. /\ Fit(d) /\ OnTarget(d) /\ (d.event = "TRADE" => d.rev <= revision)
      /\ revision \in Nat /\ DOMAIN flows \subseteq Decision
  <2>1. ControlType /\ FlowsType  BY KeptTypes
  <2>2. QED  BY <1>0, <1>1, <2>1 DEF Local, ControlType, FlowsType
<1>3. CASE PromotesStrategy(p)
  <2>1. /\ Quiet /\ d.mix = member.set /\ overlay' = d.signal.rung
        /\ keys' = keys \cup {<<"strategy", d>>} /\ revision' = revision + 1
        /\ member' = member /\ (d.rebalance \/ Exit(p))
    BY <1>1, <1>3 DEF PromotesStrategy, Allowed, Record
  <2>2. ~d.rebalance /\ Exit(p) /\ d.member.set = member.set  BY <1>2, <2>1 DEF Fit
  <2>3. Unfinished' = {} /\ Quiet'  BY <1>0, <2>1 DEF Quiet, Unfinished
  <2>4. Unpromoted' = Unpromoted \ {d}
    <3>1. \A e : e # d => (Promoted(e)' <=> Promoted(e))  BY <2>1 DEF Promoted
    <3>2. Promoted(d)'  BY <2>1, <2>2 DEF Promoted
    <3>3. QED  BY <1>0, <3>1, <3>2 DEF Unpromoted
  <2>5. \A e \in Decision : e.event = "TRADE" /\ (e.rev < revision \/ e.rev <= revision)
          => e.rev < revision'
    <3> SUFFICES ASSUME NEW e \in Decision, e.event = "TRADE",
                        e.rev < revision \/ e.rev <= revision
                 PROVE  e.rev < revision'
      OBVIOUS
    <3>1. e.rev \in Nat  BY DecisionFields
    <3>2. QED  BY <1>2, <2>1, <3>1
  <2>6. FlowsAgree'
    <3>1. \A e : Fit(e)' <=> Fit(e)  BY <2>1 DEF Fit
    <3>2. \A e \in DOMAIN flows' : e.event = "TRADE" /\ e.rev < revision'
      BY <1>0, <1>2, <2>5 DEF FlowsAgree
    <3>3. done' = done  BY <1>0 DEF world
    <3>4. QED  BY <1>0, <2>3, <2>4, <3>1, <3>2, <3>3 DEF FlowsAgree, Target
  <2>7. KeysAgree'
    <3>1. \A e \in Decision : <<"strategy", e>> \in keys' => e = d \/ <<"strategy", e>> \in keys
      BY <2>1
    <3>2. QED  BY <1>0, <1>2, <2>2, <2>5, <3>1 DEF KeysAgree
  <2>8. ControlMatchesHoldings'
    <3>0. done' = done /\ near' = near  BY <1>0 DEF world
    <3>1. CASE Target(d) \in {done} \cup near
      <4>1. [rung |-> overlay', set |-> member'.set] = Target(d)  BY <2>1, <2>2 DEF Target
      <4>2. QED  BY <3>0, <3>1, <4>1 DEF ControlMatchesHoldings
    <3>2. CASE d.event = "HOLD" /\ d.signal.rung = overlay
      <4>1. Unpromoted' = Unpromoted  BY <1>0, <2>4, <3>2 DEF FlowsAgree, Unpromoted
      <4>2. QED  BY <1>0, <2>1, <3>0, <3>2, <4>1 DEF ControlMatchesHoldings
    <3>3. QED  BY <1>2, <3>1, <3>2 DEF OnTarget
  <2>9. QED  BY <1>0, <2>2, <2>6, <2>7, <2>8, ExitLock DEF LockInv
<1>4. ~PromotesMember(p)  BY <1>0, <1>1 DEF KeysAgree, PromotesMember
<1>5. CASE Exit(p) /\ UNCHANGED <<control, keys>>
  <2>1. UNCHANGED durable /\ UNCHANGED <<done, near>>  BY <1>0, <1>5 DEF durable, world
  <2>2. QED  BY <1>0, <1>5, <2>1, SameState, ExitLock DEF LockInv
<1>6. QED  BY <1>3, <1>4, <1>5, PromoteCases

LEMMA CrashLock ==
  ASSUME UnderLock, TypeInv, LockInv, NEW p \in Proc, Crash(p)
  PROVE  LockInv'
<1>1. pc'[p] = "idle" /\ \A q \in Proc \ {p} : pc'[q] = pc[q]  BY CrashTyped
<1>2. Mutex /\ pc[p] # "idle" /\ UNCHANGED <<durable, world>>  BY DEF LockInv, Crash
<1>3. Mutex' /\ \A q \in Proc : Local(q)'  BY <1>1, <1>2, IdleLocal, LockKept
<1>4. QED  BY <1>2, <1>3, SameState DEF LockInv, world

\* Prices, closes and months change nothing that is relied on.
LEMMA WorldLock ==
  ASSUME TypeInv, LockInv, UNCHANGED <<durable, pc, locals, lock>>,
         done' = done, near \subseteq near'
  PROVE  LockInv'
<1>1. /\ overlay' = overlay /\ member' = member /\ revision' = revision
      /\ keys' = keys /\ flows' = flows /\ dec' = dec /\ prev' = prev
  BY DEF durable, control, locals
<1>2. Unpromoted' = Unpromoted /\ Unfinished' = Unfinished
  BY <1>1 DEF Unpromoted, Unfinished, Promoted
<1>3. FlowsAgree' /\ KeysAgree'
  BY <1>1, <1>2 DEF LockInv, FlowsAgree, KeysAgree, Fit, Target
<1>4. ControlMatchesHoldings'
  BY <1>1, <1>2 DEF LockInv, ControlMatchesHoldings, Quiet
<1>5. ASSUME NEW q \in Proc PROVE Local(q)'
  <2>1. Local(q)  BY DEF LockInv
  <2>2. OnTarget(dec[q]) => OnTarget(dec[q])'  BY <1>1 DEF OnTarget, Target
  <2>3. Fit(dec[q])' <=> Fit(dec[q])  BY <1>1 DEF Fit
  <2>4. QED  BY <1>1, <1>2, <2>1, <2>2, <2>3 DEF Local, Fit, OnTarget, Target
<1>6. Mutex'  BY DEF LockInv, Mutex
<1>7. QED  BY <1>3, <1>4, <1>5, <1>6 DEF LockInv

LEMMA LockStep == UnderLock /\ TypeInv /\ LockInv /\ [Next]_vars => LockInv'
<1> SUFFICES ASSUME UnderLock, TypeInv, LockInv, [Next]_vars PROVE LockInv'
  OBVIOUS
<1>1. ASSUME NEW p \in Proc, Cycle(p) PROVE LockInv'
  BY <1>1, StartLock, PendingLock, RecoverLock, SubmitLock, CompleteLock, StopLock,
     ReadMembershipLock, BeginLock, ClassifyLock, SettleLock, PlanLock,
     OrdersLock, CreateLock, PromoteLock DEF Cycle, Prepare, Decide
<1>2. CASE NextClose \/ Freeze \/ Drift
  <2>1. UNCHANGED <<durable, pc, locals, lock>> /\ done' = done  BY <1>2 DEF NextClose, Freeze, Drift
  <2>2. near \subseteq near'  BY <1>2 DEF NextClose, Freeze, Drift
  <2>3. QED  BY <2>1, <2>2, WorldLock
<1>3. CASE UNCHANGED vars  BY <1>3, WorldLock DEF vars, world
<1>4. QED  BY <1>1, <1>2, <1>3, RefuseLock, CrashLock DEF Next

LEMMA AlwaysLocked == UnderLock => (Spec => []LockInv)
<1> SUFFICES ASSUME UnderLock PROVE Spec => []LockInv
  OBVIOUS
<1>1. TypeInv /\ LockInv /\ [Next]_vars => LockInv'  BY LockStep
<1>2. QED  BY InitLock, <1>1, AlwaysTyped, PTL DEF Spec

\* Under the lock the durable overlay and membership are never ahead of the
\* positions, nor behind them once a workflow is promoted, wherever cycles die.
THEOREM ControlIsTrue == UnderLock => (Spec => []ControlMatchesHoldings)
<1> SUFFICES ASSUME UnderLock PROVE Spec => []ControlMatchesHoldings
  OBVIOUS
<1>1. LockInv => ControlMatchesHoldings  BY DEF LockInv
<1>2. QED  BY <1>1, AlwaysLocked, PTL

\* Under the lock no two executed workflows ever wait for their promotion.
THEOREM PromotionIsDefined == UnderLock => (Spec => []OneUnpromoted)
<1> SUFFICES ASSUME UnderLock PROVE Spec => []OneUnpromoted
  OBVIOUS
<1>1. LockInv => OneUnpromoted
  <2> SUFFICES ASSUME LockInv PROVE OneUnpromoted
    OBVIOUS
  <2>1. CASE Unpromoted = {}  BY <2>1, FS_EmptySet DEF OneUnpromoted
  <2>2. CASE Unpromoted # {}
    <3>1. PICK d \in Unpromoted : Unpromoted = {d}  BY <2>2 DEF LockInv, FlowsAgree
    <3>2. Cardinality({d}) = 1  BY FS_Singleton
    <3>3. QED  BY <3>1, <3>2 DEF OneUnpromoted
  <2>3. QED  BY <2>1, <2>2
<1>2. QED  BY <1>1, AlwaysLocked, PTL

\* Under the lock a workflow is created from the state it was planned on.
THEOREM FreshPlans == UnderLock => (Spec => PlansAreFresh)
<1> SUFFICES ASSUME UnderLock PROVE Spec => PlansAreFresh
  OBVIOUS
<1>1. ASSUME TypeInv, LockInv, [Next]_vars
      PROVE  [\A d \in DOMAIN flows' \ DOMAIN flows : d.rev = revision]_vars
  <2>1. ASSUME NEW p \in Proc, Create(p)
        PROVE  \A d \in DOMAIN flows' \ DOMAIN flows : d.rev = revision
    <3>1. dec[p].rev = revision  BY <1>1, <2>1 DEF LockInv, Local, Create
    <3>2. DOMAIN flows' \subseteq DOMAIN flows \cup {dec[p]}  BY <2>1 DEF Create
    <3>3. QED  BY <3>1, <3>2
  <2>2. ASSUME NEW p \in Proc,
               Submit(p) \/ Complete(p) \/ Stop(p)
        PROVE  DOMAIN flows' = DOMAIN flows
    BY <2>2 DEF Submit, Complete, Stop
  <2>3. ASSUME NEW p \in Proc,
               \/ Start(p) \/ Pending(p) \/ Recover(p) \/ Prepare(p) \/ Plan(p) \/ Orders(p)
               \/ Promote(p) \/ Refuse(p) \/ Crash(p)
        PROVE  flows' = flows
    BY <2>3 DEF Start, Pending, Recover, Prepare, ReadMembership, BeginMonthEnd,
       ClassifyMonthEnd, Settle, Plan, Orders, Promote, Refuse, Crash, durable
  <2>4. CASE NextClose \/ Freeze \/ Drift
    <3>1. flows' = flows  BY <2>4 DEF NextClose, Freeze, Drift, durable
    <3>2. QED  BY <3>1
  <2>5. CASE UNCHANGED vars  BY <2>5
  <2>6. QED  BY <1>1, <2>1, <2>2, <2>3, <2>4, <2>5 DEF Next, Cycle, Decide
<1>2. QED  BY <1>1, AlwaysTyped, AlwaysLocked, PTL DEF Spec, PlansAreFresh
=============================================================================
