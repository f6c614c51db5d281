----------------------- MODULE RecoveryDispatch_proofs -----------------------
(***************************************************************************)
(* Proofs about RecoveryDispatch, for every calendar length, delay, hold   *)
(* and set of closes: types, and the agreement of the delayed events with  *)
(* the transition journal through any number of crashes. As long as no     *)
(* session is missed, the dispatcher never asks its database for anything  *)
(* it refuses, and leaves no delayed event behind.                         *)
(***************************************************************************)
EXTENDS RecoveryDispatch, TLAPS

\* What an operation on the database leaves of TypeOK.
StoreOK ==
  /\ rec \in RecoveryState /\ Valid(rec)
  /\ events \in [Session -> EventRow]
  /\ journal \subseteq JournalRow
  /\ pc \in Steps /\ error \in Error

\* The largest index of a non-empty set of ladder rungs is one of them.
LEMMA MaxOfRungs ==
  ASSUME NEW S \in SUBSET (1..4), S # {}
  PROVE  Max(S) \in S
<1>1. \E x \in S : \A y \in S : x >= y
  <2>1. CASE 4 \in S BY <2>1
  <2>2. CASE 4 \notin S /\ 3 \in S BY <2>2
  <2>3. CASE 4 \notin S /\ 3 \notin S /\ 2 \in S BY <2>3
  <2>4. CASE 4 \notin S /\ 3 \notin S /\ 2 \notin S
    <3>1. \A y \in S : y = 1 BY <2>4
    <3>2. PICK x \in S : TRUE OBVIOUS
    <3>3. x = 1 BY <3>1
    <3>4. \A y \in S : x >= y BY <3>1, <3>3
    <3> QED BY <3>4
  <2> QED BY <2>1, <2>2, <2>3, <2>4
<1> QED BY <1>1 DEF Max

\* crash_target returns a target of the frozen ladder.
LEMMA CrashTargetIsTarget ==
  ASSUME NEW price \in Nat, NEW peak \in Nat
  PROVE  CrashTarget(price, peak) \in Target
<1> DEFINE reached == {i \in 1..Len(Levels) : 100 * (peak - price) >= Levels[i][1] * peak}
<1>1. Len(Levels) = 4 BY DEF Levels
<1>2. \A i \in 1..4 : Levels[i][2] \in Target BY DEF Levels, Target
<1>3. reached \in SUBSET (1..4) BY <1>1
<1>4. CASE reached = {} BY <1>4 DEF CrashTarget, Target
<1>5. CASE reached # {}
  <2>1. Max(reached) \in 1..4 BY <1>3, <1>5, MaxOfRungs
  <2> QED BY <2>1, <1>2, <1>5 DEF CrashTarget
<1> QED BY <1>4, <1>5

\* observe_close keeps the types of the source state.
LEMMA ObserveCloseType ==
  ASSUME NEW s \in Source, NEW price \in Nat \ {0}
  PROVE  ObserveClose(s, price) \in Source
<1> USE DEF Source, Mode, SourceEvent
<1>1. CASE s.mode = "NORMAL"
  <2> DEFINE peak == IF price > s.peak THEN price ELSE s.peak
  <2>1. peak \in Nat OBVIOUS
  <2>2. CrashTarget(price, peak) \in Target BY <2>1, CrashTargetIsTarget
  <2>3. ObserveClose(s, price) = Normal(s, price) BY <1>1 DEF ObserveClose
  <2> HIDE DEF peak
  <2>4. Normal(s, price) =
          IF CrashTarget(price, peak) = 0
          THEN [s EXCEPT !.peak = peak, !.event = "NO_ACTION"]
          ELSE [mode |-> "CRASH", peak |-> peak, trough |-> price,
                target |-> CrashTarget(price, peak), cycle |-> s.cycle + 1,
                event |-> "ROTATE"]
    BY DEF Normal, peak
  <2>5. CASE CrashTarget(price, peak) = 0
    <3>1. ObserveClose(s, price) = [s EXCEPT !.peak = peak, !.event = "NO_ACTION"]
      BY <2>3, <2>4, <2>5
    <3> QED BY <2>1, <3>1
  <2>6. CASE CrashTarget(price, peak) # 0
    <3>1. s.cycle + 1 \in Nat /\ price \in Nat OBVIOUS
    <3>2. ObserveClose(s, price) = [mode |-> "CRASH", peak |-> peak, trough |-> price,
              target |-> CrashTarget(price, peak), cycle |-> s.cycle + 1,
              event |-> "ROTATE"]
      BY <2>3, <2>4, <2>6
    <3> HIDE DEF Mode, SourceEvent
    <3>3. "CRASH" \in Mode /\ "ROTATE" \in SourceEvent BY DEF Mode, SourceEvent
    <3> QED BY <2>1, <2>2, <3>1, <3>2, <3>3
  <2> QED BY <2>5, <2>6
<1>2. CASE s.mode = "CRASH"
  <2>1. CrashTarget(price, s.peak) \in Target BY CrashTargetIsTarget
  <2>2. 0 \in Target BY DEF Target
  <2> QED BY <1>2, <2>1, <2>2 DEF ObserveClose, Crash
<1>3. CASE s.mode = "POST_HANDOFF"
  BY <1>3 DEF ObserveClose, PostHandoff, Target
<1> QED BY <1>1, <1>2, <1>3

LEMMA NoRowsType == NoRows \in Source
BY DEF NoRows, Source, Mode, Target, SourceEvent

\* A transition to a well-typed state, applied, replayed or refused.
LEMMA TransitionType ==
  ASSUME StoreOK,
         NEW c \in Nat, NEW kind \in Kinds, NEW at \in Nat,
         NEW new \in RecoveryState, NEW step \in Steps,
         Transition(Key(c, kind, at), new, step)
  PROVE  StoreOK'
<1> USE DEF StoreOK, Goto, Raise, database, Steps, Error
<1>1. CASE Recorded(Key(c, kind, at)) BY <1>1 DEF Transition, Valid
<1>2. CASE ~Recorded(Key(c, kind, at))
  <2>1. [key |-> Key(c, kind, at), new |-> new] \in JournalRow BY DEF JournalRow, Key
  <2> QED BY <1>2, <2>1 DEF Transition, Valid
<1> QED BY <1>1, <1>2

\* A status change, made or refused.
LEMMA SetStatusType ==
  ASSUME StoreOK, NEW s, NEW status \in EventStatus, NEW step \in Steps,
         SetStatus(s, status, step)
  PROVE  StoreOK'
BY DEF StoreOK, SetStatus, Goto, Raise, database, Steps, Error, EventRow, Valid

\* The next row is of the right type and the last of the closes.
LEMMA NextRowType ==
  ASSUME TypeOK, NextRow
  PROVE  /\ session' \in Session /\ source' \in Source
         /\ closes' \in Seq(Price) /\ session' = Len(closes')
<1> USE DispatchAssumption DEF TypeOK
<1>1. PICK price \in Price :
        closes' = Append(closes, price) /\ source' = ObserveClose(source, price)
  BY DEF NextRow
<1>2. session' = session + 1 /\ session < LastSession BY DEF NextRow
<1>3. session' \in Session BY <1>2 DEF Session
<1>4. source' \in Source BY <1>1, ObserveCloseType
<1>5. closes' \in Seq(Price) /\ Len(closes') = Len(closes) + 1 BY <1>1
<1> QED BY <1>2, <1>3, <1>4, <1>5

\* Everything a step that works on the database leaves alone keeps its type.
LEMMA SameType ==
  ASSUME TypeOK, Same, StoreOK'
  PROVE  TypeOK'
BY DEF TypeOK, Same, StoreOK, rows, budgets, Valid

\* A raised error keeps the database.
LEMMA RaiseType ==
  ASSUME StoreOK, NEW why \in Error, Raise(why)
  PROVE  StoreOK'
BY DEF StoreOK, Raise, database, Steps, Valid

\* A move of the process alone keeps the database.
LEMMA GotoType ==
  ASSUME StoreOK, NEW step \in Steps, Goto(step), UNCHANGED database
  PROVE  StoreOK'
BY DEF StoreOK, Goto, database, Error, Valid

\* Every reachable state has the declared types, and its recovery state is one
\* the store's validation accepts.
LEMMA TypeInit == Init => TypeOK
<1> SUFFICES ASSUME Init PROVE TypeOK OBVIOUS
<1> USE DispatchAssumption
<1>1. PICK price \in Price : closes = <<price>> /\ source = ObserveClose(NoRows, price)
  BY DEF Init
<1>2. source \in Source BY <1>1, NoRowsType, ObserveCloseType
<1>3. closes \in Seq(Price) /\ Len(closes) = 1 BY <1>1
<1>4. rec \in RecoveryState /\ Valid(rec)
  BY DEF Init, NormalState, RecoveryState, Phase, Target, Valid
<1>5. events \in [Session -> EventRow]
  BY DEF Init, NoEvent, EventRow, EventStatus, Target
<1>6. journal \subseteq JournalRow /\ session \in Session /\ session = Len(closes)
  BY <1>3 DEF Init, Session
<1>7. pc \in Steps /\ error \in Error /\ crashes \in 0..CrashBudget /\ missed \in 0..MissBudget
  BY DEF Init, Steps, Error
<1> QED BY <1>2, <1>3, <1>4, <1>5, <1>6, <1>7 DEF TypeOK

\* A due event is looked up only where there is one.
TypeInv == TypeOK /\ (At("apply") => Due \in Session)

LEMMA ExecuteType ==
  ASSUME TypeInv, Execute
  PROVE  TypeInv'
<1> USE DispatchAssumption, IntervalsAssumption
<1>1. TypeOK /\ StoreOK BY DEF TypeInv, TypeOK, StoreOK
<1>2. rec \in RecoveryState /\ rec.cycle \in Nat /\ rec.exit \in Nat /\ rec.recovered \in BOOLEAN
  BY <1>1 DEF TypeOK, RecoveryState
<1>3. session \in Nat /\ session' = session
      BY <1>1 DEF TypeOK, Session, Execute, Same, RearmAtExit, MissedExit, CancelAtExit,
            TakeFixedExit, Orphan, MissedEntry, Mature, NothingToExecute, ResumeApplied,
            EnterFirst, ScaleUp, TrimAfterEntry, MarkApplied
<1>4. NormalState \in RecoveryState BY DEF NormalState, RecoveryState, Phase, Target
<1>5. {"process", "apply", "trim", "applied", "ingest", "close"} \subseteq Steps BY DEF Steps
<1>6. {"missed", "orphan", "scale"} \subseteq Error BY DEF Error
<1>7. {"CANCELLED", "MATURED", "APPLIED"} \subseteq EventStatus BY DEF EventStatus
<1>8. {"rearm-after-fixed-exit", "fixed-exit", "apply"} \subseteq Kinds BY DEF Kinds
<1>9. ASSUME StoreOK', Same, pc' # "apply" PROVE TypeInv'
  BY <1>1, <1>9, SameType DEF TypeInv, At
<1>10. ASSUME NEW s, NEW status \in {"CANCELLED", "MATURED", "APPLIED"}, NEW step \in Steps,
              SetStatus(s, status, step)
       PROVE  StoreOK' /\ (pc' = step \/ pc' = "raised")
  BY <1>1, <1>7, <1>10, SetStatusType DEF SetStatus, Goto, Raise
<1>11. ASSUME NEW c \in Nat, NEW kind \in Kinds, NEW at \in Nat,
              NEW new \in RecoveryState, NEW step \in Steps,
              Transition(Key(c, kind, at), new, step)
       PROVE  StoreOK' /\ (pc' = step \/ pc' = "raised")
  BY <1>1, <1>11, TransitionType DEF Transition, Goto, Raise
<1>12. ASSUME NEW why \in Error, Raise(why) PROVE StoreOK' /\ pc' = "raised"
  BY <1>1, <1>12, RaiseType DEF Raise
<1>13. ASSUME NEW step \in Steps, Goto(step), UNCHANGED database PROVE StoreOK' /\ pc' = step
  BY <1>1, <1>13, GotoType DEF Goto
<1>14. CASE RearmAtExit
  BY <1>2, <1>4, <1>5, <1>8, <1>9, <1>11, <1>14 DEF RearmAtExit
<1>15. CASE MissedExit BY <1>6, <1>9, <1>12, <1>15 DEF MissedExit
<1>16. CASE CancelAtExit BY <1>5, <1>9, <1>10, <1>16 DEF CancelAtExit
<1>17. CASE TakeFixedExit
  <2>1. [rec EXCEPT !.phase = "OLD_ATH_GUARD", !.target = 0] \in RecoveryState
    BY <1>2 DEF RecoveryState, Phase, Target
  <2> QED BY <1>2, <1>5, <1>8, <1>9, <1>11, <1>17, <2>1 DEF TakeFixedExit, ExitKey
<1>18. CASE Orphan BY <1>6, <1>9, <1>12, <1>18 DEF Orphan
<1>19. CASE MissedEntry BY <1>6, <1>9, <1>12, <1>19 DEF MissedEntry
<1>20. CASE Mature
  <2>1. StoreOK' /\ Same BY <1>5, <1>10, <1>20 DEF Mature
  <2>2. Due \in Session BY <1>20 DEF Mature, OpenOf
  <2>3. Due' = Due BY <1>3 DEF Due
  <2> QED BY <1>1, <2>1, <2>2, <2>3, SameType DEF TypeInv
<1>21. CASE NothingToExecute BY <1>5, <1>9, <1>13, <1>21 DEF NothingToExecute
<1>22. CASE ResumeApplied BY <1>5, <1>9, <1>13, <1>22 DEF ResumeApplied
<1>23. ASSUME At("apply")
       PROVE  /\ Due \in Nat /\ events[Due].cycle \in Nat /\ events[Due].target \in Target
  BY <1>1, <1>23 DEF TypeInv, TypeOK, EventRow, Session
<1>24. CASE EnterFirst
  <2>1. [rec EXCEPT !.phase = "RECOVERY_ACTIVE", !.target = events[Due].target,
                    !.entry = session, !.exit = FixedExit(session)] \in RecoveryState
    <3>1. events[Due].target \in Target BY <1>23, <1>24 DEF EnterFirst
    <3>2. FixedExit(session) \in Nat BY <1>3 DEF FixedExit
    <3>3. "RECOVERY_ACTIVE" \in Phase BY DEF Phase
    <3> QED BY <1>2, <1>3, <3>1, <3>2, <3>3 DEF RecoveryState
  <2> QED BY <1>5, <1>8, <1>9, <1>11, <1>23, <1>24, <2>1 DEF EnterFirst, ApplyKey
<1>25. CASE ScaleUp
  <2>1. [rec EXCEPT !.target = events[Due].target] \in RecoveryState
    BY <1>2, <1>23, <1>25 DEF ScaleUp, RecoveryState
  <2>2. CASE events[Due].target > rec.target
    BY <1>5, <1>8, <1>9, <1>11, <1>23, <1>25, <2>1, <2>2 DEF ScaleUp, ApplyKey
  <2>3. CASE ~(events[Due].target > rec.target)
    BY <1>6, <1>9, <1>12, <1>25, <2>3 DEF ScaleUp
  <2> QED BY <2>2, <2>3
<1>26. CASE TrimAfterEntry
  <2>1. CASE Outside = {} BY <1>5, <1>9, <1>13, <1>26, <2>1 DEF TrimAfterEntry
  <2>2. CASE Outside # {} BY <1>5, <1>9, <1>10, <1>26, <2>2 DEF TrimAfterEntry
  <2> QED BY <2>1, <2>2
<1>27. CASE MarkApplied BY <1>5, <1>9, <1>10, <1>27 DEF MarkApplied
<1> QED BY <1>14, <1>15, <1>16, <1>17, <1>18, <1>19, <1>20, <1>21, <1>22, <1>24, <1>25,
           <1>26, <1>27 DEF Execute

LEMMA IngestType ==
  ASSUME TypeInv, Ingest
  PROVE  TypeInv'
<1> USE DispatchAssumption, IntervalsAssumption
<1>1. TypeOK /\ StoreOK BY DEF TypeInv, TypeOK, StoreOK
<1>2. /\ source.cycle \in Nat /\ source.peak \in Nat /\ source.target \in Target
      /\ session \in Nat
  BY <1>1 DEF TypeOK, Source, Session
<1>3. {"attach", "close"} \subseteq Steps BY DEF Steps
<1>4. {"conflict", "overlap", "guard"} \subseteq Error BY DEF Error
<1>5. ASSUME StoreOK', Same, pc' # "apply" PROVE TypeInv'
  BY <1>1, <1>5, SameType DEF TypeInv, At
<1>6. ASSUME NEW why \in Error, Raise(why) PROVE StoreOK' /\ pc' = "raised"
  BY <1>1, <1>6, RaiseType DEF Raise
<1>7. ASSUME NEW step \in Steps, Goto(step), UNCHANGED database PROVE StoreOK' /\ pc' = step
  BY <1>1, <1>7, GotoType DEF Goto
<1>8. CASE NoLadderEvent BY <1>3, <1>5, <1>7, <1>8 DEF NoLadderEvent
<1>9. CASE Enqueue
  <2>1. [status |-> "PENDING", cycle |-> source.cycle, target |-> source.target] \in EventRow
    BY <1>2 DEF EventRow, EventStatus
  <2>2. events' \in [Session -> EventRow] BY <1>1, <1>9, <2>1 DEF Enqueue, StoreOK
  <2>3. StoreOK' BY <1>1, <1>3, <1>9, <2>2 DEF Enqueue, StoreOK, Goto, Error, Valid
  <2> QED BY <1>5, <1>9, <2>3 DEF Enqueue, Goto
<1>10. CASE AlreadyEnqueued
  <2>1. CASE events[session].cycle # source.cycle \/ events[session].target # source.target
    BY <1>4, <1>5, <1>6, <1>10, <2>1 DEF AlreadyEnqueued
  <2>2. CASE ~(events[session].cycle # source.cycle \/ events[session].target # source.target)
    BY <1>3, <1>5, <1>7, <1>10, <2>2 DEF AlreadyEnqueued
  <2> QED BY <2>1, <2>2
<1>11. CASE StartCycle
  <2>1. [NormalState EXCEPT !.phase = "WAIT_D40", !.cycle = source.cycle,
                            !.oldAth = source.peak] \in RecoveryState
    BY <1>2 DEF NormalState, RecoveryState, Phase, Target
  <2>2. "start" \in Kinds BY DEF Kinds
  <2>3. StoreOK' BY <1>1, <1>2, <1>3, <1>11, <2>1, <2>2, TransitionType DEF StartCycle
  <2>4. pc' # "apply" BY <1>11 DEF StartCycle, Transition, Goto, Raise
  <2> QED BY <1>5, <1>11, <2>3, <2>4 DEF StartCycle
<1>12. CASE JoinCycle BY <1>3, <1>5, <1>7, <1>12 DEF JoinCycle
<1>13. CASE CancelOutside
  <2>1. StoreOK' BY <1>1, <1>3, <1>13, SetStatusType DEF CancelOutside, EventStatus
  <2>2. pc' # "apply" BY <1>13 DEF CancelOutside, SetStatus, Goto, Raise
  <2> QED BY <1>5, <1>13, <2>1, <2>2 DEF CancelOutside
<1>14. CASE RefuseOverlap BY <1>4, <1>5, <1>6, <1>14 DEF RefuseOverlap
<1>15. CASE RefuseGuarded BY <1>4, <1>5, <1>6, <1>15 DEF RefuseGuarded
<1> QED BY <1>8, <1>9, <1>10, <1>11, <1>12, <1>13, <1>14, <1>15 DEF Ingest

LEMMA ObserveType ==
  ASSUME TypeInv, Observe
  PROVE  TypeInv'
<1> USE DispatchAssumption, IntervalsAssumption
<1>1. TypeOK /\ StoreOK BY DEF TypeInv, TypeOK, StoreOK
<1>2. rec \in RecoveryState /\ rec.cycle \in Nat /\ session \in Nat
  BY <1>1 DEF TypeOK, RecoveryState, Session
<1>3. {"done", "close"} \subseteq Steps BY DEF Steps
<1>4. {"cancel-pre-entry", "old-ath-recovered", "rearm-old-ath"} \subseteq Kinds BY DEF Kinds
<1>5. ASSUME StoreOK', Same, pc' # "apply" PROVE TypeInv'
  BY <1>1, <1>5, SameType DEF TypeInv, At
<1>6. ASSUME NEW kind \in Kinds, NEW new \in RecoveryState,
             Transition(Key(rec.cycle, kind, session), new, "done")
      PROVE  StoreOK' /\ pc' # "apply"
  BY <1>1, <1>2, <1>3, <1>6, TransitionType DEF Transition, Goto, Raise
<1>7. NormalState \in RecoveryState BY DEF NormalState, RecoveryState, Phase, Target
<1>8. CASE NothingObserved
  BY <1>1, <1>3, <1>5, <1>8, GotoType DEF NothingObserved, Goto
<1>9. CASE CancelAtOldAth
  <2>1. PICK s \in FirstOf(OpenOf(rec.cycle)) : SetStatus(s, "CANCELLED", "close")
    BY <1>9 DEF CancelAtOldAth
  <2>2. StoreOK' BY <1>1, <1>3, <2>1, SetStatusType DEF EventStatus
  <2>3. pc' # "apply" BY <2>1 DEF SetStatus, Goto, Raise
  <2> QED BY <1>5, <1>9, <2>2, <2>3 DEF CancelAtOldAth
<1>10. CASE CancelCycle BY <1>4, <1>5, <1>6, <1>7, <1>10 DEF CancelCycle
<1>11. CASE RecordRecovered
  <2>1. [rec EXCEPT !.recovered = TRUE] \in RecoveryState BY <1>2 DEF RecoveryState
  <2> QED BY <1>4, <1>5, <1>6, <1>11, <2>1 DEF RecordRecovered
<1>12. CASE RearmAtOldAth BY <1>4, <1>5, <1>6, <1>7, <1>12 DEF RearmAtOldAth
<1> QED BY <1>8, <1>9, <1>10, <1>11, <1>12 DEF Observe

LEMMA LoopType ==
  ASSUME TypeInv, NextSession \/ Miss \/ Restart \/ UNCHANGED vars
  PROVE  TypeInv'
<1> USE DispatchAssumption, IntervalsAssumption
<1>1. TypeOK BY DEF TypeInv
<1>2. CASE NextSession
  <2>1. /\ session' \in Session /\ source' \in Source
        /\ closes' \in Seq(Price) /\ session' = Len(closes')
    BY <1>1, <1>2, NextRowType DEF NextSession
  <2>2. pc' = "process" /\ error' = "none" BY <1>2 DEF NextSession, Goto
  <2> QED BY <1>1, <1>2, <2>1, <2>2
        DEF NextSession, TypeInv, TypeOK, database, budgets, Steps, Error, At, Valid
<1>3. CASE Miss
  <2>1. /\ session' \in Session /\ source' \in Source
        /\ closes' \in Seq(Price) /\ session' = Len(closes')
    BY <1>1, <1>3, NextRowType DEF Miss
  <2>2. missed' \in 0..MissBudget BY <1>1, <1>3 DEF Miss, TypeOK
  <2>3. pc' = "process" BY <1>3 DEF Miss, At
  <2> QED BY <1>1, <1>3, <2>1, <2>2, <2>3
        DEF Miss, TypeInv, TypeOK, database, At, Valid
<1>4. CASE Restart
  <2>1. crashes' \in 0..CrashBudget BY <1>1, <1>4 DEF Restart, TypeOK
  <2>2. pc' = "process" /\ error' = "none" BY <1>4 DEF Restart, Goto
  <2> QED BY <1>1, <1>4, <2>1, <2>2
        DEF Restart, TypeInv, TypeOK, database, rows, Steps, Error, At, Valid
<1>5. CASE UNCHANGED vars
  BY <1>5 DEF vars, database, rows, budgets, TypeInv, TypeOK, Valid, At, Due
<1> QED BY <1>2, <1>3, <1>4, <1>5

LEMMA TypeStep == TypeInv /\ [Next]_vars => TypeInv'
BY ExecuteType, IngestType, ObserveType, LoopType DEF Next

\* Every column of the recovery database, the rows and the process keep their
\* types, and the recovery state always is one the store's validation accepts.
THEOREM TypeCorrect == Spec => []TypeOK
<1>1. Init => TypeInv BY TypeInit DEF TypeInv, Init, At
<1>2. TypeInv => TypeOK BY DEF TypeInv
<1> QED BY <1>1, <1>2, TypeStep, PTL DEF Spec

-----------------------------------------------------------------------------
(* The journal and the delayed events *)

Applied(s) == events[s].status = "APPLIED"
After == {"ingest", "attach", "close", "done"}

\* An apply key is only ever recorded for an event of the table.
KeysHaveEvents ==
  \A j \in journal :
    j.key.kind = "apply" => /\ j.key.at \in Session
                            /\ events[j.key.at].status # "NONE"
                            /\ events[j.key.at].cycle = j.key.cycle

\* The event a crash left half applied: the dispatcher still holds its target
\* and has not left the event's session, so it will come back to it.
HalfApplied(s) ==
  /\ events[s].status = "MATURED" /\ events[s].cycle = rec.cycle /\ Holding
  /\ session <= DelayedEntry(s) /\ DelayedEntry(s) < rec.exit
  /\ pc \in After => session < DelayedEntry(s)

\* The event being applied.
DueInv ==
  /\ At("apply") => /\ Due \in Session /\ events[Due].status = "MATURED"
                    /\ events[Due].cycle = rec.cycle /\ Dispatching
  /\ pc \in {"trim", "applied"} => /\ Due \in Session /\ Recorded(ApplyKey(Due))
                                   /\ events[Due].status \in {"MATURED", "APPLIED"}

BookInv ==
  /\ KeysHaveEvents
  /\ \A s \in Session : Applied(s) => Recorded(ApplyKey(s))
  /\ \A s \in Session : (Recorded(ApplyKey(s)) /\ ~Applied(s)) => HalfApplied(s)
  /\ DueInv

LEMMA BookImpliesMatch == BookInv => EventsMatchJournal
BY DEF BookInv, EventsMatchJournal, Applied, HalfApplied

\* A raised error leaves the books alone.
LEMMA RaiseBook ==
  ASSUME BookInv, Same, NEW why, Raise(why)
  PROVE  BookInv'
BY DEF BookInv, Same, Raise, database, KeysHaveEvents, Applied, HalfApplied, DueInv,
       Recorded, ApplyKey, Key, Holding, Waiting, At, Due, Dispatching, After

\* So does a move within the part of a session that follows its executions.
LEMMA GotoBook ==
  ASSUME BookInv, Same, pc \in After, NEW step \in After, Goto(step), UNCHANGED database
  PROVE  BookInv'
BY DEF BookInv, Same, Goto, database, KeysHaveEvents, Applied, HalfApplied, DueInv,
       Recorded, ApplyKey, Key, Holding, At, After

\* Cancelling an event whose transition is not recorded.
LEMMA CancelBook ==
  ASSUME TypeOK, BookInv, Same, NEW s \in Session, ~Recorded(ApplyKey(s)),
         NEW step \in Steps, SetStatus(s, "CANCELLED", step),
         (step = pc /\ pc # "apply") \/ (step \in After /\ pc \in After)
  PROVE  BookInv'
<1>1. CASE Raise("illegal") BY <1>1, RaiseBook
<1>2. CASE /\ events' = [events EXCEPT ![s].status = "CANCELLED"]
           /\ pc' = step /\ UNCHANGED <<rec, journal>>
  <2>1. \A t \in Session : /\ events'[t].cycle = events[t].cycle
                           /\ t # s => events'[t] = events[t]
    BY <1>2 DEF TypeOK, EventRow
  <2>2. events'[s].status = "CANCELLED" BY <1>2 DEF TypeOK, EventRow
  <2>3. \A t \in Session : Recorded(ApplyKey(t))' <=> Recorded(ApplyKey(t))
    BY <1>2, <2>1 DEF Recorded, ApplyKey, Key
  <2>4. session' = session /\ Due' = Due BY DEF Same, Due
  <2>5. KeysHaveEvents'
    BY <1>2, <2>1, <2>2 DEF BookInv, KeysHaveEvents
  <2>6. \A t \in Session : Applied(t)' => Recorded(ApplyKey(t))'
    BY <2>1, <2>2, <2>3 DEF BookInv, Applied
  <2>7. ASSUME NEW t \in Session, Recorded(ApplyKey(t))', ~Applied(t)'
        PROVE  HalfApplied(t)'
    <3>1. t # s /\ HalfApplied(t) BY <2>1, <2>3, <2>7 DEF BookInv, Applied
    <3> QED BY <1>2, <2>1, <2>4, <3>1 DEF HalfApplied, Holding, After
  <2>8. DueInv'
    BY <1>2, <2>1, <2>2, <2>3, <2>4 DEF BookInv, DueInv, At, After
  <2> QED BY <2>5, <2>6, <2>7, <2>8 DEF BookInv
<1> QED BY <1>1, <1>2 DEF SetStatus, Goto

\* A transition of another kind, by which a half applied event is either kept
\* in the same hold or known not to exist.
LEMMA TransitionBook ==
  ASSUME TypeOK, BookInv, Same,
         NEW c, NEW kind \in Kinds \ {"apply"}, NEW at, NEW new, NEW step \in Steps,
         Transition(Key(c, kind, at), new, step),
         step = "process" \/ (step \in After /\ pc \in After),
         \/ ~Holding \/ session >= rec.exit
         \/ Holding /\ new = [rec EXCEPT !.recovered = TRUE]
  PROVE  BookInv'
<1>1. CASE \E why \in {"conflict", "illegal"} : Raise(why) BY <1>1, RaiseBook
<1>2. CASE pc' = step /\ UNCHANGED database
  BY <1>2 DEF BookInv, Same, database, KeysHaveEvents, Applied, HalfApplied, DueInv,
              Recorded, ApplyKey, Key, Holding, At, After
<1>3. CASE /\ rec' = new /\ journal' = journal \cup {[key |-> Key(c, kind, at), new |-> new]}
           /\ pc' = step /\ UNCHANGED events
  <2>1. \A t \in Session : Recorded(ApplyKey(t))' <=> Recorded(ApplyKey(t))
    BY <1>3 DEF Recorded, ApplyKey, Key
  <2>2. KeysHaveEvents' BY <1>3 DEF BookInv, KeysHaveEvents, Key
  <2>3. ASSUME NEW t \in Session, Recorded(ApplyKey(t))', ~Applied(t)'
        PROVE  HalfApplied(t)'
    <3>1. HalfApplied(t) BY <1>3, <2>1, <2>3 DEF BookInv, Applied
    <3>2. session \in Int /\ rec.exit \in Int /\ DelayedEntry(t) \in Int
      BY IntervalsAssumption DEF TypeOK, Session, RecoveryState, DelayedEntry
    <3>3. Holding /\ ~(session >= rec.exit) BY <3>1, <3>2 DEF HalfApplied
    <3>4. new = [rec EXCEPT !.recovered = TRUE] BY <3>3
    <3>5. rec'.cycle = rec.cycle /\ rec'.phase = rec.phase /\ rec'.exit = rec.exit
      BY <1>3, <3>4 DEF TypeOK, RecoveryState
    <3> QED BY <1>3, <3>1, <3>5 DEF HalfApplied, Holding, Same, After
  <2>4. DueInv' BY <1>3 DEF DueInv, At, After
  <2> QED BY <1>3, <2>1, <2>2, <2>3, <2>4 DEF BookInv, Applied
<1> QED BY <1>1, <1>2, <1>3 DEF Transition, Goto

\* Where the dispatcher stands at the session of a half applied event, the
\* event is the due one.
LEMMA DueAtItsSession ==
  ASSUME TypeOK, NEW s \in Session, session = DelayedEntry(s)
  PROVE  Due = s
BY IntervalsAssumption DEF TypeOK, Session, DelayedEntry, Due

LEMMA BookExecute ==
  ASSUME TypeOK, BookInv, Execute
  PROVE  BookInv'
<1> USE IntervalsAssumption
<1>1. /\ session \in Int /\ rec.exit \in Int /\ rec.cycle \in Nat
      /\ \A s \in Session : DelayedEntry(s) \in Int
      /\ {"process", "trim"} \subseteq Steps /\ "fixed-exit" \in Kinds \ {"apply"}
  BY DEF TypeOK, Session, RecoveryState, DelayedEntry, Steps, Kinds
<1>2. CASE RearmAtExit
  <2>1. ~Holding BY <1>2 DEF RearmAtExit, Guarded, Holding
  <2>2. \A t \in Session : ~(Recorded(ApplyKey(t)) /\ ~Applied(t))
    BY <2>1 DEF BookInv, HalfApplied
  <2>3. CASE \E why \in {"conflict", "illegal"} : Raise(why)
    BY <1>2, <2>3, RaiseBook DEF RearmAtExit
  <2>4. CASE pc' = "ingest" /\ UNCHANGED database
    BY <1>2, <2>2, <2>4 DEF RearmAtExit, BookInv, Same, database, KeysHaveEvents, Applied,
       DueInv, Recorded, ApplyKey, Key, At
  <2>5. CASE /\ pc' = "ingest" /\ UNCHANGED events
             /\ \E new : journal' = journal \cup
                  {[key |-> Key(rec.cycle, "rearm-after-fixed-exit", rec.exit), new |-> new]}
    <3>1. \A t \in Session : Recorded(ApplyKey(t))' <=> Recorded(ApplyKey(t))
      BY <2>5 DEF Recorded, ApplyKey, Key
    <3>2. KeysHaveEvents' BY <2>5 DEF BookInv, KeysHaveEvents, Key
    <3> QED BY <2>2, <2>5, <3>1, <3>2 DEF BookInv, Applied, DueInv, At
  <2> QED BY <1>2, <2>3, <2>4, <2>5 DEF RearmAtExit, Transition, Goto
<1>3. CASE MissedExit BY <1>3, RaiseBook DEF MissedExit
<1>4. CASE CancelAtExit
  <2>1. PICK s \in FirstOf(OpenOf(rec.cycle)) : SetStatus(s, "CANCELLED", "process")
    BY <1>4 DEF CancelAtExit
  <2>2. s \in Session /\ IsOpen(s) BY <2>1 DEF FirstOf, OpenOf
  <2>3. ~Recorded(ApplyKey(s))
    BY <1>1, <1>4, <2>2 DEF CancelAtExit, BookInv, HalfApplied, Applied, IsOpen
  <2> QED BY <1>1, <1>4, <2>1, <2>2, <2>3, CancelBook DEF CancelAtExit, At
<1>5. CASE TakeFixedExit
  <2>1. session >= rec.exit BY <1>1, <1>5 DEF TakeFixedExit
  <2> QED BY <1>1, <1>5, <2>1, TransitionBook DEF TakeFixedExit, ExitKey
<1>6. CASE Orphan BY <1>6, RaiseBook DEF Orphan
<1>7. CASE MissedEntry BY <1>7, RaiseBook DEF MissedEntry
<1>8. CASE Mature
  <2>1. Due \in Session /\ IsOpen(Due) /\ events[Due].cycle = rec.cycle /\ Dispatching
    BY <1>8 DEF Mature, OpenOf
  <2>2. CASE Raise("illegal") BY <1>8, <2>2, RaiseBook DEF Mature
  <2>3. CASE /\ events' = [events EXCEPT ![Due].status = "MATURED"]
             /\ pc' = "apply" /\ UNCHANGED <<rec, journal>>
    <3>1. \A t \in Session : /\ events'[t].cycle = events[t].cycle
                             /\ t # Due => events'[t] = events[t]
      BY <2>3 DEF TypeOK, EventRow
    <3>2. events'[Due].status = "MATURED" BY <2>1, <2>3 DEF TypeOK, EventRow
    <3>3. \A t \in Session : Recorded(ApplyKey(t))' <=> Recorded(ApplyKey(t))
      BY <2>3, <3>1 DEF Recorded, ApplyKey, Key
    <3>4. session' = session /\ Due' = Due BY <1>8 DEF Mature, Same, Due
    <3>5. KeysHaveEvents' BY <2>3, <3>1, <3>2 DEF BookInv, KeysHaveEvents
    <3>6. \A t \in Session : Applied(t)' => Recorded(ApplyKey(t))'
      BY <3>1, <3>2, <3>3 DEF BookInv, Applied
    <3>7. ASSUME NEW t \in Session, Recorded(ApplyKey(t))', ~Applied(t)'
          PROVE  HalfApplied(t)'
      <4>1. HalfApplied(t) BY <2>1, <3>1, <3>3, <3>7 DEF BookInv, Applied, IsOpen
      <4> QED BY <2>3, <3>1, <3>2, <3>4, <4>1 DEF HalfApplied, Holding, After
    <3>8. DueInv'
      <4>1. Dispatching' BY <2>1, <2>3, <3>4 DEF Dispatching, Waiting, Holding
      <4> QED BY <2>1, <2>3, <3>1, <3>2, <3>4, <4>1 DEF DueInv, At
    <3> QED BY <3>5, <3>6, <3>7, <3>8 DEF BookInv
  <2> QED BY <1>8, <2>2, <2>3 DEF Mature, SetStatus, Goto
<1>9. CASE NothingToExecute
  <2>1. ASSUME NEW t \in Session, Recorded(ApplyKey(t)), ~Applied(t)
        PROVE  session < DelayedEntry(t)
    <3>1. HalfApplied(t) BY <2>1 DEF BookInv
    <3>2. Holding /\ session <= DelayedEntry(t) BY <3>1 DEF HalfApplied
    <3>3. Due \notin OpenOf(rec.cycle)
      BY <1>9, <3>2 DEF NothingToExecute, Holding, Guarded
    <3>4. t \in OpenOf(rec.cycle) BY <3>1 DEF HalfApplied, OpenOf, IsOpen
    <3>5. session # DelayedEntry(t) BY <3>3, <3>4, DueAtItsSession
    <3> QED BY <1>1, <3>2, <3>5
  <2> QED BY <1>9, <2>1 DEF NothingToExecute, Goto, BookInv, Same, database, KeysHaveEvents,
       Applied, HalfApplied, DueInv, Recorded, ApplyKey, Key, Holding, At, After
<1>10. CASE ResumeApplied
  BY <1>10 DEF ResumeApplied, Goto, BookInv, Same, database, KeysHaveEvents,
     Applied, HalfApplied, DueInv, Recorded, ApplyKey, Key, Holding, At, After, Due
<1>11. ASSUME At("apply"), Same, NEW new, NEW step, step \in {"trim", "applied"},
              Transition(ApplyKey(Due), new, step), ~Recorded(ApplyKey(Due)),
              new.phase = "RECOVERY_ACTIVE", new.cycle = rec.cycle,
              session < new.exit, Holding => new.exit = rec.exit
       PROVE  BookInv'
  <2>1. /\ Due \in Session /\ events[Due].status = "MATURED"
        /\ events[Due].cycle = rec.cycle /\ Dispatching
    BY <1>11 DEF BookInv, DueInv
  <2>2. CASE Raise("illegal") BY <1>11, <2>2, RaiseBook
  <2>3. CASE /\ rec' = new /\ journal' = journal \cup {[key |-> ApplyKey(Due), new |-> new]}
             /\ pc' = step /\ UNCHANGED events
    <3>1. \A t \in Session : Recorded(ApplyKey(t))' <=> (Recorded(ApplyKey(t)) \/ t = Due)
      <4>1. \A t \in Session : ApplyKey(t)' = ApplyKey(t) /\ (ApplyKey(t) = ApplyKey(Due) <=> t = Due)
        BY <2>1, <2>3 DEF ApplyKey, Key
      <4> DEFINE row == [key |-> ApplyKey(Due), new |-> new]
      <4>2. row.key = ApplyKey(Due) OBVIOUS
      <4> HIDE DEF row
      <4>3. ASSUME NEW k PROVE Recorded(k)' <=> (Recorded(k) \/ k = ApplyKey(Due))
        <5>1. journal' = journal \cup {row} BY <2>3 DEF row
        <5> QED BY <4>2, <5>1, Zenon DEF Recorded
      <4> QED BY <4>1, <4>3
    <3>2. KeysHaveEvents' BY <2>1, <2>3 DEF BookInv, KeysHaveEvents, ApplyKey, Key
    <3>3. session' = session /\ Due' = Due BY <1>11 DEF Same, Due
    <3>4. ASSUME NEW t \in Session, Recorded(ApplyKey(t))', ~Applied(t)'
          PROVE  HalfApplied(t)'
      <4>1. CASE t = Due
        <5>1. DelayedEntry(Due) = session BY <1>1, <2>1 DEF DelayedEntry, Due
        <5> QED BY <1>1, <1>11, <2>1, <2>3, <3>3, <4>1, <5>1 DEF HalfApplied, Holding, After
      <4>2. CASE t # Due
        <5>1. HalfApplied(t) BY <2>3, <3>1, <3>4, <4>2 DEF BookInv, Applied
        <5>2. Holding /\ new.exit = rec.exit BY <1>11, <5>1 DEF HalfApplied
        <5> QED BY <1>11, <2>3, <3>3, <5>1, <5>2 DEF HalfApplied, Holding, After
      <4> QED BY <4>1, <4>2
    <3>5. DueInv' BY <1>11, <2>1, <2>3, <3>1, <3>3 DEF DueInv, At
    <3> QED BY <2>3, <3>1, <3>2, <3>4, <3>5 DEF BookInv, Applied
  <2> QED BY <1>11, <2>2, <2>3 DEF Transition, Goto
<1>12. CASE EnterFirst
  <2> DEFINE new == [rec EXCEPT !.phase = "RECOVERY_ACTIVE", !.target = events[Due].target,
                                !.entry = session, !.exit = FixedExit(session)]
  <2>1. new.phase = "RECOVERY_ACTIVE" /\ new.cycle = rec.cycle /\ new.exit = FixedExit(session)
    BY DEF TypeOK, RecoveryState
  <2>2. session < FixedExit(session) BY <1>1 DEF FixedExit
  <2>3. ~Holding BY <1>12 DEF EnterFirst, Waiting, Holding
  <2> QED BY <1>11, <1>12, <2>1, <2>2, <2>3 DEF EnterFirst
<1>13. CASE ScaleUp
  <2> DEFINE new == [rec EXCEPT !.target = events[Due].target]
  <2>1. new.phase = rec.phase /\ new.cycle = rec.cycle /\ new.exit = rec.exit
    BY DEF TypeOK, RecoveryState
  <2>2. Holding /\ session < rec.exit
    BY <1>13 DEF ScaleUp, BookInv, DueInv, Dispatching, Waiting, Holding
  <2>3. CASE events[Due].target > rec.target
    BY <1>11, <1>13, <2>1, <2>2, <2>3 DEF ScaleUp, Holding
  <2>4. CASE ~(events[Due].target > rec.target)
    BY <1>13, <2>4, RaiseBook DEF ScaleUp
  <2> QED BY <2>3, <2>4
<1>14. CASE TrimAfterEntry
  <2>1. CASE Outside = {}
    BY <1>14, <2>1 DEF TrimAfterEntry, Goto, BookInv, Same, database, KeysHaveEvents,
       Applied, HalfApplied, DueInv, Recorded, ApplyKey, Key, Holding, At, After, Due
  <2>2. CASE Outside # {}
    <3>1. PICK s \in FirstOf(Outside) : SetStatus(s, "CANCELLED", "trim")
      BY <1>14, <2>2 DEF TrimAfterEntry
    <3>2. s \in Session /\ IsOpen(s) /\ DelayedEntry(s) >= rec.exit
      BY <3>1 DEF FirstOf, Outside, OpenOf
    <3>3. ~Recorded(ApplyKey(s))
      BY <1>1, <3>2 DEF BookInv, HalfApplied, Applied, IsOpen
    <3> QED BY <1>1, <1>14, <3>1, <3>2, <3>3, CancelBook DEF TrimAfterEntry, At
  <2> QED BY <2>1, <2>2
<1>15. CASE MarkApplied
  <2>1. Due \in Session /\ Recorded(ApplyKey(Due)) BY <1>15 DEF MarkApplied, BookInv, DueInv, At
  <2>2. CASE Raise("illegal") BY <1>15, <2>2, RaiseBook DEF MarkApplied
  <2>3. CASE /\ events' = [events EXCEPT ![Due].status = "APPLIED"]
             /\ pc' = "ingest" /\ UNCHANGED <<rec, journal>>
    <3>1. \A t \in Session : /\ events'[t].cycle = events[t].cycle
                             /\ t # Due => events'[t] = events[t]
      BY <2>3 DEF TypeOK, EventRow
    <3>2. events'[Due].status = "APPLIED" BY <2>1, <2>3 DEF TypeOK, EventRow
    <3>3. \A t \in Session : Recorded(ApplyKey(t))' <=> Recorded(ApplyKey(t))
      BY <2>3, <3>1 DEF Recorded, ApplyKey, Key
    <3>4. KeysHaveEvents' BY <2>3, <3>1, <3>2 DEF BookInv, KeysHaveEvents
    <3>5. \A t \in Session : Applied(t)' => Recorded(ApplyKey(t))'
      BY <2>1, <3>1, <3>3 DEF BookInv, Applied
    <3>6. ASSUME NEW t \in Session, Recorded(ApplyKey(t))', ~Applied(t)'
          PROVE  HalfApplied(t)'
      <4>1. t # Due /\ HalfApplied(t) BY <3>1, <3>2, <3>3, <3>6 DEF BookInv, Applied
      <4>2. session < DelayedEntry(t)
        BY <1>1, <4>1, DueAtItsSession DEF HalfApplied
      <4> QED BY <1>15, <2>3, <3>1, <4>1, <4>2 DEF MarkApplied, Same, HalfApplied, Holding
    <3>7. DueInv' BY <2>3 DEF DueInv, At
    <3> QED BY <3>4, <3>5, <3>6, <3>7 DEF BookInv
  <2> QED BY <1>15, <2>2, <2>3 DEF MarkApplied, SetStatus, Goto
<1> QED BY <1>2, <1>3, <1>4, <1>5, <1>6, <1>7, <1>8, <1>9, <1>10, <1>12, <1>13, <1>14,
           <1>15 DEF Execute

\* A new event has no transition yet, and only an applied or unrecorded event
\* can be cancelled at its ingestion.
LEMMA BookIngest ==
  ASSUME TypeOK, BookInv, Ingest
  PROVE  BookInv'
<1>1. /\ session \in Session /\ rec.exit \in Int /\ DelayedEntry(session) \in Int
      /\ {"attach", "close"} \subseteq Steps /\ {"attach", "close"} \subseteq After
      /\ {"ingest", "attach"} \subseteq After /\ "start" \in Kinds \ {"apply"}
  BY IntervalsAssumption DEF TypeOK, Session, RecoveryState, DelayedEntry, Steps, Kinds, After
<1>2. CASE NoLadderEvent BY <1>1, <1>2, GotoBook DEF NoLadderEvent, At
<1>3. CASE Enqueue
  <2>1. /\ events' = [events EXCEPT ![session] =
                        [status |-> "PENDING", cycle |-> source.cycle, target |-> source.target]]
        /\ events[session].status = "NONE" /\ UNCHANGED <<rec, journal>>
        /\ session' = session /\ pc = "ingest" /\ pc' = "attach"
    BY <1>3 DEF Enqueue, Same, At, Goto
  <2>2. \A j \in journal : j.key.kind = "apply" => j.key.at # session
    BY <2>1 DEF BookInv, KeysHaveEvents
  <2>3. \A t \in Session : t # session => events'[t] = events[t]
    BY <2>1 DEF TypeOK
  <2>4. events'[session].status = "PENDING" BY <1>1, <2>1 DEF TypeOK
  <2>5. \A t \in Session : t = session => ~Recorded(ApplyKey(t))'
    BY <2>1, <2>2 DEF Recorded, ApplyKey, Key
  <2>6. \A t \in Session : t # session => (Recorded(ApplyKey(t))' <=> Recorded(ApplyKey(t)))
    BY <2>1, <2>3 DEF Recorded, ApplyKey, Key
  <2>7. KeysHaveEvents'
    BY <2>1, <2>2, <2>3 DEF BookInv, KeysHaveEvents
  <2>8. \A t \in Session : Applied(t)' => Recorded(ApplyKey(t))'
    BY <2>3, <2>4, <2>6 DEF BookInv, Applied
  <2>9. ASSUME NEW t \in Session, Recorded(ApplyKey(t))', ~Applied(t)'
        PROVE  HalfApplied(t)'
    <3>1. t # session BY <2>5, <2>9
    <3>2. HalfApplied(t) BY <2>3, <2>6, <2>9, <3>1 DEF BookInv, Applied
    <3> QED BY <2>1, <2>3, <3>1, <3>2 DEF HalfApplied, Holding, After
  <2>10. DueInv' BY <2>1 DEF DueInv, At
  <2> QED BY <2>7, <2>8, <2>9, <2>10 DEF BookInv
<1>4. CASE AlreadyEnqueued
  <2>1. CASE events[session].cycle # source.cycle \/ events[session].target # source.target
    BY <1>4, <2>1, RaiseBook DEF AlreadyEnqueued
  <2>2. CASE ~(events[session].cycle # source.cycle \/ events[session].target # source.target)
    BY <1>1, <1>4, <2>2, GotoBook DEF AlreadyEnqueued, At
  <2> QED BY <2>1, <2>2
<1>5. CASE StartCycle
  <2>1. ~Holding BY <1>5 DEF StartCycle, Holding
  <2> QED BY <1>1, <1>5, <2>1, TransitionBook DEF StartCycle, At
<1>6. CASE JoinCycle BY <1>1, <1>6, GotoBook DEF JoinCycle, At
<1>7. CASE CancelOutside
  <2>1. CASE Applied(session)
    <3>1. Raise("illegal")
      BY <1>7, <2>1 DEF CancelOutside, SetStatus, AllowedStatus, Applied
    <3> QED BY <1>7, <3>1, RaiseBook DEF CancelOutside
  <2>2. CASE ~Applied(session)
    <3>1. ~Recorded(ApplyKey(session))
      BY <1>1, <1>7, <2>2 DEF CancelOutside, BookInv, HalfApplied
    <3> QED BY <1>1, <1>7, <3>1, CancelBook DEF CancelOutside, At
  <2> QED BY <2>1, <2>2
<1>8. CASE RefuseOverlap BY <1>8, RaiseBook DEF RefuseOverlap
<1>9. CASE RefuseGuarded BY <1>9, RaiseBook DEF RefuseGuarded
<1> QED BY <1>2, <1>3, <1>4, <1>5, <1>6, <1>7, <1>8, <1>9 DEF Ingest

\* A close ends a cycle only where nothing is held, so nothing is half applied.
LEMMA BookObserve ==
  ASSUME TypeOK, BookInv, Observe
  PROVE  BookInv'
<1>1. /\ {"close", "done"} \subseteq Steps /\ {"close", "done"} \subseteq After
      /\ {"cancel-pre-entry", "old-ath-recovered", "rearm-old-ath"} \subseteq Kinds \ {"apply"}
  BY DEF Steps, After, Kinds
<1>2. CASE NothingObserved BY <1>1, <1>2, GotoBook DEF NothingObserved, At
<1>3. CASE CancelAtOldAth
  <2>1. PICK s \in FirstOf(OpenOf(rec.cycle)) : SetStatus(s, "CANCELLED", "close")
    BY <1>3 DEF CancelAtOldAth
  <2>2. s \in Session /\ IsOpen(s) BY <2>1 DEF FirstOf, OpenOf
  <2>3. ~Recorded(ApplyKey(s))
    BY <1>3, <2>2 DEF CancelAtOldAth, Waiting, Holding, BookInv, HalfApplied, Applied, IsOpen
  <2> QED BY <1>1, <1>3, <2>1, <2>2, <2>3, CancelBook DEF CancelAtOldAth, At
<1>4. CASE CancelCycle
  <2>1. ~Holding BY <1>4 DEF CancelCycle, Waiting, Holding
  <2> QED BY <1>1, <1>4, <2>1, TransitionBook DEF CancelCycle, At
<1>5. CASE RecordRecovered
  BY <1>1, <1>5, TransitionBook DEF RecordRecovered, At
<1>6. CASE RearmAtOldAth
  <2>1. ~Holding BY <1>6 DEF RearmAtOldAth, Guarded, Holding
  <2> QED BY <1>1, <1>6, <2>1, TransitionBook DEF RearmAtOldAth, At
<1> QED BY <1>2, <1>3, <1>4, <1>5, <1>6 DEF Observe

\* The loop advances past a session only when its events are applied, and a
\* restart never goes forward.
LEMMA BookLoop ==
  ASSUME missed' = 0, TypeOK, BookInv, NextSession \/ Miss \/ Restart
  PROVE  BookInv'
<1>1. session \in Int /\ session >= 1 /\ \A s \in Session : DelayedEntry(s) \in Int
  BY IntervalsAssumption DEF TypeOK, Session, DelayedEntry
<1>2. ~Miss BY DEF Miss, TypeOK
<1>3. UNCHANGED database /\ pc' = "process"
  BY <1>2 DEF NextSession, Restart, Goto
<1>4. ASSUME NEW t \in Session, HalfApplied(t)
      PROVE  session' <= DelayedEntry(t)
  <2>1. CASE NextSession
    <3>1. session' = session + 1 /\ pc \in After
      BY <2>1 DEF NextSession, NextRow, At, After
    <3> QED BY <1>1, <1>4, <3>1 DEF HalfApplied
  <2>2. CASE Restart
    <3>1. session' = session BY <2>2 DEF Restart
    <3> QED BY <1>1, <1>4, <3>1 DEF HalfApplied
  <2> QED BY <1>2, <2>1, <2>2
<1>5. \A t \in Session : Recorded(ApplyKey(t))' <=> Recorded(ApplyKey(t))
  BY <1>3 DEF database, Recorded, ApplyKey, Key
<1>6. ASSUME NEW t \in Session, Recorded(ApplyKey(t))', ~Applied(t)'
      PROVE  HalfApplied(t)'
  <2>1. HalfApplied(t) BY <1>3, <1>5, <1>6 DEF BookInv, Applied, database
  <2> QED BY <1>3, <1>4, <2>1 DEF HalfApplied, Holding, After, database
<1> QED BY <1>3, <1>5, <1>6 DEF BookInv, KeysHaveEvents, Applied, DueInv, At, database

LEMMA BookInit == Init => BookInv
BY DEF Init, BookInv, KeysHaveEvents, Applied, HalfApplied, DueInv, Recorded, At, NoEvent

\* No step takes a missed session back.
LEMMA MissedStays ==
  ASSUME TypeOK, [Next]_vars, missed' = 0
  PROVE  missed = 0
<1> USE DEF TypeOK
<1>1. CASE Execute
  BY <1>1 DEF Execute, Same, budgets, RearmAtExit, MissedExit, CancelAtExit, TakeFixedExit,
     Orphan, MissedEntry, Mature, NothingToExecute, ResumeApplied, EnterFirst, ScaleUp,
     TrimAfterEntry, MarkApplied
<1>2. CASE Ingest
  BY <1>2 DEF Ingest, Same, budgets, NoLadderEvent, Enqueue, AlreadyEnqueued, StartCycle,
     JoinCycle, CancelOutside, RefuseOverlap, RefuseGuarded
<1>3. CASE Observe
  BY <1>3 DEF Observe, Same, budgets, NothingObserved, CancelAtOldAth, CancelCycle,
     RecordRecovered, RearmAtOldAth
<1>4. CASE NextSession BY <1>4 DEF NextSession, budgets
<1>5. CASE Miss BY <1>5, DispatchAssumption DEF Miss
<1>6. CASE Restart BY <1>6 DEF Restart
<1>7. CASE UNCHANGED vars BY <1>7 DEF vars, budgets
<1> QED BY <1>1, <1>2, <1>3, <1>4, <1>5, <1>6, <1>7 DEF Next

LEMMA BookStep ==
  ASSUME TypeOK, BookInv, [Next]_vars, missed' = 0
  PROVE  BookInv'
<1>1. CASE Execute BY <1>1, BookExecute
<1>2. CASE Ingest BY <1>2, BookIngest
<1>3. CASE Observe BY <1>3, BookObserve
<1>4. CASE NextSession \/ Miss \/ Restart BY <1>4, BookLoop
<1>5. CASE UNCHANGED vars
  <2>1. UNCHANGED <<rec, events, journal, session, pc>> BY <1>5 DEF vars, database
  <2>2. KeysHaveEvents' /\ DueInv'
    BY <2>1 DEF BookInv, KeysHaveEvents, DueInv, Recorded, ApplyKey, Key, Holding, Waiting,
       At, Due, Dispatching
  <2>3. \A t \in Session : /\ Applied(t)' <=> Applied(t)
                           /\ HalfApplied(t)' <=> HalfApplied(t)
                           /\ Recorded(ApplyKey(t))' <=> Recorded(ApplyKey(t))
    BY <2>1 DEF Applied, HalfApplied, Recorded, ApplyKey, Key, Holding, After
  <2> QED BY <2>2, <2>3 DEF BookInv
<1> QED BY <1>1, <1>2, <1>3, <1>4, <1>5 DEF Next

\* Whatever crashes come between the writes of the dispatcher, and however often
\* a session is run again, an APPLIED event has its journalled transition and a
\* recorded event is never cancelled or reopened, as long as no session is missed.
THEOREM JournalIsAuthority == Spec => []EventsMatchJournal
<1> DEFINE Inv == TypeInv /\ (missed = 0 => BookInv)
<1>1. Init => Inv BY TypeInit, BookInit DEF Init, TypeInv, At
<1>2. Inv /\ [Next]_vars => Inv'
  <2> SUFFICES ASSUME Inv, [Next]_vars PROVE Inv' OBVIOUS
  <2>1. TypeInv' BY TypeStep
  <2>2. ASSUME missed' = 0 PROVE BookInv'
    <3>1. TypeOK BY DEF TypeInv
    <3>2. missed = 0 BY <2>2, <3>1, MissedStays
    <3> QED BY <2>2, <3>1, <3>2, BookStep
  <2> QED BY <2>1, <2>2
<1>3. Inv => EventsMatchJournal BY BookImpliesMatch DEF EventsMatchJournal
<1> QED BY <1>1, <1>2, <1>3, PTL DEF Spec

-----------------------------------------------------------------------------
(* Late is never: missed sessions included *)

\* Once the executions of a session are under way, the target is held for the
\* rest of the session and some more.
HoldInv ==
  pc \in After \cup {"apply", "trim", "applied"} /\ Holding => session < rec.exit

LEMMA HoldExecute ==
  ASSUME TypeOK, HoldInv, Execute
  PROVE  HoldInv'
<1>1. session \in Int /\ rec.exit \in Int /\ FixedExit(session) > session
  BY IntervalsAssumption DEF TypeOK, Session, RecoveryState, FixedExit
<1>2. session' = session
  BY DEF Execute, RearmAtExit, MissedExit, CancelAtExit, TakeFixedExit, Orphan, MissedEntry,
     Mature, NothingToExecute, ResumeApplied, EnterFirst, ScaleUp, TrimAfterEntry,
     MarkApplied, Same
<1> USE DEF HoldInv, After, Holding, At
<1>3. CASE RearmAtExit
  BY <1>3 DEF RearmAtExit, Guarded, Transition, Goto, Raise, database, NormalState
<1>4. CASE MissedExit \/ Orphan \/ MissedEntry
  BY <1>4 DEF MissedExit, Orphan, MissedEntry, Raise
<1>5. CASE CancelAtExit
  BY <1>5 DEF CancelAtExit, SetStatus, Goto, Raise
<1>6. CASE TakeFixedExit
  BY <1>6 DEF TakeFixedExit, Transition, Goto, Raise
<1>7. CASE Mature
  BY <1>2, <1>7 DEF Mature, SetStatus, Goto, Raise, Dispatching, Waiting, database
<1>8. CASE NothingToExecute
  BY <1>2, <1>8 DEF NothingToExecute, Goto, Dispatching, Waiting, Guarded, database
<1>9. CASE ResumeApplied
  BY <1>2, <1>9 DEF ResumeApplied, Goto, database
<1>10. CASE EnterFirst
  <2>1. /\ Raise("conflict") \/ Raise("illegal")
        \/ rec'.exit = FixedExit(session)
    BY <1>10 DEF EnterFirst, Transition, TypeOK, RecoveryState
  <2>2. QED  BY <1>1, <1>2, <2>1 DEF Raise
<1>11. CASE ScaleUp
  <2>1. pc' = "raised" \/ (rec'.exit = rec.exit /\ At("apply") /\ Holding)
    BY <1>11 DEF ScaleUp, Transition, Raise, TypeOK, RecoveryState
  <2>2. QED  BY <1>2, <2>1
<1>12. CASE TrimAfterEntry \/ MarkApplied
  BY <1>2, <1>12 DEF TrimAfterEntry, MarkApplied, SetStatus, Goto, Raise, database
<1>13. QED
  BY <1>3, <1>4, <1>5, <1>6, <1>7, <1>8, <1>9, <1>10, <1>11, <1>12 DEF Execute

LEMMA HoldIngest ==
  ASSUME TypeOK, HoldInv, Ingest
  PROVE  HoldInv'
<1>1. session' = session /\ pc \in After
  BY DEF Ingest, NoLadderEvent, Enqueue, AlreadyEnqueued, StartCycle, JoinCycle,
     CancelOutside, RefuseOverlap, RefuseGuarded, Same, At, After
<1>2. CASE StartCycle
  BY <1>2 DEF StartCycle, Transition, Goto, Raise, database, NormalState, HoldInv, Holding, After
<1>3. CASE ~StartCycle
  <2>1. rec' = rec
    BY <1>3 DEF Ingest, NoLadderEvent, Enqueue, AlreadyEnqueued, JoinCycle, CancelOutside,
       RefuseOverlap, RefuseGuarded, SetStatus, Raise, database
  <2>2. QED  BY <1>1, <2>1 DEF HoldInv, Holding
<1>4. QED  BY <1>2, <1>3

LEMMA HoldObserve ==
  ASSUME TypeOK, HoldInv, Observe
  PROVE  HoldInv'
<1>1. session' = session /\ pc \in After
  BY DEF Observe, NothingObserved, CancelAtOldAth, CancelCycle, RecordRecovered,
     RearmAtOldAth, Same, At, After
<1>2. rec' = rec \/ rec' = NormalState \/ (Holding /\ rec' = [rec EXCEPT !.recovered = TRUE])
  BY DEF Observe, NothingObserved, CancelAtOldAth, CancelCycle, RecordRecovered,
     RearmAtOldAth, SetStatus, Transition, Raise, database
<1>3. rec' = rec \/ rec'.phase = "NORMAL" \/ (Holding /\ rec'.exit = rec.exit)
  BY <1>2 DEF NormalState, TypeOK, RecoveryState
<1>4. QED  BY <1>1, <1>3 DEF HoldInv, Holding

\* A new session, or a new run of one, begins with its executions.
LEMMA HoldLoop ==
  ASSUME HoldInv, NextSession \/ Miss \/ Restart \/ UNCHANGED vars
  PROVE  HoldInv'
<1>1. pc' = "process" \/ UNCHANGED <<rec, session, pc>>
  BY DEF NextSession, Miss, Restart, Goto, At, vars, database
<1>2. QED  BY <1>1 DEF HoldInv, Holding, After

\* Recovery exposure never outlives its hold: whatever is missed and whenever the
\* process dies, a finished session at or past the fixed exit holds nothing.
THEOREM NoLateExposure == Spec => []ExposureEnds
<1>1. Init => HoldInv  BY DEF Init, HoldInv, After
<1>2. TypeInv /\ HoldInv /\ [Next]_vars => HoldInv'
  <2> SUFFICES ASSUME TypeInv, HoldInv, [Next]_vars PROVE HoldInv'
    OBVIOUS
  <2>1. TypeOK  BY DEF TypeInv
  <2>2. QED  BY <2>1, HoldExecute, HoldIngest, HoldObserve, HoldLoop DEF Next
<1>3. HoldInv => ExposureEnds  BY DEF HoldInv, ExposureEnds, At, After
<1>4. Init => TypeInv  BY TypeInit DEF TypeInv, Init, At
<1>5. QED  BY <1>1, <1>2, <1>3, <1>4, TypeStep, PTL DEF Spec

LEMMA TransitionRow ==
  ASSUME NEW key, NEW new, NEW step, Transition(key, new, step)
  PROVE  \A j \in journal' \ journal : j.key = key
BY DEF Transition, Raise, database

\* No timing rule is turned into a later execution: an entry, a scale-up or an
\* exit enters the journal at its own session or not at all.
THEOREM NothingIsLate == Spec => TradesAreOnTime
<1> DEFINE OnTime == \A j \in journal' \ journal :
                       /\ j.key.kind = "apply" => session = DelayedEntry(j.key.at)
                       /\ j.key.kind = "fixed-exit" => session = j.key.at
<1>1. TypeInv /\ [Next]_vars => OnTime \/ UNCHANGED vars
  <2> SUFFICES ASSUME TypeInv, Next PROVE OnTime
    OBVIOUS
  <2>1. session \in Int /\ Delay \in Int
    BY IntervalsAssumption DEF TypeInv, TypeOK, Session
  <2>2. CASE EnterFirst \/ ScaleUp
    <3>1. \A j \in journal' \ journal : j.key = ApplyKey(Due)
      BY <2>2, TransitionRow DEF EnterFirst, ScaleUp, Raise, database
    <3>2. ApplyKey(Due).kind = "apply" /\ ApplyKey(Due).at = Due  BY DEF ApplyKey, Key
    <3>3. session = DelayedEntry(Due)  BY <2>1 DEF Due, DelayedEntry
    <3>4. QED  BY <3>1, <3>2, <3>3
  <2>3. CASE TakeFixedExit
    <3>1. session = rec.exit /\ \A j \in journal' \ journal : j.key = ExitKey
      BY <2>3, TransitionRow DEF TakeFixedExit
    <3>2. QED  BY <3>1 DEF ExitKey, Key
  <2>4. CASE RearmAtExit
    <3>1. \A j \in journal' \ journal : j.key.kind = "rearm-after-fixed-exit"
      BY <2>4, TransitionRow DEF RearmAtExit, Key
    <3>2. QED  BY <3>1
  <2>5. CASE StartCycle
    <3>1. \A j \in journal' \ journal : j.key.kind = "start"
      BY <2>5, TransitionRow DEF StartCycle, Key
    <3>2. QED  BY <3>1
  <2>6. CASE CancelCycle
    <3>1. \A j \in journal' \ journal : j.key.kind = "cancel-pre-entry"
      BY <2>6, TransitionRow DEF CancelCycle, Key
    <3>2. QED  BY <3>1
  <2>7. CASE RecordRecovered
    <3>1. \A j \in journal' \ journal : j.key.kind = "old-ath-recovered"
      BY <2>7, TransitionRow DEF RecordRecovered, Key
    <3>2. QED  BY <3>1
  <2>8. CASE RearmAtOldAth
    <3>1. \A j \in journal' \ journal : j.key.kind = "rearm-old-ath"
      BY <2>8, TransitionRow DEF RearmAtOldAth, Key
    <3>2. QED  BY <3>1
  \* The others write no row.
  <2>9. CASE \/ MissedExit \/ CancelAtExit \/ Orphan \/ MissedEntry \/ Mature
             \/ NothingToExecute \/ ResumeApplied \/ TrimAfterEntry \/ MarkApplied
    BY <2>9 DEF MissedExit, CancelAtExit, Orphan, MissedEntry, Mature, NothingToExecute,
       ResumeApplied, TrimAfterEntry, MarkApplied, SetStatus, Raise, database
  <2>10. CASE \/ NoLadderEvent \/ Enqueue \/ AlreadyEnqueued \/ JoinCycle
              \/ CancelOutside \/ RefuseOverlap \/ RefuseGuarded
    BY <2>10 DEF NoLadderEvent, Enqueue, AlreadyEnqueued, JoinCycle, CancelOutside,
       RefuseOverlap, RefuseGuarded, SetStatus, Raise, database
  <2>11. CASE NothingObserved \/ CancelAtOldAth \/ NextSession \/ Miss \/ Restart
    BY <2>11 DEF NothingObserved, CancelAtOldAth, NextSession, Miss, Restart, SetStatus,
       Raise, database
  <2>12. QED
    BY <2>2, <2>3, <2>4, <2>5, <2>6, <2>7, <2>8, <2>9, <2>10, <2>11
    DEF Next, Execute, Ingest, Observe
<1>2. TypeInv /\ [Next]_vars => [OnTime]_vars  BY <1>1
<1>3. Init => TypeInv  BY TypeInit DEF TypeInv, Init, At
<1>4. QED  BY <1>2, <1>3, TypeStep, PTL DEF Spec, TradesAreOnTime

-----------------------------------------------------------------------------
(* No session missed: what is asked of the database *)

Known(s) == events[s].status # "NONE"
Level(s) == events[s].target

\* The source of a session asks for a target below its peak only.
SourceInv ==
  /\ source.mode = "CRASH" => source.target > 0 /\ source.cycle > 0
  /\ source.event = "ROTATE" => source.mode = "CRASH" /\ closes[session] < source.peak

\* A stored event is the source event of its session; within a cycle each asks
\* for more than those before it.
EventsAreSignals ==
  /\ \A s \in Session : Known(s) =>
       s <= session /\ Level(s) > 0 /\ events[s].cycle <= source.cycle
  /\ Known(session) => /\ source.event = "ROTATE" /\ events[session].cycle = source.cycle
                       /\ Level(session) = source.target
  /\ \A s \in Session : Known(s) /\ s < session /\ events[s].cycle = source.cycle =>
       /\ source.mode = "CRASH" => Level(s) <= source.target
       /\ source.event = "ROTATE" => Level(s) < source.target
  /\ \A s, t \in Session :
       Known(s) /\ Known(t) /\ s < t /\ events[s].cycle = events[t].cycle => Level(s) < Level(t)

\* An open event waits for a session to come in the running cycle; only that of
\* the session itself may still have to be attached to one.
Current(s) ==
  /\ events[s].cycle = rec.cycle /\ (Waiting \/ Holding)
  /\ DelayedEntry(s) >= session
  /\ pc \in After => DelayedEntry(s) > session
OpenInv ==
  /\ \A s \in Session : IsOpen(s) => Current(s) \/ (s = session /\ pc \notin {"close", "done"})
  /\ At("attach") => IsOpen(session)

\* A cycle started at this session is still waiting, with no other event.
StartInv ==
  \A j \in journal : j.key.kind = "start" =>
    /\ j.key.at <= session
    /\ j.key.at = session =>
         /\ source.event = "ROTATE" /\ Waiting /\ rec.oldAth = source.peak
         /\ \A s \in Session : IsOpen(s) => s = session

\* No session is past the exit of a hold, and none has taken it; a recovery
\* recorded at this session is still known.
ExitInv ==
  /\ Holding => session <= rec.exit
  /\ \A j \in journal :
       /\ j.key.kind = "fixed-exit" => j.key.at <= session /\ (Holding => j.key.at # rec.exit)
       /\ j.key.kind = "old-ath-recovered" =>
            /\ j.key.at <= session
            /\ j.key.at = session => Holding /\ rec.recovered /\ session < rec.exit

\* What is held is the target of an event, and less than any to come.
TargetInv ==
  Holding =>
    /\ \E s \in Session : Known(s) /\ events[s].cycle = rec.cycle /\ Level(s) = rec.target
    /\ \A s \in Session :
         IsOpen(s) /\ events[s].cycle = rec.cycle /\ ~Recorded(ApplyKey(s)) => Level(s) > rec.target

RecordInv == SourceInv /\ EventsAreSignals /\ StartInv /\ ExitInv /\ TargetInv
MoveInv == RecordInv /\ OpenInv

-----------------------------------------------------------------------------
(* The source *)

LEMMA RungIsBelowPeak ==
  ASSUME NEW price \in Nat \ {0}, NEW peak \in Nat, CrashTarget(price, peak) # 0
  PROVE  price < peak
<1> DEFINE reached == {i \in 1..Len(Levels) : 100 * (peak - price) >= Levels[i][1] * peak}
<1>1. Len(Levels) = 4 /\ \A i \in 1..4 : Levels[i][1] \in Nat /\ Levels[i][1] > 0
  BY DEF Levels
<1>2. reached # {}  BY DEF CrashTarget
<1>3. PICK i \in 1..4 : 100 * (peak - price) >= Levels[i][1] * peak  BY <1>1, <1>2
<1>4. PICK k \in Nat : k = Levels[i][1] /\ k > 0  BY <1>1
<1>5. k * peak \in Nat /\ k * peak >= 0  BY <1>4
<1>6. 100 * (peak - price) >= 0  BY <1>3, <1>4, <1>5
<1>7. price <= peak  BY <1>6
<1>8. CASE price = peak
  <2>1. k * peak <= 0  BY <1>3, <1>4, <1>8
  <2>2. k * peak > 0
    <3>1. peak >= 1 /\ k >= 1  BY <1>4, <1>8
    <3>2. k * peak >= peak
      <4>1. PICK m \in Nat : k = m + 1  BY <1>4
      <4>2. k * peak = m * peak + peak /\ m * peak >= 0  BY <4>1
      <4>3. QED  BY <4>2
    <3>3. QED  BY <3>1, <3>2, <1>5
  <2>3. QED  BY <2>1, <2>2, <1>5
<1>9. QED  BY <1>7, <1>8

\* observe_close: a new cycle, a deeper target of the same one, or no event.
LEMMA SourceStep ==
  ASSUME NEW s \in Source, NEW price \in Nat \ {0}, NEW t, t = ObserveClose(s, price),
         s.mode = "CRASH" => s.target > 0 /\ s.cycle > 0
  PROVE  /\ t.mode = "CRASH" => t.target > 0 /\ t.cycle > 0
         /\ t.event = "ROTATE" =>
              /\ t.mode = "CRASH" /\ price < t.peak
              /\ t.cycle = s.cycle => t.target > s.target
         /\ t.cycle \in {s.cycle, s.cycle + 1}
         /\ t.cycle = s.cycle /\ t.mode = "CRASH" =>
              s.mode = "CRASH" /\ t.target >= s.target
<1>s. /\ s.cycle \in Nat /\ s.peak \in Nat /\ s.target \in Nat
      /\ s.mode \in {"NORMAL", "CRASH", "POST_HANDOFF"}
      /\ s = [mode |-> s.mode, peak |-> s.peak, trough |-> s.trough, target |-> s.target,
              cycle |-> s.cycle, event |-> s.event]
  BY DEF Source, Mode, Target
<1>1. CASE s.mode = "NORMAL"
  <2> DEFINE peak == IF price > s.peak THEN price ELSE s.peak
  <2>1. peak \in Nat  BY <1>s
  <2>2. CrashTarget(price, peak) \in Nat  BY <2>1, CrashTargetIsTarget DEF Target
  <2>3. CrashTarget(price, peak) # 0 => price < peak  BY <2>1, RungIsBelowPeak
  <2>4. t = Normal(s, price)  BY <1>1 DEF ObserveClose
  <2>5. t = IF CrashTarget(price, peak) = 0
            THEN [s EXCEPT !.peak = peak, !.event = "NO_ACTION"]
            ELSE [mode |-> "CRASH", peak |-> peak, trough |-> price,
                  target |-> CrashTarget(price, peak), cycle |-> s.cycle + 1,
                  event |-> "ROTATE"]
    BY <2>4 DEF Normal
  <2> HIDE DEF peak
  <2>6. CASE CrashTarget(price, peak) = 0
    <3>1. t.mode = "NORMAL" /\ t.event = "NO_ACTION" /\ t.cycle = s.cycle
      BY <1>1, <1>s, <2>5, <2>6
    <3>2. QED  BY <3>1
  <2>7. CASE CrashTarget(price, peak) # 0
    <3>1. /\ t.mode = "CRASH" /\ t.target > 0 /\ t.cycle = s.cycle + 1 /\ t.peak = peak
      BY <2>2, <2>5, <2>7
    <3>2. QED  BY <1>s, <2>3, <2>7, <3>1
  <2>8. QED  BY <2>6, <2>7
<1>2. CASE s.mode = "CRASH"
  <2> DEFINE rung == CrashTarget(price, s.peak)
  <2>1. rung \in Nat  BY <1>s, CrashTargetIsTarget DEF Target
  <2>2. rung # 0 => price < s.peak  BY <1>s, RungIsBelowPeak
  <2>3. t = Crash(s, price)  BY <1>2 DEF ObserveClose
  <2>4. /\ t.cycle = s.cycle /\ t.peak = s.peak
        /\ \/ rung > s.target /\ t.mode = "CRASH" /\ t.target = rung
           \/ t.mode = "POST_HANDOFF" /\ t.event # "ROTATE"
           \/ t.mode = "CRASH" /\ t.target = s.target /\ t.event # "ROTATE"
    BY <1>2, <1>s, <2>3 DEF Crash
  <2> HIDE DEF rung
  <2>5. QED  BY <1>2, <1>s, <2>1, <2>2, <2>4
<1>3. CASE s.mode = "POST_HANDOFF"
  <2>1. t = PostHandoff(s, price)  BY <1>3 DEF ObserveClose
  <2>2. t.mode # "CRASH" /\ t.event # "ROTATE" /\ t.cycle = s.cycle
    BY <1>3, <1>s, <2>1 DEF PostHandoff
  <2>3. QED  BY <2>2
<1>4. QED  BY <1>1, <1>2, <1>3, <1>s

\* The rows of a new session, with none of its own event stored yet.
LEMMA RowsStep ==
  ASSUME TypeOK, SourceInv, EventsAreSignals, NextRow, UNCHANGED events
  PROVE  SourceInv' /\ EventsAreSignals'
<1>1. PICK price \in Price :
        closes' = Append(closes, price) /\ source' = ObserveClose(source, price)
  BY DEF NextRow
<1>2. /\ price \in Nat \ {0} /\ source \in Source /\ source.cycle \in Nat
      /\ source.target \in Nat
      /\ session' = session + 1 /\ session \in Nat /\ Session \subseteq Nat
      /\ \A s \in Session : events[s].cycle \in Nat /\ Level(s) \in Nat
  <2>1. price \in Nat \ {0} /\ Session \subseteq Nat /\ session \in Session
    BY <1>1, DispatchAssumption DEF TypeOK, Session
  <2>2. source \in Source /\ source.cycle \in Nat /\ source.target \in Nat
    BY DEF TypeOK, Source, Target
  <2>3. \A s \in Session : events[s].cycle \in Nat /\ Level(s) \in Nat
    BY DEF TypeOK, EventRow, Target, Level
  <2>4. QED  BY <2>1, <2>2, <2>3 DEF NextRow
<1>3. closes'[session'] = price
  BY <1>1, <1>2 DEF TypeOK
<1>4. /\ source'.mode = "CRASH" => source'.target > 0 /\ source'.cycle > 0
      /\ source'.event = "ROTATE" =>
           /\ source'.mode = "CRASH" /\ price < source'.peak
           /\ source'.cycle = source.cycle => source'.target > source.target
      /\ source'.cycle \in {source.cycle, source.cycle + 1}
      /\ source'.cycle = source.cycle /\ source'.mode = "CRASH" =>
           source.mode = "CRASH" /\ source'.target >= source.target
  BY <1>1, <1>2, SourceStep DEF SourceInv
<1>5. SourceInv'  BY <1>3, <1>4 DEF SourceInv
<1>6. source' \in Source  BY <1>1, <1>2, ObserveCloseType
<1>7. source'.target \in Nat  BY <1>6 DEF Source, Target
<1>8. \A s \in Session : Known(s) =>
        s <= session /\ Level(s) > 0 /\ events[s].cycle <= source.cycle
  BY DEF EventsAreSignals
<1>9. ~Known(session')
  <2>1. session' \in Session  BY <1>2, DispatchAssumption DEF NextRow, Session
  <2>2. ~(session' <= session)  BY <1>2
  <2>3. QED  BY <1>8, <2>1, <2>2
<1>10. \A s \in Session : Known(s) /\ events[s].cycle = source'.cycle =>
         /\ source'.mode = "CRASH" => Level(s) <= source'.target
         /\ source'.event = "ROTATE" => Level(s) < source'.target
  <2> SUFFICES ASSUME NEW s \in Session, Known(s), events[s].cycle = source'.cycle
               PROVE  /\ source'.mode = "CRASH" => Level(s) <= source'.target
                      /\ source'.event = "ROTATE" => Level(s) < source'.target
    OBVIOUS
  <2>1. source'.cycle = source.cycle  BY <1>2, <1>4, <1>8
  <2>2. source.mode = "CRASH" => Level(s) <= source.target
    <3>1. CASE s = session  BY <1>2, <3>1 DEF EventsAreSignals
    <3>2. CASE s < session  BY <2>1, <3>2 DEF EventsAreSignals
    <3>3. QED  BY <1>2, <1>8, <3>1, <3>2
  <2>3. QED  BY <1>2, <1>4, <1>7, <2>1, <2>2
<1>11. \A s \in Session : /\ Known(s)' <=> Known(s) /\ Level(s)' = Level(s)
                          /\ events'[s] = events[s]
  BY DEF Known, Level
<1>12. \A s \in Session : Known(s) =>
         s <= session' /\ Level(s) > 0 /\ events[s].cycle <= source'.cycle
  BY <1>2, <1>4, <1>8
<1>13. \A s, t \in Session :
         Known(s) /\ Known(t) /\ s < t /\ events[s].cycle = events[t].cycle => Level(s) < Level(t)
  BY DEF EventsAreSignals
<1>14. EventsAreSignals'
  <2>1. ~Known(session)'  BY <1>9 DEF Known
  <2>2. QED  BY <1>10, <1>11, <1>12, <1>13, <2>1 DEF EventsAreSignals
<1>15. QED  BY <1>5, <1>14

-----------------------------------------------------------------------------
(* The effects of a step on the records *)

\* A step of the process, and nothing else.
LEMMA StayRecord ==
  ASSUME RecordInv, UNCHANGED <<database, rows, session>>
  PROVE  RecordInv'
<1>1. UNCHANGED <<rec, events, journal, closes, source, session>>  BY DEF database, rows
<1>2. SourceInv'  BY <1>1 DEF RecordInv, SourceInv
<1>3. EventsAreSignals'  BY <1>1 DEF RecordInv, EventsAreSignals, Known, Level
<1>4. StartInv'  BY <1>1 DEF RecordInv, StartInv, Waiting, IsOpen
<1>5. ExitInv'  BY <1>1 DEF RecordInv, ExitInv, Holding
<1>6. TargetInv'
  BY <1>1 DEF RecordInv, TargetInv, Holding, Known, Level, IsOpen, Recorded, ApplyKey, Key
<1>7. QED  BY <1>2, <1>3, <1>4, <1>5, <1>6 DEF RecordInv

\* An event gets another status and stays as open as it was, or less.
LEMMA StatusRecord ==
  ASSUME TypeOK, RecordInv, NEW s \in Session, NEW st \in EventStatus \ {"NONE"},
         Known(s), st \in {"PENDING", "MATURED"} => IsOpen(s),
         events' = [events EXCEPT ![s].status = st],
         UNCHANGED <<rec, journal, rows, session>>
  PROVE  /\ RecordInv'
         /\ \A t \in Session : /\ IsOpen(t)' => IsOpen(t)
                               /\ events'[t].cycle = events[t].cycle
                               /\ t # s => events'[t] = events[t]
         /\ IsOpen(s)' <=> st \in {"PENDING", "MATURED"}
<1>1. UNCHANGED <<closes, source>>  BY DEF rows
<1>2. /\ events \in [Session -> EventRow] /\ session \in Session
  BY DEF TypeOK
<1>3. \A t \in Session : /\ Known(t)' <=> Known(t)
                         /\ Level(t)' = Level(t) /\ events'[t].cycle = events[t].cycle
                         /\ t # s => events'[t] = events[t]
                         /\ IsOpen(t)' => IsOpen(t)
  BY <1>2 DEF Known, Level, IsOpen, EventRow, EventStatus
<1>4. IsOpen(s)' <=> st \in {"PENDING", "MATURED"}
  BY <1>2 DEF IsOpen, EventRow
<1>5. SourceInv'  BY <1>1 DEF RecordInv, SourceInv
<1>6. EventsAreSignals'
  BY <1>1, <1>2, <1>3 DEF RecordInv, EventsAreSignals
<1>7. StartInv'  BY <1>1, <1>3 DEF RecordInv, StartInv, Waiting
<1>8. ExitInv'  BY <1>1 DEF RecordInv, ExitInv, Holding
<1>9. TargetInv'
  BY <1>3 DEF RecordInv, TargetInv, Holding, Recorded, ApplyKey, Key
<1>10. QED  BY <1>3, <1>4, <1>5, <1>6, <1>7, <1>8, <1>9 DEF RecordInv

\* A raised error touches nothing.
LEMMA RaiseMove ==
  ASSUME MoveInv, Same, NEW why, Raise(why)
  PROVE  MoveInv'
<1>1. RecordInv'  BY StayRecord DEF MoveInv, Same, Raise
<1>2. UNCHANGED <<rec, events, session>> /\ pc' = "raised"
  BY DEF Same, Raise, database
<1>3. OpenInv'
  BY <1>2 DEF MoveInv, OpenInv, Current, IsOpen, Waiting, Holding, At, After
<1>4. QED  BY <1>1, <1>3 DEF MoveInv

\* The rows of the journal stay; a new one has the key asked for.
LEMMA JournalGrows ==
  ASSUME NEW key, NEW new, NEW step, Transition(key, new, step)
  PROVE  /\ journal \subseteq journal'
         /\ \A j \in journal' : j \in journal \/ j.key = key
         /\ events' = events
         /\ \/ rec' = rec /\ journal' = journal /\ pc' = step /\ Recorded(key)
            \/ rec' = rec /\ journal' = journal /\ \E why \in {"conflict", "illegal"} : Raise(why)
            \/ rec' = new /\ pc' = step /\ Recorded(key)'
BY DEF Transition, Raise, Goto, database, Recorded

\* Leaving a cycle, with no event of it open, or leaving its hold.
LEMMA LeaveRecord ==
  ASSUME RecordInv, UNCHANGED <<events, rows, session>>,
         NEW key, \A j \in journal' : j \in journal \/ j.key = key,
         key.kind \notin {"start", "old-ath-recovered"},
         key.kind = "fixed-exit" => key.at = session,
         rec'.phase \in {"NORMAL", "OLD_ATH_GUARD"},
         \A j \in journal : j.key.kind = "start" => j.key.at # session,
         \A j \in journal : j.key.kind = "old-ath-recovered" => j.key.at # session,
         session \in Nat
  PROVE  RecordInv'
<1>1. UNCHANGED <<closes, source>>  BY DEF rows
<1>2. SourceInv'  BY <1>1 DEF RecordInv, SourceInv
<1>3. EventsAreSignals'  BY <1>1 DEF RecordInv, EventsAreSignals, Known, Level
<1>4. ~Holding'  BY DEF Holding
<1>5. StartInv'  BY DEF RecordInv, StartInv
<1>6. ExitInv'  BY <1>4 DEF RecordInv, ExitInv
<1>7. TargetInv'  BY <1>4 DEF TargetInv
<1>8. QED  BY <1>2, <1>3, <1>5, <1>6, <1>7 DEF RecordInv

\* Neither a start nor a recovery of this session is known outside its phase.
LEMMA NoneToday ==
  ASSUME RecordInv
  PROVE  /\ ~Waiting => \A j \in journal : j.key.kind = "start" => j.key.at # session
         /\ ~Holding => \A j \in journal : j.key.kind = "old-ath-recovered" => j.key.at # session
BY DEF RecordInv, StartInv, ExitInv

LEMMA MoveRearmAtExit ==
  ASSUME TypeOK, MoveInv, RearmAtExit
  PROVE  MoveInv'
<1>1. /\ Transition(Key(rec.cycle, "rearm-after-fixed-exit", rec.exit), NormalState, "ingest")
      /\ Guarded /\ At("process") /\ Same
  BY DEF RearmAtExit
<1> DEFINE key == Key(rec.cycle, "rearm-after-fixed-exit", rec.exit)
<1>2. ~Waiting /\ ~Holding  BY <1>1 DEF Guarded, Waiting, Holding
<1>3. \A s \in Session : IsOpen(s) => s = session
  BY <1>2 DEF MoveInv, OpenInv, Current
<1>4. \A s \in Session : IsOpen(s)' => s = session'
  BY <1>1, <1>3, JournalGrows DEF IsOpen, Same
<1>5. CASE pc' = "ingest"
  <2>1. OpenInv'  BY <1>4, <1>5 DEF OpenInv, At
  <2>2. RecordInv'
    <3>1. CASE rec' = rec /\ journal' = journal
      BY <1>1, <3>1, JournalGrows, StayRecord DEF MoveInv, Same, database
    <3>2. CASE rec' = NormalState
      <4>1. key.kind = "rearm-after-fixed-exit"  BY DEF Key
      <4>2. rec'.phase = "NORMAL" /\ session \in Nat
        BY <3>2 DEF NormalState, TypeOK, Session
      <4>3. UNCHANGED <<events, rows, session>> /\ \A j \in journal' : j \in journal \/ j.key = key
        BY <1>1, JournalGrows DEF Same
      <4> HIDE DEF key
      <4>4. QED  BY <1>2, <4>1, <4>2, <4>3, NoneToday, LeaveRecord DEF MoveInv
    <3>3. QED  BY <1>1, <3>1, <3>2, JournalGrows
  <2>3. QED  BY <2>1, <2>2 DEF MoveInv
<1>6. CASE pc' # "ingest"
  BY <1>1, <1>6, JournalGrows, RaiseMove
<1>7. QED  BY <1>5, <1>6

LEMMA MoveTakeFixedExit ==
  ASSUME TypeOK, MoveInv, TakeFixedExit
  PROVE  MoveInv'
<1> DEFINE new == [rec EXCEPT !.phase = "OLD_ATH_GUARD", !.target = 0]
<1>1. /\ Transition(ExitKey, new, "process") /\ Holding /\ At("process") /\ Same
      /\ session = rec.exit /\ OpenOf(rec.cycle) = {} /\ session \in Nat
  BY DEF TakeFixedExit, TypeOK, Session
<1>2. \A s \in Session : IsOpen(s) => s = session
  BY <1>1 DEF MoveInv, OpenInv, Current, OpenOf
<1>3. CASE pc' = "process"
  <2>1. OpenInv'
    BY <1>1, <1>2, <1>3, JournalGrows DEF OpenInv, At, IsOpen, Same
  <2>2. RecordInv'
    <3>1. CASE rec' = rec /\ journal' = journal
      BY <1>1, <3>1, JournalGrows, StayRecord DEF MoveInv, Same, database
    <3>2. CASE rec' = new
      <4>1. ExitKey.kind = "fixed-exit" /\ ExitKey.at = session  BY <1>1 DEF ExitKey, Key
      <4>2. rec'.phase = "OLD_ATH_GUARD"  BY <3>2 DEF TypeOK, RecoveryState
      <4>3. UNCHANGED <<events, rows, session>>
            /\ \A j \in journal' : j \in journal \/ j.key = ExitKey
        BY <1>1, JournalGrows DEF Same
      <4>4. \A j \in journal : j.key.kind = "old-ath-recovered" => j.key.at # session
        BY <1>1 DEF MoveInv, RecordInv, ExitInv
      <4>5. ~Waiting  BY <1>1 DEF Waiting, Holding
      <4>6. QED  BY <1>1, <4>1, <4>2, <4>3, <4>4, <4>5, NoneToday, LeaveRecord DEF MoveInv
    <3>3. QED  BY <1>1, <3>1, <3>2, JournalGrows, RaiseMove DEF MoveInv
  <2>3. QED  BY <2>1, <2>2 DEF MoveInv
<1>4. CASE pc' # "process"
  BY <1>1, <1>4, JournalGrows, RaiseMove
<1>5. QED  BY <1>3, <1>4

-----------------------------------------------------------------------------
(* The execution of a session *)

\* Every open event of the cycle but the one being applied comes later.
LEMMA OthersComeLater ==
  ASSUME TypeOK, MoveInv, Due \in Session, NEW s \in Session, IsOpen(s),
         events[s].cycle = events[Due].cycle, s # Due, Known(Due)
  PROVE  Level(s) > Level(Due)
<1>1. /\ Delay \in Nat /\ session \in Nat /\ s \in Nat /\ Due \in Nat
      /\ Level(s) \in Nat /\ Level(Due) \in Nat
  BY IntervalsAssumption DEF TypeOK, Session, EventRow, Target, Level
<1>2. DelayedEntry(s) >= session \/ s = session
  BY DEF MoveInv, OpenInv, Current
<1>3. Due < s  BY <1>1, <1>2 DEF Due, DelayedEntry
<1>4. Known(s)  BY DEF Known, IsOpen
<1>5. QED  BY <1>1, <1>3, <1>4 DEF MoveInv, RecordInv, EventsAreSignals

\* A target is taken from the event that is due, by an entry or a scale-up.
LEMMA TakeTarget ==
  ASSUME TypeOK, MoveInv, Due \in Session, IsOpen(Due), events[Due].cycle = rec.cycle,
         NEW new \in RecoveryState, NEW step \in {"trim", "applied"},
         Transition(ApplyKey(Due), new, step), Same, ~Recorded(ApplyKey(Due)), At("apply"),
         new.phase = "RECOVERY_ACTIVE", new.cycle = rec.cycle, new.target = Level(Due),
         \/ Waiting /\ new.exit > session
         \/ Holding /\ new.exit = rec.exit /\ new.recovered = rec.recovered
  PROVE  MoveInv'
<1>0. /\ session \in Nat /\ Due \in Nat /\ Due < session /\ Known(Due)
      /\ new.exit \in Nat /\ rec.exit \in Nat
  BY IntervalsAssumption DEF TypeOK, Session, Due, Known, IsOpen, RecoveryState
<1>1. CASE rec' # new \/ pc' # step
  <2>1. \E why \in {"conflict", "illegal"} : Raise(why)
    BY <1>1, JournalGrows
  <2>2. QED  BY <2>1, RaiseMove
<1>2. CASE rec' = new /\ pc' = step
  <2>1. /\ events' = events /\ UNCHANGED <<rows, closes, source, session>>
        /\ journal \subseteq journal' /\ Recorded(ApplyKey(Due))'
        /\ \A j \in journal' : j \in journal \/ j.key = ApplyKey(Due)
    <3>1. Recorded(ApplyKey(Due))'
      <4>1. \E j \in journal' : j.key = ApplyKey(Due)
        BY <1>2 DEF Transition, Raise, database, Recorded, Goto
      <4>2. ApplyKey(Due)' = ApplyKey(Due)
        BY JournalGrows DEF ApplyKey, Key, Same, Due
      <4>3. QED  BY <4>1, <4>2 DEF Recorded
    <3>2. QED  BY <3>1, JournalGrows DEF Same, rows
  <2>2. ApplyKey(Due).kind = "apply"  BY DEF ApplyKey, Key
  <2>3. Holding'  BY <1>2 DEF Holding
  <2>4. SourceInv'  BY <2>1 DEF MoveInv, RecordInv, SourceInv
  <2>5. EventsAreSignals'
    BY <2>1 DEF MoveInv, RecordInv, EventsAreSignals, Known, Level
  <2>6. StartInv'
    <3>1. \A j \in journal : j.key.kind = "start" => j.key.at # session
      <4>1. Due # session  BY <1>0
      <4>2. QED  BY <4>1 DEF MoveInv, RecordInv, StartInv
    <3>2. QED  BY <2>1, <2>2, <3>1 DEF MoveInv, RecordInv, StartInv
  <2>7. ExitInv'
    <3>1. CASE Waiting /\ new.exit > session
      <4>1. ~Holding  BY <3>1 DEF Waiting, Holding
      <4>2. \A j \in journal : j.key.kind = "old-ath-recovered" => j.key.at # session
        BY <4>1, NoneToday DEF MoveInv
      <4>3. \A j \in journal : j.key.kind = "fixed-exit" => j.key.at <= session
        BY DEF MoveInv, RecordInv, ExitInv
      <4>4. \A j \in journal : j.key.kind = "fixed-exit" => j.key.at # new.exit
        BY <1>0, <3>1, <4>3
      <4>5. QED
        BY <1>0, <1>2, <2>1, <2>2, <3>1, <4>2, <4>3, <4>4 DEF MoveInv, RecordInv, ExitInv
    <3>2. CASE Holding /\ new.exit = rec.exit /\ new.recovered = rec.recovered
      BY <1>2, <2>1, <2>2, <2>3, <3>2 DEF MoveInv, RecordInv, ExitInv
    <3>3. QED  BY <3>1, <3>2
  <2>8. TargetInv'
    <3>1. \E s \in Session : /\ Known(s)' /\ events'[s].cycle = rec'.cycle
                             /\ Level(s)' = rec'.target
      <4>1. Known(Due) /\ events'[Due].cycle = rec'.cycle /\ events'[Due].target = rec'.target
        BY <1>0, <1>2, <2>1 DEF Level
      <4>2. QED  BY <2>1, <4>1 DEF Known, Level
    <3>2. ASSUME NEW s \in Session, IsOpen(s)', events'[s].cycle = rec'.cycle,
                 ~Recorded(ApplyKey(s))'
          PROVE  Level(s)' > rec'.target
      <4>1. IsOpen(s) /\ events[s].cycle = events[Due].cycle
        BY <1>2, <2>1, <3>2 DEF IsOpen
      <4>2. s # Due
        <5>1. Due' = Due  BY <2>1 DEF Due
        <5>2. SUFFICES ASSUME s = Due PROVE FALSE  OBVIOUS
        <5>3. ApplyKey(s)' = ApplyKey(Due)'
          BY <5>1, <5>2 DEF ApplyKey
        <5>4. QED  BY <2>1, <3>2, <5>3 DEF Recorded
      <4>3. Level(s) > Level(Due)  BY <1>0, <4>1, <4>2, OthersComeLater
      <4>4. QED  BY <1>2, <2>1, <4>3 DEF Level
    <3>3. QED  BY <3>1, <3>2 DEF TargetInv
  <2>9. OpenInv'
    <3>1. pc' \notin After /\ pc' \notin {"close", "done", "attach"}
      BY <1>2 DEF After
    <3>2. ASSUME NEW s \in Session, IsOpen(s)'
          PROVE  s = session' \/ Current(s)'
      <4>1. IsOpen(s)  BY <2>1, <3>2 DEF IsOpen
      <4>2. s = session \/ (events[s].cycle = rec.cycle /\ DelayedEntry(s) >= session)
        BY <4>1 DEF MoveInv, OpenInv, Current
      <4>3. QED  BY <1>2, <2>1, <2>3, <3>1, <4>2 DEF Current
    <3>3. QED  BY <3>1, <3>2 DEF OpenInv, At
  <2>10. QED  BY <2>4, <2>5, <2>6, <2>7, <2>8, <2>9 DEF MoveInv, RecordInv
<1>3. QED  BY <1>1, <1>2

LEMMA MoveEnterFirst ==
  ASSUME TypeOK, MoveInv, BookInv, EnterFirst
  PROVE  MoveInv'
<1> DEFINE new == [rec EXCEPT !.phase = "RECOVERY_ACTIVE", !.target = events[Due].target,
                              !.entry = session, !.exit = FixedExit(session)]
<1>1. /\ At("apply") /\ ~Recorded(ApplyKey(Due)) /\ Waiting /\ Same
      /\ Transition(ApplyKey(Due), new, "trim")
  BY DEF EnterFirst
<1>2. Due \in Session /\ IsOpen(Due) /\ events[Due].cycle = rec.cycle
  BY <1>1 DEF BookInv, DueInv, IsOpen
<1>3. FixedExit(session) \in Nat /\ FixedExit(session) > session /\ session \in Nat
  BY IntervalsAssumption DEF TypeOK, Session, FixedExit
<1>4. events[Due].target \in Target  BY <1>2 DEF TypeOK, EventRow
<1>5. /\ new \in RecoveryState /\ new.phase = "RECOVERY_ACTIVE" /\ new.cycle = rec.cycle
      /\ new.target = Level(Due) /\ new.exit = FixedExit(session)
  BY <1>3, <1>4 DEF TypeOK, RecoveryState, Phase, Level
<1> HIDE DEF new
<1>6. QED  BY <1>1, <1>2, <1>3, <1>5, TakeTarget

LEMMA MoveScaleUp ==
  ASSUME TypeOK, MoveInv, BookInv, ScaleUp
  PROVE  MoveInv'
<1> DEFINE new == [rec EXCEPT !.target = events[Due].target]
<1>1. /\ At("apply") /\ ~Recorded(ApplyKey(Due)) /\ Holding /\ Same
      /\ Transition(ApplyKey(Due), new, "applied") \/ Raise("scale")
  BY DEF ScaleUp
<1>2. Due \in Session /\ IsOpen(Due) /\ events[Due].cycle = rec.cycle
  BY <1>1 DEF BookInv, DueInv, IsOpen
<1>3. events[Due].target \in Target  BY <1>2 DEF TypeOK, EventRow
<1>4. /\ new \in RecoveryState /\ new.phase = "RECOVERY_ACTIVE" /\ new.cycle = rec.cycle
      /\ new.target = Level(Due) /\ new.exit = rec.exit /\ new.recovered = rec.recovered
  BY <1>1, <1>3 DEF TypeOK, RecoveryState, Phase, Level, Holding
<1> HIDE DEF new
<1>5. QED  BY <1>1, <1>2, <1>4, TakeTarget, RaiseMove

\* A status is written, and the process goes on.
LEMMA SetMove ==
  ASSUME TypeOK, MoveInv, NEW s \in Session, Known(s), Same,
         NEW st \in EventStatus \ {"NONE"}, st \in {"PENDING", "MATURED"} => IsOpen(s),
         NEW step, SetStatus(s, st, step),
         step # "attach",
         \* Whoever leaves the executions or the ingestion closes the event in question.
         \/ step \notin After
         \/ step = pc
         \/ pc \notin After /\ step = "ingest" /\ s = Due /\ st = "APPLIED"
         \/ pc = "attach" /\ step = "close" /\ s = session /\ st = "CANCELLED"
  PROVE  MoveInv'
<1>1. CASE Raise("illegal")  BY <1>1, RaiseMove
<1>2. CASE /\ events' = [events EXCEPT ![s].status = st] /\ Goto(step)
           /\ UNCHANGED <<rec, journal>>
  <2>1. UNCHANGED <<rec, journal, rows, session>> /\ pc' = step
    BY <1>2 DEF Same, Goto
  <2>2. /\ RecordInv'
        /\ \A t \in Session : /\ IsOpen(t)' => IsOpen(t)
                              /\ events'[t].cycle = events[t].cycle
        /\ IsOpen(s)' <=> st \in {"PENDING", "MATURED"}
    BY <1>2, <2>1, StatusRecord DEF MoveInv
  <2>3. /\ Delay \in Nat /\ session \in Nat /\ Session \subseteq Nat
    BY IntervalsAssumption DEF TypeOK, Session
  <2>4. ASSUME NEW t \in Session, IsOpen(t)'
        PROVE  Current(t)' \/ (t = session' /\ pc' \notin {"close", "done"})
    <3>1. /\ IsOpen(t) /\ events'[t].cycle = events[t].cycle
          /\ Current(t) \/ (t = session /\ pc \notin {"close", "done"})
      BY <2>2, <2>4 DEF MoveInv, OpenInv
    <3>2. CASE step \notin After \/ step = pc
      BY <2>1, <3>1, <3>2 DEF Current, Waiting, Holding, After
    <3>3. CASE pc \notin After /\ step = "ingest" /\ s = Due /\ st = "APPLIED"
      <4>1. t # Due  BY <2>2, <2>4, <3>3
      <4>2. Current(t) => DelayedEntry(t) > session
        BY <2>3, <4>1 DEF Current, DelayedEntry, Due
      <4>3. QED  BY <2>1, <3>1, <3>3, <4>2 DEF Current, Waiting, Holding
    <3>4. CASE pc = "attach" /\ step = "close" /\ s = session /\ st = "CANCELLED"
      <4>1. t # session  BY <2>2, <2>4, <3>4
      <4>2. QED  BY <2>1, <3>1, <3>4, <4>1 DEF Current, Waiting, Holding, After
    <3>5. QED  BY <3>2, <3>3, <3>4
  <2>5. OpenInv'  BY <2>1, <2>4 DEF OpenInv, At
  <2>6. QED  BY <2>2, <2>5 DEF MoveInv
<1>3. QED  BY <1>1, <1>2 DEF SetStatus

\* A step of the process alone, within the executions or after them.
LEMMA GotoMove ==
  ASSUME MoveInv, Same, NEW step, Goto(step), UNCHANGED database, step # "attach",
         step \in After =>
           /\ pc \in After \/ \A s \in Session : Current(s) => DelayedEntry(s) > session
           /\ step \in {"close", "done"} =>
                pc \in {"close", "done"} \/ ~IsOpen(session) \/ Current(session)
  PROVE  MoveInv'
<1>1. RecordInv'  BY StayRecord DEF MoveInv, Same
<1>2. UNCHANGED <<rec, events, session>> /\ pc' = step
  BY DEF Same, database, Goto
<1>3. ASSUME NEW s \in Session, IsOpen(s)'
      PROVE  Current(s)' \/ (s = session' /\ pc' \notin {"close", "done"})
  <2>1. IsOpen(s) /\ (Current(s) \/ (s = session /\ pc \notin {"close", "done"}))
    BY <1>2, <1>3 DEF IsOpen, MoveInv, OpenInv
  <2>2. Current(s) => Current(s)'
    BY <1>2 DEF Current, Waiting, Holding
  <2>3. QED  BY <1>2, <2>1, <2>2 DEF After
<1>4. OpenInv'  BY <1>2, <1>3 DEF OpenInv, At
<1>5. QED  BY <1>1, <1>4 DEF MoveInv

LEMMA OpenIsKnown == \A s : IsOpen(s) => Known(s)
BY DEF IsOpen, Known

LEMMA MoveExecute ==
  ASSUME TypeOK, MoveInv, BookInv, Execute
  PROVE  MoveInv'
<1>0. /\ Delay \in Nat /\ session \in Session /\ session \in Nat /\ Session \subseteq Nat
      /\ {"CANCELLED", "MATURED", "APPLIED"} \subseteq EventStatus \ {"NONE"}
  BY IntervalsAssumption DEF TypeOK, Session, EventStatus
<1>1. CASE RearmAtExit  BY <1>1, MoveRearmAtExit
<1>2. CASE MissedExit \/ Orphan \/ MissedEntry
  BY <1>2, RaiseMove DEF MissedExit, Orphan, MissedEntry
<1>3. CASE CancelAtExit
  <2>1. PICK s \in OpenOf(rec.cycle) : SetStatus(s, "CANCELLED", "process")
    BY <1>3 DEF CancelAtExit, FirstOf
  <2>2. s \in Session /\ Known(s)  BY <2>1, OpenIsKnown DEF OpenOf
  <2>3. Same /\ "process" \notin After  BY <1>3 DEF CancelAtExit, After
  <2>4. QED  BY <1>0, <2>1, <2>2, <2>3, SetMove
<1>4. CASE TakeFixedExit  BY <1>4, MoveTakeFixedExit
<1>5. CASE Mature
  <2>1. /\ SetStatus(Due, "MATURED", "apply") /\ Same /\ Due \in Session /\ IsOpen(Due)
        /\ "apply" \notin After
    BY <1>5 DEF Mature, OpenOf, After
  <2>2. QED  BY <1>0, <2>1, OpenIsKnown, SetMove
<1>6. CASE NothingToExecute
  <2>1. Goto("ingest") /\ UNCHANGED database /\ Same  BY <1>6 DEF NothingToExecute
  <2>2. ASSUME NEW s \in Session, IsOpen(s), Current(s) PROVE DelayedEntry(s) > session
    <3>1. (Waiting \/ Holding) /\ s \in OpenOf(rec.cycle) /\ DelayedEntry(s) >= session
      BY <2>2 DEF Current, OpenOf
    <3>2. Due \notin OpenOf(rec.cycle)
      BY <1>6, <2>2, <3>1 DEF NothingToExecute, Guarded, Waiting, Holding
    <3>3. QED  BY <1>0, <3>1, <3>2 DEF Due, DelayedEntry
  <2>3. RecordInv'  BY <2>1, StayRecord DEF MoveInv, Same
  <2>4. UNCHANGED <<rec, events, session>> /\ pc' = "ingest"
    BY <2>1 DEF Same, database, Goto
  <2>5. ASSUME NEW s \in Session, IsOpen(s)' PROVE Current(s)' \/ s = session'
    <3>1. IsOpen(s) /\ (Current(s) \/ s = session)
      BY <2>4, <2>5 DEF IsOpen, MoveInv, OpenInv
    <3>2. Current(s) => DelayedEntry(s) > session  BY <2>2, <3>1
    <3>3. QED  BY <2>4, <3>1, <3>2 DEF Current, Waiting, Holding
  <2>6. OpenInv'  BY <2>4, <2>5 DEF OpenInv, At
  <2>7. QED  BY <2>3, <2>6 DEF MoveInv
<1>7. CASE ResumeApplied
  BY <1>7, GotoMove DEF ResumeApplied, After
<1>8. CASE EnterFirst  BY <1>8, MoveEnterFirst
<1>9. CASE ScaleUp  BY <1>9, MoveScaleUp
<1>10. CASE TrimAfterEntry
  <2>1. CASE Outside = {}
    BY <1>10, <2>1, GotoMove DEF TrimAfterEntry, After
  <2>2. CASE Outside # {}
    <3>1. PICK s \in Outside : SetStatus(s, "CANCELLED", "trim")
      BY <1>10, <2>2 DEF TrimAfterEntry, FirstOf
    <3>2. s \in Session /\ Known(s)  BY <3>1, OpenIsKnown DEF OpenOf, Outside
    <3>3. Same /\ "trim" \notin After  BY <1>10 DEF TrimAfterEntry, After
    <3>4. QED  BY <1>0, <3>1, <3>2, <3>3, SetMove
  <2>3. QED  BY <2>1, <2>2
<1>11. CASE MarkApplied
  <2>1. SetStatus(Due, "APPLIED", "ingest") /\ Same /\ At("applied")
    BY <1>11 DEF MarkApplied
  <2>2. Due \in Session /\ Known(Due)  BY <2>1 DEF BookInv, DueInv, At, Known
  <2>3. pc \notin After  BY <2>1 DEF At, After
  <2>4. QED  BY <1>0, <2>1, <2>2, <2>3, SetMove
<1>12. QED
  BY <1>1, <1>2, <1>3, <1>4, <1>5, <1>6, <1>7, <1>8, <1>9, <1>10, <1>11 DEF Execute

-----------------------------------------------------------------------------
(* The source event, the close, the loop *)

LEMMA MoveEnqueue ==
  ASSUME TypeOK, MoveInv, BookInv, Enqueue
  PROVE  MoveInv'
<1> DEFINE row == [status |-> "PENDING", cycle |-> source.cycle, target |-> source.target]
<1>1. /\ source.event = "ROTATE" /\ ~Known(session) /\ At("ingest")
      /\ events' = [events EXCEPT ![session] = row]
      /\ pc' = "attach" /\ UNCHANGED <<rec, journal, closes, source, session>>
  BY DEF Enqueue, Known, Goto, Same, rows
<1>2. /\ session \in Session /\ events \in [Session -> EventRow] /\ Session \subseteq Nat
      /\ source.cycle \in Nat /\ source.target \in Nat
      /\ \A s \in Session : Level(s) \in Nat
  BY DEF TypeOK, Session, Source, EventRow, Target, Level
<1>3. /\ events'[session] = row /\ Known(session)'
      /\ \A s \in Session : s # session =>
           /\ events'[s] = events[s] /\ (Known(s)' <=> Known(s)) /\ Level(s)' = Level(s)
           /\ (IsOpen(s)' <=> IsOpen(s)) /\ (Recorded(ApplyKey(s))' <=> Recorded(ApplyKey(s)))
  BY <1>1, <1>2 DEF Known, Level, IsOpen, Recorded, ApplyKey, Key
<1>4. Level(session)' = source.target /\ source.target > 0
  BY <1>1, <1>3 DEF Level, MoveInv, RecordInv, SourceInv
<1>5. SourceInv'  BY <1>1 DEF MoveInv, RecordInv, SourceInv
<1>6. \A s \in Session : Known(s) => s < session
  <2>1. \A s \in Session : Known(s) => s <= session /\ s # session
    BY <1>1 DEF MoveInv, RecordInv, EventsAreSignals
  <2>2. QED  BY <1>2, <2>1
<1>7. \A s \in Session : Known(s) /\ events[s].cycle = source.cycle => Level(s) < source.target
  BY <1>1, <1>6 DEF MoveInv, RecordInv, EventsAreSignals
<1>8. EventsAreSignals'
  <2>1. \A s \in Session : Known(s)' =>
          s <= session /\ Level(s)' > 0 /\ events'[s].cycle <= source.cycle
    <3>1. ASSUME NEW s \in Session, s # session, Known(s)'
          PROVE s <= session /\ Level(s)' > 0 /\ events'[s].cycle <= source.cycle
      BY <1>3, <3>1 DEF MoveInv, RecordInv, EventsAreSignals
    <3>2. session <= session /\ events'[session].cycle <= source.cycle  BY <1>2, <1>3
    <3>3. QED  BY <1>1, <1>4, <3>1, <3>2 DEF Level
  <2>2. events'[session].cycle = source.cycle  BY <1>3
  <2>3. \A s \in Session : Known(s)' /\ s < session /\ events'[s].cycle = source.cycle =>
          Level(s)' < source.target
    <3>1. ASSUME NEW s \in Session, Known(s)', s < session, events'[s].cycle = source.cycle
          PROVE  Level(s)' < source.target
      <4>1. s # session  BY <1>2, <3>1
      <4>2. QED  BY <1>3, <1>7, <3>1, <4>1
    <3>2. QED  BY <3>1
  <2>4. ASSUME NEW s \in Session, NEW t \in Session, Known(s)', Known(t)', s < t,
               events'[s].cycle = events'[t].cycle
        PROVE  Level(s)' < Level(t)'
    <3>1. CASE t = session
      <4>1. s # session  BY <1>2, <2>4, <3>1
      <4>2. Level(s)' < source.target  BY <1>3, <1>7, <2>2, <2>4, <3>1, <4>1
      <4>3. Level(t)' = source.target  BY <1>1, <1>4, <3>1 DEF Level
      <4>4. QED  BY <4>2, <4>3
    <3>2. CASE t # session
      <4>1. t < session  BY <1>3, <1>6, <2>4, <3>2
      <4>2. s # session  BY <1>2, <2>4, <4>1
      <4>3. QED  BY <1>3, <2>4, <3>2, <4>2 DEF MoveInv, RecordInv, EventsAreSignals
    <3>3. QED  BY <3>1, <3>2
  <2>5. \A s \in Session : Known(s)' /\ s < session /\ events'[s].cycle = source.cycle =>
          /\ source.mode = "CRASH" => Level(s)' <= source.target
          /\ source.event = "ROTATE" => Level(s)' < source.target
    <3>1. ASSUME NEW s \in Session, Known(s)', s < session, events'[s].cycle = source.cycle
          PROVE  Level(s)' <= source.target /\ Level(s)' < source.target
      BY <1>2, <1>3, <2>3, <3>1
    <3>2. QED  BY <3>1
  <2>6. \A s, t \in Session :
          Known(s)' /\ Known(t)' /\ s < t /\ events'[s].cycle = events'[t].cycle =>
            Level(s)' < Level(t)'
    BY <2>4
  <2>7. QED  BY <1>1, <1>4, <2>1, <2>2, <2>5, <2>6 DEF EventsAreSignals
<1>9. StartInv'
  <2>1. \A s \in Session : IsOpen(s)' => IsOpen(s) \/ s = session  BY <1>3
  <2>2. QED  BY <1>1, <2>1 DEF MoveInv, RecordInv, StartInv, Waiting
<1>10. ExitInv'  BY <1>1 DEF MoveInv, RecordInv, ExitInv, Holding
<1>11. TargetInv'
  <2> SUFFICES ASSUME Holding
               PROVE  /\ \E s \in Session : /\ Known(s)' /\ events'[s].cycle = rec.cycle
                                            /\ Level(s)' = rec.target
                      /\ \A s \in Session :
                           /\ IsOpen(s)' /\ events'[s].cycle = rec.cycle
                           /\ ~Recorded(ApplyKey(s))'
                           => Level(s)' > rec.target
    BY <1>1 DEF TargetInv, Holding
  <2>1. PICK k \in Session : Known(k) /\ events[k].cycle = rec.cycle /\ Level(k) = rec.target
    BY DEF MoveInv, RecordInv, TargetInv
  <2>2. k # session  BY <1>1, <2>1
  <2>3. Known(k)' /\ events'[k].cycle = rec.cycle /\ Level(k)' = rec.target
    BY <1>3, <2>1, <2>2
  <2>4. ASSUME NEW s \in Session, IsOpen(s)', events'[s].cycle = rec.cycle,
               ~Recorded(ApplyKey(s))'
        PROVE  Level(s)' > rec.target
    <3>1. CASE s = session
      <4>1. rec.cycle = source.cycle  BY <1>3, <2>4, <3>1
      <4>2. Level(k) < source.target  BY <1>7, <2>1, <4>1
      <4>3. rec.target < source.target  BY <2>1, <4>2
      <4>4. Level(s)' = source.target  BY <1>1, <1>4, <3>1 DEF Level
      <4>5. rec.target \in Nat  BY <1>2, <2>1
      <4>6. QED  BY <1>2, <4>3, <4>4, <4>5
    <3>2. CASE s # session
      BY <1>3, <2>4, <3>2 DEF MoveInv, RecordInv, TargetInv
    <3>3. QED  BY <3>1, <3>2
  <2>5. QED  BY <2>3, <2>4
<1>12. OpenInv'
  <2>1. ASSUME NEW s \in Session, IsOpen(s)', s # session PROVE Current(s)'
    <3>1. Current(s)  BY <1>3, <2>1 DEF MoveInv, OpenInv
    <3>2. QED  BY <1>1, <1>3, <2>1, <3>1 DEF Current, Waiting, Holding, At, After
  <2>2. IsOpen(session)'  BY <1>1, <1>3 DEF IsOpen
  <2>3. QED  BY <1>1, <2>1, <2>2 DEF OpenInv, At
<1>13. QED  BY <1>5, <1>8, <1>9, <1>10, <1>11, <1>12 DEF MoveInv, RecordInv

LEMMA MoveStartCycle ==
  ASSUME TypeOK, MoveInv, StartCycle
  PROVE  MoveInv'
<1> DEFINE new == [NormalState EXCEPT !.phase = "WAIT_D40", !.cycle = source.cycle,
                                      !.oldAth = source.peak]
           key == Key(source.cycle, "start", session)
<1>1. At("attach") /\ rec.phase = "NORMAL" /\ Transition(key, new, "close") /\ Same
  BY DEF StartCycle
<1>2. ~Waiting /\ ~Holding  BY <1>1 DEF Waiting, Holding
<1>3. key.kind = "start" /\ key.at = session  BY DEF Key
<1>4. ~Recorded(key)
  BY <1>2, <1>3 DEF Recorded, MoveInv, RecordInv, StartInv
<1>5. /\ new.phase = "WAIT_D40" /\ new.cycle = source.cycle /\ new.oldAth = source.peak
  BY DEF NormalState
<1>6. /\ \A j \in journal' : j \in journal \/ j.key = key
      /\ journal \subseteq journal' /\ events' = events
      /\ UNCHANGED <<session, closes, source>>
  BY <1>1, JournalGrows DEF Same, rows
<1>7. /\ IsOpen(session) /\ \A s \in Session : IsOpen(s) => s = session
      /\ session \in Session /\ Known(session)
  BY <1>1, <1>2, OpenIsKnown DEF MoveInv, OpenInv, Current, TypeOK
<1>8. source.event = "ROTATE" /\ events[session].cycle = source.cycle
  BY <1>7 DEF MoveInv, RecordInv, EventsAreSignals
<1>9. CASE \E why \in {"conflict", "illegal"} : Raise(why)
  BY <1>1, <1>9, RaiseMove
<1>10. CASE rec' = new /\ pc' = "close"
  <2> HIDE DEF new, key
  <2>1. Waiting' /\ ~Holding'  BY <1>5, <1>10 DEF Waiting, Holding
  <2>2. SourceInv'  BY <1>6 DEF MoveInv, RecordInv, SourceInv
  <2>3. EventsAreSignals'
    BY <1>6 DEF MoveInv, RecordInv, EventsAreSignals, Known, Level
  <2>4. StartInv'
    <3>1. \A s \in Session : IsOpen(s)' => s = session'  BY <1>6, <1>7 DEF IsOpen
    <3>2. rec'.oldAth = source'.peak /\ source'.event = "ROTATE"
      BY <1>5, <1>6, <1>8, <1>10
    <3>3. session <= session  BY DEF TypeOK, Session
    <3>4. QED
      BY <1>3, <1>6, <2>1, <3>1, <3>2, <3>3 DEF MoveInv, RecordInv, StartInv
  <2>5. ExitInv'
    <3>1. \A j \in journal : j.key.kind = "old-ath-recovered" => j.key.at # session
      BY <1>2, NoneToday DEF MoveInv
    <3>2. QED  BY <1>3, <1>6, <2>1, <3>1 DEF MoveInv, RecordInv, ExitInv
  <2>6. TargetInv'  BY <2>1 DEF TargetInv
  <2>7. OpenInv'
    <3>1. ASSUME NEW s \in Session, IsOpen(s)' PROVE Current(s)'
      <4>1. s = session  BY <1>6, <1>7, <3>1 DEF IsOpen
      <4>2. DelayedEntry(session) > session
        BY IntervalsAssumption DEF TypeOK, Session, DelayedEntry
      <4>3. DelayedEntry(session) >= session
        BY IntervalsAssumption DEF TypeOK, Session, DelayedEntry
      <4>4. events'[s].cycle = rec'.cycle  BY <1>5, <1>6, <1>8, <1>10, <4>1
      <4>5. QED  BY <1>6, <2>1, <4>1, <4>2, <4>3, <4>4 DEF Current
    <3>2. QED  BY <1>10, <3>1 DEF OpenInv, At
  <2>8. QED  BY <2>2, <2>3, <2>4, <2>5, <2>6, <2>7 DEF MoveInv, RecordInv
<1>11. QED  BY <1>1, <1>4, <1>9, <1>10, JournalGrows

LEMMA MoveIngest ==
  ASSUME TypeOK, MoveInv, BookInv, Ingest
  PROVE  MoveInv'
<1>0. /\ session \in Session /\ {"CANCELLED"} \subseteq EventStatus \ {"NONE"}
      /\ DelayedEntry(session) > session /\ DelayedEntry(session) >= session
  BY IntervalsAssumption DEF TypeOK, Session, EventStatus, DelayedEntry
<1>1. CASE NoLadderEvent
  <2>1. ~IsOpen(session)
    BY <1>1, OpenIsKnown DEF NoLadderEvent, MoveInv, RecordInv, EventsAreSignals
  <2>2. QED  BY <1>1, <2>1, GotoMove DEF NoLadderEvent, At, After
<1>2. CASE Enqueue  BY <1>2, MoveEnqueue
<1>3. CASE AlreadyEnqueued
  <2>1. At("ingest") /\ Same  BY <1>3 DEF AlreadyEnqueued
  <2>2. CASE Raise("conflict")  BY <2>1, <2>2, RaiseMove
  <2>3. CASE IsOpen(session) /\ Goto("attach") /\ UNCHANGED database
    <3>1. RecordInv'  BY <2>1, <2>3, StayRecord DEF MoveInv, Same
    <3>2. UNCHANGED <<rec, events, session>> /\ pc' = "attach"
      BY <2>1, <2>3 DEF Same, database, Goto
    <3>3. OpenInv'
      BY <2>1, <2>3, <3>2 DEF MoveInv, OpenInv, Current, IsOpen, Waiting, Holding, At, After
    <3>4. QED  BY <3>1, <3>3 DEF MoveInv
  <2>4. CASE ~IsOpen(session) /\ Goto("close") /\ UNCHANGED database
    BY <2>1, <2>4, GotoMove DEF At, After
  <2>5. QED  BY <1>3, <2>2, <2>3, <2>4 DEF AlreadyEnqueued
<1>4. CASE StartCycle  BY <1>4, MoveStartCycle
<1>5. CASE JoinCycle
  <2>1. At("attach") /\ IsOpen(session) /\ Same /\ Goto("close") /\ UNCHANGED database
    BY <1>5 DEF JoinCycle, MoveInv, OpenInv
  <2>2. events[session].cycle = source.cycle
    BY <2>1, OpenIsKnown DEF MoveInv, RecordInv, EventsAreSignals
  <2>3. Current(session)
    BY <1>0, <1>5, <2>2 DEF JoinCycle, SameCycle, Current
  <2>4. QED  BY <2>1, <2>3, GotoMove DEF At, After
<1>6. CASE CancelOutside
  <2>1. /\ SetStatus(session, "CANCELLED", "close") /\ Same /\ pc = "attach"
        /\ Known(session)
    BY <1>6, OpenIsKnown DEF CancelOutside, At, MoveInv, OpenInv
  <2>2. QED  BY <1>0, <2>1, SetMove DEF After
<1>7. CASE RefuseOverlap \/ RefuseGuarded
  BY <1>7, RaiseMove DEF RefuseOverlap, RefuseGuarded
<1>8. QED  BY <1>1, <1>2, <1>3, <1>4, <1>5, <1>6, <1>7 DEF Ingest

LEMMA CloseOfSession ==
  ASSUME TypeOK
  PROVE  closes[session] \in Nat /\ closes[session] > 0
<1>1. closes \in Seq(Price) /\ session \in Nat /\ session >= 1 /\ session = Len(closes)
  BY DEF TypeOK, Session
<1>2. closes \in [1..Len(closes) -> Price]  BY <1>1
<1>3. session \in 1..Len(closes)  BY <1>1
<1>4. closes[session] \in Price  BY <1>2, <1>3
<1>5. \A x \in Price : x \in Nat /\ x > 0  BY DispatchAssumption
<1>6. QED  BY <1>4, <1>5

LEMMA MoveCancelCycle ==
  ASSUME TypeOK, MoveInv, CancelCycle
  PROVE  MoveInv'
<1> DEFINE key == Key(rec.cycle, "cancel-pre-entry", session)
<1>1. /\ At("close") /\ AtOldAth /\ Waiting /\ OpenOf(rec.cycle) = {}
      /\ Transition(key, NormalState, "done") /\ Same
  BY DEF CancelCycle
<1>2. \A s \in Session : ~IsOpen(s)
  BY <1>1 DEF MoveInv, OpenInv, Current, OpenOf, At
<1>3. CASE pc' = "done"
  <2>1. \A s \in Session : ~IsOpen(s)'  BY <1>1, <1>2, JournalGrows DEF IsOpen
  <2>2. OpenInv'  BY <1>3, <2>1 DEF OpenInv, At
  <2>3. RecordInv'
    <3>1. CASE rec' = rec /\ journal' = journal
      BY <1>1, <3>1, JournalGrows, StayRecord DEF MoveInv, Same, database
    <3>2. CASE rec' = NormalState
      <4>1. \A j \in journal : j.key.kind = "start" => j.key.at # session
        <5>1. closes[session] \in Int /\ rec.oldAth \in Int
          <6>1. closes[session] \in Nat  BY CloseOfSession
          <6>2. QED  BY <6>1 DEF TypeOK, RecoveryState
        <5>2. source.event = "ROTATE" /\ rec.oldAth = source.peak => closes[session] < rec.oldAth
          BY DEF MoveInv, RecordInv, SourceInv
        <5>3. closes[session] >= rec.oldAth  BY <1>1 DEF AtOldAth
        <5>4. QED  BY <5>1, <5>2, <5>3 DEF MoveInv, RecordInv, StartInv
      <4>2. ~Holding  BY <1>1 DEF Holding, Waiting
      <4>3. key.kind = "cancel-pre-entry"  BY DEF Key
      <4>4. rec'.phase = "NORMAL" /\ session \in Nat
        BY <3>2 DEF NormalState, TypeOK, Session
      <4>5. UNCHANGED <<events, rows, session>> /\ \A j \in journal' : j \in journal \/ j.key = key
        BY <1>1, JournalGrows DEF Same
      <4> HIDE DEF key
      <4>6. QED  BY <4>1, <4>2, <4>3, <4>4, <4>5, NoneToday, LeaveRecord DEF MoveInv
    <3>3. QED  BY <1>1, <1>3, <3>1, <3>2, JournalGrows DEF Raise
  <2>4. QED  BY <2>2, <2>3 DEF MoveInv
<1>4. CASE pc' # "done"
  BY <1>1, <1>4, JournalGrows, RaiseMove
<1>5. QED  BY <1>3, <1>4

LEMMA MoveRearmAtOldAth ==
  ASSUME TypeOK, MoveInv, RearmAtOldAth
  PROVE  MoveInv'
<1> DEFINE key == Key(rec.cycle, "rearm-old-ath", session)
<1>1. At("close") /\ Guarded /\ Transition(key, NormalState, "done") /\ Same
  BY DEF RearmAtOldAth
<1>2. ~Waiting /\ ~Holding  BY <1>1 DEF Guarded, Waiting, Holding
<1>3. \A s \in Session : ~IsOpen(s)
  BY <1>1, <1>2 DEF MoveInv, OpenInv, Current, At
<1>4. CASE pc' = "done"
  <2>1. \A s \in Session : ~IsOpen(s)'  BY <1>1, <1>3, JournalGrows DEF IsOpen
  <2>2. OpenInv'  BY <1>4, <2>1 DEF OpenInv, At
  <2>3. RecordInv'
    <3>1. CASE rec' = rec /\ journal' = journal
      BY <1>1, <3>1, JournalGrows, StayRecord DEF MoveInv, Same, database
    <3>2. CASE rec' = NormalState
      <4>1. key.kind = "rearm-old-ath"  BY DEF Key
      <4>2. rec'.phase = "NORMAL" /\ session \in Nat
        BY <3>2 DEF NormalState, TypeOK, Session
      <4>3. UNCHANGED <<events, rows, session>> /\ \A j \in journal' : j \in journal \/ j.key = key
        BY <1>1, JournalGrows DEF Same
      <4> HIDE DEF key
      <4>4. QED  BY <1>2, <4>1, <4>2, <4>3, NoneToday, LeaveRecord DEF MoveInv
    <3>3. QED  BY <1>1, <1>4, <3>1, <3>2, JournalGrows DEF Raise
  <2>4. QED  BY <2>2, <2>3 DEF MoveInv
<1>5. CASE pc' # "done"
  BY <1>1, <1>5, JournalGrows, RaiseMove
<1>6. QED  BY <1>4, <1>5

LEMMA MoveRecordRecovered ==
  ASSUME TypeOK, MoveInv, HoldInv, RecordRecovered
  PROVE  MoveInv'
<1> DEFINE key == Key(rec.cycle, "old-ath-recovered", session)
           new == [rec EXCEPT !.recovered = TRUE]
<1>1. At("close") /\ Holding /\ Transition(key, new, "done") /\ Same
  BY DEF RecordRecovered
<1>2. session < rec.exit /\ session <= session
  BY <1>1 DEF HoldInv, At, After, TypeOK, Session
<1>3. /\ key.kind = "old-ath-recovered" /\ key.at = session
      /\ new.phase = rec.phase /\ new.cycle = rec.cycle /\ new.target = rec.target
      /\ new.exit = rec.exit /\ new.recovered
  BY DEF Key, TypeOK, RecoveryState
<1>4. /\ \A j \in journal' : j \in journal \/ j.key = key
      /\ journal \subseteq journal' /\ events' = events
      /\ UNCHANGED <<session, closes, source>>
  BY <1>1, JournalGrows DEF Same, rows
<1>5. CASE \E why \in {"conflict", "illegal"} : Raise(why)
  BY <1>1, <1>5, RaiseMove
<1>6. CASE rec' = rec /\ journal' = journal /\ pc' = "done"
  <2>1. RecordInv'  BY <1>1, <1>4, <1>6, StayRecord DEF MoveInv, Same, database
  <2>2. OpenInv'
    BY <1>1, <1>4, <1>6
    DEF MoveInv, OpenInv, Current, IsOpen, Waiting, Holding, At, After
  <2>3. QED  BY <2>1, <2>2 DEF MoveInv
<1>7. CASE rec' = new /\ pc' = "done"
  <2> HIDE DEF new, key
  <2>1. Holding' /\ ~Waiting  BY <1>1, <1>3, <1>7 DEF Holding, Waiting
  <2>2. SourceInv'  BY <1>4 DEF MoveInv, RecordInv, SourceInv
  <2>3. EventsAreSignals'
    BY <1>4 DEF MoveInv, RecordInv, EventsAreSignals, Known, Level
  <2>4. StartInv'
    <3>1. \A j \in journal : j.key.kind = "start" => j.key.at # session
      BY <2>1, NoneToday DEF MoveInv
    <3>2. QED  BY <1>3, <1>4, <3>1 DEF MoveInv, RecordInv, StartInv
  <2>5. ExitInv'
    BY <1>1, <1>2, <1>3, <1>4, <1>7, <2>1 DEF MoveInv, RecordInv, ExitInv
  <2>6. TargetInv'
    BY <1>1, <1>3, <1>4, <1>7
    DEF MoveInv, RecordInv, TargetInv, Known, Level, IsOpen, Recorded, ApplyKey, Key
  <2>7. OpenInv'
    BY <1>1, <1>3, <1>4, <1>7, <2>1
    DEF MoveInv, OpenInv, Current, IsOpen, At, After
  <2>8. QED  BY <2>2, <2>3, <2>4, <2>5, <2>6, <2>7 DEF MoveInv, RecordInv
<1>8. QED  BY <1>1, <1>5, <1>6, <1>7, JournalGrows

LEMMA MoveObserve ==
  ASSUME TypeOK, MoveInv, HoldInv, Observe
  PROVE  MoveInv'
<1>1. CASE NothingObserved
  BY <1>1, GotoMove DEF NothingObserved, At, After
<1>2. CASE CancelAtOldAth
  <2>1. PICK s \in OpenOf(rec.cycle) : SetStatus(s, "CANCELLED", "close")
    BY <1>2 DEF CancelAtOldAth, FirstOf
  <2>2. s \in Session /\ Known(s)  BY <2>1, OpenIsKnown DEF OpenOf
  <2>3. Same /\ pc = "close"  BY <1>2 DEF CancelAtOldAth, At
  <2>4. "CANCELLED" \in EventStatus \ {"NONE"}  BY DEF EventStatus
  <2>5. QED  BY <2>1, <2>2, <2>3, <2>4, SetMove
<1>3. CASE CancelCycle  BY <1>3, MoveCancelCycle
<1>4. CASE RecordRecovered  BY <1>4, MoveRecordRecovered
<1>5. CASE RearmAtOldAth  BY <1>5, MoveRearmAtOldAth
<1>6. QED  BY <1>1, <1>2, <1>3, <1>4, <1>5 DEF Observe

LEMMA MoveNextSession ==
  ASSUME TypeOK, MoveInv, HoldInv, NextSession
  PROVE  MoveInv'
<1>1. /\ At("done") /\ NextRow /\ UNCHANGED <<rec, events, journal>> /\ pc' = "process"
      /\ session' = session + 1 /\ session \in Nat
  BY DEF NextSession, Goto, database, NextRow, TypeOK, Session
<1>2. SourceInv' /\ EventsAreSignals'
  BY <1>1, RowsStep DEF MoveInv, RecordInv
<1>3. \A j \in journal : j.key.kind \in {"start", "old-ath-recovered", "fixed-exit"} =>
        j.key.at <= session /\ j.key.at \in Nat
  BY DEF MoveInv, RecordInv, StartInv, ExitInv, TypeOK, JournalRow
<1>4. \A j \in journal : j.key.kind \in {"start", "old-ath-recovered", "fixed-exit"} =>
        j.key.at <= session' /\ j.key.at # session'
  BY <1>1, <1>3
<1>5. StartInv'  BY <1>1, <1>4 DEF StartInv
<1>6. ExitInv'
  <2>1. Holding => session < rec.exit /\ rec.exit \in Nat
    BY <1>1 DEF HoldInv, At, After, TypeOK, RecoveryState
  <2>2. Holding' => session' <= rec'.exit  BY <1>1, <2>1 DEF Holding
  <2>3. QED  BY <1>1, <1>4, <2>2 DEF ExitInv, Holding, MoveInv, RecordInv
<1>7. TargetInv'
  BY <1>1 DEF MoveInv, RecordInv, TargetInv, Holding, Known, Level, IsOpen, Recorded, ApplyKey, Key
<1>8. OpenInv'
  <2>1. ASSUME NEW s \in Session, IsOpen(s)' PROVE Current(s)'
    <3>1. Current(s)  BY <1>1, <2>1 DEF IsOpen, MoveInv, OpenInv, At
    <3>2. DelayedEntry(s) >= session'
      BY <1>1, <3>1, IntervalsAssumption DEF Current, At, After, DelayedEntry, Session
    <3>3. QED  BY <1>1, <3>1, <3>2 DEF Current, Waiting, Holding, After
  <2>2. QED  BY <1>1, <2>1 DEF OpenInv, At
<1>9. QED  BY <1>2, <1>5, <1>6, <1>7, <1>8 DEF MoveInv, RecordInv

LEMMA MoveStep ==
  ASSUME TypeOK, MoveInv, BookInv, HoldInv, [Next]_vars, missed' = 0
  PROVE  MoveInv'
<1>1. CASE Execute  BY <1>1, MoveExecute
<1>2. CASE Ingest  BY <1>2, MoveIngest
<1>3. CASE Observe  BY <1>3, MoveObserve
<1>4. CASE NextSession  BY <1>4, MoveNextSession
<1>5. CASE Miss
  BY <1>5 DEF Miss, TypeOK
<1>6. CASE Restart \/ UNCHANGED vars
  <2>1. /\ UNCHANGED <<database, rows, session>>
        /\ pc' = "process" \/ pc' = pc
    BY <1>6 DEF Restart, Goto, vars, database, rows
  <2>2. RecordInv'  BY <2>1, StayRecord DEF MoveInv
  <2>3. UNCHANGED <<rec, events, session>>  BY <2>1 DEF database
  <2>4. OpenInv'
    BY <2>1, <2>3 DEF MoveInv, OpenInv, Current, IsOpen, Waiting, Holding, At, After
  <2>5. QED  BY <2>2, <2>4 DEF MoveInv
<1>7. QED  BY <1>1, <1>2, <1>3, <1>4, <1>5, <1>6 DEF Next

-----------------------------------------------------------------------------
(* Nothing is left behind *)

LEMMA MoveInit == Init => MoveInv
<1> SUFFICES ASSUME Init PROVE MoveInv
  OBVIOUS
<1>1. PICK price \in Price : closes = <<price>> /\ source = ObserveClose(NoRows, price)
  BY DEF Init
<1>2. price \in Nat \ {0} /\ NoRows \in Source /\ NoRows.mode = "NORMAL" /\ session = 1
  BY DispatchAssumption, NoRowsType DEF NoRows, Init
<1>3. /\ source.mode = "CRASH" => source.target > 0 /\ source.cycle > 0
      /\ source.event = "ROTATE" => source.mode = "CRASH" /\ price < source.peak
  BY <1>1, <1>2, SourceStep
<1>4. closes[session] = price  BY <1>1, <1>2
<1>5. SourceInv  BY <1>3, <1>4 DEF SourceInv
<1>6. \A s \in Session : ~Known(s) /\ ~IsOpen(s)
  BY DEF Init, Known, IsOpen, NoEvent
<1>7. session \in Session  BY <1>2, DispatchAssumption DEF Session
<1>8. journal = {} /\ ~Holding /\ ~At("attach")
  BY DEF Init, NormalState, Holding, At
<1>9. QED
  BY <1>5, <1>6, <1>7, <1>8
  DEF MoveInv, RecordInv, EventsAreSignals, StartInv, ExitInv, TargetInv, OpenInv

\* The invariants hold until a session is missed.
Unmissed == missed = 0 => BookInv /\ MoveInv

LEMMA AlwaysMoves == Spec => [](TypeInv /\ HoldInv /\ Unmissed)
<1> DEFINE Inv == TypeInv /\ HoldInv /\ Unmissed
<1>1. Init => Inv
  BY TypeInit, BookInit, MoveInit DEF Init, TypeInv, HoldInv, Unmissed, At, After
<1>2. Inv /\ [Next]_vars => Inv'
  <2> SUFFICES ASSUME Inv, [Next]_vars PROVE Inv'
    OBVIOUS
  <2>1. TypeOK /\ TypeInv'  BY TypeStep DEF TypeInv
  <2>2. HoldInv'  BY <2>1, HoldExecute, HoldIngest, HoldObserve, HoldLoop DEF Next
  <2>3. ASSUME missed' = 0 PROVE BookInv' /\ MoveInv'
    <3>1. missed = 0  BY <2>1, <2>3, MissedStays
    <3>2. QED  BY <2>1, <2>3, <3>1, BookStep, MoveStep DEF Unmissed
  <2>4. QED  BY <2>1, <2>2, <2>3 DEF Unmissed
<1>3. QED  BY <1>1, <1>2, PTL DEF Spec

\* A finished session leaves no delayed event that no later session would look
\* at: every open one is of the running cycle and matures in the future, as long
\* as no session is missed.
THEOREM NoEventLeftBehind == Spec => []OpenEventsAreCurrent
<1>1. TypeInv /\ Unmissed => OpenEventsAreCurrent
  BY DEF Unmissed, MoveInv, OpenInv, Current, OpenEventsAreCurrent, At, After
<1>2. QED  BY <1>1, AlwaysMoves, PTL

-----------------------------------------------------------------------------
(* Nothing is refused *)

\* The rows that end a cycle say so.
EndsInv ==
  \A j \in journal :
    j.key.kind \in {"rearm-after-fixed-exit", "cancel-pre-entry", "rearm-old-ath"} =>
      j.new = NormalState

ErrorInv == error \notin {"illegal", "conflict", "scale", "missed"}

LEMMA EndRow ==
  ASSUME EndsInv, NEW key, NEW new, NEW step, Transition(key, new, step),
         \/ key.kind \notin {"rearm-after-fixed-exit", "cancel-pre-entry", "rearm-old-ath"}
         \/ new = NormalState
  PROVE  EndsInv'
BY DEF Transition, Raise, database, EndsInv

LEMMA EndsStep ==
  ASSUME EndsInv, [Next]_vars
  PROVE  EndsInv'
<1>1. CASE EnterFirst \/ ScaleUp
  <2>1. ApplyKey(Due).kind = "apply"  BY DEF ApplyKey, Key
  <2>2. CASE Raise("scale")  BY <2>2 DEF Raise, database, EndsInv
  <2>3. QED  BY <1>1, <2>1, <2>2, EndRow DEF EnterFirst, ScaleUp
<1>2. CASE TakeFixedExit
  <2>1. ExitKey.kind = "fixed-exit"  BY DEF ExitKey, Key
  <2>2. QED  BY <1>2, <2>1, EndRow DEF TakeFixedExit
<1>3. CASE StartCycle
  <2>1. Key(source.cycle, "start", session).kind = "start"  BY DEF Key
  <2>2. QED  BY <1>3, <2>1, EndRow DEF StartCycle
<1>4. CASE RecordRecovered
  <2>1. Key(rec.cycle, "old-ath-recovered", session).kind = "old-ath-recovered"  BY DEF Key
  <2>2. QED  BY <1>4, <2>1, EndRow DEF RecordRecovered
<1>5. CASE RearmAtExit \/ CancelCycle \/ RearmAtOldAth
  BY <1>5, EndRow DEF RearmAtExit, CancelCycle, RearmAtOldAth
<1>6. CASE \/ MissedExit \/ CancelAtExit \/ Orphan \/ MissedEntry \/ Mature
           \/ NothingToExecute \/ ResumeApplied \/ TrimAfterEntry \/ MarkApplied
  BY <1>6 DEF MissedExit, CancelAtExit, Orphan, MissedEntry, Mature, NothingToExecute,
     ResumeApplied, TrimAfterEntry, MarkApplied, SetStatus, Raise, database, EndsInv
<1>7. CASE \/ NoLadderEvent \/ Enqueue \/ AlreadyEnqueued \/ JoinCycle
           \/ CancelOutside \/ RefuseOverlap \/ RefuseGuarded
  BY <1>7 DEF NoLadderEvent, Enqueue, AlreadyEnqueued, JoinCycle, CancelOutside,
     RefuseOverlap, RefuseGuarded, SetStatus, Raise, database, EndsInv
<1>8. CASE NothingObserved \/ CancelAtOldAth \/ NextSession \/ Miss \/ Restart \/ UNCHANGED vars
  BY <1>8 DEF NothingObserved, CancelAtOldAth, NextSession, Miss, Restart, SetStatus,
     Raise, database, EndsInv, vars
<1>9. QED
  BY <1>1, <1>2, <1>3, <1>4, <1>5, <1>6, <1>7, <1>8 DEF Next, Execute, Ingest, Observe

\* A transition that is allowed, and whose key is free or holds the same row.
LEMMA Accepted ==
  ASSUME NEW key, NEW new, NEW step, Transition(key, new, step),
         Recorded(key) => [key |-> key, new |-> new] \in journal,
         new.phase \in Allowed(rec.phase), KeepsHold(new), Valid(new)
  PROVE  error' = "none"
BY DEF Transition, Goto

LEMMA EndIsReplayed ==
  ASSUME TypeOK, EndsInv, NEW key, Recorded(key),
         key.kind \in {"rearm-after-fixed-exit", "cancel-pre-entry", "rearm-old-ath"}
  PROVE  [key |-> key, new |-> NormalState] \in journal
<1>1. PICK j \in journal : j.key = key  BY DEF Recorded
<1>2. j = [key |-> j.key, new |-> j.new]  BY DEF TypeOK, JournalRow
<1>3. QED  BY <1>1, <1>2 DEF EndsInv

LEMMA CleanExecute ==
  ASSUME TypeOK, MoveInv, BookInv, EndsInv, Execute
  PROVE  ErrorInv'
<1> USE DEF ErrorInv
<1>0. /\ Delay \in Nat /\ session \in Nat /\ session > 0 /\ Session \subseteq Nat
      /\ rec.exit \in Nat /\ rec.oldAth \in Nat /\ rec.cycle \in Nat /\ rec.target \in Nat
      /\ rec \in RecoveryState /\ Valid(rec) /\ events \in [Session -> EventRow]
  BY IntervalsAssumption DEF TypeOK, Session, RecoveryState, Target
<1>1. CASE RearmAtExit
  <2> DEFINE key == Key(rec.cycle, "rearm-after-fixed-exit", rec.exit)
  <2>1. Guarded /\ Transition(key, NormalState, "ingest")  BY <1>1 DEF RearmAtExit
  <2>2. key.kind = "rearm-after-fixed-exit"  BY DEF Key
  <2>3. /\ NormalState.phase \in Allowed(rec.phase) /\ KeepsHold(NormalState)
        /\ Valid(NormalState)
    BY <2>1 DEF Guarded, Allowed, KeepsHold, Valid, NormalState
  <2>4. Recorded(key) => [key |-> key, new |-> NormalState] \in journal
    BY <2>2, EndIsReplayed
  <2> HIDE DEF key
  <2>5. QED  BY <2>1, <2>3, <2>4, Accepted
<1>2. CASE MissedExit
  BY <1>0, <1>2 DEF MissedExit, MoveInv, RecordInv, ExitInv
<1>3. CASE CancelAtExit
  <2>1. PICK s \in OpenOf(rec.cycle) : SetStatus(s, "CANCELLED", "process")
    BY <1>3 DEF CancelAtExit, FirstOf
  <2>2. QED  BY <2>1 DEF OpenOf, IsOpen, SetStatus, AllowedStatus, Goto
<1>4. CASE TakeFixedExit
  <2> DEFINE new == [rec EXCEPT !.phase = "OLD_ATH_GUARD", !.target = 0]
  <2>1. Holding /\ Transition(ExitKey, new, "process")  BY <1>4 DEF TakeFixedExit
  <2>2. ~Recorded(ExitKey)
    BY <2>1 DEF Recorded, ExitKey, Key, MoveInv, RecordInv, ExitInv
  <2>3. /\ new.phase = "OLD_ATH_GUARD" /\ new.target = 0 /\ new.cycle = rec.cycle
        /\ new.oldAth = rec.oldAth /\ new.entry = rec.entry /\ new.exit = rec.exit
    BY <1>0 DEF RecoveryState
  <2> HIDE DEF new
  <2>4. new.phase \in Allowed(rec.phase) /\ KeepsHold(new) /\ Valid(new)
    BY <1>0, <2>1, <2>3 DEF Holding, Allowed, KeepsHold, Valid
  <2>5. QED  BY <2>1, <2>2, <2>4, Accepted
<1>5. CASE Orphan  BY <1>5 DEF Orphan, Raise
<1>6. CASE MissedEntry
  <2>1. PICK s \in Session : IsOpen(s) /\ DelayedEntry(s) < session
    BY <1>6 DEF MissedEntry, Overdue, OpenOf
  <2>2. DelayedEntry(s) >= session \/ s = session
    BY <2>1 DEF MoveInv, OpenInv, Current
  <2>3. QED  BY <1>0, <2>1, <2>2 DEF DelayedEntry
<1>7. CASE Mature
  BY <1>7 DEF Mature, OpenOf, IsOpen, SetStatus, AllowedStatus, Goto
<1>8. CASE NothingToExecute \/ ResumeApplied
  BY <1>8 DEF NothingToExecute, ResumeApplied, Goto
<1>9. CASE EnterFirst
  <2> DEFINE new == [rec EXCEPT !.phase = "RECOVERY_ACTIVE", !.target = events[Due].target,
                                !.entry = session, !.exit = FixedExit(session)]
  <2>1. /\ At("apply") /\ ~Recorded(ApplyKey(Due)) /\ Waiting
        /\ Transition(ApplyKey(Due), new, "trim")
    BY <1>9 DEF EnterFirst
  <2>2. Due \in Session /\ Known(Due)  BY <2>1 DEF BookInv, DueInv, Known
  <2>3. events[Due].target > 0
    BY <2>2 DEF MoveInv, RecordInv, EventsAreSignals, Level
  <2>4. /\ new.phase = "RECOVERY_ACTIVE" /\ new.target = events[Due].target
        /\ new.cycle = rec.cycle /\ new.oldAth = rec.oldAth
        /\ new.entry = session /\ new.exit = FixedExit(session)
    BY <1>0 DEF RecoveryState
  <2>5. FixedExit(session) # 0  BY <1>0, IntervalsAssumption DEF FixedExit
  <2> HIDE DEF new
  <2>6. new.phase \in Allowed(rec.phase) /\ KeepsHold(new) /\ Valid(new)
    BY <1>0, <2>1, <2>3, <2>4, <2>5 DEF Waiting, Allowed, KeepsHold, Valid
  <2>7. QED  BY <2>1, <2>6, Accepted
<1>10. CASE ScaleUp
  <2> DEFINE new == [rec EXCEPT !.target = events[Due].target]
  <2>1. At("apply") /\ ~Recorded(ApplyKey(Due)) /\ Holding
    BY <1>10 DEF ScaleUp
  <2>2. Due \in Session /\ IsOpen(Due) /\ events[Due].cycle = rec.cycle
    BY <2>1 DEF BookInv, DueInv, IsOpen
  <2>3. events[Due].target > rec.target /\ events[Due].target \in Nat
    BY <1>0, <2>1, <2>2 DEF MoveInv, RecordInv, TargetInv, Level, EventRow, Target
  <2>4. Transition(ApplyKey(Due), new, "applied")  BY <1>10, <2>3 DEF ScaleUp
  <2>5. /\ new.phase = rec.phase /\ new.target = events[Due].target
        /\ new.cycle = rec.cycle /\ new.oldAth = rec.oldAth
        /\ new.entry = rec.entry /\ new.exit = rec.exit
    BY <1>0 DEF RecoveryState
  <2> HIDE DEF new
  <2>6. new.phase \in Allowed(rec.phase) /\ KeepsHold(new) /\ Valid(new)
    BY <1>0, <2>1, <2>3, <2>5 DEF Holding, Allowed, KeepsHold, Valid
  <2>7. QED  BY <2>1, <2>4, <2>6, Accepted
<1>11. CASE TrimAfterEntry
  <2>1. CASE Outside = {}  BY <1>11, <2>1 DEF TrimAfterEntry, Goto
  <2>2. CASE Outside # {}
    <3>1. PICK s \in Outside : SetStatus(s, "CANCELLED", "trim")
      BY <1>11, <2>2 DEF TrimAfterEntry, FirstOf
    <3>2. QED  BY <3>1 DEF Outside, OpenOf, IsOpen, SetStatus, AllowedStatus, Goto
  <2>3. QED  BY <2>1, <2>2
<1>12. CASE MarkApplied
  <2>1. events[Due].status \in {"MATURED", "APPLIED"} /\ SetStatus(Due, "APPLIED", "ingest")
    BY <1>12 DEF MarkApplied, At, BookInv, DueInv
  <2>2. QED  BY <2>1 DEF SetStatus, AllowedStatus, Goto
<1>13. QED
  BY <1>1, <1>2, <1>3, <1>4, <1>5, <1>6, <1>7, <1>8, <1>9, <1>10, <1>11, <1>12 DEF Execute

LEMMA CleanIngest ==
  ASSUME TypeOK, MoveInv, Ingest
  PROVE  ErrorInv'
<1> USE DEF ErrorInv
<1>0. session \in Session  BY DEF TypeOK
<1>1. CASE NoLadderEvent \/ Enqueue \/ JoinCycle \/ RefuseOverlap \/ RefuseGuarded
  BY <1>1 DEF NoLadderEvent, Enqueue, JoinCycle, RefuseOverlap, RefuseGuarded, Goto, Raise
<1>2. CASE AlreadyEnqueued
  <2>1. events[session].cycle = source.cycle /\ events[session].target = source.target
    BY <1>2 DEF AlreadyEnqueued, MoveInv, RecordInv, EventsAreSignals, Known, Level
  <2>2. QED  BY <1>2, <2>1 DEF AlreadyEnqueued, Goto
<1>3. CASE StartCycle
  <2> DEFINE new == [NormalState EXCEPT !.phase = "WAIT_D40", !.cycle = source.cycle,
                                        !.oldAth = source.peak]
             key == Key(source.cycle, "start", session)
  <2>1. At("attach") /\ rec.phase = "NORMAL" /\ Transition(key, new, "close")
    BY <1>3 DEF StartCycle
  <2>2. ~Waiting  BY <2>1 DEF Waiting
  <2>3. ~Recorded(key)
    <3>1. key.kind = "start" /\ key.at = session  BY DEF Key
    <3>2. QED  BY <2>2, <3>1 DEF Recorded, MoveInv, RecordInv, StartInv
  <2>4. source.event = "ROTATE"
    BY <2>1, OpenIsKnown DEF MoveInv, OpenInv, RecordInv, EventsAreSignals
  <2>5. source.cycle > 0 /\ closes[session] < source.peak
    BY <2>4 DEF MoveInv, RecordInv, SourceInv
  <2>6. source.peak > 0
    <3>1. source.peak \in Nat  BY DEF TypeOK, Source
    <3>2. QED  BY <2>5, <3>1, CloseOfSession
  <2>7. /\ new.phase = "WAIT_D40" /\ new.cycle = source.cycle /\ new.oldAth = source.peak
        /\ new.target = 0 /\ new.entry = 0 /\ new.exit = 0
    BY DEF NormalState
  <2> HIDE DEF new, key
  <2>8. new.phase \in Allowed(rec.phase) /\ KeepsHold(new) /\ Valid(new)
    BY <2>1, <2>5, <2>6, <2>7 DEF Allowed, KeepsHold, Valid
  <2>9. QED  BY <2>1, <2>3, <2>8, Accepted
<1>4. CASE CancelOutside
  <2>1. IsOpen(session) /\ SetStatus(session, "CANCELLED", "close")
    BY <1>4 DEF CancelOutside, MoveInv, OpenInv
  <2>2. QED  BY <2>1 DEF IsOpen, SetStatus, AllowedStatus, Goto
<1>5. QED  BY <1>1, <1>2, <1>3, <1>4 DEF Ingest

LEMMA CleanObserve ==
  ASSUME TypeOK, MoveInv, EndsInv, Observe
  PROVE  ErrorInv'
<1> USE DEF ErrorInv
<1>0. rec \in RecoveryState /\ Valid(rec) /\ rec.target \in Nat
  BY DEF TypeOK, RecoveryState, Target
<1>1. CASE NothingObserved  BY <1>1 DEF NothingObserved, Goto
<1>2. CASE CancelAtOldAth
  <2>1. PICK s \in OpenOf(rec.cycle) : SetStatus(s, "CANCELLED", "close")
    BY <1>2 DEF CancelAtOldAth, FirstOf
  <2>2. QED  BY <2>1 DEF OpenOf, IsOpen, SetStatus, AllowedStatus, Goto
<1>3. CASE CancelCycle
  <2> DEFINE key == Key(rec.cycle, "cancel-pre-entry", session)
  <2>1. Waiting /\ Transition(key, NormalState, "done")  BY <1>3 DEF CancelCycle
  <2>2. Recorded(key) => [key |-> key, new |-> NormalState] \in journal
    <3>1. key.kind = "cancel-pre-entry"  BY DEF Key
    <3>2. QED  BY <3>1, EndIsReplayed
  <2> HIDE DEF key
  <2>3. /\ NormalState.phase \in Allowed(rec.phase) /\ KeepsHold(NormalState)
        /\ Valid(NormalState)
    BY <2>1 DEF Waiting, Allowed, KeepsHold, Valid, NormalState
  <2>4. QED  BY <2>1, <2>2, <2>3, Accepted
<1>4. CASE RecordRecovered
  <2> DEFINE key == Key(rec.cycle, "old-ath-recovered", session)
             new == [rec EXCEPT !.recovered = TRUE]
  <2>1. Holding /\ ~rec.recovered /\ Transition(key, new, "done")
    BY <1>4 DEF RecordRecovered
  <2>2. ~Recorded(key)
    <3>1. key.kind = "old-ath-recovered" /\ key.at = session  BY DEF Key
    <3>2. QED  BY <2>1, <3>1 DEF Recorded, MoveInv, RecordInv, ExitInv
  <2>3. /\ new.phase = rec.phase /\ new.target = rec.target
        /\ new.cycle = rec.cycle /\ new.oldAth = rec.oldAth
        /\ new.entry = rec.entry /\ new.exit = rec.exit
    BY <1>0 DEF RecoveryState
  <2> HIDE DEF new, key
  <2>4. new.phase \in Allowed(rec.phase) /\ KeepsHold(new) /\ Valid(new)
    BY <1>0, <2>1, <2>3 DEF Holding, Allowed, KeepsHold, Valid
  <2>5. QED  BY <2>1, <2>2, <2>4, Accepted
<1>5. CASE RearmAtOldAth
  <2> DEFINE key == Key(rec.cycle, "rearm-old-ath", session)
  <2>1. Guarded /\ Transition(key, NormalState, "done")  BY <1>5 DEF RearmAtOldAth
  <2>2. Recorded(key) => [key |-> key, new |-> NormalState] \in journal
    <3>1. key.kind = "rearm-old-ath"  BY DEF Key
    <3>2. QED  BY <3>1, EndIsReplayed
  <2> HIDE DEF key
  <2>3. /\ NormalState.phase \in Allowed(rec.phase) /\ KeepsHold(NormalState)
        /\ Valid(NormalState)
    BY <2>1 DEF Guarded, Allowed, KeepsHold, Valid, NormalState
  <2>4. QED  BY <2>1, <2>2, <2>3, Accepted
<1>6. QED  BY <1>1, <1>2, <1>3, <1>4, <1>5 DEF Observe

\* The dispatcher never asks the store for a transition or a status it refuses,
\* and no crash makes it report a session as missed, when none is.
THEOREM NothingRefused == MissBudget = 0 => (Spec => []LegalMoves)
<1> SUFFICES ASSUME MissBudget = 0 PROVE Spec => []LegalMoves
  OBVIOUS
<1>1. Init => EndsInv /\ ErrorInv  BY DEF Init, EndsInv, ErrorInv
<1>2. TypeInv /\ Unmissed => TypeOK /\ BookInv /\ MoveInv
  BY DEF TypeInv, TypeOK, Unmissed
<1>3. TypeInv /\ Unmissed /\ EndsInv /\ ErrorInv /\ [Next]_vars => EndsInv' /\ ErrorInv'
  <2> SUFFICES ASSUME TypeInv, Unmissed, EndsInv, ErrorInv, [Next]_vars
               PROVE  EndsInv' /\ ErrorInv'
    OBVIOUS
  <2>1. EndsInv'  BY EndsStep
  <2>2. CASE Execute \/ Ingest \/ Observe
    <3>1. TypeOK /\ BookInv /\ MoveInv  BY <1>2
    <3>2. QED  BY <2>1, <2>2, <3>1, CleanExecute, CleanIngest, CleanObserve
  <2>3. CASE NextSession \/ Miss \/ Restart \/ UNCHANGED vars
    <3>1. error' = "none" \/ error' = error
      BY <2>3 DEF NextSession, Miss, Restart, vars, Goto
    <3>2. QED  BY <2>1, <3>1 DEF ErrorInv
  <2>4. QED  BY <2>1, <2>2, <2>3 DEF Next
<1>4. ErrorInv => LegalMoves  BY DEF ErrorInv, LegalMoves
<1>5. QED  BY <1>1, <1>3, <1>4, AlwaysMoves, PTL DEF Spec
=============================================================================
