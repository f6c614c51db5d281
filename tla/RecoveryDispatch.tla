-------------------------- MODULE RecoveryDispatch --------------------------
(***************************************************************************)
(* The durable half of the SP2 recovery engine: the singleton state, the   *)
(* delayed events and the transition journal of recovery/state_v01.py,     *)
(* driven session by session by recovery/durable_dispatcher_v01.py in the  *)
(* order of replay_compiled_history_to_store: what executes at a session,  *)
(* the source event of its close, then the close itself.                   *)
(*                                                                         *)
(* An action is one SQLite transaction together with the reads before it;  *)
(* the process can die between any two. An exception ends the process: it  *)
(* is pc = "raised", and only another run of the program leaves it.        *)
(***************************************************************************)
EXTENDS CausalCompiler

CONSTANTS
  Price,        \* completed closes
  LastSession,  \* bound on the sessions
  Leaps,        \* whether a close may jump from CRASH to the old ATH
  CrashBudget,  \* bound on the process deaths
  MissBudget    \* bound on the sessions at which nothing is run

ASSUME DispatchAssumption ==
  /\ Price \subseteq Nat \ {0} /\ LastSession \in Nat \ {0}
  /\ Leaps \in BOOLEAN
  /\ CrashBudget \in Nat /\ MissBudget \in Nat

VARIABLES
  \* the SQLite database
  rec,      \* recovery_state_v01
  events,   \* recovery_pending_events_v01, by signal session
  journal,  \* recovery_transitions_v01
  \* the rows and the compiler's state at the session
  closes, source,
  \* the process
  session, pc, error,
  crashes, missed

database == <<rec, events, journal>>
rows == <<closes, source>>
budgets == <<crashes, missed>>
vars == <<database, rows, session, pc, error, budgets>>

-----------------------------------------------------------------------------
(* recovery/state_v01.py *)

Phase == {"NORMAL", "WAIT_D40", "RECOVERY_ACTIVE", "OLD_ATH_GUARD"}
EventStatus == {"NONE", "PENDING", "MATURED", "APPLIED", "CANCELLED"}
Error == {"none", "illegal", "conflict", "missed", "orphan", "overlap", "guard", "scale"}
Session == 1..LastSession

NormalState == [phase |-> "NORMAL", cycle |-> 0, oldAth |-> 0, target |-> 0,
                entry |-> 0, exit |-> 0, recovered |-> FALSE]
NoEvent == [status |-> "NONE", cycle |-> 0, target |-> 0]

Allowed(from) ==
  CASE from = "NORMAL" -> {"WAIT_D40"}
    [] from = "WAIT_D40" -> {"WAIT_D40", "RECOVERY_ACTIVE", "NORMAL"}
    [] from = "RECOVERY_ACTIVE" -> {"RECOVERY_ACTIVE", "OLD_ATH_GUARD"}
    [] from = "OLD_ATH_GUARD" -> {"NORMAL"}

\* _validate_state_dict
Valid(r) ==
  /\ r.phase = "NORMAL" => r = NormalState
  /\ r.phase # "NORMAL" => r.cycle # 0 /\ r.oldAth > 0
  /\ (r.target > 0) <=> (r.phase = "RECOVERY_ACTIVE")
  /\ r.phase = "WAIT_D40" => r.entry = 0 /\ r.exit = 0
  /\ r.phase \in {"RECOVERY_ACTIVE", "OLD_ATH_GUARD"} => r.entry # 0 /\ r.exit # 0

\* While a hold lasts the target only grows and the clock stands still.
KeepsHold(new) ==
  (rec.phase = "RECOVERY_ACTIVE" /\ new.phase = "RECOVERY_ACTIVE")
    => /\ new.target >= rec.target
       /\ new.entry = rec.entry /\ new.exit = rec.exit

Key(c, kind, at) == [cycle |-> c, kind |-> kind, at |-> at]
Recorded(key) == \E j \in journal : j.key = key

Goto(step) == pc' = step /\ error' = "none"
Raise(why) == pc' = "raised" /\ error' = why /\ UNCHANGED database

\* transition_recovery_state: a key is applied once, a replay must ask for the
\* same state, and a refused transition writes nothing.
Transition(key, new, step) ==
  \/ /\ Recorded(key)
     /\ [key |-> key, new |-> new] \in journal
     /\ Goto(step) /\ UNCHANGED database
  \/ /\ Recorded(key)
     /\ [key |-> key, new |-> new] \notin journal
     /\ Raise("conflict")
  \/ /\ ~Recorded(key)
     /\ new.phase \in Allowed(rec.phase) /\ KeepsHold(new) /\ Valid(new)
     /\ rec' = new
     /\ journal' = journal \cup {[key |-> key, new |-> new]}
     /\ Goto(step) /\ UNCHANGED events
  \/ /\ ~Recorded(key)
     /\ ~(new.phase \in Allowed(rec.phase) /\ KeepsHold(new) /\ Valid(new))
     /\ Raise("illegal")

AllowedStatus(from) ==
  CASE from = "PENDING" -> {"MATURED", "CANCELLED"}
    [] from = "MATURED" -> {"APPLIED", "CANCELLED"}
    [] OTHER -> {}

\* set_delayed_event_status
SetStatus(s, status, step) ==
  \/ /\ status \in AllowedStatus(events[s].status) \cup {events[s].status}
     /\ events' = [events EXCEPT ![s].status = status]
     /\ Goto(step) /\ UNCHANGED <<rec, journal>>
  \/ /\ status \notin AllowedStatus(events[s].status) \cup {events[s].status}
     /\ Raise("illegal")

IsOpen(s) == events[s].status \in {"PENDING", "MATURED"}
OpenOf(c) == {s \in Session : IsOpen(s) /\ events[s].cycle = c}
\* The rows come in the order of their maturity.
FirstOf(S) == {s \in S : \A t \in S : s <= t}

-----------------------------------------------------------------------------
(* process_execution_session *)

Init ==
  /\ rec = NormalState
  /\ events = [s \in Session |-> NoEvent]
  /\ journal = {}
  /\ \E price \in Price : closes = <<price>> /\ source = ObserveClose(NoRows, price)
  /\ session = 1 /\ pc = "process" /\ error = "none"
  /\ crashes = 0 /\ missed = 0

At(step) == pc = step
Same == UNCHANGED <<rows, session, budgets>>

ExitKey == Key(rec.cycle, "fixed-exit", rec.exit)
ApplyKey(s) == Key(events[s].cycle, "apply", s)
Holding == rec.phase = "RECOVERY_ACTIVE"
Waiting == rec.phase = "WAIT_D40"
Guarded == rec.phase = "OLD_ATH_GUARD"
Due == session - 1 - Delay  \* the signal session that matures now

\* _rearm_after_fixed_exit_if_ready
RearmAtExit ==
  /\ At("process") /\ Guarded /\ rec.recovered
  /\ Transition(Key(rec.cycle, "rearm-after-fixed-exit", rec.exit), NormalState, "ingest")
  /\ Same

MissedExit ==
  /\ At("process") /\ Holding /\ session > rec.exit
  /\ Raise("missed") /\ Same

\* H378 goes first on its session: the open events are cancelled one by one.
CancelAtExit ==
  /\ At("process") /\ Holding /\ session = rec.exit
  /\ \E s \in FirstOf(OpenOf(rec.cycle)) : SetStatus(s, "CANCELLED", "process")
  /\ Same

TakeFixedExitLate ==
  /\ At("process") /\ Holding /\ session >= rec.exit
  /\ OpenOf(rec.cycle) = {}
  /\ Transition(ExitKey, [rec EXCEPT !.phase = "OLD_ATH_GUARD", !.target = 0], "process")
  /\ Same

TakeFixedExitKeepingTarget ==
  /\ At("process") /\ Holding /\ session = rec.exit
  /\ OpenOf(rec.cycle) = {}
  /\ Transition(ExitKey, [rec EXCEPT !.phase = "OLD_ATH_GUARD"], "process")
  /\ Same

TakeFixedExit ==
  /\ At("process") /\ Holding /\ session = rec.exit
  /\ OpenOf(rec.cycle) = {}
  /\ Transition(ExitKey, [rec EXCEPT !.phase = "OLD_ATH_GUARD", !.target = 0], "process")
  /\ Same

Orphan ==
  /\ At("process") /\ rec.phase = "NORMAL"
  /\ \E s \in Session : IsOpen(s)
  /\ Raise("orphan") /\ Same

DispatchingThroughExit == Waiting \/ (Holding /\ session <= rec.exit)

\* The phases in which delayed events are looked at.
Dispatching == Waiting \/ (Holding /\ session < rec.exit)
Overdue == {s \in OpenOf(rec.cycle) : DelayedEntry(s) < session}

MissedEntry ==
  /\ At("process") /\ Dispatching /\ Overdue # {}
  /\ Raise("missed") /\ Same

Mature ==
  /\ At("process") /\ Dispatching /\ Overdue = {}
  /\ Due \in OpenOf(rec.cycle)
  /\ SetStatus(Due, "MATURED", "apply")
  /\ Same

NothingToExecute ==
  /\ At("process")
  /\ \/ rec.phase = "NORMAL" /\ \A s \in Session : ~IsOpen(s)
     \/ Guarded /\ ~rec.recovered
     \/ Dispatching /\ Overdue = {} /\ Due \notin OpenOf(rec.cycle)
  /\ Goto("ingest") /\ UNCHANGED database /\ Same

\* The transition was committed before a crash: only APPLIED is missing.
ResumeApplied ==
  /\ At("apply") /\ Recorded(ApplyKey(Due))
  /\ Goto("applied") /\ UNCHANGED database /\ Same

EnterFirst ==
  /\ At("apply") /\ ~Recorded(ApplyKey(Due)) /\ Waiting
  /\ Transition(ApplyKey(Due),
                [rec EXCEPT !.phase = "RECOVERY_ACTIVE", !.target = events[Due].target,
                            !.entry = session, !.exit = FixedExit(session)],
                "trim")
  /\ Same

ScaleUp ==
  /\ At("apply") /\ ~Recorded(ApplyKey(Due)) /\ Holding
  /\ IF events[Due].target > rec.target
     THEN Transition(ApplyKey(Due), [rec EXCEPT !.target = events[Due].target], "applied")
     ELSE Raise("scale")
  /\ Same

OutsideIsAll == OpenOf(rec.cycle)

\* Only scale-ups strictly before the fixed exit are kept.
Outside == {s \in OpenOf(rec.cycle) : DelayedEntry(s) >= rec.exit}

TrimAfterEntry ==
  /\ At("trim")
  /\ IF Outside = {}
     THEN Goto("applied") /\ UNCHANGED database
     ELSE \E s \in FirstOf(Outside) : SetStatus(s, "CANCELLED", "trim")
  /\ Same

MarkApplied ==
  /\ At("applied")
  /\ SetStatus(Due, "APPLIED", "ingest")
  /\ Same

-----------------------------------------------------------------------------
(* ingest_source_event *)

NoLadderEvent ==
  /\ At("ingest") /\ source.event # "ROTATE"
  /\ Goto("close") /\ UNCHANGED database /\ Same

\* The event is made durable before the cycle it may have to start.
Enqueue ==
  /\ At("ingest") /\ source.event = "ROTATE"
  /\ events[session].status = "NONE"
  /\ events' = [events EXCEPT ![session] =
                  [status |-> "PENDING", cycle |-> source.cycle, target |-> source.target]]
  /\ UNCHANGED <<rec, journal>> /\ Goto("attach") /\ Same

AlreadyEnqueued ==
  /\ At("ingest") /\ source.event = "ROTATE"
  /\ events[session].status # "NONE"
  /\ IF events[session].cycle # source.cycle \/ events[session].target # source.target
     THEN Raise("conflict")
     ELSE /\ Goto(IF IsOpen(session) THEN "attach" ELSE "close")
          /\ UNCHANGED database
  /\ Same

StartCycle ==
  /\ At("attach") /\ rec.phase = "NORMAL"
  /\ Transition(Key(source.cycle, "start", session),
                [NormalState EXCEPT !.phase = "WAIT_D40", !.cycle = source.cycle,
                                    !.oldAth = source.peak],
                "close")
  /\ Same

SameCycleAtClose == rec.cycle = source.cycle /\ rec.oldAth = closes[session]

SameCycle == rec.cycle = source.cycle /\ rec.oldAth = source.peak

JoinCycle ==
  /\ At("attach") /\ (Waiting \/ Holding) /\ SameCycle
  /\ ~(Holding /\ DelayedEntry(session) >= rec.exit)
  /\ Goto("close") /\ UNCHANGED database /\ Same

CancelOutside ==
  /\ At("attach") /\ Holding /\ SameCycle
  /\ DelayedEntry(session) >= rec.exit
  /\ SetStatus(session, "CANCELLED", "close")
  /\ Same

RefuseOverlap ==
  /\ At("attach") /\ (Waiting \/ Holding) /\ ~SameCycle
  /\ Raise("overlap") /\ Same

RefuseGuarded ==
  /\ At("attach") /\ Guarded
  /\ Raise("guard") /\ Same

-----------------------------------------------------------------------------
(* observe_completed_close *)

AboveOldAth == rec.phase # "NORMAL" /\ closes[session] > rec.oldAth

AtOldAth == rec.phase # "NORMAL" /\ closes[session] >= rec.oldAth

NothingObserved ==
  /\ At("close")
  /\ ~AtOldAth \/ (Holding /\ rec.recovered)
  /\ Goto("done") /\ UNCHANGED database /\ Same

CancelAtOldAth ==
  /\ At("close") /\ AtOldAth /\ Waiting
  /\ \E s \in FirstOf(OpenOf(rec.cycle)) : SetStatus(s, "CANCELLED", "close")
  /\ Same

CancelCycleKeepingEvents ==
  /\ At("close") /\ AtOldAth /\ Waiting
  /\ Transition(Key(rec.cycle, "cancel-pre-entry", session), NormalState, "done")
  /\ Same

CancelCycle ==
  /\ At("close") /\ AtOldAth /\ Waiting
  /\ OpenOf(rec.cycle) = {}
  /\ Transition(Key(rec.cycle, "cancel-pre-entry", session), NormalState, "done")
  /\ Same

RecordRecovered ==
  /\ At("close") /\ AtOldAth /\ Holding /\ ~rec.recovered
  /\ Transition(Key(rec.cycle, "old-ath-recovered", session),
                [rec EXCEPT !.recovered = TRUE], "done")
  /\ Same

RearmAtOldAth ==
  /\ At("close") /\ AtOldAth /\ Guarded
  /\ Transition(Key(rec.cycle, "rearm-old-ath", session), NormalState, "done")
  /\ Same

-----------------------------------------------------------------------------
(* replay_compiled_history_to_store: the loop, its crashes and its gaps *)

NextRow ==
  /\ session < LastSession /\ session' = session + 1
  /\ \E price \in Price :
       /\ Leaps \/ ~(source.mode = "CRASH" /\ price >= source.peak)
       /\ closes' = Append(closes, price) /\ source' = ObserveClose(source, price)

NextSession ==
  /\ At("done") /\ NextRow
  /\ Goto("process") /\ UNCHANGED <<database, budgets>>

\* Nothing, or nothing more, is run at this session.
Miss ==
  /\ At("process") /\ missed < MissBudget /\ NextRow
  /\ missed' = missed + 1
  /\ UNCHANGED <<database, pc, error, crashes>>

\* The process dies, has raised, or is run once more on a finished session; the
\* new run starts with the session this one had reached.
Restart ==
  /\ ~At("process") /\ crashes < CrashBudget
  /\ crashes' = crashes + 1 /\ Goto("process")
  /\ UNCHANGED <<database, rows, session, missed>>

Execute ==
  \/ RearmAtExit \/ MissedExit \/ CancelAtExit \/ TakeFixedExit \/ Orphan
  \/ MissedEntry \/ Mature \/ NothingToExecute \/ ResumeApplied \/ EnterFirst
  \/ ScaleUp \/ TrimAfterEntry \/ MarkApplied
Ingest ==
  \/ NoLadderEvent \/ Enqueue \/ AlreadyEnqueued \/ StartCycle \/ JoinCycle
  \/ CancelOutside \/ RefuseOverlap \/ RefuseGuarded
Observe ==
  \/ NothingObserved \/ CancelAtOldAth \/ CancelCycle \/ RecordRecovered
  \/ RearmAtOldAth

Next == Execute \/ Ingest \/ Observe \/ NextSession \/ Miss \/ Restart

Spec == Init /\ [][Next]_vars

-----------------------------------------------------------------------------
(* Properties *)

Steps == {"process", "apply", "trim", "applied", "ingest", "attach", "close",
          "done", "raised"}
Kinds == {"start", "apply", "fixed-exit", "rearm-after-fixed-exit",
          "cancel-pre-entry", "old-ath-recovered", "rearm-old-ath"}
RecoveryState == [phase : Phase, cycle : Nat, oldAth : Nat, target : Target,
                  entry : Nat, exit : Nat, recovered : BOOLEAN]
EventRow == [status : EventStatus, cycle : Nat, target : Target]
JournalRow == [key : [cycle : Nat, kind : Kinds, at : Nat], new : RecoveryState]

\* Every column keeps its type, and the singleton row of recovery_state_v01 is
\* one that _validate_state_dict accepts.
TypeOK ==
  /\ rec \in RecoveryState /\ Valid(rec)
  /\ events \in [Session -> EventRow]
  /\ journal \subseteq JournalRow
  /\ closes \in Seq(Price) /\ session \in Session /\ session = Len(closes)
  /\ source \in Source
  /\ pc \in Steps /\ error \in Error
  /\ crashes \in 0..CrashBudget /\ missed \in 0..MissBudget

\* What the journal says was traded: the entries and scale-ups at the D40
\* sessions of their signals, the fixed exits at theirs.
Trades ==
  {[cycle |-> j.key.cycle, session |-> DelayedEntry(j.key.at), target |-> j.new.target] :
      j \in {i \in journal : i.key.kind = "apply"}}
  \cup {[cycle |-> j.key.cycle, session |-> j.key.at, target |-> 0] :
      j \in {i \in journal : i.key.kind = "fixed-exit"}}

\* A dispatcher that has finished a session without missing one has traded
\* exactly what the compiler schedules for the same closes so far.
FollowsSchedule ==
  (At("done") /\ missed = 0) =>
    Trades = {e \in FinalSchedule(closes) : e.session <= session}

\* The transition journal is the authority on what was applied: an APPLIED
\* event has its transition, and a recorded one is never cancelled or reopened,
\* whatever crashes come between the two writes. Without a missed session: an
\* event half applied when the process dies is cancelled by the fixed exit if
\* no session in between is run.
EventsMatchJournal ==
  missed = 0 => \A s \in Session :
    /\ events[s].status = "APPLIED" => Recorded(ApplyKey(s))
    /\ Recorded(ApplyKey(s)) => events[s].status \in {"MATURED", "APPLIED"}

\* A finished session leaves no delayed event that no later session would look
\* at: every open one is of the running cycle and matures in the future. Unless
\* a session was missed: an event stored by a process that died before it was
\* refused or attached stays behind if its own session is not run again.
OpenEventsAreCurrent ==
  (At("done") /\ missed = 0) =>
    \A s \in Session : IsOpen(s) => /\ events[s].cycle = rec.cycle
                                    /\ DelayedEntry(s) > session

\* The dispatcher never asks the store for a transition or a replay it refuses,
\* and a crash alone never makes it report a session as missed.
LegalMoves ==
  /\ error \notin {"illegal", "conflict", "scale"}
  /\ error = "missed" => missed > 0

\* A source event is refused as overlapping only where the compiler's own guard
\* audit reports a reentry before the release of the cycle before it.
RefusesOnlyReentry == error = "overlap" => Reentries(closes) # {}

\* Recovery exposure never outlives its hold: a finished session at or past the
\* fixed exit holds nothing, even when sessions were missed.
ExposureEnds == (At("done") /\ Holding) => session < rec.exit

\* No timing rule is turned into a later execution: an entry, a scale-up or an
\* exit enters the journal at its own session or not at all.
TradesAreOnTime ==
  [][\A j \in journal' \ journal :
       /\ j.key.kind = "apply" => session = DelayedEntry(j.key.at)
       /\ j.key.kind = "fixed-exit" => session = j.key.at]_vars

\* Replaying the session after a crash repairs a source event that was stored
\* before its cycle was started.
ReplayRepairs == error # "orphan"

\* A source event that could only mature at or after the fixed exit is
\* discarded; it does not stop the dispatcher.
LateEventsAreDiscarded == error # "guard"
=============================================================================
