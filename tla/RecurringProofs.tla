-------------------------- MODULE RecurringProofs --------------------------
(***************************************************************************)
(* RecurringInv is an inductive invariant of Recurring, and with it no      *)
(* reminder is written that is not due, no deadline moves closer and a      *)
(* schedule notices each run of failures once: for every set of asks and    *)
(* schedules, every pair of intervals and every bound.                      *)
(*                                                                         *)
(* The asks and the schedules share only the clock and the agent, so the    *)
(* argument is made ask by ask (AskAgrees) and log by log (LogAgrees).      *)
(***************************************************************************)
EXTENDS Recurring, SequenceTheorems, TLAPS

\* An armed, live policy waits for the whole interval since the latest reply, a
\* deadline is at most one interval away, and what is collected, drafted or written
\* has a deadline.  An ask that is not recorded has none.
AskAgrees(a) ==
    /\ obligation[a].state = "none" => obligation[a].delivery = "none" /\ policy[a].next = Never
    /\ policy[a].next <= now + policy[a].interval
    /\ policy[a].snooze <= now + Longer
    /\ activity[a] <= now
    /\ Live(a) /\ policy[a].next # Never => policy[a].next >= activity[a] + policy[a].interval
    /\ a \in job.due \/ draft[a] # NoDraft => policy[a].next # Never
    /\ draft[a].at <= now
    /\ draft[a].written => attempt[a] = "submitted"
    /\ a \in lapsed => policy[a].suspended

IsOpen(f) == f.delivery \in {"queued", "submitted"}

\* A run of unavailable firings begins only once every earlier tell is delivered, so a
\* skipped firing after it has a materialized one in between.
LogAgrees(log) ==
    /\ \A i \in DOMAIN log :
          /\ IsOpen(log[i]) => log[i].outcome = "materialized"
          /\ log[i].noticed => log[i].outcome = "target_unavailable"
    /\ \A i, j \in DOMAIN log :
          j <= i /\ log[i].outcome = "target_unavailable" => ~IsOpen(log[j])
    /\ \A i, k \in DOMAIN log :
          i < k /\ log[i].outcome = "target_unavailable" /\ log[k].outcome = "skipped"
          => \E j \in i..k : log[j].outcome = "materialized"
    /\ \A i, k \in DOMAIN log :
          i < k /\ log[i].noticed /\ log[k].noticed
          => \E j \in i..k : log[j].outcome = "materialized"

RecurringInv ==
    /\ TypeOK
    /\ \A a \in Asks : AskAgrees(a)
    /\ \A s \in Schedules : LogAgrees(schedule[s].firings)

-----------------------------------------------------------------------------
(* Types.                                                                  *)

LEMMA ConstantFacts ==
    /\ Interval \in Nat /\ Interval >= 1 /\ Longer \in Nat /\ Longer > Interval
    /\ MaxTime \in Nat /\ MaxIncarnations \in Nat /\ MaxIncarnations >= 1
    /\ MaxEvents \in Nat /\ MaxCrashes \in Nat
  BY RecurringAssumption

LEMMA TimeFacts ==
    ASSUME now \in 0..MaxTime
    PROVE  /\ Times = Never..(MaxTime + Longer) /\ now \in Times /\ Never \in Times
           /\ now + Interval \in Times /\ now + Longer \in Times /\ now + Recheck \in Times
           /\ Interval \in Nat /\ Longer \in Nat /\ Longer > Interval
           /\ \A t, u \in Times : Latest(t, u) \in Times
  BY ConstantFacts DEF Times, Never, Recheck, Latest

LEMMA InitTyped == Init => TypeOK
<1> SUFFICES ASSUME Init PROVE TypeOK
  OBVIOUS
<1>0. Never \in Times /\ 0 \in 0..MaxIncarnations /\ 1 \in 0..MaxIncarnations
  BY ConstantFacts DEF Times, Never
<1>1. obligation \in [Asks -> ObligationRecord] /\ attempt \in [Asks -> Phase]
  BY DEF Init, ObligationRecord, Phase
<1>2. policy \in [Asks -> PolicyRecord] /\ activity \in [Asks -> Times]
  BY <1>0 DEF Init, PolicyRecord
<1>3. job \in JobRecord /\ draft \in [Asks -> DraftRecord]
  BY <1>0 DEF Init, JobRecord, DraftRecord, NoDraft, None
<1>4. schedule \in [Schedules -> ScheduleRecord]
  <2>1. <<>> \in Seq(FiringRecord)
    OBVIOUS
  <2> QED
    BY <1>0, <2>1 DEF Init, ScheduleRecord
<1>5. /\ now \in 0..MaxTime /\ started \in 0..MaxIncarnations /\ ready \in {None, started}
      /\ events \in 0..MaxEvents /\ crashes \in 0..MaxCrashes
  BY ConstantFacts DEF Init
<1>6. gap \in {"none", "clear", "spacing"} /\ ended \in BOOLEAN /\ lapsed \subseteq Asks
  BY DEF Init
<1> QED
  BY <1>1, <1>2, <1>3, <1>4, <1>5, <1>6 DEF TypeOK

LEMMA NoDraftTyped == NoDraft \in DraftRecord
  BY ConstantFacts DEF NoDraft, DraftRecord, Times, None, Never

\* A deadline stays within the range of the clock and one interval.
LEMMA DeadlineTyped ==
    ASSUME TypeOK, NEW a \in Asks, \A b \in Asks : AskAgrees(b)
    PROVE  /\ policy[a].interval \in {Interval, Longer}
           /\ policy[a].next \in Times /\ policy[a].snooze \in Times
           /\ now + policy[a].interval \in Times
           /\ Latest(policy[a].next, now + policy[a].interval) \in Times
           /\ draft[a].at + policy[a].interval \in Times
           /\ Latest(policy[a].next, draft[a].at + policy[a].interval) \in Times
<1>1. /\ policy[a].interval \in {Interval, Longer} /\ policy[a].next \in Times
      /\ policy[a].snooze \in Times /\ draft[a].at \in Times
  BY DEF TypeOK, PolicyRecord, DraftRecord
<1>2. draft[a].at <= now
  BY DEF AskAgrees
<1>3. now \in 0..MaxTime
  BY DEF TypeOK
<1> QED
  BY <1>1, <1>2, <1>3, ConstantFacts DEF Times, Never, Latest

LEMMA PolicyTyped ==
    ASSUME TypeOK, NEW a \in Asks
    PROVE  /\ \A t \in Times : [policy EXCEPT ![a].next = t] \in [Asks -> PolicyRecord]
           /\ \A t \in Times : [policy EXCEPT ![a].snooze = t] \in [Asks -> PolicyRecord]
           /\ [policy EXCEPT ![a].suspended = TRUE] \in [Asks -> PolicyRecord]
  BY DEF TypeOK, PolicyRecord

LEMMA RefreshTyped ==
    ASSUME TypeOK, NEW a \in Asks, \A b \in Asks : AskAgrees(b), RefreshReminderActivity(a)
    PROVE  policy' \in [Asks -> PolicyRecord] /\ activity' \in [Asks -> Times]
<1> DEFINE t == IF Live(a) THEN Latest(policy[a].next, now + policy[a].interval)
                ELSE policy[a].next
<1>1. t \in Times
  BY DeadlineTyped
<1>2. policy' = [policy EXCEPT ![a].next = t]
  BY DEF RefreshReminderActivity, TypeOK
<1> HIDE DEF t
<1>3. policy' \in [Asks -> PolicyRecord]
  BY <1>1, <1>2, PolicyTyped
<1> QED
  BY <1>3, TimeFacts DEF TypeOK, RefreshReminderActivity

LEMMA RebootTyped ==
    ASSUME TypeOK, NEW found \in [Asks -> Phase], Reboot(found)
    PROVE  TypeOK'
<1>1. attempt' \in [Asks -> Phase]
  BY DEF Reboot, ReconcileReminderAttempts, Phase
<1>2. policy' \in [Asks -> PolicyRecord]
  BY DEF TypeOK, Reboot, ReconcileReminderAttempts, PolicyRecord
<1>3. draft' \in [Asks -> DraftRecord] /\ job' \in JobRecord /\ lapsed' \subseteq Asks
  BY NoDraftTyped, ConstantFacts DEF TypeOK, Reboot, JobRecord, None
<1>4. crashes' \in 0..MaxCrashes
  BY ConstantFacts DEF TypeOK, Reboot
<1> QED
  BY <1>1, <1>2, <1>3, <1>4 DEF TypeOK, Reboot, agentVars

LEMMA AskTyped ==
    ASSUME TypeOK, NEW a \in Asks, \A b \in Asks : AskAgrees(b), AskStep(a)
    PROVE  TypeOK'
<1>0. /\ policy[a].interval \in {Interval, Longer} /\ now \in 0..MaxTime
      /\ policy[a].next \in Times /\ policy[a].snooze \in Times
      /\ now + policy[a].interval \in Times
      /\ Latest(policy[a].next, now + policy[a].interval) \in Times
      /\ draft[a].at + policy[a].interval \in Times
      /\ Latest(policy[a].next, draft[a].at + policy[a].interval) \in Times
  BY DeadlineTyped DEF TypeOK
<1>1. CASE RecordAsk(a)
  <2>1. obligation' \in [Asks -> ObligationRecord]
    <3>1. [obligation[a] EXCEPT !.state = "open", !.delivery = "submitted"] \in ObligationRecord
      BY DEF TypeOK, ObligationRecord
    <3> QED
      BY <1>1, <3>1 DEF TypeOK, RecordAsk, InsertObligation
  <2>2. policy' \in [Asks -> PolicyRecord]
    BY <1>1 DEF TypeOK, RecordAsk, PolicyRecord
  <2> QED
    BY <1>1, <2>1, <2>2 DEF TypeOK, RecordAsk, agentVars, daemonVars, history, bounds
<1>2. CASE AcceptAsk(a)
  <2>1. obligation' \in [Asks -> ObligationRecord]
    BY <1>2 DEF TypeOK, AcceptAsk, ObligationRecord
  <2>2. policy' \in [Asks -> PolicyRecord]
    BY <1>2, <1>0 DEF TypeOK, AcceptAsk, ArmReminder, PolicyRecord
  <2>3. activity' \in [Asks -> Times]
    BY <1>2, TimeFacts DEF TypeOK, AcceptAsk
  <2> QED
    BY <1>2, <2>1, <2>2, <2>3 DEF TypeOK, AcceptAsk, agentVars, daemonVars, bounds
<1>3. CASE LoseAskOutcome(a)
  <2>1. obligation' \in [Asks -> ObligationRecord]
    BY <1>3 DEF TypeOK, LoseAskOutcome, ObligationRecord
  <2> QED
    BY <1>3, <2>1 DEF TypeOK, LoseAskOutcome, agentVars, daemonVars, history, bounds
<1>4. CASE RecordProgress(a)
  <2>1. obligation' \in [Asks -> ObligationRecord]
    BY <1>4 DEF TypeOK, RecordProgress, ObligationRecord
  <2>2. policy' \in [Asks -> PolicyRecord] /\ activity' \in [Asks -> Times]
    BY <1>4, RefreshTyped DEF RecordProgress
  <2>3. events' \in 0..MaxEvents
    BY <1>4, ConstantFacts DEF TypeOK, RecordProgress, Event
  <2> QED
    BY <1>4, <2>1, <2>2, <2>3 DEF TypeOK, RecordProgress, agentVars, daemonVars
<1>5. CASE RecordFinal(a)
  <2>1. obligation' \in [Asks -> ObligationRecord]
    BY <1>5 DEF TypeOK, RecordFinal, ObligationRecord
  <2>2. policy' \in [Asks -> PolicyRecord] /\ activity' \in [Asks -> Times]
    BY <1>5, RefreshTyped DEF RecordFinal
  <2>3. events' \in 0..MaxEvents
    BY <1>5, ConstantFacts DEF TypeOK, RecordFinal, Event
  <2> QED
    BY <1>5, <2>1, <2>2, <2>3 DEF TypeOK, RecordFinal, agentVars, daemonVars
<1>6. CASE MoveFinal(a)
  <2>1. obligation' \in [Asks -> ObligationRecord]
    BY <1>6 DEF TypeOK, MoveFinal, ObligationRecord
  <2> QED
    BY <1>6, <2>1 DEF TypeOK, MoveFinal, agentVars, daemonVars, history, bounds
<1>7. CASE Settle(a)
  <2>1. obligation' \in [Asks -> ObligationRecord]
    BY <1>7 DEF TypeOK, Settle, ObligationRecord
  <2> QED
    BY <1>7, <2>1 DEF TypeOK, Settle, agentVars, daemonVars, history, bounds
<1>8. CASE SnoozeReminder(a)
  <2>1. now + 1 \in Times
    BY <1>8, TimeFacts DEF TypeOK, Recheck
  <2>2. policy' \in [Asks -> PolicyRecord]
    <3>1. now + Longer \in Times
      BY <1>0, TimeFacts
    <3>2. PICK until \in {now + 1, now + Longer} : policy' = [policy EXCEPT ![a].snooze = until]
      BY <1>8 DEF SnoozeReminder
    <3> QED
      BY <2>1, <3>1, <3>2, PolicyTyped
  <2>3. events' \in 0..MaxEvents
    BY <1>8, ConstantFacts DEF TypeOK, SnoozeReminder, Event
  <2> QED
    BY <1>8, <2>1, <2>2, <2>3 DEF TypeOK, SnoozeReminder, agentVars, daemonVars, history
<1>9. CASE IncreaseReminderInterval(a)
  <2>1. /\ policy[a].next \in Times /\ policy[a].snooze \in Times
        /\ policy[a].enabled \in BOOLEAN /\ policy[a].suspended \in BOOLEAN
    BY <1>9 DEF TypeOK, PolicyRecord
  <2>2. Latest(policy[a].next, Latest(policy[a].snooze, now + Longer)) \in Times
    BY <1>9, <2>1, TimeFacts DEF TypeOK
  <2>3. policy' \in [Asks -> PolicyRecord]
    BY <1>9, <2>1, <2>2, TimeFacts DEF TypeOK, IncreaseReminderInterval, PolicyRecord
  <2>4. events' \in 0..MaxEvents
    BY <1>9, ConstantFacts DEF TypeOK, IncreaseReminderInterval, Event
  <2> QED
    BY <1>9, <2>1, <2>2, <2>3, <2>4 DEF TypeOK, IncreaseReminderInterval, agentVars, daemonVars,
         history
<1>10. CASE DisableReminder(a)
  <2>1. policy' \in [Asks -> PolicyRecord]
    BY <1>10 DEF TypeOK, DisableReminder, PolicyRecord
  <2>2. events' \in 0..MaxEvents
    BY <1>10, ConstantFacts DEF TypeOK, DisableReminder, Event
  <2> QED
    BY <1>10, <2>1, <2>2 DEF TypeOK, DisableReminder, agentVars, daemonVars, history
<1>11. CASE WriteReminder(a)
  <2>1. draft' \in [Asks -> DraftRecord]
    BY <1>11 DEF TypeOK, WriteReminder, DraftRecord
  <2>2. attempt' \in [Asks -> Phase]
    BY <1>11 DEF TypeOK, WriteReminder, CommitReminderIntent, Phase
  <2> QED
    BY <1>11, <2>1, <2>2 DEF TypeOK, WriteReminder, agentVars, history, bounds
<1>12. CASE DropReminder(a) \/ FailReminderOpen(a)
  <2>1. draft' \in [Asks -> DraftRecord]
    BY <1>12, NoDraftTyped DEF TypeOK, DropReminder, FailReminderOpen, Forget
  <2> QED
    BY <1>12, <2>1 DEF TypeOK, DropReminder, FailReminderOpen, agentVars, history, bounds
<1>13. CASE CompleteReminder(a)
  <2>1. draft' \in [Asks -> DraftRecord]
    BY <1>13, NoDraftTyped DEF TypeOK, CompleteReminder, Forget
  <2>2. draft[a].at + policy[a].interval \in Times
    BY <1>13, <1>0 DEF TypeOK
  <2>3. policy' \in [Asks -> PolicyRecord]
    BY <1>13, <1>0, <2>2, PolicyTyped DEF CompleteReminder, ResolveReminderAttempt
  <2>4. attempt' \in [Asks -> Phase] /\ lapsed' \subseteq Asks
    BY <1>13 DEF TypeOK, CompleteReminder, ResolveReminderAttempt, Phase
  <2> QED
    BY <1>13, <2>1, <2>2, <2>3, <2>4 DEF TypeOK, CompleteReminder, agentVars, bounds
<1>14. CASE CrashInIntent(a)
  <2>1. [attempt EXCEPT ![a] = "prepared"] \in [Asks -> Phase]
    BY <1>14 DEF TypeOK, Phase
  <2> QED
    BY <1>14, <2>1, RebootTyped DEF CrashInIntent
<1> QED
  BY <1>1, <1>2, <1>3, <1>4, <1>5, <1>6, <1>7, <1>8, <1>9, <1>10, <1>11, <1>12, <1>13, <1>14
     DEF AskStep

\* A busy agent's reminders are all postponed, or those before one that is not live.
LEMMA SnapshotCases ==
    ASSUME TypeOK, NEW idle \in BOOLEAN, RemindersAfterSnapshot(idle)
    PROVE  \/ DraftReminder(job.due) /\ policy' = policy
           \/ \E due \in SUBSET job.due : DeferBusyReminder(due) /\ draft' = draft
  BY DEF RemindersAfterSnapshot, TypeOK, JobRecord

LEMMA SnapshotTyped == TypeOK /\ OnReminderSnapshot => TypeOK'
<1> SUFFICES ASSUME TypeOK, OnReminderSnapshot PROVE TypeOK'
  OBVIOUS
<1>1. job' \in JobRecord
  BY ConstantFacts DEF OnReminderSnapshot, JobRecord, None
<1>2. draft' \in [Asks -> DraftRecord] /\ policy' \in [Asks -> PolicyRecord]
  <2>1. CASE UNCHANGED <<policy, draft>>
    BY <2>1 DEF TypeOK
  <2>2. CASE DraftReminder(job.due) /\ policy' = policy
    BY <2>2, TimeFacts DEF TypeOK, DraftReminder, DraftRecord, JobRecord
  <2>3. ASSUME NEW due \in SUBSET job.due, DeferBusyReminder(due), draft' = draft
        PROVE  draft' \in [Asks -> DraftRecord] /\ policy' \in [Asks -> PolicyRecord]
    <3>1. \A a \in Asks : Latest(policy[a].next, now + Recheck) \in Times
      BY TimeFacts DEF TypeOK, PolicyRecord
    <3> QED
      BY <2>3, <3>1 DEF TypeOK, DeferBusyReminder, PolicyRecord
  <2> QED
    BY <2>1, <2>2, <2>3, SnapshotCases DEF OnReminderSnapshot
<1> QED
  BY <1>1, <1>2 DEF TypeOK, OnReminderSnapshot, agentVars, history, bounds

LEMMA ScheduleTyped ==
    ASSUME TypeOK, NEW s \in Schedules, ScheduleStep(s)
    PROVE  TypeOK'
<1>1. schedule[s].firings \in Seq(FiringRecord) /\ now \in 0..MaxTime
  BY DEF TypeOK, ScheduleRecord
<1>2. CASE CreateTellSchedule(s)
  <2>1. now \in Times /\ now + 1 \in Times
    BY <1>1, TimeFacts DEF Recheck
  <2>2. PICK socket \in BOOLEAN, first \in {now, now + 1} :
           schedule' = [schedule EXCEPT ![s] =
              [state |-> "active", socket |-> socket, next |-> first, firings |-> <<>>]]
    BY <1>2 DEF CreateTellSchedule
  <2>3. [state |-> "active", socket |-> socket, next |-> first, firings |-> <<>>]
           \in ScheduleRecord
    BY <2>1 DEF ScheduleRecord
  <2>4. schedule' \in [Schedules -> ScheduleRecord]
    BY <2>2, <2>3 DEF TypeOK
  <2> QED
    BY <1>2, <2>4 DEF TypeOK, CreateTellSchedule, agentVars, daemonVars, history, bounds
<1>3. CASE FireTellSchedule(s)
  <2>1. Firing(s) \in FiringRecord
    <3>1. NoticeDue(s) \in BOOLEAN
      BY DEF NoticeDue
    <3> QED
      BY <3>1 DEF Firing, SkippedFiring, UnavailableFiring, MaterializedFiring, FiringRecord
  <2>2. Append(schedule[s].firings, Firing(s)) \in Seq(FiringRecord)
    BY <1>1, <2>1
  <2>3. now + Interval \in Times
    BY <1>1, TimeFacts
  <2>4. schedule' \in [Schedules -> ScheduleRecord]
    BY <1>3, <2>2, <2>3 DEF TypeOK, FireTellSchedule, ScheduleRecord
  <2> QED
    BY <1>3, <2>4 DEF TypeOK, FireTellSchedule, agentVars, daemonVars, history, bounds
<1>4. CASE MoveFiring(s)
  <2>1. PICK i \in DOMAIN schedule[s].firings, new \in {"submitted", "accepted", "rejected",
                                                        "superseded", "unknown"} :
           schedule' = [schedule EXCEPT ![s].firings[i].delivery = new]
    BY <1>4 DEF MoveFiring
  <2>2. [schedule[s].firings EXCEPT ![i].delivery = new] \in Seq(FiringRecord)
    <3>0. schedule[s].firings[i] \in FiringRecord
      BY <1>1, ElementOfSeq
    <3>1. [schedule[s].firings[i] EXCEPT !.delivery = new] \in FiringRecord
      BY <3>0 DEF FiringRecord
    <3> QED
      BY <1>1, <3>1, ExceptSeq
  <2>3. schedule' \in [Schedules -> ScheduleRecord]
    BY <2>1, <2>2 DEF TypeOK, ScheduleRecord
  <2> QED
    BY <1>4, <2>3 DEF TypeOK, MoveFiring, agentVars, daemonVars, history, bounds
<1>5. CASE CancelSchedule(s)
  <2>1. schedule' \in [Schedules -> ScheduleRecord]
    BY <1>5 DEF TypeOK, CancelSchedule, ScheduleRecord
  <2> QED
    BY <1>5, <2>1 DEF TypeOK, CancelSchedule, agentVars, daemonVars, history, bounds
<1> QED
  BY <1>2, <1>3, <1>4, <1>5 DEF ScheduleStep

\* RecurringInv, and not TypeOK alone, keeps the types: a deadline is at most one
\* interval ahead of the clock.
LEMMA NextTyped == RecurringInv /\ [Next]_vars => TypeOK'
<1> SUFFICES ASSUME RecurringInv, [Next]_vars PROVE TypeOK'
  OBVIOUS
<1>0. TypeOK /\ \A a \in Asks : AskAgrees(a)
  BY DEF RecurringInv
<1>1. CASE Tick \/ Depart \/ Arrive \/ EndTargeting \/ ClearMoves
  <2>1. UNCHANGED <<obligation, policy, attempt, daemonVars, history, schedule, crashes>>
    BY <1>1 DEF Tick, Depart, Arrive, EndTargeting, ClearMoves, bounds
  <2>2. now' \in 0..MaxTime /\ events' \in 0..MaxEvents
    BY <1>0, <1>1, ConstantFacts DEF TypeOK, Tick, Depart, Arrive, EndTargeting, ClearMoves, Event,
       bounds
  <2>3. started' \in 0..MaxIncarnations /\ ready' \in {None, started'}
    BY <1>0, <1>1, ConstantFacts DEF TypeOK, Tick, Depart, Arrive, EndTargeting, ClearMoves,
       agentVars
  <2>4. gap' \in {"none", "clear", "spacing"}
    BY <1>0, <1>1 DEF TypeOK, Tick, Depart, Arrive, EndTargeting, ClearMoves, agentVars
  <2>5. ended' \in BOOLEAN
    BY <1>0, <1>1 DEF TypeOK, Tick, Depart, Arrive, EndTargeting, ClearMoves, agentVars
  <2> QED
    BY <1>0, <2>1, <2>2, <2>3, <2>4, <2>5 DEF TypeOK, daemonVars, history
<1>2. CASE Restart
  BY <1>0, <1>2, RebootTyped DEF TypeOK, Restart
<1>3. CASE ScheduleReminders
  <2>1. job' \in JobRecord
    BY <1>0, <1>3, ConstantFacts DEF TypeOK, ScheduleReminders, JobRecord, CollectDueReminders,
       DueReminders, None
  <2> QED
    BY <1>0, <1>3, <2>1 DEF TypeOK, ScheduleReminders, agentVars, history, bounds
<1>4. CASE OnReminderSnapshot
  BY <1>0, <1>4, SnapshotTyped
<1>5. ASSUME NEW a \in Asks, AskStep(a) PROVE TypeOK'
  BY <1>0, <1>5, AskTyped
<1>6. ASSUME NEW s \in Schedules, ScheduleStep(s) PROVE TypeOK'
  BY <1>0, <1>6, ScheduleTyped
<1>7. CASE UNCHANGED vars
  BY <1>0, <1>7 DEF TypeOK, vars, agentVars, daemonVars, history, bounds
<1> QED
  BY <1>1, <1>2, <1>3, <1>4, <1>5, <1>6, <1>7 DEF Next

-----------------------------------------------------------------------------
(* The deadlines of one ask.                                                *)

SameAsk(a) ==
    /\ obligation'[a] = obligation[a] /\ policy'[a] = policy[a] /\ attempt'[a] = attempt[a]
    /\ draft'[a] = draft[a] /\ activity'[a] = activity[a]
    /\ a \in lapsed' <=> a \in lapsed
    /\ a \in job'.due => a \in job.due
    /\ now' \in Nat /\ now <= now'

LEMMA AskRange ==
    ASSUME TypeOK, NEW a \in Asks
    PROVE  /\ policy[a].next \in Int /\ policy[a].snooze \in Int /\ policy[a].interval \in Nat
           /\ policy[a].interval >= Interval /\ policy[a].interval <= Longer
           /\ activity[a] \in Int /\ draft[a].at \in Int /\ now \in Nat
           /\ policy[a].enabled \in BOOLEAN /\ policy[a].suspended \in BOOLEAN
  BY ConstantFacts DEF TypeOK, PolicyRecord, DraftRecord, Times, Never

\* The clock alone brings no deadline closer.
LEMMA AskFrame ==
    ASSUME TypeOK, NEW a \in Asks, AskAgrees(a), SameAsk(a)
    PROVE  AskAgrees(a)'
  BY AskRange, ConstantFacts DEF AskAgrees, SameAsk, Live

\* A boot suspends the policy of every reminder it finds submitted.
LEMMA RebootAgrees ==
    ASSUME TypeOK, NEW found \in [Asks -> Phase], Reboot(found),
           \A a \in Asks : AskAgrees(a),
           \A a \in Asks : draft[a].written => found[a] = "submitted"
    PROVE  \A a \in Asks : AskAgrees(a)'
<1> SUFFICES ASSUME NEW a \in Asks PROVE AskAgrees(a)'
  OBVIOUS
<1>1. /\ policy'[a] = [policy[a] EXCEPT !.suspended = @ \/ found[a] = "submitted"]
      /\ draft'[a] = NoDraft /\ job'.due = {}
      /\ lapsed' = lapsed \cup {b \in Asks : draft[b].written}
      /\ UNCHANGED <<now, obligation, activity>>
  BY DEF Reboot, ReconcileReminderAttempts
<1>2. /\ policy'[a].next = policy[a].next /\ policy'[a].snooze = policy[a].snooze
      /\ policy'[a].interval = policy[a].interval /\ policy'[a].enabled = policy[a].enabled
      /\ policy'[a].suspended = (policy[a].suspended \/ found[a] = "submitted")
  <2>1. policy[a] \in PolicyRecord
    BY DEF TypeOK
  <2> QED
    BY <1>1, <2>1 DEF PolicyRecord
<1>3. a \in lapsed' => policy'[a].suspended
  BY <1>1, <1>2 DEF AskAgrees
<1>4. Live(a)' => Live(a)
  BY <1>2 DEF Live
<1> QED
  BY <1>1, <1>2, <1>3, <1>4, AskRange DEF AskAgrees, NoDraft, Never

LEMMA AskStepAgrees ==
    ASSUME TypeOK, NEW a \in Asks, \A b \in Asks : AskAgrees(b), AskStep(a)
    PROVE  \A b \in Asks : AskAgrees(b)'
<1>0. /\ AskAgrees(a)
      /\ policy[a].next \in Int /\ policy[a].snooze \in Int /\ policy[a].interval \in Nat
      /\ policy[a].interval >= Interval /\ policy[a].interval <= Longer
      /\ activity[a] \in Int /\ draft[a].at \in Int /\ now \in Nat
      /\ policy[a].enabled \in BOOLEAN /\ policy[a].suspended \in BOOLEAN
  BY AskRange
<1>00. ASSUME AskAgrees(a)', \A b \in Asks \ {a} : SameAsk(b)
       PROVE  \A b \in Asks : AskAgrees(b)'
  BY <1>00, AskFrame
<1>1. CASE RecordAsk(a)
  <2>1. \A b \in Asks \ {a} : SameAsk(b)
    BY <1>1 DEF SameAsk, TypeOK, RecordAsk, InsertObligation, daemonVars, history
  <2>2. AskAgrees(a)'
    BY <1>1, <1>0, ConstantFacts DEF TypeOK, AskAgrees, Live, Unresolved, Latest, Never,
         RecordAsk, InsertObligation, daemonVars, history
  <2> QED
    BY <2>1, <2>2, <1>00
<1>2. CASE AcceptAsk(a)
  <2>1. \A b \in Asks \ {a} : SameAsk(b)
    BY <1>2 DEF SameAsk, TypeOK, AcceptAsk, ArmReminder, daemonVars
  <2>2. AskAgrees(a)'
    BY <1>2, <1>0, ConstantFacts DEF TypeOK, AskAgrees, Live, Unresolved, Latest, Never,
         AcceptAsk, ArmReminder, daemonVars
  <2> QED
    BY <2>1, <2>2, <1>00
<1>3. CASE LoseAskOutcome(a)
  <2>1. \A b \in Asks \ {a} : SameAsk(b)
    BY <1>3 DEF SameAsk, TypeOK, LoseAskOutcome, daemonVars, history
  <2>2. AskAgrees(a)'
    BY <1>3, <1>0, ConstantFacts DEF TypeOK, AskAgrees, Live, Unresolved, Latest, Never,
         LoseAskOutcome, daemonVars, history
  <2> QED
    BY <2>1, <2>2, <1>00
<1>4. CASE RecordProgress(a)
  <2>1. \A b \in Asks \ {a} : SameAsk(b)
    BY <1>4 DEF SameAsk, TypeOK, RecordProgress, RefreshReminderActivity, daemonVars
  <2>2. AskAgrees(a)'
    BY <1>4, <1>0, ConstantFacts DEF TypeOK, AskAgrees, Live, Unresolved, Latest, Never,
         RecordProgress, RefreshReminderActivity, daemonVars
  <2> QED
    BY <2>1, <2>2, <1>00
<1>5. CASE RecordFinal(a)
  <2>1. \A b \in Asks \ {a} : SameAsk(b)
    BY <1>5 DEF SameAsk, TypeOK, RecordFinal, RefreshReminderActivity, daemonVars
  <2>2. AskAgrees(a)'
    BY <1>5, <1>0, ConstantFacts DEF TypeOK, AskAgrees, Live, Unresolved, Latest, Never,
         RecordFinal, RefreshReminderActivity, daemonVars
  <2> QED
    BY <2>1, <2>2, <1>00
<1>6. CASE MoveFinal(a)
  <2>1. \A b \in Asks \ {a} : SameAsk(b)
    BY <1>6 DEF SameAsk, TypeOK, MoveFinal, daemonVars, history
  <2>2. AskAgrees(a)'
    <3>1. obligation'[a].state = obligation[a].state
          /\ obligation'[a].delivery = obligation[a].delivery
      BY <1>6 DEF TypeOK, ObligationRecord, MoveFinal
    <3> QED
      BY <1>6, <1>0, <3>1 DEF AskAgrees, Live, MoveFinal, daemonVars, history
  <2> QED
    BY <2>1, <2>2, <1>00
<1>7. CASE Settle(a)
  <2>1. \A b \in Asks \ {a} : SameAsk(b)
    BY <1>7 DEF SameAsk, TypeOK, Settle, daemonVars, history
  <2>2. AskAgrees(a)'
    BY <1>7, <1>0, ConstantFacts DEF TypeOK, AskAgrees, Live, Unresolved, Latest, Never, Settle,
         daemonVars, history
  <2> QED
    BY <2>1, <2>2, <1>00
<1>8. CASE SnoozeReminder(a)
  <2>1. \A b \in Asks \ {a} : SameAsk(b)
    BY <1>8 DEF SameAsk, TypeOK, SnoozeReminder, daemonVars, history
  <2>2. AskAgrees(a)'
    BY <1>8, <1>0, ConstantFacts DEF TypeOK, AskAgrees, Live, Unresolved, Latest, Never,
         SnoozeReminder, daemonVars, history
  <2> QED
    BY <2>1, <2>2, <1>00
<1>9. CASE IncreaseReminderInterval(a)
  <2>1. \A b \in Asks \ {a} : SameAsk(b)
    BY <1>9 DEF SameAsk, TypeOK, IncreaseReminderInterval, daemonVars, history
  <2>2. AskAgrees(a)'
    BY <1>9, <1>0, ConstantFacts DEF TypeOK, AskAgrees, Live, Unresolved, Latest, Never,
         IncreaseReminderInterval, daemonVars, history
  <2> QED
    BY <2>1, <2>2, <1>00
<1>10. CASE DisableReminder(a)
  <2>1. \A b \in Asks \ {a} : SameAsk(b)
    BY <1>10 DEF SameAsk, TypeOK, DisableReminder, daemonVars, history
  <2>2. AskAgrees(a)'
    BY <1>10, <1>0, ConstantFacts DEF TypeOK, AskAgrees, Live, Unresolved, Latest, Never,
         DisableReminder, daemonVars, history
  <2> QED
    BY <2>1, <2>2, <1>00
<1>11. CASE WriteReminder(a)
  <2>1. \A b \in Asks \ {a} : SameAsk(b)
    BY <1>11 DEF SameAsk, TypeOK, WriteReminder, CommitReminderIntent, Eligible, DueAt, NoDraft,
         history
  <2>2. AskAgrees(a)'
    BY <1>11, <1>0, ConstantFacts DEF TypeOK, AskAgrees, Live, Unresolved, Latest, Never,
         WriteReminder, CommitReminderIntent, Eligible, DueAt, NoDraft, history
  <2> QED
    BY <2>1, <2>2, <1>00
<1>12. CASE DropReminder(a) \/ FailReminderOpen(a)
  <2>1. \A b \in Asks \ {a} : SameAsk(b)
    BY <1>12 DEF SameAsk, TypeOK, DropReminder, FailReminderOpen, Forget, NoDraft, history
  <2>2. AskAgrees(a)'
    BY <1>12, <1>0, ConstantFacts DEF TypeOK, AskAgrees, Live, Unresolved, Latest, Never,
         DropReminder, FailReminderOpen, Forget, NoDraft, history
  <2> QED
    BY <2>1, <2>2, <1>00
<1>13. CASE CompleteReminder(a)
  <2>1. \A b \in Asks \ {a} : SameAsk(b)
    BY <1>13 DEF SameAsk, TypeOK, CompleteReminder, ResolveReminderAttempt, Forget, NoDraft
  <2>2. AskAgrees(a)'
    <3>1. draft[a] # NoDraft /\ draft'[a] = NoDraft
          /\ UNCHANGED <<now, obligation, job, activity>>
      BY <1>13 DEF TypeOK, CompleteReminder, Forget, NoDraft
    <3>2. CASE policy' = [policy EXCEPT ![a].suspended = TRUE]
      <4>1. policy'[a] = [policy[a] EXCEPT !.suspended = TRUE]
        BY <3>2 DEF TypeOK
      <4> QED
        BY <1>0, <3>1, <4>1 DEF TypeOK, PolicyRecord, AskAgrees, Live, NoDraft, Never
    <3>3. CASE /\ policy' = [policy EXCEPT ![a].next = Latest(@, draft[a].at + policy[a].interval)]
               /\ lapsed' = lapsed
      <4>1. policy'[a] = [policy[a] EXCEPT !.next = Latest(@, draft[a].at + policy[a].interval)]
        BY <3>3 DEF TypeOK
      <4>2. policy[a] \in PolicyRecord
        BY DEF TypeOK
      <4>3. /\ policy'[a].next = Latest(policy[a].next, draft[a].at + policy[a].interval)
            /\ policy'[a].snooze = policy[a].snooze /\ policy'[a].interval = policy[a].interval
            /\ policy'[a].enabled = policy[a].enabled
            /\ policy'[a].suspended = policy[a].suspended
        BY <4>1, <4>2 DEF PolicyRecord
      <4>4. Live(a)' <=> Live(a)
        BY <4>3 DEF Live
      <4>5. policy[a].next # Never /\ draft[a].at <= now
        BY <1>0, <3>1 DEF AskAgrees
      <4>6. /\ policy'[a].next \in Int
            /\ policy'[a].next >= policy[a].next /\ policy'[a].next <= now + policy[a].interval
        BY <1>0, <4>3, <4>5 DEF AskAgrees, Latest
      <4>7. policy[a].next >= -1
        BY <4>2 DEF PolicyRecord, Times, Never
      <4>8. a \in lapsed' => policy'[a].suspended
        BY <1>0, <3>3, <4>3 DEF AskAgrees
      <4> QED
        BY <1>0, <3>1, <4>3, <4>4, <4>5, <4>6, <4>7, <4>8 DEF AskAgrees, NoDraft, Never
    <3> QED
      BY <1>13, <3>2, <3>3 DEF CompleteReminder, ResolveReminderAttempt
  <2> QED
    BY <2>1, <2>2, <1>00
<1>14. CASE CrashInIntent(a)
  <2> DEFINE found == [attempt EXCEPT ![a] = "prepared"]
  <2>1. found \in [Asks -> Phase] /\ Reboot(found)
    BY <1>14 DEF CrashInIntent, TypeOK, Phase
  <2>2. \A b \in Asks : draft[b].written => found[b] = "submitted"
    BY <1>14 DEF CrashInIntent, TypeOK, AskAgrees
  <2> HIDE DEF found
  <2> QED
    BY <2>1, <2>2, RebootAgrees
<1> QED
  BY <1>1, <1>2, <1>3, <1>4, <1>5, <1>6, <1>7, <1>8, <1>9, <1>10, <1>11, <1>12, <1>13,
       <1>14 DEF AskStep

\* Drafting or postponing what was collected keeps the deadlines of all asks.
LEMMA SnapshotAgrees ==
    ASSUME TypeOK, \A a \in Asks : AskAgrees(a), OnReminderSnapshot
    PROVE  \A a \in Asks : AskAgrees(a)'
<1> SUFFICES ASSUME NEW a \in Asks PROVE AskAgrees(a)'
  OBVIOUS
<1>1. /\ job'.due = {} /\ a \in Asks
      /\ UNCHANGED <<now, obligation, attempt, activity, lapsed>>
  BY DEF OnReminderSnapshot, history
<1>2. CASE UNCHANGED <<policy, draft>>
  <2>1. SameAsk(a)
    BY <1>1, <1>2, AskRange DEF SameAsk
  <2> QED
    BY <2>1, AskFrame
<1>3. CASE DraftReminder(job.due) /\ policy' = policy
  <2>1. draft'[a] = IF a \in job.due THEN [inc |-> job.inc, at |-> now, written |-> FALSE]
                    ELSE draft[a]
    BY <1>3 DEF DraftReminder
  <2> QED
    BY <1>1, <1>3, <2>1, AskRange DEF AskAgrees, Live
<1>4. ASSUME NEW due \in SUBSET job.due, DeferBusyReminder(due), draft' = draft
      PROVE  AskAgrees(a)'
  <2>1. CASE a \notin due
    <3>1. SameAsk(a)
      BY <1>1, <1>4, <2>1, AskRange DEF SameAsk, DeferBusyReminder
    <3> QED
      BY <3>1, AskFrame
  <2>2. CASE a \in due
    <3>1. /\ policy'[a].next = Latest(policy[a].next, now + Recheck)
          /\ policy'[a].snooze = policy[a].snooze /\ policy'[a].interval = policy[a].interval
          /\ policy'[a].enabled = policy[a].enabled
          /\ policy'[a].suspended = policy[a].suspended
      BY <1>4, <2>2 DEF DeferBusyReminder, TypeOK, PolicyRecord
    <3>2. policy[a].next # Never
      BY <1>4, <2>2 DEF AskAgrees
    <3>3. policy[a].next >= -1
      BY DEF TypeOK, PolicyRecord, Times, Never
    <3>4. /\ policy'[a].next \in Int /\ policy'[a].next # Never
          /\ policy'[a].next >= policy[a].next /\ policy'[a].next <= now + policy[a].interval
      BY <3>1, <3>2, <3>3, AskRange, ConstantFacts DEF AskAgrees, Latest, Recheck, Never
    <3>5. Live(a)' <=> Live(a)
      BY <3>1 DEF Live
    <3>6. a \in lapsed' => policy'[a].suspended
      BY <1>1, <3>1 DEF AskAgrees
    <3> QED
      BY <1>1, <1>4, <3>1, <3>2, <3>4, <3>5, <3>6, AskRange DEF AskAgrees
  <2> QED
    BY <2>1, <2>2
<1> QED
  BY <1>2, <1>3, <1>4, SnapshotCases DEF OnReminderSnapshot

LEMMA NextAgrees ==
    ASSUME TypeOK, \A a \in Asks : AskAgrees(a), [Next]_vars
    PROVE  \A a \in Asks : AskAgrees(a)'
<1>1. CASE Tick \/ Depart \/ Arrive \/ EndTargeting \/ ClearMoves
  <2>1. \A a \in Asks : SameAsk(a)
    BY <1>1 DEF TypeOK, SameAsk, Tick, Depart, Arrive, EndTargeting, ClearMoves, daemonVars,
                history
  <2> QED
    BY <2>1, AskFrame
<1>2. CASE Restart
  BY <1>2, RebootAgrees DEF TypeOK, Restart, AskAgrees
<1>3. CASE ScheduleReminders
  BY <1>3 DEF ScheduleReminders, CollectDueReminders, DueReminders, DueAt, AskAgrees, Live,
              TypeOK, JobRecord, history
<1>4. CASE OnReminderSnapshot
  BY <1>4, SnapshotAgrees
<1>5. ASSUME NEW a \in Asks, AskStep(a) PROVE \A b \in Asks : AskAgrees(b)'
  BY <1>5, AskStepAgrees
<1>6. CASE (\E s \in Schedules : ScheduleStep(s)) \/ UNCHANGED vars
  <2>1. \A a \in Asks : SameAsk(a)
    <3>1. UNCHANGED <<now, obligation, policy, attempt, daemonVars, history>>
      BY <1>6 DEF ScheduleStep, CreateTellSchedule, FireTellSchedule, MoveFiring, CancelSchedule,
                  vars
    <3> QED
      BY <3>1 DEF TypeOK, SameAsk, daemonVars, history
  <2> QED
    BY <2>1, AskFrame
<1> QED
  BY <1>1, <1>2, <1>3, <1>4, <1>5, <1>6 DEF Next

-----------------------------------------------------------------------------
(* The log of one schedule.                                                 *)

LEMMA EmptyLog == LogAgrees(<<>>)
  BY DEF LogAgrees

\* Firing appends what the log and the target call for.
LEMMA FireAgrees ==
    ASSUME TypeOK, NEW s \in Schedules, LogAgrees(schedule[s].firings)
    PROVE  LogAgrees(Append(schedule[s].firings, Firing(s)))
<1> DEFINE log == schedule[s].firings
           n == Len(log)
           new == Append(log, Firing(s))
<1>1. /\ log \in Seq(FiringRecord) /\ n \in Nat /\ DOMAIN log = 1..n
      /\ DOMAIN new = 1..(n + 1) /\ new[n + 1] = Firing(s)
      /\ \A i \in 1..n : new[i] = log[i] /\ log[i] \in FiringRecord
  BY AppendProperties DEF TypeOK, ScheduleRecord
<1>2. \/ UnresolvedFiring(s) /\ Firing(s) = SkippedFiring
      \/ ~UnresolvedFiring(s) /\ Firing(s) = UnavailableFiring(s)
      \/ ~UnresolvedFiring(s) /\ Firing(s) = MaterializedFiring
  BY DEF Firing
<1>3. UnresolvedFiring(s) <=> \E i \in 1..n : IsOpen(log[i])
  BY <1>1 DEF UnresolvedFiring, IsOpen
<1>4. LogAgrees(log)
  OBVIOUS
<1>5. ~Firing(s).noticed \/ Firing(s).outcome = "target_unavailable"
  BY <1>2 DEF SkippedFiring, UnavailableFiring, MaterializedFiring
<1>6. IsOpen(Firing(s)) => Firing(s).outcome = "materialized"
  BY <1>2 DEF SkippedFiring, UnavailableFiring, MaterializedFiring, IsOpen
<1>7. Firing(s).outcome = "target_unavailable" =>
         /\ ~IsOpen(Firing(s)) /\ \A j \in 1..n : ~IsOpen(log[j])
         /\ Firing(s).noticed => n = 0 \/ log[n].outcome # "target_unavailable"
  <2>1. NoticeDue(s) => n = 0 \/ log[n].outcome # "target_unavailable"
    BY <1>1 DEF NoticeDue
  <2>2. CASE ~UnresolvedFiring(s) /\ Firing(s) = UnavailableFiring(s)
    <3>1. Firing(s).noticed = NoticeDue(s) /\ ~IsOpen(Firing(s))
      BY <2>2 DEF UnavailableFiring, IsOpen
    <3> QED
      BY <1>3, <2>1, <2>2, <3>1
  <2> QED
    BY <1>2, <2>2 DEF SkippedFiring, MaterializedFiring
<1>8. Firing(s).outcome = "skipped" => \E j \in 1..n : IsOpen(log[j])
  BY <1>2, <1>3 DEF SkippedFiring, UnavailableFiring, MaterializedFiring
<1> HIDE DEF log, n, new
<1>9. \A i \in 1..(n + 1) : /\ IsOpen(new[i]) => new[i].outcome = "materialized"
                            /\ new[i].noticed => new[i].outcome = "target_unavailable"
  BY <1>1, <1>4, <1>5, <1>6 DEF LogAgrees
<1>10. \A i, j \in 1..(n + 1) :
          j <= i /\ new[i].outcome = "target_unavailable" => ~IsOpen(new[j])
  BY <1>1, <1>4, <1>7 DEF LogAgrees
<1>11. ASSUME NEW i \in 1..(n + 1), NEW k \in 1..(n + 1), i < k,
              new[i].outcome = "target_unavailable", new[k].outcome = "skipped"
       PROVE  \E j \in i..k : new[j].outcome = "materialized"
  <2>1. i \in 1..n /\ log[i].outcome = "target_unavailable"
    BY <1>1, <1>11
  <2>2. CASE k \in 1..n
    BY <1>1, <1>4, <1>11, <2>1, <2>2 DEF LogAgrees
  <2>3. CASE k = n + 1
    <3>1. PICK j \in 1..n : IsOpen(log[j])
      BY <1>1, <1>8, <1>11, <2>3
    <3>2. log[j].outcome = "materialized" /\ ~(j <= i)
      BY <1>1, <1>4, <2>1, <3>1 DEF LogAgrees
    <3> QED
      BY <1>1, <2>1, <2>3, <3>2
  <2> QED
    BY <1>1, <2>2, <2>3
<1>12. ASSUME NEW i \in 1..(n + 1), NEW k \in 1..(n + 1), i < k, new[i].noticed, new[k].noticed
       PROVE  \E j \in i..k : new[j].outcome = "materialized"
  <2>1. i \in 1..n /\ log[i].noticed /\ log[i].outcome = "target_unavailable"
    BY <1>1, <1>4, <1>12 DEF LogAgrees
  <2>2. CASE k \in 1..n
    BY <1>1, <1>4, <1>12, <2>1, <2>2 DEF LogAgrees
  <2>3. CASE k = n + 1
    <3>1. n >= 1 /\ log[n].outcome # "target_unavailable"
      BY <1>1, <1>5, <1>7, <1>12, <2>1, <2>3
    <3>2. i < n
      BY <1>1, <2>1, <3>1
    <3>3. CASE log[n].outcome = "materialized"
      BY <1>1, <2>1, <2>3, <3>1, <3>3
    <3>4. CASE log[n].outcome = "skipped"
      <4>1. PICK j \in i..n : log[j].outcome = "materialized"
        BY <1>1, <1>4, <2>1, <3>1, <3>2, <3>4 DEF LogAgrees
      <4> QED
        BY <1>1, <2>1, <2>3, <4>1
    <3> QED
      BY <1>1, <3>1, <3>3, <3>4 DEF FiringRecord
  <2> QED
    BY <1>1, <2>2, <2>3
<1>13. LogAgrees(new)
  BY <1>1, <1>9, <1>10, <1>11, <1>12 DEF LogAgrees
<1> QED
  BY <1>13 DEF new, log

\* Only an open firing moves, and it does not become open again.
LEMMA MoveAgrees ==
    ASSUME NEW log \in Seq(FiringRecord), LogAgrees(log), NEW i \in DOMAIN log, IsOpen(log[i]),
           NEW d \in {"submitted", "accepted", "rejected", "superseded", "unknown"},
           NEW new, new = [log EXCEPT ![i].delivery = d]
    PROVE  LogAgrees(new)
<1>1. \A j \in DOMAIN log : log[j] \in FiringRecord
  BY ElementOfSeq
<1>2. DOMAIN new = DOMAIN log /\ DOMAIN log \subseteq Nat
  OBVIOUS
<1>3. \A j \in DOMAIN log : /\ new[j].outcome = log[j].outcome
                            /\ new[j].noticed <=> log[j].noticed
                            /\ IsOpen(new[j]) => IsOpen(log[j])
  BY <1>1 DEF FiringRecord, IsOpen
<1>4. \A j, k \in DOMAIN log : \A m \in j..k : m \in DOMAIN log
  BY LenProperties
<1>5. \A j \in DOMAIN new : /\ IsOpen(new[j]) => new[j].outcome = "materialized"
                           /\ new[j].noticed => new[j].outcome = "target_unavailable"
  BY <1>2, <1>3 DEF LogAgrees
<1>6. \A j, k \in DOMAIN new :
         k <= j /\ new[j].outcome = "target_unavailable" => ~IsOpen(new[k])
  BY <1>2, <1>3 DEF LogAgrees
<1>7. \A j, k \in DOMAIN new :
         j < k /\ new[j].outcome = "target_unavailable" /\ new[k].outcome = "skipped"
         => \E m \in j..k : new[m].outcome = "materialized"
  BY <1>2, <1>3, <1>4 DEF LogAgrees
<1>8. \A j, k \in DOMAIN new :
         j < k /\ new[j].noticed /\ new[k].noticed
         => \E m \in j..k : new[m].outcome = "materialized"
  BY <1>2, <1>3, <1>4 DEF LogAgrees
<1> QED
  BY <1>5, <1>6, <1>7, <1>8 DEF LogAgrees

LEMMA NextLog ==
    ASSUME TypeOK, \A s \in Schedules : LogAgrees(schedule[s].firings), [Next]_vars
    PROVE  \A s \in Schedules : LogAgrees(schedule'[s].firings)
<1>1. CASE schedule' = schedule
  BY <1>1
<1>2. ASSUME NEW s \in Schedules, ScheduleStep(s)
      PROVE  \A t \in Schedules : LogAgrees(schedule'[t].firings)
  <2>1. \A t \in Schedules \ {s} : schedule'[t] = schedule[t]
    BY <1>2 DEF TypeOK, ScheduleStep, CreateTellSchedule, FireTellSchedule, MoveFiring,
                CancelSchedule
  <2>2. LogAgrees(schedule'[s].firings)
    <3>1. CASE CreateTellSchedule(s)
      BY <3>1, EmptyLog DEF TypeOK, CreateTellSchedule
    <3>2. CASE FireTellSchedule(s)
      <4>1. schedule'[s].firings = Append(schedule[s].firings, Firing(s))
        BY <3>2 DEF TypeOK, ScheduleRecord, FireTellSchedule
      <4> QED
        BY <4>1, FireAgrees
    <3>3. CASE MoveFiring(s)
      <4>1. PICK i \in DOMAIN schedule[s].firings, d \in {"submitted", "accepted", "rejected",
                                                          "superseded", "unknown"} :
               /\ IsOpen(schedule[s].firings[i])
               /\ schedule' = [schedule EXCEPT ![s].firings[i].delivery = d]
        BY <3>3 DEF MoveFiring, IsOpen
      <4>2. schedule[s].firings \in Seq(FiringRecord)
        BY DEF TypeOK, ScheduleRecord
      <4>3. schedule'[s].firings = [schedule[s].firings EXCEPT ![i].delivery = d]
        BY <4>1 DEF TypeOK, ScheduleRecord
      <4> QED
        BY <4>1, <4>2, <4>3, MoveAgrees
    <3>4. CASE CancelSchedule(s)
      BY <3>4 DEF TypeOK, ScheduleRecord, CancelSchedule
    <3> QED
      BY <1>2, <3>1, <3>2, <3>3, <3>4 DEF ScheduleStep
  <2> QED
    BY <2>1, <2>2
<1> QED
  <2>1. UNCHANGED schedule \/ \E s \in Schedules : ScheduleStep(s)
    BY DEF Next, Tick, Depart, Arrive, EndTargeting, ClearMoves, Restart, Reboot,
       ScheduleReminders, OnReminderSnapshot, AskStep, RecordAsk, AcceptAsk, LoseAskOutcome,
       RecordProgress, RecordFinal, MoveFinal, Settle, SnoozeReminder, IncreaseReminderInterval,
       DisableReminder, WriteReminder, DropReminder, FailReminderOpen, CompleteReminder,
       CrashInIntent, vars
  <2> QED
    BY <1>1, <1>2, <2>1

-----------------------------------------------------------------------------
(* The theorems.                                                            *)

\* What the policies, drafts, attempts and logs have in common in every reachable state.
THEOREM RecurringInvariant == Spec => []RecurringInv
<1>1. Init => RecurringInv
  <2> SUFFICES ASSUME Init PROVE RecurringInv
    OBVIOUS
  <2>1. \A a \in Asks : AskAgrees(a)
    BY ConstantFacts DEF Init, AskAgrees, Live, NoDraft, Never
  <2>2. \A s \in Schedules : LogAgrees(schedule[s].firings)
    BY EmptyLog DEF Init
  <2> QED
    BY <2>1, <2>2, InitTyped DEF RecurringInv
<1>2. RecurringInv /\ [Next]_vars => RecurringInv'
  <2> SUFFICES ASSUME RecurringInv, [Next]_vars PROVE RecurringInv'
    OBVIOUS
  <2>1. TypeOK'
    BY NextTyped
  <2>2. \A a \in Asks : AskAgrees(a)'
    BY NextAgrees DEF RecurringInv
  <2>3. \A s \in Schedules : LogAgrees(schedule'[s].firings)
    BY NextLog DEF RecurringInv
  <2> QED
    BY <2>1, <2>2, <2>3 DEF RecurringInv, LogAgrees
<1> QED
  BY <1>1, <1>2, PTL DEF Spec

\* Clock, policies, drafts and logs are well typed; the deadlines of all policies stay
\* within one interval of the clock, which is why this needs the whole invariant.
THEOREM RecurringTypeCorrect == Spec => []TypeOK
<1>1. RecurringInv => TypeOK
  BY DEF RecurringInv
<1> QED
  BY <1>1, RecurringInvariant, PTL

\* A schedule gives one notice for each run of firings without a target.
THEOREM RunsAreNoticedOnce == Spec => []NoticeOncePerRun
<1>1. RecurringInv => NoticeOncePerRun
  BY DEF RecurringInv, LogAgrees, NoticeOncePerRun
<1> QED
  BY <1>1, RecurringInvariant, PTL

\* The write of a reminder finds its ask due, quiet and without an uncertain reminder.
THEOREM OnlyDueRemindersAreWritten == Spec => WrittenReminderIsDue
<1> DEFINE Due(a) == /\ Unresolved(a) /\ NoInFlightFinal(a) /\ policy[a].enabled
                     /\ policy[a].snooze <= now
                     /\ now - activity[a] >= policy[a].interval
                     /\ a \notin lapsed
                     /\ draft[a].inc = ready
<1>1. RecurringInv /\ [Next]_vars
         => [\A a \in Asks : (~draft[a].written /\ draft'[a].written) => Due(a)]_vars
  <2> SUFFICES ASSUME RecurringInv, Next, NEW a \in Asks, ~draft[a].written, draft'[a].written
               PROVE  Due(a)
    OBVIOUS
  <2>1. TypeOK /\ AskAgrees(a)
    BY DEF RecurringInv
  <2>2. WriteReminder(a)
    <3>1. CASE Tick \/ Depart \/ Arrive \/ EndTargeting \/ ClearMoves \/ ScheduleReminders
      BY <3>1 DEF Tick, Depart, Arrive, EndTargeting, ClearMoves, ScheduleReminders, daemonVars
    <3>2. CASE Restart \/ \E b \in Asks : CrashInIntent(b)
      <4>1. \A found : Reboot(found) => draft'[a] = NoDraft
        BY DEF Reboot
      <4>2. draft'[a] = NoDraft
        BY <3>2, <4>1 DEF Restart, CrashInIntent
      <4> QED
        BY <4>2 DEF NoDraft
    <3>3. CASE OnReminderSnapshot
      BY <2>1, <3>3, SnapshotCases DEF OnReminderSnapshot, DraftReminder
    <3>4. CASE \E s \in Schedules : ScheduleStep(s)
      BY <3>4 DEF ScheduleStep, CreateTellSchedule, FireTellSchedule, MoveFiring, CancelSchedule,
                  daemonVars
    <3>5. ASSUME NEW b \in Asks, DropReminder(b) \/ FailReminderOpen(b) \/ CompleteReminder(b)
          PROVE  FALSE
      BY <2>1, <3>5 DEF TypeOK, DropReminder, FailReminderOpen, CompleteReminder, Forget, NoDraft
    <3>6. ASSUME NEW b \in Asks, WriteReminder(b) PROVE b = a
      BY <2>1, <3>6 DEF TypeOK, WriteReminder
    <3>7. ASSUME NEW b \in Asks,
                 \/ RecordAsk(b) \/ AcceptAsk(b) \/ LoseAskOutcome(b) \/ RecordProgress(b)
                 \/ RecordFinal(b) \/ MoveFinal(b) \/ Settle(b) \/ SnoozeReminder(b)
                 \/ IncreaseReminderInterval(b) \/ DisableReminder(b)
          PROVE  FALSE
      BY <3>7 DEF RecordAsk, AcceptAsk, LoseAskOutcome, RecordProgress, RecordFinal, MoveFinal,
                  Settle, SnoozeReminder, IncreaseReminderInterval, DisableReminder, daemonVars
    <3> QED
      BY <3>1, <3>2, <3>3, <3>4, <3>5, <3>6, <3>7 DEF Next, AskStep
  <2>3. DueAt(a, draft[a].at) /\ ready = draft[a].inc
    BY <2>2 DEF WriteReminder, CommitReminderIntent, Eligible
  <2>4. policy[a].next <= now /\ policy[a].snooze <= now
    BY <2>1, <2>3, AskRange DEF DueAt, Latest, AskAgrees
  <2>5. now - activity[a] >= policy[a].interval
    BY <2>1, <2>3, <2>4, AskRange DEF DueAt, AskAgrees
  <2>6. a \notin lapsed
    BY <2>1, <2>3 DEF DueAt, AskAgrees, Live
  <2> QED
    BY <2>3, <2>4, <2>5, <2>6 DEF DueAt, Live
<1> QED
  BY <1>1, RecurringInvariant, PTL DEF Spec, WrittenReminderIsDue

LEMMA LaterDeadline ==
    ASSUME NEW t \in Int, NEW u \in Int, NEW s \in Int, t <= u
    PROVE  Latest(t, s) <= Latest(u, s)
  BY DEF Latest

\* Only a snooze moves a reminder closer.
THEOREM DeadlinesStay == Spec => DeadlineNeverMovesEarlier
<1> DEFINE Stays(a) ==
        \/ policy'[a].snooze # policy[a].snooze
        \/ Latest(policy[a].next, policy[a].snooze)
               <= Latest(policy'[a].next, policy'[a].snooze)
<1>1. RecurringInv /\ [Next]_vars => [\A a \in Asks : Stays(a)]_vars
  <2> SUFFICES ASSUME RecurringInv, Next, NEW a \in Asks PROVE Stays(a)
    OBVIOUS
  <2>1. TypeOK /\ TypeOK' /\ AskAgrees(a)
    BY NextTyped DEF RecurringInv
  <2>2. policy[a] \in PolicyRecord /\ policy'[a] \in PolicyRecord
    BY <2>1 DEF TypeOK
  <2>3. /\ policy[a].next \in Int /\ policy[a].snooze \in Int /\ draft[a].at \in Int
        /\ policy'[a].next \in Int /\ policy'[a].snooze \in Int /\ now \in Nat
        /\ policy[a].interval \in Nat
    <3>1. /\ policy[a].next \in Int /\ policy[a].snooze \in Int /\ draft[a].at \in Int
          /\ now \in Nat /\ policy[a].interval \in Nat
      BY <2>1, AskRange
    <3>2. policy'[a].next \in Int /\ policy'[a].snooze \in Int
      BY <2>2, ConstantFacts DEF PolicyRecord, Times, Never
    <3> QED
      BY <3>1, <3>2
  <2>4. ASSUME policy'[a].next >= policy[a].next PROVE Stays(a)
    BY <2>3, <2>4, LaterDeadline
  <2>5. CASE policy' = policy
    BY <2>3, <2>4, <2>5
  <2>6. CASE OnReminderSnapshot
    <3>1. ASSUME NEW due \in SUBSET job.due, DeferBusyReminder(due)
          PROVE  policy'[a].next >= policy[a].next
      BY <2>1, <2>3, <3>1 DEF DeferBusyReminder, Latest, Recheck, TypeOK, PolicyRecord
    <3> QED
      BY <2>1, <2>4, <2>5, <2>6, <3>1, SnapshotCases DEF OnReminderSnapshot
  <2>7. ASSUME NEW found \in [Asks -> Phase], Reboot(found) PROVE Stays(a)
    <3>1. policy'[a].next = policy[a].next
      BY <2>1, <2>2, <2>7 DEF Reboot, ReconcileReminderAttempts, PolicyRecord
    <3> QED
      BY <2>3, <2>4, <3>1
  <2>8. ASSUME NEW b \in Asks, AskStep(b) PROVE Stays(a)
    <3>1. CASE a # b /\ ~CrashInIntent(b)
      <4>1. policy'[a] = policy[a]
        BY <2>1, <2>8, <3>1 DEF TypeOK, AskStep, RecordAsk, AcceptAsk, ArmReminder, LoseAskOutcome,
           RecordProgress, RecordFinal, RefreshReminderActivity, MoveFinal, Settle, SnoozeReminder,
           IncreaseReminderInterval, DisableReminder, WriteReminder, DropReminder,
           FailReminderOpen, CompleteReminder, ResolveReminderAttempt
      <4> QED
        BY <2>3, <2>4, <4>1
    <3>2. CASE CrashInIntent(b)
      BY <2>1, <2>7, <3>2 DEF CrashInIntent, TypeOK, Phase
    <3>3. CASE LoseAskOutcome(a) \/ MoveFinal(a) \/ Settle(a) \/ WriteReminder(a)
               \/ DropReminder(a) \/ FailReminderOpen(a)
      BY <2>5, <3>3 DEF LoseAskOutcome, MoveFinal, Settle, WriteReminder, DropReminder,
                        FailReminderOpen
    <3>4. CASE AcceptAsk(a)
      BY <2>1, <2>3, <2>4, <3>4 DEF AcceptAsk, ArmReminder, TypeOK, PolicyRecord, AskAgrees
    <3>5. CASE RecordProgress(a) \/ RecordFinal(a)
      BY <2>1, <2>3, <2>4, <3>5 DEF RecordProgress, RecordFinal, RefreshReminderActivity, TypeOK,
         PolicyRecord, Latest
    <3>6. CASE SnoozeReminder(a) \/ RecordAsk(a) \/ DisableReminder(a)
      <4>1. policy'[a].next = policy[a].next
        BY <2>1, <2>2, <3>6 DEF SnoozeReminder, RecordAsk, DisableReminder, TypeOK, PolicyRecord
      <4> QED
        BY <2>3, <2>4, <4>1
    <3>7. CASE IncreaseReminderInterval(a)
      BY <2>1, <2>3, <2>4, <3>7, ConstantFacts DEF IncreaseReminderInterval, TypeOK, PolicyRecord,
         Latest, Never
    <3>8. CASE CompleteReminder(a)
      BY <2>1, <2>3, <2>4, <3>8 DEF CompleteReminder, ResolveReminderAttempt, TypeOK, PolicyRecord,
         Latest
    <3> QED
      BY <2>8, <3>1, <3>2, <3>3, <3>4, <3>5, <3>6, <3>7, <3>8 DEF AskStep
  <2>9. CASE Tick \/ Depart \/ Arrive \/ EndTargeting \/ ClearMoves \/ ScheduleReminders
             \/ \E s \in Schedules : ScheduleStep(s)
    <3>1. UNCHANGED policy
      BY <2>9 DEF Tick, Depart, Arrive, EndTargeting, ClearMoves, ScheduleReminders, ScheduleStep,
         CreateTellSchedule, FireTellSchedule, MoveFiring, CancelSchedule
    <3> QED
      BY <2>5, <3>1
  <2> QED
    BY <2>1, <2>6, <2>7, <2>8, <2>9 DEF Next, Restart, TypeOK
<1> QED
  BY <1>1, RecurringInvariant, PTL DEF Spec, DeadlineNeverMovesEarlier
============================================================================
