----------------------------- MODULE Recurring -----------------------------
(***************************************************************************)
(* What the daemon repeats by the clock: reply reminders and tell schedules. *)
(*                                                                          *)
(* Every ask has a reminder policy, armed when the ask was delivered.  Each   *)
(* poll collects the asks that are due, reads a lifecycle snapshot, drafts a  *)
(* reminder for the idle agents and postpones the busy ones, and writes the   *)
(* drafts once a lane is open: replies, snoozes, longer intervals and a       *)
(* replaced runtime come between any two of these.  A tell schedule fires     *)
(* one tell per interval, unless its previous one is still undelivered or     *)
(* its target cannot be reached.                                             *)
(*                                                                          *)
(* All asks are owed by one agent, which is the target of all schedules.      *)
(* The agent's incarnations are counted as they become ready.                *)
(***************************************************************************)
EXTENDS Integers, Sequences, FiniteSets

CONSTANTS
    Asks,
    Schedules,
    Interval,       \* the interval of a new policy and of every schedule
    Longer,         \* the interval its receiver may raise it to
    MaxTime,        \* bound: the clock stops here
    MaxIncarnations,\* bound: how often the agent is replaced
    MaxFirings,     \* bound: cycles of a schedule
    MaxTimers,      \* bound: policies and schedules in one behaviour
    LastStart,      \* bound: the time by which they are created
    MaxEvents,      \* bound: replies, controls and clears in one behaviour
    MaxCrashes      \* bound

ASSUME RecurringAssumption ==
    /\ Interval \in Nat \ {0} /\ Longer \in Nat /\ Longer > Interval
    /\ MaxTime \in Nat /\ MaxIncarnations \in Nat \ {0} /\ MaxFirings \in Nat
    /\ MaxTimers \in Nat /\ LastStart \in Nat /\ MaxEvents \in Nat /\ MaxCrashes \in Nat

VARIABLES
    now,       \* the host's clock, in units of the busy recheck
    ready,     \* the agent's Ready incarnation, or None
    started,   \* incarnations that ever were ready
    gap,       \* whether a clear of the agent is open, or was a moment ago
    obligation,\* the asks, with the final reply to each
    policy,    \* reminder policies
    attempt,   \* the phase of the latest reminder attempt for each ask
    job,       \* the reminder snapshot on its lane, with what was collected for it
    draft,     \* the reminder in flight for each ask
    activity,  \* when the latest reply to each ask was recorded
    lapsed,    \* asks with a written reminder whose outcome nobody learned
    schedule,  \* tell schedules, with the log of their firings
    ended,     \* whether targeting of the agent has ended
    events,    \* how many of the bounded events happened
    crashes

agentVars == <<ready, started, gap, ended>>
daemonVars == <<job, draft>>
history == <<activity, lapsed>>
bounds == <<events, crashes>>
vars == <<now, agentVars, obligation, policy, attempt, daemonVars, history, schedule, bounds>>

None == 0
Never == -1
Recheck == 1     \* the busy recheck, and the unit of the clock
Latest(t, u) == IF t < u THEN u ELSE t

Times == Never..(MaxTime + Longer)
NoDraft == [inc |-> None, at |-> Never, written |-> FALSE]

ObligationRecord ==
    [state : {"none", "open", "in_progress", "settled"},
     delivery : {"none", "submitted", "accepted", "unknown"},
     final : {"none", "pending", "in_flight", "failed"}]
PolicyRecord ==
    [next : Times, snooze : Times, interval : {Interval, Longer},
     enabled : BOOLEAN, suspended : BOOLEAN]
Phase == {"none", "prepared", "submitted", "accepted", "rejected", "unknown"}
DraftRecord == [inc : 0..MaxIncarnations, at : Times, written : BOOLEAN]
JobRecord == [busy : BOOLEAN, due : SUBSET Asks, inc : 0..MaxIncarnations]
FiringRecord ==
    [outcome : {"materialized", "skipped", "target_unavailable"},
     delivery : {"none", "queued", "submitted", "accepted", "rejected", "superseded", "unknown"},
     noticed : BOOLEAN]
ScheduleRecord ==
    [state : {"none", "active", "cancelled"}, socket : BOOLEAN, next : Times,
     firings : Seq(FiringRecord)]

TypeOK ==
    /\ now \in 0..MaxTime
    /\ started \in 0..MaxIncarnations /\ ready \in {None, started}
    /\ gap \in {"none", "clear", "spacing"} /\ ended \in BOOLEAN
    /\ obligation \in [Asks -> ObligationRecord]
    /\ policy \in [Asks -> PolicyRecord]
    /\ attempt \in [Asks -> Phase]
    /\ job \in JobRecord /\ draft \in [Asks -> DraftRecord]
    /\ activity \in [Asks -> Times] /\ lapsed \subseteq Asks
    /\ schedule \in [Schedules -> ScheduleRecord]
    /\ events \in 0..MaxEvents /\ crashes \in 0..MaxCrashes

Init ==
    /\ now = 0 /\ started = 1 /\ ready = 1 /\ gap = "none" /\ ended = FALSE
    /\ events = 0 /\ crashes = 0
    /\ obligation = [a \in Asks |-> [state |-> "none", delivery |-> "none", final |-> "none"]]
    /\ policy = [a \in Asks |-> [next |-> Never, snooze |-> Never, interval |-> Interval,
                                 enabled |-> TRUE, suspended |-> FALSE]]
    /\ attempt = [a \in Asks |-> "none"]
    /\ job = [busy |-> FALSE, due |-> {}, inc |-> None]
    /\ draft = [a \in Asks |-> NoDraft]
    /\ activity = [a \in Asks |-> Never] /\ lapsed = {}
    /\ schedule = [s \in Schedules |-> [state |-> "none", socket |-> FALSE, next |-> Never,
                                        firings |-> <<>>]]

Unresolved(a) == obligation[a].state \in {"open", "in_progress"}
Live(a) == policy[a].enabled /\ ~policy[a].suspended
TimerLeft ==
    /\ now <= LastStart
    /\ Cardinality({a \in Asks : obligation[a].state # "none"})
        + Cardinality({s \in Schedules : schedule[s].state # "none"}) < MaxTimers

Event == events < MaxEvents /\ events' = events + 1

-----------------------------------------------------------------------------
(* The agent and its conversation, as far as reminders depend on them.      *)

Tick ==
    /\ now < MaxTime
    /\ now' = now + 1
    /\ UNCHANGED <<agentVars, obligation, policy, attempt, daemonVars, history, schedule, bounds>>

\* The runtime goes away; a replacement becomes ready; the agent leaves for good,
\* which only schedules notice.
Depart ==
    /\ ready # None
    /\ ready' = None /\ gap' = "none"
    /\ UNCHANGED <<now, started, obligation, policy, attempt, daemonVars, history, schedule,
                   ended, bounds>>

Arrive ==
    /\ ready = None /\ ~ended /\ started < MaxIncarnations
    /\ started' = started + 1 /\ ready' = started + 1
    /\ UNCHANGED <<now, gap, obligation, policy, attempt, daemonVars, history, schedule, ended,
                   bounds>>

EndTargeting ==
    /\ ready = None /\ ~ended /\ \E s \in Schedules : schedule[s].state = "active"
    /\ ended' = TRUE
    /\ UNCHANGED <<now, ready, started, gap, obligation, policy, attempt, daemonVars, history,
                   schedule, bounds>>

\* A clear is opened, ends, and its settle gap runs out.
ClearMoves ==
    /\ ready # None
    /\ IF gap = "none" THEN Event ELSE UNCHANGED events
    /\ gap' = CASE gap = "none" -> "clear" [] gap = "clear" -> "spacing" [] OTHER -> "none"
    /\ UNCHANGED <<now, ready, started, obligation, policy, attempt, daemonVars, history,
                   schedule, ended, crashes>>

InsertObligation(a) ==
    obligation' = [obligation EXCEPT ![a].state = "open", ![a].delivery = "submitted"]

\* An ask has a policy, unless its asker left it out, and the policy is not armed yet.
RecordAsk(a) ==
    /\ obligation[a].state = "none" /\ ready # None /\ TimerLeft
    /\ InsertObligation(a)
    /\ \E enabled \in BOOLEAN : policy' = [policy EXCEPT ![a].enabled = enabled]
    /\ UNCHANGED <<now, agentVars, attempt, daemonVars, history, schedule, bounds>>

\* accept_delivery: the ask's acceptance arms its policy.
ArmReminder(a) ==
    policy' = [policy EXCEPT ![a].next = IF Live(a) THEN now + policy[a].interval ELSE @]

AcceptAsk(a) ==
    /\ obligation[a].delivery = "submitted"
    /\ obligation' = [obligation EXCEPT ![a].delivery = "accepted"]
    /\ ArmReminder(a)
    /\ activity' = [activity EXCEPT ![a] = now]
    /\ UNCHANGED <<now, agentVars, attempt, daemonVars, lapsed, schedule, bounds>>

LoseAskOutcome(a) ==
    /\ obligation[a].delivery = "submitted"
    /\ obligation' = [obligation EXCEPT ![a].delivery = "unknown"]
    /\ UNCHANGED <<now, agentVars, policy, attempt, daemonVars, history, schedule, bounds>>

RefreshReminderActivity(a) ==
    /\ policy' = [policy EXCEPT ![a].next = IF Live(a) THEN Latest(@, now + policy[a].interval)
                                                       ELSE @]
    /\ activity' = [activity EXCEPT ![a] = now]

\* The owing agent's reply.  A final is prompted at once or waits in a queue; one at
\* a time is kept here.
RecordProgress(a) ==
    /\ Event
    /\ Unresolved(a)
    /\ obligation' = [obligation EXCEPT ![a].state = "in_progress"]
    /\ RefreshReminderActivity(a)
    /\ UNCHANGED <<now, agentVars, attempt, daemonVars, lapsed, schedule, crashes>>

RecordFinal(a) ==
    /\ Event
    /\ Unresolved(a) /\ obligation[a].final \in {"none", "failed"}
    /\ \E queued \in BOOLEAN :
          obligation' = [obligation EXCEPT ![a].final = IF queued THEN "in_flight" ELSE "pending"]
    /\ RefreshReminderActivity(a)
    /\ UNCHANGED <<now, agentVars, attempt, daemonVars, lapsed, schedule, crashes>>

\* The final's queued delivery is submitted, or it fails.
MoveFinal(a) ==
    /\ \/ obligation[a].final = "pending"
          /\ obligation' = [obligation EXCEPT ![a].final = "in_flight"]
       \/ obligation[a].final \in {"pending", "in_flight"}
          /\ obligation' = [obligation EXCEPT ![a].final = "failed"]
    /\ UNCHANGED <<now, agentVars, policy, attempt, daemonVars, history, schedule, bounds>>

\* The accepted final resolves the ask, or its asker or the absence sweep ends it.
Settle(a) ==
    /\ Unresolved(a)
    /\ obligation' = [obligation EXCEPT ![a].state = "settled"]
    /\ UNCHANGED <<now, agentVars, policy, attempt, daemonVars, history, schedule, bounds>>

-----------------------------------------------------------------------------
(* The receiver's control over its reminders.                               *)

\* snooze_reminder: it replaces an earlier snooze, even by a shorter one.  A short and
\* a long snooze stand for all.
SnoozeReminder(a) ==
    /\ Event
    /\ Unresolved(a) /\ policy[a].enabled
    /\ \E until \in {now + 1, now + Longer} :
          policy' = [policy EXCEPT ![a].snooze = until]
    /\ UNCHANGED <<now, agentVars, obligation, attempt, daemonVars, history, schedule, crashes>>

\* increase_reminder_interval: of an armed policy it also moves the deadline.
IncreaseReminderInterval(a) ==
    /\ Event
    /\ Unresolved(a) /\ policy[a].enabled /\ policy[a].interval < Longer
    /\ policy' = [policy EXCEPT
          ![a].interval = Longer,
          ![a].next = IF @ = Never THEN Never
                      ELSE Latest(@, Latest(policy[a].snooze, now + Longer))]
    /\ UNCHANGED <<now, agentVars, obligation, attempt, daemonVars, history, schedule, crashes>>

DisableReminder(a) ==
    /\ Event
    /\ Unresolved(a) /\ policy[a].enabled
    /\ policy' = [policy EXCEPT ![a].enabled = FALSE]
    /\ UNCHANGED <<now, agentVars, obligation, attempt, daemonVars, history, schedule, crashes>>

-----------------------------------------------------------------------------
(* From a due deadline to a written reminder.                               *)

NoInFlightFinal(a) == obligation[a].final # "in_flight"

DueAt(a, t) ==
    /\ Unresolved(a) /\ Live(a) /\ NoInFlightFinal(a)
    /\ policy[a].next # Never
    /\ Latest(policy[a].next, policy[a].snooze) <= t

DueReminders == {a \in Asks : DueAt(a, now) /\ ready # None /\ gap # "clear"}

\* collect_due_reminders leaves out recipients within the gap after a clear.
CollectDueReminders == {a \in DueReminders : gap # "spacing"}

\* schedule_reminders: one snapshot at a time, none while a reminder is in flight.
ScheduleReminders ==
    /\ ~job.busy /\ \A a \in Asks : draft[a] = NoDraft
    /\ CollectDueReminders # {}
    /\ job' = [busy |-> TRUE, due |-> CollectDueReminders, inc |-> ready]
    /\ UNCHANGED <<now, agentVars, obligation, policy, attempt, draft, history, schedule, bounds>>

\* defer_busy_reminder, which refuses a policy that is no longer active.
DeferBusyReminder(due) ==
    policy' = [a \in Asks |->
        IF a \in due THEN [policy[a] EXCEPT !.next = Latest(@, now + Recheck)] ELSE policy[a]]

DraftReminder(due) ==
    draft' = [a \in Asks |->
        IF a \in due THEN [inc |-> job.inc, at |-> now, written |-> FALSE] ELSE draft[a]]

\* reminders_after_snapshot: all asks of one agent are either drafted or postponed.
\* The agent the snapshot shows in the pane may be a later one.
RemindersAfterSnapshot(idle) ==
    IF idle THEN DraftReminder(job.due) /\ UNCHANGED policy
    ELSE /\ \/ (\A a \in job.due : Live(a) /\ Unresolved(a)) /\ DeferBusyReminder(job.due)
            \/ \E b \in job.due :
                  /\ ~(Live(b) /\ Unresolved(b))
                  /\ \E before \in SUBSET {a \in job.due : Live(a) /\ Unresolved(a)} :
                        DeferBusyReminder(before)
         /\ UNCHANGED draft

\* on_reminder_snapshot; a snapshot that failed leaves everything as it was.
OnReminderSnapshot ==
    /\ job.busy
    /\ job' = [busy |-> FALSE, due |-> {}, inc |-> None]
    /\ \/ \E idle \in BOOLEAN : RemindersAfterSnapshot(idle)
       \/ UNCHANGED <<policy, draft>>
    /\ UNCHANGED <<now, agentVars, obligation, attempt, history, schedule, bounds>>

\* prepare_reminder_attempt asks again, as of the time of the draft, and for the
\* exact incarnation; a clear that was opened since is not asked about.
Eligible(a) == DueAt(a, draft[a].at) /\ ready = draft[a].inc

\* commit_reminder_intent: the attempt is prepared, then submitted.
CommitReminderIntent(a) == Eligible(a) /\ attempt' = [attempt EXCEPT ![a] = "submitted"]

Forget(a) == draft' = [draft EXCEPT ![a] = NoDraft]

\* on_prompt_opened for a reminder: it is written, or no longer due and dropped.
WriteReminder(a) ==
    /\ draft[a] # NoDraft /\ ~draft[a].written
    /\ CommitReminderIntent(a)
    /\ draft' = [draft EXCEPT ![a].written = TRUE]
    /\ UNCHANGED <<now, agentVars, obligation, policy, job, history, schedule, bounds>>

DropReminder(a) ==
    /\ draft[a] # NoDraft /\ ~draft[a].written /\ ~Eligible(a)
    /\ Forget(a)
    /\ UNCHANGED <<now, agentVars, obligation, policy, attempt, job, history, schedule, bounds>>

\* fail_parked_prompt before the intent: no lane could be opened.
FailReminderOpen(a) ==
    /\ draft[a] # NoDraft /\ ~draft[a].written
    /\ Forget(a)
    /\ UNCHANGED <<now, agentVars, obligation, policy, attempt, job, history, schedule, bounds>>

\* Variant for the mutation check: the deadline of the attempt replaces the stored one.
ResolveReminderAttemptAnew(a, outcome) ==
    /\ attempt' = [attempt EXCEPT ![a] = outcome]
    /\ policy' = IF outcome = "unknown" THEN [policy EXCEPT ![a].suspended = TRUE]
                 ELSE [policy EXCEPT ![a].next = draft[a].at + policy[a].interval]

\* Variant for the mutation check: the interval is added to the moved deadline again.
ResolveReminderAttemptTwice(a, outcome) ==
    /\ attempt' = [attempt EXCEPT ![a] = outcome]
    /\ policy' = IF outcome = "unknown" THEN [policy EXCEPT ![a].suspended = TRUE]
                 ELSE [policy EXCEPT ![a].next = policy[a].interval
                                        + Latest(@, draft[a].at + policy[a].interval)]

\* resolve_reminder_attempt, as of the time of the draft: an unknown outcome suspends
\* the policy, any other starts the interval anew unless the deadline is later already.
ResolveReminderAttempt(a, outcome) ==
    /\ attempt' = [attempt EXCEPT ![a] = outcome]
    /\ policy' = IF outcome = "unknown" THEN [policy EXCEPT ![a].suspended = TRUE]
                 ELSE [policy EXCEPT ![a].next = Latest(@, draft[a].at + policy[a].interval)]

\* complete_reminder: Herdr observed the prompt or saw it stall (accepted), refused it,
\* or nothing is known: the answer was lost or came from a replacement runtime.
CompleteReminder(a) ==
    /\ draft[a].written
    /\ \E outcome \in {"accepted", "rejected", "unknown"} :
          /\ ResolveReminderAttempt(a, outcome)
          /\ lapsed' = IF outcome = "unknown" THEN lapsed \cup {a} ELSE lapsed
    /\ Forget(a)
    /\ UNCHANGED <<now, agentVars, obligation, job, activity, schedule, bounds>>

\* Variant for the mutation check: a submitted attempt is only closed.
ReconcileReminderAttemptsLeniently(found) ==
    /\ attempt' = [a \in Asks |-> IF found[a] = "prepared" THEN "none"
                                  ELSE IF found[a] = "submitted" THEN "unknown"
                                  ELSE found[a]]
    /\ UNCHANGED policy

\* reconcile_reminder_attempts at boot, of the attempts found in the store.
ReconcileReminderAttempts(found) ==
    /\ attempt' = [a \in Asks |-> IF found[a] = "prepared" THEN "none"
                                  ELSE IF found[a] = "submitted" THEN "unknown"
                                  ELSE found[a]]
    /\ policy' = [a \in Asks |-> [policy[a] EXCEPT !.suspended = @ \/ found[a] = "submitted"]]

\* The daemon is killed and boots: drafts and the snapshot job are gone.
Reboot(found) ==
    /\ crashes < MaxCrashes
    /\ crashes' = crashes + 1
    /\ job' = [busy |-> FALSE, due |-> {}, inc |-> None]
    /\ draft' = [a \in Asks |-> NoDraft]
    /\ ReconcileReminderAttempts(found)
    /\ lapsed' = lapsed \cup {a \in Asks : draft[a].written}
    /\ UNCHANGED <<now, agentVars, obligation, activity, schedule, events>>

Restart == Reboot(attempt)

\* It is killed after prepare_reminder_attempt and before submit_reminder_attempt.
CrashInIntent(a) ==
    /\ draft[a] # NoDraft /\ ~draft[a].written /\ Eligible(a)
    /\ Reboot([attempt EXCEPT ![a] = "prepared"])

-----------------------------------------------------------------------------
(* Repeating tells.                                                         *)

\* A retry with a used idempotency key gets the schedule of the first call.
NewScheduleKey(s) == schedule[s].state = "none"

\* create_tell_schedule, first due now or later.
CreateTellSchedule(s) ==
    /\ NewScheduleKey(s) /\ TimerLeft
    /\ \E socket \in BOOLEAN, first \in {now, now + 1} :
          schedule' = [schedule EXCEPT ![s] =
              [state |-> "active", socket |-> socket, next |-> first, firings |-> <<>>]]
    /\ UNCHANGED <<now, agentVars, obligation, policy, attempt, daemonVars, history, bounds>>

DueTellSchedule(s) == schedule[s].state = "active" /\ schedule[s].next <= now

\* Some earlier firing still has an open delivery.
UnresolvedFiring(s) ==
    \E i \in DOMAIN schedule[s].firings :
        schedule[s].firings[i].delivery \in {"queued", "submitted"}

\* A socket inbox is addressable until targeting ended, a pane while the agent is ready.
Addressable(s) == ~ended /\ (schedule[s].socket \/ ready # None)

\* A notice opens a run of unavailable firings.
NoticeDue(s) ==
    LET log == schedule[s].firings IN
    log = <<>> \/ log[Len(log)].outcome # "target_unavailable"

SkippedFiring == [outcome |-> "skipped", delivery |-> "none", noticed |-> FALSE]

UnavailableFiring(s) ==
    [outcome |-> "target_unavailable", delivery |-> "none", noticed |-> NoticeDue(s)]

\* A tell with a delivery to the host's inbox or to the ready incarnation.
MaterializedFiring == [outcome |-> "materialized", delivery |-> "queued", noticed |-> FALSE]

\* Variant for the mutation check: the target is looked at first.
FiringTargetFirst(s) ==
    IF ~Addressable(s) THEN UnavailableFiring(s)
    ELSE IF UnresolvedFiring(s) THEN SkippedFiring
    ELSE MaterializedFiring

\* What one due firing records: an undelivered tell is not doubled, and an
\* unavailable target gets none.
Firing(s) ==
    IF UnresolvedFiring(s) THEN SkippedFiring
    ELSE IF ~Addressable(s) THEN UnavailableFiring(s)
    ELSE MaterializedFiring

\* fire_tell_schedule, within the poll that found it due.  The next interval starts now.
FireTellSchedule(s) ==
    /\ DueTellSchedule(s) /\ Len(schedule[s].firings) < MaxFirings
    /\ schedule' = [schedule EXCEPT ![s].next = now + Interval,
                                    ![s].firings = Append(@, Firing(s))]
    /\ UNCHANGED <<now, agentVars, obligation, policy, attempt, daemonVars, history, bounds>>

\* The tell's delivery moves on: to a pane that is written, to a host's inbox, or away.
MoveFiring(s) ==
    \E i \in DOMAIN schedule[s].firings :
        /\ \/ /\ schedule[s].firings[i].delivery = "queued"
              /\ schedule' = [schedule EXCEPT ![s].firings[i].delivery =
                    IF schedule[s].socket THEN "accepted" ELSE "submitted"]
           \/ /\ schedule[s].firings[i].delivery = "queued"
              /\ \E outcome \in {"rejected", "superseded"} :
                    schedule' = [schedule EXCEPT ![s].firings[i].delivery = outcome]
           \/ /\ schedule[s].firings[i].delivery = "submitted"
              /\ \E outcome \in {"accepted", "rejected", "unknown"} :
                    schedule' = [schedule EXCEPT ![s].firings[i].delivery = outcome]
        /\ UNCHANGED <<now, agentVars, obligation, policy, attempt, daemonVars, history, bounds>>

\* cancel_schedule leaves a tell that is already queued alone.
CancelSchedule(s) ==
    /\ schedule[s].state = "active"
    /\ schedule' = [schedule EXCEPT ![s].state = "cancelled"]
    /\ UNCHANGED <<now, agentVars, obligation, policy, attempt, daemonVars, history, bounds>>

-----------------------------------------------------------------------------
AskStep(a) ==
    \/ RecordAsk(a) \/ AcceptAsk(a) \/ LoseAskOutcome(a)
    \/ RecordProgress(a) \/ RecordFinal(a) \/ MoveFinal(a) \/ Settle(a)
    \/ SnoozeReminder(a) \/ IncreaseReminderInterval(a) \/ DisableReminder(a)
    \/ WriteReminder(a) \/ DropReminder(a) \/ FailReminderOpen(a) \/ CompleteReminder(a)
    \/ CrashInIntent(a)

ScheduleStep(s) ==
    CreateTellSchedule(s) \/ FireTellSchedule(s) \/ MoveFiring(s) \/ CancelSchedule(s)

Next ==
    \/ Tick \/ Depart \/ Arrive \/ EndTargeting \/ ClearMoves \/ Restart
    \/ ScheduleReminders \/ OnReminderSnapshot
    \/ \E a \in Asks : AskStep(a)
    \/ \E s \in Schedules : ScheduleStep(s)

Spec == Init /\ [][Next]_vars

-----------------------------------------------------------------------------
(* Properties.                                                             *)

\* A reminder is written only for an ask that, at the moment of the write and not
\* only when it was drafted, is unresolved, has no final on its way, is not disabled
\* or snoozed, has been quiet for its interval, and has no earlier reminder whose
\* outcome is unknown or that a crash cut off (prepare_reminder_attempt, SPEC.md).
WrittenReminderIsDue ==
    [][\A a \in Asks : (~draft[a].written /\ draft'[a].written)
        => /\ Unresolved(a) /\ NoInFlightFinal(a) /\ policy[a].enabled
           /\ policy[a].snooze <= now
           /\ now - activity[a] >= policy[a].interval
           /\ a \notin lapsed
           /\ draft[a].inc = ready]_vars

\* Nothing but its receiver's snooze moves a reminder closer: activity, raising the
\* interval and the completion of an attempt in flight keep a later deadline.
DeadlineNeverMovesEarlier ==
    [][\A a \in Asks :
        \/ policy'[a].snooze # policy[a].snooze
        \/ Latest(policy[a].next, policy[a].snooze)
               <= Latest(policy'[a].next, policy'[a].snooze)]_vars

\* One notice per run of unavailable firings: between two of them a tell was
\* materialized, however firings, skips and deliveries alternate (fire_tell_schedule).
NoticeOncePerRun ==
    \A s \in Schedules : LET log == schedule[s].firings IN
        \A i, k \in DOMAIN log : i < k /\ log[i].noticed /\ log[k].noticed
            => \E j \in i..k : log[j].outcome = "materialized"
============================================================================
