------------------------------- MODULE Gates -------------------------------
(***************************************************************************)
(* What may be written into one agent's pane, and when: prompts, the       *)
(* standalone clear and the renew cycle, of one incarnation.               *)
(*                                                                         *)
(* A clear or a renew destroys a conversation, so the daemon records its   *)
(* intent before it writes, gates the prompts around the write, and asks   *)
(* for evidence (a rotated backend session) before it calls the clear done.*)
(* Writes go through one Herdr lane, first in first out; reads of the live *)
(* session are answered at any time.  Deadlines are steps that may come at *)
(* any time.  A daemon crash loses the lane and everything parked.         *)
(***************************************************************************)
EXTENDS Naturals, Sequences, FiniteSets

CONSTANTS
    Clears,       \* clear requests clients may make
    Prompts,      \* prompts that may be written to the incarnation: sends of clients,
    Notices,      \* notices of the absence sweep, that an ask of the agent is orphaned,
    Reminders,    \* and reminders of an ask the agent owes
    Policies,     \* renews clients ask for: [every, onTimeout]
    MaxCycles,    \* bound: renew rows, one per cycle
    MaxSessions,  \* bound: backend sessions the agent goes through
    MaxCrashes    \* bound: daemon crashes

ASSUME GatesAssumption ==
    /\ Notices \subseteq Prompts /\ Reminders \subseteq Prompts
    /\ Policies \subseteq [every : BOOLEAN, onTimeout : {"abort", "proceed"}]
    /\ MaxCycles \in Nat
    /\ MaxSessions \in Nat
    /\ MaxCrashes \in Nat

Cycles == 1..MaxCycles
Sessions == 0..MaxSessions

\* When a backend shows a clear's new session; some have no clear command at all.
ClearProtocols == {"on_clear", "on_next_prompt", "none"}

Settled == {"done", "aborted", "terminated"}
\* Phases in which a renew cycle owns the conversation.
Active == {"preparing", "ready", "clearing", "injected", "timed_out"}
Phase == {"none", "scheduled"} \cup Active \cup Settled

\* A clear request: where the daemon holds it, its operation, whether an attempt
\* was submitted, and the session seen before it.
ClearRow ==
    [at : {"none", "settling", "probe", "sending", "sent", "rotation", "answered"},
     op : {"none", "pending", "succeeded", "failed", "unknown"},
     attempted : BOOLEAN,
     pre : Sessions]

\* The prepare ask is unanswered: its prompt is on its way, or was written.
OpenAsk == {"open", "told"}

\* A renew row.  `clock' counts what has passed since the clear: the injection
\* gap, and the time after which its proof is abandoned.  `seen' is the session
\* the parked resume prompt was decided on.  `writes' is history: how often the
\* clear reached the pane.
RenewRow ==
    [phase : Phase,
     every : BOOLEAN,
     onTimeout : {"abort", "proceed"},
     due : BOOLEAN,
     ask : {"none", "stray"} \cup OpenAsk \cup {"resolved", "cancelled"},
     pre : Sessions,
     clock : 0..2,
     step : {"none", "submitted", "resolved"},
     at : {"none", "probe", "clear_open", "rotation", "inject_open", "confirm"},
     seen : Sessions,
     writes : 0..2]

VARIABLES
    timing,    \* the backend's clear protocol
    live,      \* the session the agent really runs
    recorded,  \* observed_native_session_json of the incarnation
    ready,     \* the incarnation is Ready in the store
    clear,     \* [Clears -> ClearRow]
    unproven,  \* unknown clears with no session rotation recorded since
    spacing,   \* the settle gap after the last clear still runs
    prompt,    \* [Prompts -> where the write is]
    due,       \* [Prompts -> when a queued delivery is due]
    row,       \* [Cycles -> RenewRow]
    policy,    \* the schedule behind a recurring renew
    lane,      \* writes waiting for the pane; the head holds the lease
    sent,      \* the head's bytes were written
    crashes

clearVars == <<clear, unproven, spacing>>
promptVars == <<prompt, due>>
renewVars == <<row, policy>>
paneVars == <<lane, sent>>
agentVars == <<timing, live, recorded, ready>>
vars == <<timing, live, recorded, ready, clear, unproven, spacing, prompt, due,
          row, policy, lane, sent, crashes>>

\* The owners of a write on the pane's lane.
Owners == ({"clear"} \X Clears) \cup ({"prompt"} \X Prompts)
          \cup ({"prepare", "renew"} \X Cycles)

NewClear == [at |-> "none", op |-> "none", attempted |-> FALSE, pre |-> 0]
NewRow == [phase |-> "none", every |-> FALSE, onTimeout |-> "abort", due |-> FALSE,
           ask |-> "none", pre |-> 0, clock |-> 0,
           step |-> "none", at |-> "none", seen |-> 0, writes |-> 0]

TypeOK ==
    /\ timing \in ClearProtocols
    /\ live \in Sessions
    /\ recorded \in Sessions
    /\ ready \in BOOLEAN
    /\ clear \in [Clears -> ClearRow]
    /\ unproven \subseteq Clears
    /\ spacing \in BOOLEAN
    /\ prompt \in [Prompts -> {"none", "collected", "queued", "parked", "firing", "sent", "done"}]
    /\ due \in [Prompts -> {"later", "gap", "now"}]
    /\ row \in [Cycles -> RenewRow]
    /\ policy \in [state : {"none", "active", "cancelled", "terminated"}, cycle : Nat]
    /\ lane \in Seq(Owners)
    /\ sent \in BOOLEAN
    /\ crashes \in 0..MaxCrashes

Init ==
    /\ timing \in ClearProtocols
    /\ live = 0
    /\ recorded = 0
    /\ ready = TRUE
    /\ clear = [c \in Clears |-> NewClear]
    /\ unproven = {}
    /\ spacing = FALSE
    /\ prompt = [p \in Prompts |-> "none"]
    /\ due = [p \in Prompts |-> "later"]
    /\ row = [k \in Cycles |-> NewRow]
    /\ policy = [state |-> "none", cycle |-> 0]
    /\ lane = <<>>
    /\ sent = FALSE
    /\ crashes = 0

----------------------------------------------------------------------------
(* The lane.                                                               *)

Holds(owner) == lane # <<>> /\ Head(lane) = owner
Park(owner) == lane' = Append(lane, owner) /\ UNCHANGED sent
\* The lease ends: the next write on the lane gets the pane.
Release == lane' = Tail(lane) /\ sent' = FALSE

----------------------------------------------------------------------------
(* Prompts.                                                                *)

\* A clear whose outcome is still open closes the gate.
ClearInFlight == \E c \in Clears : clear[c].op = "pending"

PromptSpacingActive == spacing

\* Variant for the mutation check: a new prompt is not held by a clear in flight.
PromptScheduleUngated(p) ==
    IF PromptSpacingActive
    THEN prompt' = [prompt EXCEPT ![p] = "queued"] /\ due' = [due EXCEPT ![p] = "gap"]
         /\ UNCHANGED paneVars
    ELSE prompt' = [prompt EXCEPT ![p] = "parked"] /\ Park(<<"prompt", p>>)
         /\ UNCHANGED due

\* Where a prompt sent for immediate delivery goes: to the lane, or to the queue
\* because a clear is in flight (due at once, the sweep's gate holds it) or has
\* just finished (due after the settle gap).
PromptSchedule(p) ==
    \/ /\ ClearInFlight \/ PromptSpacingActive
       /\ prompt' = [prompt EXCEPT ![p] = "queued"]
       /\ due' = [due EXCEPT ![p] = IF PromptSpacingActive /\ ~ClearInFlight THEN "gap" ELSE "now"]
       /\ UNCHANGED paneVars
    \/ /\ ~ClearInFlight /\ ~PromptSpacingActive
       /\ prompt' = [prompt EXCEPT ![p] = "parked"]
       /\ Park(<<"prompt", p>>)
       /\ UNCHANGED due

\* Prompts the daemon parks by itself, without asking the gate when it parks them.
Ungated == Notices \cup Reminders

RecordPrompt(p) ==
    /\ p \notin Ungated
    /\ ready /\ prompt[p] = "none"
    /\ \/ PromptSchedule(p)
       \/ /\ prompt' = [prompt EXCEPT ![p] = "queued"]
          /\ due' = [due EXCEPT ![p] = "later"]
          /\ UNCHANGED paneVars
    /\ UNCHANGED <<agentVars, clearVars, renewVars, crashes>>

\* A delivery's due time, or the settle gap it was pushed behind, passes.
DueTimeArrives(p) ==
    /\ prompt[p] \in {"queued", "firing"}
    /\ due[p] = "later" \/ (due[p] = "gap" /\ ~spacing)
    /\ due' = [due EXCEPT ![p] = "now"]
    /\ UNCHANGED <<agentVars, clearVars, prompt, renewVars, paneVars, crashes>>

\* The queued deliveries the sweep may fire.
DueDeliveries ==
    {p \in Prompts :
        /\ prompt[p] = "queued" /\ due[p] = "now"
        /\ \A k \in Cycles : row[k].phase \notin {"ready", "clearing"}
        /\ ~ClearInFlight}

BeginDueDelivery(p) ==
    /\ p \in DueDeliveries
    /\ ~PromptSpacingActive
    /\ prompt' = [prompt EXCEPT ![p] = "firing"]
    /\ Park(<<"prompt", p>>)
    /\ UNCHANGED <<agentVars, clearVars, due, renewVars, crashes>>

ParkUngated(p) ==
    /\ prompt' = [prompt EXCEPT ![p] = "parked"]
    /\ Park(<<"prompt", p>>)

\* The notice is recorded with no due time and parked at once.
AbsenceSweepNotice(p) ==
    /\ p \in Notices /\ ready /\ prompt[p] = "none"
    /\ ParkUngated(p)
    /\ UNCHANGED <<agentVars, clearVars, due, renewVars, crashes>>

\* A reminder asks the gate when it is collected, and then waits for a snapshot.
CollectDueReminder(p) ==
    /\ p \in Reminders /\ ready /\ prompt[p] = "none"
    /\ ~ClearInFlight /\ ~PromptSpacingActive
    /\ prompt' = [prompt EXCEPT ![p] = "collected"]
    /\ UNCHANGED <<agentVars, clearVars, due, renewVars, paneVars, crashes>>

\* The snapshot shows the agent idle, or busy: then the reminder is put off.
OnReminderSnapshot(p) ==
    /\ p \in Reminders /\ prompt[p] = "collected"
    /\ \/ ParkUngated(p)
       \/ prompt' = [prompt EXCEPT ![p] = "done"] /\ UNCHANGED paneVars
    /\ UNCHANGED <<agentVars, clearVars, due, renewVars, crashes>>

\* The lease opens and the intent commits.  A delivery's attempt needs its pending
\* operation and the target it was recorded for; a reminder's, a Ready incarnation.
OnPromptOpened(p) ==
    /\ Holds(<<"prompt", p>>) /\ ~sent
    /\ p \in Reminders => ready
    /\ sent' = TRUE
    /\ prompt' = [prompt EXCEPT ![p] = "sent"]
    /\ UNCHANGED <<agentVars, clearVars, due, renewVars, lane, crashes>>

FinishParkedPrompt(p) ==
    /\ Holds(<<"prompt", p>>) /\ sent
    /\ Release
    /\ prompt' = [prompt EXCEPT ![p] = "done"]
    /\ UNCHANGED <<agentVars, clearVars, due, renewVars, crashes>>

\* The lease does not open, or the intent is refused: a swept delivery is still
\* queued in the store and fires again.
FailParkedPrompt(p) ==
    /\ Holds(<<"prompt", p>>) /\ ~sent
    /\ Release
    /\ prompt' = [prompt EXCEPT ![p] = IF @ = "firing" THEN "queued" ELSE "done"]
    /\ UNCHANGED <<agentVars, clearVars, due, renewVars, crashes>>

----------------------------------------------------------------------------
(* Clear.                                                                  *)

\* Variant for the mutation check: a prepared renew does not stop a clear.
ValidateClearTargetLoose ==
    /\ ready
    /\ \A k \in Cycles : row[k].phase \notin Active \ {"preparing"}
    /\ ~ClearInFlight

\* The same test guards the probe and, in its transaction, create_clear.
ValidateClearTarget ==
    /\ ready
    /\ \A k \in Cycles : row[k].phase \notin Active
    /\ ~ClearInFlight

\* No unknown clear stands without a session rotation recorded since.
UnprovenClear == unproven = {}

\* Queued deliveries move behind the settle gap that now begins.
Postponed == [p \in Prompts |->
    IF prompt[p] \in {"queued", "firing"} /\ due[p] = "now" THEN "gap" ELSE due[p]]

\* complete_clear; a session is passed only by a backend that rotates on clear,
\* and then the incarnation must still be Ready.
CompleteClear(c, withSession) ==
    /\ clear' = [clear EXCEPT ![c].op = "succeeded", ![c].at = "answered"]
    /\ IF withSession THEN recorded' = live /\ unproven' = {}
       ELSE UNCHANGED <<recorded, unproven>>
    /\ spacing' = TRUE
    /\ due' = Postponed

\* The gap is measured from the attempt and may have passed already.
MarkClearUnknown(c, at) ==
    /\ clear' = [clear EXCEPT ![c].op = "unknown", ![c].at = at]
    /\ unproven' = unproven \cup {c}
    /\ \/ spacing' = TRUE /\ due' = Postponed
       \/ UNCHANGED <<spacing, due>>

\* Herdr refused the command.
MarkRejected(c) == clear' = [clear EXCEPT ![c].op = "failed", ![c].at = "answered"]

\* A backend that names no new session needs no Ready incarnation to complete.
FinishClear(c, withSession) == (withSession => ready) /\ CompleteClear(c, withSession)

BeginClear(c) ==
    /\ ready /\ clear[c].at = "none"
    /\ clear' = [clear EXCEPT ![c].at = "settling"]
    /\ UNCHANGED <<agentVars, unproven, spacing, promptVars, renewVars, paneVars, crashes>>

\* The settle gap before the clear is over; a binding that is gone fails it.
StartClearProbe(c) == ready /\ clear' = [clear EXCEPT ![c].at = "probe"]

FailClear(c) == clear' = [clear EXCEPT ![c].at = "answered"]

AdvanceAwaitingClear(c) ==
    /\ clear[c].at = "settling"
    /\ StartClearProbe(c) \/ (~ready /\ FailClear(c))
    /\ UNCHANGED <<agentVars, unproven, spacing, promptVars, renewVars, paneVars, crashes>>

\* The clear's operation, with the session seen before it.
CreateClear(c, session) ==
    /\ ValidateClearTarget
    /\ clear' = [clear EXCEPT ![c].op = "pending", ![c].pre = session, ![c].at = "sending"]

\* The probe's answer names the session a rotation is told from.
PreparedClear == live

Supported == timing # "none"

BeginClearAfterProbe(c) == UnprovenClear /\ Supported /\ CreateClear(c, PreparedClear)

OnClearProbe(c) ==
    /\ clear[c].at = "probe"
    /\ \/ BeginClearAfterProbe(c) /\ Park(<<"clear", c>>)
       \/ /\ ~(ValidateClearTarget /\ UnprovenClear /\ Supported)
          /\ FailClear(c)
          /\ UNCHANGED paneVars
    /\ UNCHANGED <<agentVars, unproven, spacing, promptVars, renewVars, crashes>>

\* The attempt is recorded as submitted before any byte is written.
CommitClearIntent(c) == clear' = [clear EXCEPT ![c].at = "sent", ![c].attempted = TRUE]

OnClearOpened(c) ==
    /\ Holds(<<"clear", c>>) /\ ~sent
    /\ CommitClearIntent(c)
    /\ sent' = TRUE
    /\ UNCHANGED <<agentVars, unproven, spacing, promptVars, renewVars, lane, crashes>>

Rotated(pre) == live # pre

\* Herdr answered the clear command, refused it, or the answer was lost; an answer
\* that cannot be recorded leaves the operation pending.
ApplyClearCommandResult(c) ==
    \/ FinishClear(c, FALSE) /\ timing = "on_next_prompt"
    \/ FinishClear(c, TRUE) /\ timing = "on_clear" /\ Rotated(clear[c].pre)
    \/ /\ timing = "on_clear" /\ ~Rotated(clear[c].pre)
       /\ clear' = [clear EXCEPT ![c].at = "rotation"]
       /\ UNCHANGED <<recorded, unproven, spacing, due>>
    \/ MarkRejected(c) /\ UNCHANGED <<recorded, unproven, spacing, due>>
    \/ MarkClearUnknown(c, "answered") /\ UNCHANGED recorded
    \/ /\ timing = "on_clear" /\ Rotated(clear[c].pre) /\ ~ready
       /\ clear' = [clear EXCEPT ![c].at = "answered"]
       /\ UNCHANGED <<recorded, unproven, spacing, due>>

OnClearCommand(c) ==
    /\ Holds(<<"clear", c>>) /\ sent
    /\ Release
    /\ ApplyClearCommandResult(c)
    /\ UNCHANGED <<timing, live, ready, prompt, renewVars, crashes>>

\* The deadline and a failed read record the clear as unknown.
ApplyClearRotationObservation(c) ==
    \/ Rotated(clear[c].pre) /\ FinishClear(c, TRUE)
    \/ MarkClearUnknown(c, "rotation") /\ UNCHANGED recorded

\* The session is read again and again while a clear waits for its rotation.
RotationAsked(c) == clear[c].at = "rotation" /\ clear[c].op = "pending"

\* The answer to such a read.  A request that fails stays parked, because the job
\* that would name it was forgotten first.
OnClearRotation(c) ==
    /\ RotationAsked(c)
    /\ ApplyClearRotationObservation(c)
    /\ UNCHANGED <<timing, live, ready, prompt, renewVars, paneVars, crashes>>

\* The probe, the connection or the write failed: only the client hears of it.
FailParkedClear(c) ==
    /\ \/ clear[c].at = "probe" /\ UNCHANGED paneVars
       \/ Holds(<<"clear", c>>) /\ Release
    /\ FailClear(c)
    /\ UNCHANGED <<agentVars, unproven, spacing, promptVars, renewVars, crashes>>

----------------------------------------------------------------------------
(* Renew rows: the store's transactions, as functions of the rows.         *)

Live(k) == row[k].phase \notin Settled \cup {"none"}

\* The cycle ends without its answer: the ask it opened ends with it.
CancelUnansweredPrepare(r) == [r EXCEPT !.ask = IF @ \in OpenAsk THEN "cancelled" ELSE @]

\* Variant for the mutation check: proceeding leaves the prepare ask open.
MarkRenewReadyOnly(r) == [r EXCEPT !.phase = "ready"]
MarkRenewReady(r) == [CancelUnansweredPrepare(r) EXCEPT !.phase = "ready"]

End(r, phase) == [CancelUnansweredPrepare(r) EXCEPT !.phase = phase]

\* The schedule must still be active and at this cycle; the guard on MaxCycles
\* is the bound.
CanArm(k) ==
    row[k].every => /\ policy.state = "active" /\ policy.cycle = k
                    /\ k < MaxCycles

\* Variant for the mutation check: a finished cycle arms no other.
ArmNextRenewCycleNever(k, r) == row' = r /\ UNCHANGED policy

\* Row k ends as r[k]; a recurring policy gets its next row in the same transaction.
ArmNextRenewCycle(k, r) ==
    IF row[k].every
    THEN /\ row' = [r EXCEPT ![k + 1] = [NewRow EXCEPT !.phase = "scheduled", !.every = TRUE,
                                                       !.onTimeout = row[k].onTimeout]]
         /\ policy' = [policy EXCEPT !.cycle = k + 1]
    ELSE row' = r /\ UNCHANGED policy

CompleteRenew(k) ==
    /\ row[k].phase = "injected" /\ CanArm(k)
    /\ ArmNextRenewCycle(k, [row EXCEPT ![k].phase = "done", ![k].at = "none"])

\* Variant for the mutation check: only a cycle not yet injected is given up.
AbandonRenewProofEarly(k) ==
    /\ row[k].phase = "clearing" /\ CanArm(k)
    /\ ArmNextRenewCycle(k, [row EXCEPT ![k].phase = "terminated", ![k].at = "none"])

AbandonRenewProof(k) ==
    /\ row[k].phase = "injected" /\ CanArm(k)
    /\ ArmNextRenewCycle(k, [row EXCEPT ![k].phase = "terminated", ![k].at = "none"])

AbortRenew(k) ==
    /\ row[k].phase \in {"scheduled", "preparing", "timed_out", "ready"} /\ CanArm(k)
    /\ ArmNextRenewCycle(k, [row EXCEPT ![k] = End(@, "aborted")])

StopPolicy(k, state) ==
    policy' = IF row[k].every /\ policy.state = "active"
              THEN [policy EXCEPT !.state = state] ELSE policy

----------------------------------------------------------------------------
(* Renew: requests, and the poll loop's drive of each phase.               *)

\* The store's transaction.  Rows are used in order; k is the next free one.
CreateRenew(k, wanted) ==
    /\ ready
    /\ \A j \in Cycles : ~Live(j)
    /\ ~ClearInFlight
    /\ row[k].phase = "none" /\ \A j \in 1..(k - 1) : row[j].phase # "none"
    /\ row' = [row EXCEPT ![k].phase = "scheduled", ![k].every = wanted.every,
                          ![k].onTimeout = wanted.onTimeout]
    /\ policy' = IF wanted.every THEN [state |-> "active", cycle |-> k] ELSE policy

\* The target's binding and its backend are checked before its transaction.
Renew(k, wanted) == ready /\ Supported /\ CreateRenew(k, wanted)

\* A client asks for a renew, by agent and incarnation, never by name.
DispatchRenew(k, wanted) ==
    /\ Renew(k, wanted)
    /\ UNCHANGED <<agentVars, clearVars, promptVars, paneVars, crashes>>

\* Refused while the clear is being performed, and once the cycle has ended.
CancelRenewRefusal(k) == ~Live(k) \/ row[k].phase = "clearing"

CancelRenewRow(k) ==
    /\ ~CancelRenewRefusal(k)
    /\ row' = [row EXCEPT ![k] = End(@, "terminated")]
    /\ StopPolicy(k, "cancelled")

CancelRenew(k) ==
    /\ CancelRenewRow(k)
    /\ UNCHANGED <<agentVars, clearVars, promptVars, paneVars, crashes>>

\* The prepare ask of a live cycle is cancelled with its policy only.
RefuseRenewPrepareAskCancel(k) == Live(k) /\ row[k].ask # "stray"

\* A client cancels a prepare ask no row names (a crash came between the two).
CancelAsk(k) ==
    /\ row[k].ask \in OpenAsk \cup {"stray"}
    /\ ~RefuseRenewPrepareAskCancel(k)
    /\ row' = [row EXCEPT ![k].ask = "cancelled"]
    /\ UNCHANGED <<agentVars, clearVars, promptVars, policy, paneVars, crashes>>

AccrueRenewOccupancy(k) ==
    /\ row[k].every
    /\ ready /\ policy.state = "active"
    /\ row' = [row EXCEPT ![k].due = TRUE]

\* The occupancy sample, or the time, that makes a scheduled row due.
ApplyOccupancySnapshot(k) ==
    /\ row[k].phase = "scheduled" /\ ~row[k].due
    /\ \/ AccrueRenewOccupancy(k)
       \/ ~row[k].every /\ ready /\ row' = [row EXCEPT ![k].due = TRUE]
    /\ UNCHANGED <<agentVars, clearVars, promptVars, policy, paneVars, crashes>>

TerminateRenewAnnounced(k) ==
    /\ Live(k)
    /\ row' = [row EXCEPT ![k] = End(@, "terminated")]
    /\ StopPolicy(k, "terminated")

\* The only thing that ends a policy by itself: its incarnation is Ready no more.
TerminableRenews == {k \in Cycles : ~ready /\ Live(k)}

TerminateEndedRenews(k) ==
    /\ k \in TerminableRenews
    /\ TerminateRenewAnnounced(k)
    /\ UNCHANGED <<agentVars, clearVars, promptVars, paneVars, crashes>>

\* What a pass of park_due_renews picks up: due, not gated, not already parked.
ActionableRenew(k) ==
    /\ ready
    /\ ~ClearInFlight
    /\ \/ row[k].phase = "scheduled" /\ row[k].due
       \/ row[k].phase \in Active
    /\ row[k].at = "none"

MayPrepare(k) ==
    /\ ActionableRenew(k) /\ row[k].phase = "scheduled"
    /\ ~PromptSpacingActive
    /\ row[k].ask = "none"    \* the ask's idempotency key is free

MarkRenewPreparing(r) == [r EXCEPT !.phase = "preparing", !.ask = "open"]

\* The agent is asked, by itself, to prepare; the prompt goes to the lane.
BeginRenewPrepare(k) ==
    /\ MayPrepare(k)
    /\ row' = [row EXCEPT ![k] = MarkRenewPreparing(@)]
    /\ Park(<<"prepare", k>>)
    /\ UNCHANGED <<agentVars, clearVars, promptVars, policy, crashes>>

OnPrepareOpened(k) ==
    /\ Holds(<<"prepare", k>>) /\ ~sent
    /\ sent' = TRUE
    /\ row' = [row EXCEPT ![k].ask = IF @ = "open" THEN "told" ELSE @]
    /\ UNCHANGED <<agentVars, clearVars, promptVars, policy, lane, crashes>>

\* The prepare prompt ends, however it ends.
EndPreparePrompt(k) ==
    /\ Holds(<<"prepare", k>>)
    /\ Release
    /\ UNCHANGED <<agentVars, clearVars, promptVars, renewVars, crashes>>

\* The agent, once told, answers the prepare ask with a final reply.
PrepareAnswered(k) ==
    /\ row[k].ask = "told"
    /\ row' = [row EXCEPT ![k].ask = "resolved"]
    /\ UNCHANGED <<agentVars, clearVars, promptVars, policy, paneVars, crashes>>

MarkRenewTimedOut(r) == [r EXCEPT !.phase = "timed_out"]

\* An answer moves the cycle on; the deadline may pass instead.
RenewSettlePrepare(k) ==
    /\ ActionableRenew(k) /\ row[k].phase = "preparing"
    /\ row' = [row EXCEPT ![k] = IF @.ask = "resolved" THEN MarkRenewReady(@)
                                 ELSE MarkRenewTimedOut(@)]
    /\ UNCHANGED <<agentVars, clearVars, promptVars, policy, paneVars, crashes>>

RenewApplyTimeout(k) ==
    /\ ActionableRenew(k) /\ row[k].phase = "timed_out"
    /\ \/ row[k].onTimeout = "abort" /\ AbortRenew(k)
       \/ /\ row[k].onTimeout = "proceed"
          /\ row' = [row EXCEPT ![k] = MarkRenewReady(@)]
          /\ UNCHANGED policy
    /\ UNCHANGED <<agentVars, clearVars, promptVars, paneVars, crashes>>

RenewClearReadyToProbe(k) == row[k].phase = "ready" /\ row[k].step = "none"

ParkedState(k) ==
    IF row[k].phase = "clearing" THEN "rotation"
    ELSE IF row[k].phase = "injected" /\ timing = "on_next_prompt" THEN "confirm"
    ELSE "probe"

\* A pass parks the row for the read its phase needs.
ParkDueRenew(k) ==
    /\ ActionableRenew(k)
    /\ \/ RenewClearReadyToProbe(k)
       \/ row[k].phase = "clearing"
       \/ row[k].phase = "injected" /\ timing = "on_next_prompt"
    /\ row' = [row EXCEPT ![k].at = ParkedState(k)]
    /\ UNCHANGED <<agentVars, clearVars, promptVars, policy, paneVars, crashes>>

\* A backend that rotates on clear was proven before the injection.
CompleteProvenRenew(k) ==
    /\ ActionableRenew(k) /\ timing = "on_clear"
    /\ CompleteRenew(k)
    /\ UNCHANGED <<agentVars, clearVars, promptVars, paneVars, crashes>>

MarkRenewClearing(r) == [r EXCEPT !.phase = "clearing", !.pre = PreparedClear, !.clock = 0]

\* The attempt's row goes from prepared to submitted before the write is parked.
SubmitRenewAttempt(r) == [r EXCEPT !.step = "submitted"]
ResolveRenewAttempt(r) == [r EXCEPT !.step = "resolved"]

\* Variant for the mutation check: the write is parked with nothing recorded.
RecordRenewClearingLate(r) == [r EXCEPT !.pre = live, !.at = "clear_open"]
\* Phase, pre-clear session and the submitted attempt are recorded before the write.
RecordRenewClearing(r) == [SubmitRenewAttempt(MarkRenewClearing(r)) EXCEPT !.at = "clear_open"]

SubmitRenewOpen(k) == Park(<<"renew", k>>)

\* The probe's answer; a cycle cancelled meanwhile is dropped.
OnRenewProbe(k) ==
    /\ row[k].at = "probe"
    /\ \/ /\ row[k].phase = "ready"
          /\ row' = [row EXCEPT ![k] = RecordRenewClearing(@)]
          /\ SubmitRenewOpen(k)
       \/ /\ row[k].phase # "ready"
          /\ row' = [row EXCEPT ![k].at = "none"]
          /\ UNCHANGED paneVars
    /\ UNCHANGED <<agentVars, clearVars, promptVars, policy, crashes>>

\* The lease opens: the clear, or the resume prompt, is written as parked.
OnRenewOpened(k) ==
    /\ Holds(<<"renew", k>>) /\ ~sent
    /\ sent' = TRUE
    /\ row' = [row EXCEPT ![k].writes = IF row[k].at = "clear_open" THEN @ + 1 ELSE @]
    /\ UNCHANGED <<agentVars, clearVars, promptVars, policy, lane, crashes>>

\* Accepted, rejected or lost: the attempt is closed, and never made again.
ApplyRenewAttemptResult(r) == [ResolveRenewAttempt(r) EXCEPT !.at = "none"]

OnRenewClearSent(k) ==
    /\ Holds(<<"renew", k>>) /\ sent /\ row[k].at = "clear_open"
    /\ Release
    /\ row' = [row EXCEPT ![k] = ApplyRenewAttemptResult(@)]
    /\ UNCHANGED <<agentVars, clearVars, promptVars, policy, crashes>>

\* May the resume prompt go?  Rotation proves it, or the gap precedes it.
RenewInjectDecision(k) ==
    IF timing = "on_clear" THEN Rotated(row[k].pre) ELSE row[k].clock >= 1

OnRenewRotation(k) ==
    /\ row[k].at = "rotation"
    /\ \/ /\ RenewInjectDecision(k)
          /\ row' = [row EXCEPT ![k].at = "inject_open", ![k].seen = live]
          /\ SubmitRenewOpen(k)
       \/ /\ ~RenewInjectDecision(k)
          /\ row' = [row EXCEPT ![k].at = "none"]
          /\ UNCHANGED paneVars
    /\ UNCHANGED <<agentVars, clearVars, promptVars, policy, crashes>>

MarkRenewInjected(r) == [r EXCEPT !.phase = "injected"]

\* Only the session changes: the rotation is not stamped.
ReplaceObservedNativeSession(session) == recorded' = session

\* The resume prompt was accepted, and a rotation seen before it is recorded; or it
\* was not accepted, and the next pass tries again.
ApplyRenewInjectResult(k) ==
    \/ /\ row[k].phase = "clearing"
       /\ row' = [row EXCEPT ![k] = [MarkRenewInjected(@) EXCEPT !.at = "none", !.seen = 0]]
       /\ ReplaceObservedNativeSession(
              IF row[k].seen # row[k].pre THEN row[k].seen ELSE recorded)
    \/ row' = [row EXCEPT ![k].at = "none", ![k].seen = 0] /\ UNCHANGED recorded

OnRenewInjectSent(k) ==
    /\ Holds(<<"renew", k>>) /\ sent /\ row[k].at = "inject_open"
    /\ Release
    /\ ApplyRenewInjectResult(k)
    /\ UNCHANGED <<timing, live, ready, clearVars, promptVars, policy, crashes>>

\* A later read of the session decides an injected cycle: proven, still waiting,
\* or abandoned long after its deadline.
ApplyRenewConfirmObservation(k) ==
    \/ /\ Rotated(row[k].pre)
       /\ ReplaceObservedNativeSession(live)
       /\ \/ CompleteRenew(k)
          \/ /\ row[k].phase # "injected"
             /\ row' = [row EXCEPT ![k].at = "none"]
             /\ UNCHANGED policy
    \/ /\ ~Rotated(row[k].pre)
       /\ UNCHANGED recorded
       /\ \/ row[k].clock = 2 /\ AbandonRenewProof(k)
          \/ /\ row[k].clock < 2 \/ row[k].phase # "injected"
             /\ row' = [row EXCEPT ![k].at = "none"]
             /\ UNCHANGED policy

OnRenewConfirm(k) ==
    /\ row[k].at = "confirm"
    /\ ApplyRenewConfirmObservation(k)
    /\ UNCHANGED <<timing, live, ready, clearVars, promptVars, paneVars, crashes>>

\* A read failed, or the lease did; the row is parked again by a later pass.
FailParkedRenew(k) ==
    /\ \/ row[k].at \in {"probe", "rotation", "confirm"} /\ UNCHANGED paneVars
       \/ Holds(<<"renew", k>>) /\ Release
    /\ row' = [row EXCEPT ![k].at = "none", ![k].seen = 0]
    /\ UNCHANGED <<agentVars, clearVars, promptVars, policy, crashes>>

ClockRuns(k) ==
    /\ timing = "on_next_prompt"
    /\ row[k].phase \in {"clearing", "injected"} /\ row[k].clock < 2
    /\ row' = [row EXCEPT ![k].clock = @ + 1]
    /\ UNCHANGED <<agentVars, clearVars, promptVars, policy, paneVars, crashes>>

----------------------------------------------------------------------------
(* The agent, live recovery, and a crash.                                  *)

\* The agent starts a new session, for whatever reason.
Rotate ==
    /\ live < MaxSessions
    /\ live' = live + 1
    /\ UNCHANGED <<timing, recorded, ready, clearVars, promptVars, renewVars, paneVars, crashes>>

SettleGapElapses ==
    /\ spacing
    /\ spacing' = FALSE
    /\ UNCHANGED <<agentVars, clear, unproven, promptVars, renewVars, paneVars, crashes>>

\* A snapshot without the occupant loses the incarnation; one with another
\* session records it and stamps the rotation.
ReconcileReadyIncarnations ==
    /\ ready
    /\ \/ ready' = FALSE /\ UNCHANGED <<recorded, unproven>>
       \/ /\ live # recorded
          /\ recorded' = live /\ unproven' = {}
          /\ UNCHANGED ready
    /\ UNCHANGED <<timing, live, clear, spacing, promptVars, renewVars, paneVars, crashes>>

Interrupted == {c \in Clears : clear[c].op = "pending" /\ clear[c].attempted}

\* Variant for the mutation check: recovery takes an attempted clear for accepted.
RecoverClearAsAccepted(c) ==
    [clear[c] EXCEPT !.op = IF @ = "pending" /\ clear[c].attempted THEN "accepted" ELSE @,
                     !.at = IF @ = "none" THEN @ ELSE "answered"]

\* A clear with no submitted attempt failed; an attempted one is unknown.
RecoverClear(c) ==
    [clear[c] EXCEPT !.op = IF @ # "pending" THEN @
                            ELSE IF clear[c].attempted THEN "unknown" ELSE "failed",
                     !.at = IF @ = "none" THEN @ ELSE "answered"]

\* A queued delivery whose time came while nobody could fire it is unknown, unless
\* the clear in flight was what held it.
RecoverPrompt(p) ==
    IF prompt[p] \in {"queued", "firing"}
    THEN IF due[p] = "now" /\ ~ClearInFlight THEN "done" ELSE "queued"
    ELSE IF prompt[p] = "none" THEN "none" ELSE "done"

\* Startup recovery, over the rows r the crash left: the session is observed
\* first, then missed wakes, then the open clears.
Recover(r) ==
    /\ crashes < MaxCrashes
    /\ crashes' = crashes + 1
    /\ row' = [k \in Cycles |-> [r[k] EXCEPT !.at = "none", !.seen = 0]]
    /\ recorded' = IF ready THEN live ELSE recorded
    /\ unproven' = (IF ready /\ live # recorded THEN {} ELSE unproven) \cup Interrupted
    /\ prompt' = [p \in Prompts |-> RecoverPrompt(p)]
    /\ clear' = [c \in Clears |-> RecoverClear(c)]
    /\ \/ Interrupted # {} /\ spacing' = TRUE /\ due' = Postponed
       \/ UNCHANGED <<spacing, due>>
    /\ lane' = <<>> /\ sent' = FALSE
    /\ UNCHANGED <<timing, live, ready, policy>>

Crash == Recover(row)

\* Between the ask's transaction and the one that links it to the row.
CrashInPrepare(k) ==
    /\ MayPrepare(k)
    /\ Recover([row EXCEPT ![k].ask = "stray"])

\* Between the phase change and the attempt's record.
CrashInClearing(k) ==
    /\ row[k].at = "probe" /\ row[k].phase = "ready"
    /\ Recover([row EXCEPT ![k] = MarkRenewClearing(@)])

----------------------------------------------------------------------------
PromptStep(p) ==
    \/ RecordPrompt(p) \/ DueTimeArrives(p) \/ BeginDueDelivery(p)
    \/ AbsenceSweepNotice(p) \/ CollectDueReminder(p) \/ OnReminderSnapshot(p)
    \/ OnPromptOpened(p) \/ FinishParkedPrompt(p) \/ FailParkedPrompt(p)

ClearStep(c) ==
    \/ BeginClear(c) \/ AdvanceAwaitingClear(c) \/ OnClearProbe(c) \/ OnClearOpened(c)
    \/ OnClearCommand(c) \/ OnClearRotation(c) \/ FailParkedClear(c)

RenewStep(k) ==
    \/ \E wanted \in Policies : DispatchRenew(k, wanted)
    \/ CancelRenew(k) \/ CancelAsk(k) \/ ApplyOccupancySnapshot(k) \/ TerminateEndedRenews(k)
    \/ BeginRenewPrepare(k) \/ OnPrepareOpened(k) \/ EndPreparePrompt(k) \/ PrepareAnswered(k)
    \/ RenewSettlePrepare(k) \/ RenewApplyTimeout(k) \/ ParkDueRenew(k) \/ CompleteProvenRenew(k)
    \/ OnRenewProbe(k) \/ OnRenewOpened(k) \/ OnRenewClearSent(k) \/ OnRenewRotation(k)
    \/ OnRenewInjectSent(k) \/ OnRenewConfirm(k) \/ FailParkedRenew(k) \/ ClockRuns(k)
    \/ CrashInPrepare(k) \/ CrashInClearing(k)

Next ==
    \/ \E p \in Prompts : PromptStep(p)
    \/ \E c \in Clears : ClearStep(c)
    \/ \E k \in Cycles : RenewStep(k)
    \/ Rotate \/ SettleGapElapses \/ ReconcileReadyIncarnations \/ Crash

Spec == Init /\ [][Next]_vars

----------------------------------------------------------------------------
(* Properties.                                                             *)

\* A standalone clear in flight and an in-flight renew cycle exclude each other,
\* whatever the order in which clients ask, probes answer, clocks run out and the
\* daemon restarts (create_clear, create_renew, actionable_renews).
ClearExcludesRenew == ClearInFlight => \A k \in Cycles : row[k].phase \notin Active

\* The writes of prompts that were parked without asking the gate.
UngatedWrites == {"prompt"} \X Ungated

\* Once a clear was written and until its outcome is recorded, no write that asked the
\* gate before it was parked is written into the pane: no prompt of a client, delivery
\* of the sweep, prepare prompt, resume prompt or second clear, however long it waited
\* in the lane.  Notices of the absence sweep and reminders are excepted: the code lets
\* them through.  Nor is a delivery the sweep fires written between a renew's clear and
\* its resume prompt (prompt_schedule, due_deliveries and the order of the lane).
GatedWritesAwaitClear ==
    [][/\ (~sent /\ sent' /\ Head(lane) \notin UngatedWrites) =>
            \A c \in Clears : ~(clear[c].attempted /\ clear[c].op = "pending")
       /\ \A p \in Prompts : (prompt[p] = "firing" /\ prompt'[p] = "sent")
            => \A k \in Cycles : ~(row[k].phase = "clearing" /\ row[k].writes > 0)]_vars

\* A renew cycle writes its clear into the pane at most once, through failures,
\* retries, cancellation and a crash at any step (record_renew_clearing).
OneClearPerCycle == \A k \in Cycles : row[k].writes <= 1

\* An active policy always has exactly one unfinished row, the one of its current
\* cycle: no ending of a cycle stops the policy or doubles it (arm_next_renew_cycle).
PolicyStaysArmed ==
    /\ policy.state = "active" => policy.cycle \in Cycles /\ Live(policy.cycle)
    /\ \A j, k \in Cycles : Live(j) /\ Live(k) => j = k

\* The prepare ask a row opened does not outlive the phase that waits for it
\* (cancel_unanswered_prepare on every way out).
PrepareAskEndsWithCycle ==
    \A k \in Cycles : row[k].ask \in OpenAsk => row[k].phase \in {"preparing", "timed_out"}

----------------------------------------------------------------------------
(* Fairness: the poll loop runs every pass, clocks advance, and a read of   *)
(* the live session is answered again and again, though any one may fail.   *)

Fairness ==
    /\ \A k \in Cycles :
        /\ WF_vars(ParkDueRenew(k)) /\ WF_vars(CompleteProvenRenew(k))
        /\ SF_vars(OnRenewConfirm(k))
        /\ WF_vars(ClockRuns(k)) /\ WF_vars(TerminateEndedRenews(k))

FairSpec == Spec /\ Fairness

\* A cycle whose resume prompt was injected always ends: proven, or abandoned once
\* its proof is long overdue (abandon_unproven_cycle).
InjectedCycleEnds ==
    \A k \in 1..(MaxCycles - 1) : row[k].phase = "injected" ~> row[k].phase \in Settled
============================================================================
