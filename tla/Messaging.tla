----------------------------- MODULE Messaging -----------------------------
(***************************************************************************)
(* Kelpie's durable messaging core: asks, tells, replies and cancellation  *)
(* notices, the reply obligation every ask opens, the Herdr prompt write   *)
(* boundary, the socket inbox and the ask-pull sink, the due sweep, the    *)
(* absence sweep, and a daemon crash at any point followed by recovery.    *)
(*                                                                         *)
(* The store is one SQLite file and the daemon one event loop, so each     *)
(* action is one handler.  What interleaves is the set of prompts parked   *)
(* on Herdr lanes (`job'), the clients, the passing of time and crashes.   *)
(*                                                                         *)
(* Message attributes that never change after creation (who asks, who owes,*)
(* what a reply answers, the client's idempotency key) are constants of    *)
(* the message identifiers; an identifier whose outcome is "none" has not  *)
(* been created.                                                           *)
(***************************************************************************)
EXTENDS Naturals, FiniteSets

CONSTANTS
    HerdrAgents,    \* logical agents reached by Herdr prompts
    SocketWaiters,  \* logical agents reached by a socket inbox
    Asks, Replies, Tells,
    Waiting,        \* [Asks -> agent that waits for the answer]
    Owing,          \* [Asks -> agent that owes it]
    PullAsks,       \* asks created with reply_delivery = pull
    ReplyTo,        \* [Replies -> Asks]
    Final,          \* replies whose disposition is final
    TellTo,         \* [Tells -> recipient]
    Firings,        \* tells a recurring schedule creates
    PrepareAsks,    \* asks a renew cycle may open
    Key,            \* [client messages -> idempotency key]
    Work,           \* bound: the lifecycle work that may be open, <<kind, agent>>
    Schedules,      \* bound: the due times clients and gates give to prompts
    MaxIncarnation, \* bound: incarnations one agent goes through
    MaxCrashes      \* bound: daemon crashes

ASSUME PartiesAssumption ==
    /\ HerdrAgents \cap SocketWaiters = {}
    /\ Waiting \in [Asks -> HerdrAgents \cup SocketWaiters]
    /\ Owing \in [Asks -> HerdrAgents]
    /\ PullAsks \subseteq {a \in Asks : Waiting[a] \in HerdrAgents}
    /\ TellTo \in [Tells -> HerdrAgents \cup SocketWaiters]
    /\ Firings \subseteq Tells
    /\ PrepareAsks \subseteq Asks

ASSUME RepliesAssumption ==
    /\ ReplyTo \in [Replies -> Asks]
    /\ Final \subseteq Replies

\* A clear, a renew cycle about to clear or clearing, and everything else that
\* counts as presence: a start, an adoption, a retirement, a cycle in another phase.
WorkKinds == {"clear", "renew", "other"}

ASSUME BoundsAssumption ==
    /\ Work \subseteq WorkKinds \X HerdrAgents
    /\ Schedules \subseteq {"now", "later", "due"}
    /\ MaxIncarnation \in Nat
    /\ MaxCrashes \in Nat

----------------------------------------------------------------------------
(* Message identifiers, by kind.                                           *)

AskMsg(a) == <<"ask", a>>
TellMsg(t) == <<"tell", t>>
ReplyMsg(r) == <<"reply", r>>
WaitingNotice(a) == <<"waiting", a>>  \* "your ask was cancelled"
OwingNotice(a) == <<"owing", a>>      \* "stop working on the ask"

NoticeMsgs == {"waiting", "owing"} \X Asks
ClientMsgs == ({"ask"} \X Asks) \cup ({"reply"} \X Replies) \cup ({"tell"} \X Tells)
Msgs == ClientMsgs \cup NoticeMsgs

\* The ask a message belongs to; meaningful for asks, replies and notices.
AskOf(m) == IF m[1] = "reply" THEN ReplyTo[m[2]] ELSE m[2]

Recipient(m) ==
    IF m[1] \in {"ask", "owing"} THEN Owing[m[2]]
    ELSE IF m[1] = "tell" THEN TellTo[m[2]]
    ELSE Waiting[AskOf(m)]

\* How a message reaches its recipient: the waiting side of a pull ask goes to
\* the ask-pull sink, a socket waiter to its inbox, everyone else by prompt.
Transport(m) ==
    IF m[1] \in {"reply", "waiting"} /\ AskOf(m) \in PullAsks THEN "ask_pull"
    ELSE IF Recipient(m) \in SocketWaiters THEN "socket_inbox"
    ELSE "herdr_prompt"

ObligationState == {"none", "open", "in_progress", "resolved", "cancelled", "orphaned"}
\* Variant for the mutation check: a resolved ask still counts as waiting.
UnsettledTooWide == {"open", "in_progress", "resolved"}
Unsettled == {"open", "in_progress"}
\* "recorded" is a message row without a delivery row.
DeliveryOutcome == {"none", "recorded", "pending", "queued", "submitted", "accepted",
                    "rejected", "target_unavailable", "unknown", "superseded"}
OperationOutcome == {"none", "pending", "succeeded", "failed", "unknown", "superseded"}
\* Who parked a prompt: a client request, a daemon sweep, or a cancellation
\* session that wants to hear about each notice.
PromptOwner == {"client", "sweep", "notice"}
\* A parked prompt: waiting for its lane; intent committed; taken by Herdr, which
\* then observed the agent working ("landed") or did not ("stalled").  "none" is
\* no parked prompt.
JobState == {"none", "opening", "committed", "landed", "stalled"}
InFlight == {"committed", "landed", "stalled"}
\* No due time, a due time still ahead, a due time reached.
Schedule == {"now", "later", "due"}

VARIABLES
    \* durable store
    obl,        \* obligations.state of each ask
    resolver,   \* obligations.resolving_message_id, as a set of at most one reply
    absent,     \* obligations.unavailable_since_ms: "no", "observed", "expired"
    outcome,    \* deliveries.outcome of each message
    op,         \* operations.outcome of each message's prompt operation
    attempted,  \* messages with an attempt row past phase 'prepared'
    sched,      \* deliveries.scheduled_at_ms against the clock
    target,     \* deliveries.recipient_incarnation_id
    ready,      \* the agent's Ready incarnation, 0 for none
    gen,        \* how many incarnations the agent has had
    ended,      \* socket waiters with targeting_ended_at_ms
    open,       \* lifecycle work under way: <<kind, agent, its incarnation>>
    preparing,  \* asks a live renew cycle opened (renews.ask_message_id)
    \* daemon memory
    up, job, carried,
    \* history of the outside world
    landed,     \* how often Herdr took the prompt of a message
    crashes

store == <<obl, resolver, absent, outcome, op, attempted, sched, target>>
work == <<open, preparing>>
world == <<ready, gen, ended, work>>
memory == <<up, job, carried>>
vars == <<store, world, memory, landed, crashes>>

Jobs == Msgs \X PromptOwner
NoJobs == [j \in Jobs |-> "none"]

Init ==
    /\ obl = [a \in Asks |-> "none"]
    /\ resolver = [a \in Asks |-> {}]
    /\ absent = [a \in Asks |-> "no"]
    /\ outcome = [m \in Msgs |-> "none"]
    /\ op = [m \in Msgs |-> "none"]
    /\ attempted = {}
    /\ sched = [m \in Msgs |-> "now"]
    /\ target = [m \in Msgs |-> 0]
    /\ ready = [x \in HerdrAgents |-> 1]
    /\ gen = [x \in HerdrAgents |-> 1]
    /\ ended = {}
    /\ open = {}
    /\ preparing = {}
    /\ up = TRUE
    /\ job = NoJobs
    /\ carried = {}
    /\ landed = [m \in Msgs |-> 0]
    /\ crashes = 0
----------------------------------------------------------------------------
(* Recording messages.                                                     *)

\* socket_inbox_keys and ask_pull_keys: a message that is picked up keeps its key
\* for good, and a reply looks there as well as among the prompts.
PickupKeyUnused(n) == outcome[n] = "none"

\* Variant for the mutation check: an unknown outcome frees its key too.
KeyFreeAfterUnknown(m) ==
    \A n \in ClientMsgs \ {m} :
        Key[n] = Key[m] => op[n] \in {"none", "failed", "unknown"}

\* replay_prompt_by_idempotency_key and its socket and pull variants: a key
\* whose operation failed may be used again; any other earlier use is replayed
\* or refused, and in both cases nothing new is recorded.
KeyFree(m) ==
    \A n \in ClientMsgs \ {m} :
        Key[n] = Key[m] =>
            \/ op[n] = "failed"
            \/ IF m[1] = "reply" THEN PickupKeyUnused(n) ELSE op[n] = "none"

\* replay_socket_inbox_tell and the unique socket_inbox_keys row behind it.
PickupKeyFree(m) ==
    \A n \in ClientMsgs \ {m} :
        Key[n] = Key[m] /\ Transport(n) = "socket_inbox" => PickupKeyUnused(n)

\* ready_binding / ready_incarnation_for_agent of the message's recipient.
ReadyTarget(m) == ready[Recipient(m)]

\* The operation and delivery rows of one prompt.  A prompt with a due time is
\* queued, one without is pending.
InsertPrompt(m, when) ==
    /\ outcome' = [outcome EXCEPT ![m] = IF when = "now" THEN "pending" ELSE "queued"]
    /\ op' = [op EXCEPT ![m] = "pending"]
    /\ sched' = [sched EXCEPT ![m] = when]
    /\ target' = [target EXCEPT ![m] = ReadyTarget(m)]

\* clear_in_flight: a clear of the recipient's Ready incarnation is not settled yet.
ClearInFlight(m) == <<"clear", Recipient(m), ReadyTarget(m)>> \in open

\* prompt_schedule: a prompt for now is due at once while a clear is in flight, and
\* one with a due time ahead, or behind a clear, waits for the due sweep.
DueTime(m, when) == IF when = "now" /\ ClearInFlight(m) THEN "due" ELSE when
Deferred(m, when) == when = "later" \/ ClearInFlight(m)

\* A prompt that is not deferred is parked at once for its owner.
Park(m, o, when) ==
    job' = [job EXCEPT ![<<m, o>>] = IF Deferred(m, when) THEN "none" ELSE "opening"]

\* create_ask between a waiting agent that is still a target and a Ready one.
CreateAsk(a, when) ==
    LET m == AskMsg(a) IN
    /\ outcome[m] = "none"
    /\ KeyFree(m)
    /\ ReadyTarget(m) # 0
    /\ Waiting[a] \notin ended
    /\ obl' = [obl EXCEPT ![a] = "open"]
    /\ InsertPrompt(m, when)

RecordAsk(a, when) ==
    /\ up
    /\ CreateAsk(a, DueTime(AskMsg(a), when))
    /\ Park(AskMsg(a), "client", when)
    /\ UNCHANGED <<resolver, absent, attempted, world, up, carried, landed, crashes>>

\* begin_renew_prepare of a due cycle whose incarnation has no clear in flight.  (A
\* crash between its two transactions leaves the ask without its cycle, as
\* RecordAsk and Crash do.)
BeginRenewPrepare(a) ==
    /\ up
    /\ a \in PrepareAsks
    /\ ~ClearInFlight(AskMsg(a))
    /\ CreateAsk(a, "now")
    /\ Park(AskMsg(a), "sweep", "now")
    /\ preparing' = preparing \cup {a}
    /\ UNCHANGED <<resolver, absent, attempted, ready, gen, ended, open, up, carried, landed,
                   crashes>>

\* create_tell_with_due, which insists on the recipient's exact incarnation.
CreateTell(m, when) ==
    /\ KeyFree(m)
    /\ Transport(m) = "herdr_prompt"
    /\ ReadyTarget(m) # 0
    /\ InsertPrompt(m, when)

RecordTell(t, when) ==
    LET m == TellMsg(t) IN
    /\ up
    /\ t \notin Firings
    /\ outcome[m] = "none"
    /\ CreateTell(m, DueTime(m, when))
    /\ Park(m, "client", when)
    /\ UNCHANGED <<obl, resolver, absent, attempted, world, up, carried, landed, crashes>>

\* queue_socket_inbox_delivery_at, and a reply to a pull waiter: a queued row
\* without an operation, picked up by the recipient.
InsertPickup(m, when) ==
    /\ outcome' = [outcome EXCEPT ![m] = "queued"]
    /\ sched' = [sched EXCEPT ![m] = when]
    /\ UNCHANGED <<op, target, job>>

RecordSocketTell(t, when) ==
    LET m == TellMsg(t) IN
    /\ up
    /\ t \notin Firings
    /\ outcome[m] = "none"
    /\ Transport(m) = "socket_inbox"
    /\ PickupKeyFree(m)
    /\ Recipient(m) \notin ended
    /\ InsertPickup(m, when)
    /\ UNCHANGED <<obl, resolver, absent, attempted, world, up, carried, landed, crashes>>

\* fire_tell_schedule for a recipient it can reach: a row due at once, for the due
\* sweep or the inbox.  Its key is the schedule's own.
FireTellSchedule(t) ==
    LET m == TellMsg(t) IN
    /\ up
    /\ t \in Firings
    /\ outcome[m] = "none"
    /\ IF Transport(m) = "socket_inbox"
       THEN Recipient(m) \notin ended /\ InsertPickup(m, "due")
       ELSE CreateTell(m, "due") /\ UNCHANGED job
    /\ UNCHANGED <<obl, resolver, absent, attempted, world, up, carried, landed, crashes>>

\* Variant for the mutation check: recording a final resolves its ask at once.
ReplyActivityResolves(r) ==
    obl' = [obl EXCEPT ![ReplyTo[r]] = IF r \in Final THEN "resolved" ELSE "in_progress"]

\* apply_reply_obligation_activity: a progress reply moves the obligation to
\* in_progress; a final one leaves it, because only acceptance of its delivery
\* resolves it.
ReplyActivity(r) ==
    obl' = IF r \in Final THEN obl ELSE [obl EXCEPT ![ReplyTo[r]] = "in_progress"]

\* create_reply_with_due: the ask is unsettled and its waiter still a target.
CreateReply(r) ==
    /\ KeyFree(ReplyMsg(r))
    /\ obl[ReplyTo[r]] \in Unsettled
    /\ Waiting[ReplyTo[r]] \notin ended
    /\ ReplyActivity(r)

\* The rows of a reply to a waiter with a pane, which must have a Ready incarnation.
CreateReplyPrompt(m, when) == ReadyTarget(m) # 0 /\ InsertPrompt(m, when)

\* record_reply on the path reply_receive_path finds; a row to be picked up is
\* available at once, whatever due time the request gives.
RecordReply(r, when) ==
    LET m == ReplyMsg(r) IN
    /\ up
    /\ outcome[m] = "none"
    /\ CreateReply(r)
    /\ IF Transport(m) = "herdr_prompt"
       THEN CreateReplyPrompt(m, DueTime(m, when)) /\ Park(m, "client", when)
       ELSE InsertPickup(m, "now")
    /\ UNCHANGED <<resolver, absent, attempted, world, up, carried, landed, crashes>>
----------------------------------------------------------------------------
(* The prompt write boundary: lane, intent commit, Herdr, completion.      *)

DropJob(j) == job' = [job EXCEPT ![j] = "none"]

\* Variants for the mutation check: outcomes swapped; a settled row overwritten.
SettleSwapped(m, opOutcome, deliveryOutcome) ==
    IF op[m] = "pending"
    THEN /\ op' = [op EXCEPT ![m] = opOutcome]
         /\ outcome' = [outcome EXCEPT ![m] = opOutcome]
    ELSE UNCHANGED <<op, outcome>>
SettleAnyway(m, opOutcome, deliveryOutcome) ==
    /\ op' = [op EXCEPT ![m] = opOutcome]
    /\ outcome' = [outcome EXCEPT ![m] = deliveryOutcome]

\* reject_unsent_prompt / mark_rejected / mark_unknown settle the operation
\* together with a delivery that is not settled yet; they refuse an operation
\* that is no longer pending.
Settle(m, opOutcome, deliveryOutcome) ==
    IF op[m] = "pending"
    THEN /\ op' = [op EXCEPT ![m] = opOutcome]
         /\ outcome' = [outcome EXCEPT ![m] =
                 IF @ \in {"pending", "queued", "submitted"} THEN deliveryOutcome ELSE @]
    ELSE UNCHANGED <<op, outcome>>

\* fail_parked_prompt before the intent is committed: only a cancellation
\* session records the failure; a client is answered with an error and its
\* row stays pending (or queued for the due sweep).
OpenFails(m, o) ==
    /\ up
    /\ job[<<m, o>>] = "opening"
    /\ DropJob(<<m, o>>)
    /\ IF o = "notice" THEN Settle(m, "failed", "target_unavailable")
                       ELSE UNCHANGED <<op, outcome>>
    /\ UNCHANGED <<obl, resolver, absent, attempted, sched, target, world,
                   up, carried, landed, crashes>>

\* Variant for the mutation check: the row is not compared before the write.
IntentCommitsBlind(m) == op[m] = "pending"

\* begin_attempt needs a pending operation; submit_queued_delivery also needs
\* the row still queued and due.  mark_submitted does not look at the row.
IntentCommits(m) ==
    /\ op[m] = "pending"
    /\ sched[m] # "now" => outcome[m] = "queued" /\ sched[m] = "due"

\* on_prompt_opened: commit_prompt_intent, then the write is handed to the
\* lane; a refused commit drops the prompt.
PromptOpened(m, o) ==
    /\ up
    /\ job[<<m, o>>] = "opening"
    /\ IF IntentCommits(m)
       THEN /\ job' = [job EXCEPT ![<<m, o>>] = "committed"]
            /\ attempted' = attempted \cup {m}
            /\ outcome' = [outcome EXCEPT ![m] =
                    IF @ \in {"pending", "queued"} THEN "submitted" ELSE @]
       ELSE DropJob(<<m, o>>) /\ UNCHANGED <<attempted, outcome>>
    /\ UNCHANGED <<obl, resolver, absent, op, sched, target, world,
                   up, carried, landed, crashes>>

\* Herdr, on the lane's connection, takes the prompt and watches for activity.
HerdrTakes(m, o, seen) ==
    /\ job[<<m, o>>] = "committed"
    /\ job' = [job EXCEPT ![<<m, o>>] = seen]
    /\ landed' = [landed EXCEPT ![m] = @ + 1]
    /\ UNCHANGED <<store, world, up, carried, crashes>>

\* Variant for the mutation check: acceptance does not look at the obligation.
AcceptCommitsAlways(m) == ReadyTarget(m) = target[m] /\ op[m] = "pending"

\* accept_delivery_with_submission commits as a whole or not at all: the
\* incarnation is still the Ready one, the operation still pending, and a
\* final reply still finds its obligation unsettled.
AcceptCommits(m) ==
    /\ ReadyTarget(m) = target[m]
    /\ op[m] = "pending"
    /\ m[1] = "reply" /\ m[2] \in Final => obl[AskOf(m)] \in Unsettled

\* A final reply resolves its ask; everything else leaves obligations alone.
Resolve(m) ==
    IF m[1] = "reply" /\ m[2] \in Final /\ obl[AskOf(m)] \in Unsettled
    THEN /\ obl' = [obl EXCEPT ![AskOf(m)] = "resolved"]
         /\ resolver' = [resolver EXCEPT ![AskOf(m)] = {m[2]}]
    ELSE UNCHANGED <<obl, resolver>>

\* complete_prompt_delivery with an observation, a stall or an unobserved
\* write: all three are acceptance.  A conflict leaves the operation pending
\* and the row submitted.
PromptAccepted(m, o) ==
    /\ up
    /\ job[<<m, o>>] \in {"landed", "stalled"}
    /\ DropJob(<<m, o>>)
    /\ IF AcceptCommits(m)
       THEN /\ op' = [op EXCEPT ![m] = "succeeded"]
            /\ outcome' = [outcome EXCEPT ![m] = IF @ = "submitted" THEN "accepted" ELSE @]
            /\ Resolve(m)
       ELSE UNCHANGED <<op, outcome, obl, resolver>>
    /\ UNCHANGED <<absent, attempted, sched, target, world, up, carried, landed, crashes>>

\* Herdr answers with a rejection: it did not take the prompt.  (A not_found
\* rejection is recorded as target_unavailable; nothing tells the two apart.)
PromptRejected(m, o) ==
    /\ up
    /\ job[<<m, o>>] = "committed"
    /\ DropJob(<<m, o>>)
    /\ Settle(m, "failed", "rejected")
    /\ UNCHANGED <<obl, resolver, absent, attempted, sched, target, world,
                   up, carried, landed, crashes>>

\* The connection broke or timed out after the intent was committed: whether
\* Herdr had taken the prompt is not known.
PromptLost(m, o) ==
    /\ up
    /\ job[<<m, o>>] \in InFlight
    /\ DropJob(<<m, o>>)
    /\ Settle(m, "unknown", "unknown")
    /\ UNCHANGED <<obl, resolver, absent, attempted, sched, target, world,
                   up, carried, landed, crashes>>

\* The clock reaches a queued delivery's due time, with or without a daemon.
DueTimeArrives(m) ==
    /\ outcome[m] = "queued"
    /\ sched[m] = "later"
    /\ sched' = [sched EXCEPT ![m] = "due"]
    /\ UNCHANGED <<obl, resolver, absent, outcome, op, attempted, target, world,
                   memory, landed, crashes>>

\* begin_due_deliveries.  First supersede_settled_queued_asks: a queued ask
\* whose obligation is settled is superseded (its operation row is not
\* touched).  Then every due row outside a clear or renew gate is parked, or
\* settled at once when its exact incarnation is no longer Ready.
SettledQueuedAsks ==
    {m \in {"ask"} \X Asks : outcome[m] = "queued" /\ obl[m[2]] \notin Unsettled}
\* Variant for the mutation check: only rows this daemon recorded are fired.
DueDeliveriesOwn ==
    {m \in Msgs \ SettledQueuedAsks :
        /\ outcome[m] = "queued"
        /\ op[m] = "pending"
        /\ sched[m] = "due"
        /\ job[<<m, "sweep">>] = "none"
        /\ m \notin carried}
DueDeliveries ==
    {m \in Msgs \ SettledQueuedAsks :
        /\ outcome[m] = "queued"
        /\ op[m] = "pending"
        /\ sched[m] = "due"
        /\ job[<<m, "sweep">>] = "none"}

\* begin_one_due: the exact incarnation the row is bound to is not Ready any more.
IncarnationGone(m) == ReadyTarget(m) # target[m]

\* due_deliveries keeps back what is addressed to an incarnation with a clear in
\* flight or with a cycle about to clear or clearing.
Gated(m) == \E kind \in {"clear", "renew"} : <<kind, Recipient(m), target[m]>> \in open

DueSweep ==
    LET fired == {m \in DueDeliveries : ~Gated(m)}
        gone == {m \in fired : IncarnationGone(m)}
    IN
    /\ up
    /\ outcome' = [m \in Msgs |-> IF m \in SettledQueuedAsks THEN "superseded"
                                  ELSE IF m \in gone THEN "target_unavailable"
                                  ELSE outcome[m]]
    /\ op' = [m \in Msgs |-> IF m \in gone THEN "failed" ELSE op[m]]
    /\ attempted' = attempted \cup gone
    /\ job' = [j \in Jobs |-> IF j[1] \in fired \ gone /\ j[2] = "sweep"
                              THEN "opening" ELSE job[j]]
    /\ UNCHANGED <<obl, resolver, absent, sched, target, world,
                   up, carried, landed, crashes>>
----------------------------------------------------------------------------
(* Settling an ask without an answer.                                      *)

\* Variant for the mutation check: an ended waiter is still sent its notice.
NoticeOutcomeToEnded(m, endedNow, when) ==
    IF Transport(m) # "herdr_prompt" THEN "queued"
    ELSE IF ReadyTarget(m) = 0 THEN "recorded"
    ELSE IF when = "now" THEN "pending" ELSE "queued"

\* record_cancellation_side for one notice: a pull waiter and an active socket
\* waiter get a row to pick up, a Ready agent gets a prompt, and for everyone
\* else only the message is recorded.
NoticeOutcome(m, endedNow, when) ==
    IF Transport(m) = "ask_pull" THEN "queued"
    ELSE IF Transport(m) = "socket_inbox"
         THEN IF Recipient(m) \in endedNow THEN "recorded" ELSE "queued"
    ELSE IF ReadyTarget(m) = 0 THEN "recorded"
    ELSE IF when = "now" THEN "pending" ELSE "queued"

\* cancel_recipient_incarnation and cancel_owing_incarnation, looked up before the
\* obligation is closed.
CancelIncarnation(m) == ReadyTarget(m) # 0

IsPrompt(m) == Transport(m) = "herdr_prompt" /\ CancelIncarnation(m)

NoticesOf(asks) == {"waiting", "owing"} \X asks

\* The due time of each notice: `when' through prompt_schedule.
NoticeTimes(when) == [m \in NoticeMsgs |-> DueTime(m, when)]

\* cancellation_prompts: notices that are not deferred are parked for `owner'.
CancellationPrompts(prompts, when, owner) ==
    job' = [j \in Jobs |-> IF j[1] \in prompts /\ j[2] = owner /\ when[j[1]] = "now"
                           THEN "opening" ELSE job[j]]

\* Close `asks' in state `final' and record both notices of each, while
\* `withdrawn' asks are closed without notices because their own delivery is
\* superseded before any write.  `unreachable' rows can no longer be picked up;
\* `when' is the due time of each notice.
Close(asks, withdrawn, state, unreachable, endedNow, when, owner) ==
    LET notices == NoticesOf(asks)
        prompts == {m \in notices : IsPrompt(m)}
        pulled == {"ask"} \X withdrawn
    IN
    /\ obl' = [a \in Asks |-> IF a \in asks \cup withdrawn THEN state ELSE obl[a]]
    /\ outcome' = [m \in Msgs |-> IF m \in notices THEN NoticeOutcome(m, endedNow, when[m])
                                  ELSE IF m \in pulled THEN "superseded"
                                  ELSE IF m \in unreachable THEN "target_unavailable"
                                  ELSE outcome[m]]
    /\ op' = [m \in Msgs |-> IF m \in prompts THEN "pending"
                             ELSE IF m \in pulled THEN "superseded"
                             ELSE op[m]]
    /\ sched' = [m \in Msgs |-> IF m \in prompts THEN when[m] ELSE sched[m]]
    /\ target' = [m \in Msgs |-> IF m \in prompts THEN ReadyTarget(m) ELSE target[m]]
    /\ CancellationPrompts(prompts, when, owner)

\* Variant for the mutation check: a submitted row counts as withdrawable.
UnsubmittedOrInFlight(m) == outcome[m] \in {"queued", "submitted"}

\* Still queued with no submitted attempt: nothing has been written.
Unsubmitted(m) == outcome[m] = "queued" /\ m \notin attempted

\* cancel / record_cancel of an ask, by anyone.  cancel_queued_delivery
\* withdraws an unsubmitted ask silently; otherwise cancel_with_response tells
\* both parties.  refuse_renew_prepare_ask_cancel: not an ask of a live cycle.
CancelAsk(a, when) ==
    LET withdraw == Unsubmitted(AskMsg(a)) IN
    /\ up
    /\ obl[a] \in Unsettled
    /\ a \notin preparing
    /\ Close(IF withdraw THEN {} ELSE {a}, IF withdraw THEN {a} ELSE {},
             "cancelled", {}, ended, NoticeTimes(when), "notice")
    /\ UNCHANGED <<resolver, absent, attempted, world, up, carried, landed, crashes>>

\* cancel_queued_delivery of a scheduled tell.  A socket tell has no operation
\* row and the lookup fails on it.
CancelTell(t) ==
    LET m == TellMsg(t) IN
    /\ up
    /\ Unsubmitted(m)
    /\ op[m] = "pending"
    /\ outcome' = [outcome EXCEPT ![m] = "superseded"]
    /\ op' = [op EXCEPT ![m] = "superseded"]
    /\ UNCHANGED <<obl, resolver, absent, attempted, sched, target, world,
                   memory, landed, crashes>>

\* end_socket_waiter: a retirement requested by a client or by the absence
\* sweep.  Every ask the waiter waits on is cancelled, and every row still in
\* its inbox becomes undeliverable.
EndWaiter(s, when, owner) ==
    LET asks == {a \in Asks : Waiting[a] = s /\ obl[a] \in Unsettled}
        withdrawn == {a \in asks : Unsubmitted(AskMsg(a))}
        inbox == {m \in Msgs : /\ Transport(m) = "socket_inbox"
                               /\ Recipient(m) = s
                               /\ outcome[m] = "queued"}
    IN
    /\ up
    /\ s \notin ended
    /\ ended' = ended \cup {s}
    /\ Close(asks \ withdrawn, withdrawn, "cancelled", inbox, ended \cup {s},
             NoticeTimes(when), owner)
    /\ UNCHANGED <<resolver, absent, attempted, ready, gen, work, up, carried, landed, crashes>>

\* cancel_unanswered_prepare, on every way on of a cycle or out of it: the ask it opened
\* ends with it, and nobody is told.
CycleMovesOn(a) ==
    /\ up
    /\ a \in preparing
    /\ preparing' = preparing \ {a}
    /\ obl' = IF obl[a] \in Unsettled THEN [obl EXCEPT ![a] = "cancelled"] ELSE obl
    /\ UNCHANGED <<resolver, absent, outcome, op, attempted, sched, target, ready, gen, ended,
                   open, memory, landed, crashes>>

\* party_present_expression: an active socket waiter, a Ready incarnation, an
\* operation on it (or the start that makes one) still under way, or a live cycle.
Present(x) ==
    IF x \in SocketWaiters THEN x \notin ended
    ELSE \/ ready[x] # 0
         \/ \E w \in open : w[2] = x
         \/ \E a \in preparing : Owing[a] = x
BothPresent(a) == Present(Waiting[a]) /\ Present(Owing[a])

\* NO_IN_FLIGHT_FINAL_ASK: the outcomes of a final reply that hold orphaning.
HoldsOrphan == {"queued", "submitted", "accepted", "unknown"}
FinalHolds(a) ==
    \E r \in Final : ReplyTo[r] = a /\ outcome[ReplyMsg(r)] \in HoldsOrphan

\* Variant for the mutation check: every sweep starts the clock anew.
ObserveAnew(a) == IF BothPresent(a) THEN "no" ELSE "observed"

\* observe_ask_availability of an unsettled ask: an absent party starts its
\* clock once, and the clock is reset when both are back.
Observe(a) ==
    IF BothPresent(a) THEN "no"
    ELSE IF absent[a] = "no" THEN "observed" ELSE absent[a]

\* sweep_absent_asks: an ask absent past the grace is orphaned unless a final
\* is in flight or a live cycle owns it.  Its notices have no due time at all: they
\* are parked even when a clear is in flight.
AbsenceSweep ==
    LET unsettled == {a \in Asks : obl[a] \in Unsettled}
        observed == [a \in Asks |-> IF a \in unsettled THEN Observe(a) ELSE absent[a]]
        stranded == {a \in unsettled \ preparing : observed[a] = "expired" /\ ~FinalHolds(a)}
    IN
    /\ up
    /\ absent' = observed
    /\ Close(stranded, {}, "orphaned", {}, ended, [m \in NoticeMsgs |-> "now"], "sweep")
    /\ UNCHANGED <<resolver, attempted, world, up, carried, landed, crashes>>

\* The orphan grace elapses on the store clock.
GraceElapses(a) ==
    /\ absent[a] = "observed"
    /\ absent' = [absent EXCEPT ![a] = "expired"]
    /\ UNCHANGED <<obl, resolver, outcome, op, attempted, sched, target, world,
                   memory, landed, crashes>>
----------------------------------------------------------------------------
(* Picking up rows from the socket inbox and the ask-pull sink.            *)

\* ack_socket_inbox_delivery / ack_ask_pull_delivery: acknowledging is
\* acceptance, and an acknowledged final resolves an ask that still waits.
Ack(m) ==
    /\ up
    /\ Transport(m) # "herdr_prompt"
    /\ Recipient(m) \notin ended
    /\ outcome[m] = "queued"
    /\ outcome' = [outcome EXCEPT ![m] = "accepted"]
    /\ Resolve(m)
    /\ UNCHANGED <<absent, op, attempted, sched, target, world, memory, landed, crashes>>
----------------------------------------------------------------------------
(* Incarnations, crash and recovery.                                       *)

\* An agent's Ready incarnation is retired or found lost in a snapshot.
LoseIncarnation(x) ==
    /\ up
    /\ ready[x] # 0
    /\ ready' = [ready EXCEPT ![x] = 0]
    /\ UNCHANGED <<store, gen, ended, work, memory, landed, crashes>>

\* A start, an adoption or a continuation makes a new incarnation Ready.
BindIncarnation(x) ==
    /\ up
    /\ ready[x] = 0
    /\ gen[x] < MaxIncarnation
    /\ gen' = [gen EXCEPT ![x] = @ + 1]
    /\ ready' = [ready EXCEPT ![x] = gen[x] + 1]
    /\ UNCHANGED <<store, ended, work, memory, landed, crashes>>

\* An operation on the agent is created, or its renew cycle is about to clear.  A clear
\* and such a cycle exclude each other on one incarnation (Gates).
BeginWork(kind, x) ==
    /\ up
    /\ <<kind, x>> \in Work
    /\ kind # "other" =>
          ready[x] # 0 /\ \A other \in {"clear", "renew"} : <<other, x, ready[x]>> \notin open
    /\ open' = open \cup {<<kind, x, ready[x]>>}
    /\ UNCHANGED <<store, ready, gen, ended, preparing, memory, landed, crashes>>

\* complete_clear and mark_clear_unknown push what is queued for the incarnation
\* behind the settle gap.
SpacedBy(clears) ==
    [m \in Msgs |->
        IF /\ outcome[m] = "queued" /\ sched[m] = "due"
           /\ <<"clear", Recipient(m), target[m]>> \in clears
        THEN "later" ELSE sched[m]]

\* Work is settled; a clear that was written leaves its settle gap.  Nothing makes it
\* so: a failed clear stays open until the daemon is restarted (fail_clear_at).
EndWork(w, spaced) ==
    /\ up
    /\ w \in open
    /\ open' = open \ {w}
    /\ sched' = IF spaced THEN SpacedBy({w}) ELSE sched
    /\ UNCHANGED <<obl, resolver, absent, outcome, op, attempted, target, ready, gen, ended,
                   preparing, memory, landed, crashes>>

\* The daemon dies: parked prompts are gone, and no later write can happen.
Crash ==
    /\ up
    /\ crashes < MaxCrashes
    /\ up' = FALSE
    /\ crashes' = crashes + 1
    /\ job' = NoJobs
    /\ UNCHANGED <<store, world, carried, landed>>

\* reconcile settles an attempted prompt of an operation it considers
\* abandoned as unknown, and sends nothing.
MarkUnknown(ms) ==
    /\ op' = [m \in Msgs |-> IF m \in ms THEN "unknown" ELSE op[m]]
    /\ outcome' = [m \in Msgs |->
            IF m \in ms /\ outcome[m] \in {"pending", "queued", "submitted"}
            THEN "unknown" ELSE outcome[m]]

Interrupted(m) == op[m] = "pending" /\ m \in attempted
\* reconcile_missed_due_wakes: due while no daemon was running.  A schedule's firing
\* and a row behind a clear stay queued, and are fired late.
MissedWake(m) ==
    /\ op[m] = "pending" /\ outcome[m] = "queued" /\ sched[m] = "due"
    /\ ~(m[1] = "tell" /\ m[2] \in Firings)
    /\ <<"clear", Recipient(m), target[m]>> \notin open

\* Startup recovery, then claim_live_operations: every operation that exists
\* now is at or below the live floor.  Every clear is settled: as unknown, with its
\* settle gap if that has not passed, or as failed when it was not attempted.
Restart ==
    /\ ~up
    /\ up' = TRUE
    /\ MarkUnknown({m \in Msgs : Interrupted(m) \/ MissedWake(m)})
    /\ carried' = {m \in Msgs : op[m] # "none"}
    /\ open' = {w \in open : w[1] # "clear"}
    /\ \E spaced \in SUBSET (open \ open') : sched' = SpacedBy(spaced)
    /\ UNCHANGED <<obl, resolver, absent, attempted, target, ready, gen, ended, preparing,
                   job, landed, crashes>>

\* Variant for the mutation check: the live floor is ignored.
LiveReconcileEverything ==
    /\ up
    /\ MarkUnknown({m \in Msgs : Interrupted(m)})
    /\ UNCHANGED <<obl, resolver, absent, attempted, sched, target, world,
                   memory, landed, crashes>>

\* The same reconcile inside the live daemon (client recover, absence sweep,
\* boot continuation): only operations at or below the floor are candidates.
LiveReconcile ==
    /\ up
    /\ MarkUnknown({m \in Msgs : Interrupted(m) /\ m \in carried})
    /\ UNCHANGED <<obl, resolver, absent, attempted, sched, target, world,
                   memory, landed, crashes>>
----------------------------------------------------------------------------
(* Specification.                                                          *)

\* prepare_client_prompt: a request records its message or replays its key.
ClientAsk == \E a \in Asks, when \in Schedules : RecordAsk(a, when)
ClientTell ==
    \E t \in Tells, when \in Schedules : RecordTell(t, when) \/ RecordSocketTell(t, when)
ClientReply == \E r \in Replies, when \in Schedules : RecordReply(r, when)

Client ==
    \/ ClientAsk
    \/ ClientTell
    \/ ClientReply
    \/ \E a \in Asks, when \in Schedules \ {"due"} : CancelAsk(a, when)
    \/ \E t \in Tells : CancelTell(t)
    \/ \E s \in SocketWaiters, when \in Schedules \ {"due"}, owner \in {"notice", "sweep"} :
           EndWaiter(s, when, owner)
    \/ \E m \in Msgs : Ack(m)

Prompt(m, o) ==
    \/ OpenFails(m, o)
    \/ PromptOpened(m, o)
    \/ \E seen \in {"landed", "stalled"} : HerdrTakes(m, o, seen)
    \/ PromptAccepted(m, o)
    \/ PromptRejected(m, o)
    \/ PromptLost(m, o)

Daemon ==
    \/ DueSweep
    \/ \E t \in Tells : FireTellSchedule(t)
    \/ \E a \in Asks : BeginRenewPrepare(a) \/ CycleMovesOn(a)
    \/ AbsenceSweep
    \/ LiveReconcile
    \/ Restart

Environment ==
    \/ \E m \in Msgs : DueTimeArrives(m)
    \/ \E a \in Asks : GraceElapses(a)
    \/ \E x \in HerdrAgents : LoseIncarnation(x) \/ BindIncarnation(x)
    \/ \E kind \in WorkKinds, x \in HerdrAgents : BeginWork(kind, x)
    \/ \E w \in open, spaced \in BOOLEAN : EndWork(w, spaced)
    \/ Crash

Next == Client \/ (\E m \in Msgs, o \in PromptOwner : Prompt(m, o)) \/ Daemon \/ Environment

Spec == Init /\ [][Next]_vars
----------------------------------------------------------------------------
(* Properties.                                                             *)

TypeOK ==
    /\ obl \in [Asks -> ObligationState]
    /\ resolver \in [Asks -> SUBSET Replies]
    /\ absent \in [Asks -> {"no", "observed", "expired"}]
    /\ outcome \in [Msgs -> DeliveryOutcome]
    /\ op \in [Msgs -> OperationOutcome]
    /\ attempted \in SUBSET Msgs
    /\ sched \in [Msgs -> Schedule]
    /\ target \in [Msgs -> Nat]
    /\ ready \in [HerdrAgents -> Nat]
    /\ gen \in [HerdrAgents -> Nat]
    /\ ended \in SUBSET SocketWaiters
    /\ open \in SUBSET (WorkKinds \X HerdrAgents \X Nat)
    /\ preparing \in SUBSET PrepareAsks
    /\ up \in BOOLEAN
    /\ job \in [Jobs -> JobState]
    /\ carried \in SUBSET Msgs
    /\ landed \in [Msgs -> Nat]
    /\ crashes \in Nat

\* No message is ever handed to an agent twice, whatever two parked prompts,
\* a crash, a recovery and a late response do (mark_submitted's comment:
\* submitted "is never auto-retried").
AtMostOneWrite == \A m \in Msgs : landed[m] <= 1

\* A client that retries with the same idempotency key never has two prompts
\* taken by Herdr: only a failed operation frees its key, and a failed
\* operation's prompt was never taken.
KeyLandsOnce ==
    \A m, n \in ClientMsgs :
        m # n /\ Key[m] = Key[n] => landed[m] = 0 \/ landed[n] = 0

\* The recorded outcome of a prompt never contradicts what Herdr did:
\* accepted means taken, and rejected, target_unavailable or superseded means
\* not taken.  Only submitted and unknown are ambiguous.
OutcomeIsHonest ==
    \A m \in Msgs :
        Transport(m) = "herdr_prompt" =>
            /\ outcome[m] = "accepted" => landed[m] = 1
            /\ outcome[m] \notin {"accepted", "submitted", "unknown"} => landed[m] = 0

\* An ask is resolved exactly when one final reply to that ask resolved it,
\* and the waiter accepted that reply's delivery ("rejected/unknown prompts
\* never claim the waiter received the answer").
ResolvedByAcceptedFinal ==
    \A a \in Asks :
        /\ (obl[a] = "resolved") <=> (resolver[a] # {})
        /\ \A r \in resolver[a] :
              /\ resolver[a] = {r}
              /\ r \in Final
              /\ ReplyTo[r] = a
              /\ outcome[ReplyMsg(r)] = "accepted"

\* A final recorded as accepted over Herdr is the answer: acceptance and
\* resolution commit together, so two finals racing a cancel or each other
\* never leave one accepted that resolved nothing.
AcceptedPromptFinalResolves ==
    \A r \in Final :
        /\ Transport(ReplyMsg(r)) = "herdr_prompt"
        /\ outcome[ReplyMsg(r)] = "accepted"
        => resolver[ReplyTo[r]] = {r}

\* An ask whose text an agent has seen is never closed behind the parties'
\* backs: cancelling or orphaning it records a notice for each side.  (An ask of a
\* renew cycle ends with its phase, which its parties follow.)
NoSilentClose ==
    \A a \in Asks \ PrepareAsks :
        obl[a] \in {"cancelled", "orphaned"} /\ landed[AskMsg(a)] > 0 =>
            outcome[WaitingNotice(a)] # "none" /\ outcome[OwingNotice(a)] # "none"

SettledOutcome ==
    {"recorded", "accepted", "rejected", "target_unavailable", "unknown", "superseded"}

\* A settled delivery stays as it was settled, through late responses, sweeps
\* and recoveries: unknown is never upgraded and accepted never taken back.
SettledDeliveryStays ==
    [][\A m \in Msgs : outcome[m] \in SettledOutcome => outcome'[m] = outcome[m]]_vars

\* Every prompt that is being written belongs to a delivery that says so: it
\* is submitted and its operation pending.  Claimed of the operations this
\* daemon created (claim_live_operations).
LiveWriteIsSubmitted ==
    \A m \in Msgs, o \in PromptOwner :
        job[<<m, o>>] \in InFlight /\ m \notin carried =>
            outcome[m] = "submitted" /\ op[m] = "pending"

\* The replies a waiter has received: finals whose delivery is accepted.
ReceivedFinals == {r \in Final : outcome[ReplyMsg(r)] = "accepted"}

Contract == INSTANCE ReplyContract
    WITH state <- obl, answer <- resolver, received <- ReceivedFinals

\* The store implements the obligation contract: an ask is settled once, and
\* resolved only by the acceptance of a final reply to it.
KeepsReplyContract == Contract!Spec

\* An ended waiter leaves nothing behind: no ask still waits for it and no row
\* still queues for it, however the retirement raced replies and notices.
EndedWaiterIsDrained ==
    \A s \in ended :
        /\ \A a \in Asks : Waiting[a] = s => obl[a] \notin Unsettled
        /\ \A m \in Msgs :
              Recipient(m) = s /\ Transport(m) = "socket_inbox" => outcome[m] # "queued"
----------------------------------------------------------------------------
(* The inductive invariant behind the safety properties.                   *)

\* What the operation row says about the delivery row of one message.
RowsAgree(m) ==
    /\ op[m] # "none" => Transport(m) = "herdr_prompt"
    /\ op[m] = "none" => outcome[m] \notin {"pending", "submitted", "unknown", "rejected"}
    /\ op[m] = "none" /\ Transport(m) = "herdr_prompt" => outcome[m] \in {"none", "recorded"}
    /\ op[m] = "pending" => outcome[m] \in {"pending", "queued", "submitted", "superseded"}
    /\ op[m] = "succeeded" => outcome[m] = "accepted"
    /\ op[m] = "failed" => outcome[m] \in {"rejected", "target_unavailable"}
    /\ op[m] = "unknown" => outcome[m] = "unknown"
    /\ op[m] = "superseded" => outcome[m] = "superseded"
    /\ op[m] # "none" /\ sched[m] = "now" => outcome[m] # "queued"
    /\ outcome[m] = "superseded" => m \notin NoticeMsgs

\* What the delivery row says about writes: before submission nothing was
\* written and nothing is being written; a failed delivery was never taken.
WritesAgree(m) ==
    /\ op[m] = "none" => m \notin attempted /\ landed[m] = 0
    /\ outcome[m] \in {"none", "recorded", "pending", "queued", "superseded"}
          => m \notin attempted /\ landed[m] = 0
    /\ outcome[m] \in {"rejected", "target_unavailable"} => landed[m] = 0
    /\ op[m] = "succeeded" => landed[m] = 1
    /\ landed[m] <= 1

\* What parked prompts say about their message: at most one crossed the write
\* boundary, and an unscheduled message has a single one.
JobsAgree(m) ==
    \A o \in PromptOwner :
        /\ op[m] = "none" => job[<<m, o>>] = "none"
        /\ job[<<m, o>>] \in InFlight => outcome[m] \in {"submitted", "unknown"}
        /\ job[<<m, o>>] \in InFlight /\ m \notin carried => op[m] = "pending"
        /\ job[<<m, o>>] = "committed" => landed[m] = 0
        /\ job[<<m, o>>] \in {"landed", "stalled"} => landed[m] = 1
        /\ job[<<m, o>>] = "opening" /\ sched[m] = "now" =>
              /\ outcome[m] = "pending"
              /\ \A p \in PromptOwner \ {o} : job[<<m, p>>] = "none"
        /\ job[<<m, o>>] \in InFlight =>
              \A p \in PromptOwner \ {o} : job[<<m, p>>] \notin InFlight
        /\ o = "notice" /\ job[<<m, o>>] # "none" => m \in NoticeMsgs /\ sched[m] = "now"

\* One key has at most one operation that did not fail.
KeysAgree ==
    \A m, n \in ClientMsgs :
        m # n /\ Key[m] = Key[n] =>
            op[m] \in {"none", "failed"} \/ op[n] \in {"none", "failed"}

\* Notices exist only for an ask closed without an answer; such an ask has
\* them unless it was withdrawn before any write or ended with its cycle.
NoticesAgree ==
    \A a \in Asks, side \in {"waiting", "owing"} :
        IF obl[a] \in {"cancelled", "orphaned"}
        THEN \/ outcome[<<side, a>>] # "none"
             \/ outcome[AskMsg(a)] = "superseded"
             \/ a \in PrepareAsks
        ELSE outcome[<<side, a>>] = "none"

\* An ask and its obligation are recorded together.
AsksAgree == \A a \in Asks : obl[a] = "none" <=> outcome[AskMsg(a)] = "none"

MsgAgrees(m) == RowsAgree(m) /\ WritesAgree(m) /\ JobsAgree(m)

PromptInv ==
    /\ \A m \in Msgs : MsgAgrees(m)
    /\ KeysAgree
    /\ NoticesAgree
    /\ AsksAgree
    /\ ~up => job = NoJobs

----------------------------------------------------------------------------
(* Liveness.                                                               *)

CompletePrompt(m, o) ==
    \/ PromptAccepted(m, o)
    \/ PromptRejected(m, o)
    \/ PromptLost(m, o)

\* kelpied is restarted, its sweeps run at their interval, the clock advances, a
\* lane's job ends because every read has a timeout, and Herdr accepts connections
\* again and again.  Nothing ends lifecycle work: a failed clear stays open.
Fairness ==
    /\ WF_vars(Restart)
    /\ WF_vars(DueSweep)
    /\ WF_vars(AbsenceSweep)
    /\ WF_vars(\E a \in Asks : GraceElapses(a))
    /\ WF_vars(\E m \in Msgs : DueTimeArrives(m))
    /\ SF_vars(\E m \in Msgs, o \in PromptOwner : PromptOpened(m, o))
    /\ WF_vars(\E m \in Msgs, o \in PromptOwner : CompletePrompt(m, o))

FairSpec == Spec /\ Fairness

\* SPEC "an open or in-progress ask whose required party is absent longer than
\* the ask grace MUST be settled": it does not stay unsettled forever while a
\* party is absent throughout, unless a final reply to it is possibly on its way
\* or it is its renew cycle's to settle.  Absent is what the code takes for it
\* (Present): an ask whose party left a failed clear behind may stay open, and so
\* may one whose party keeps coming back within the grace.
StrandedAskSettles ==
    \A a \in Asks :
        []<>~(/\ obl[a] \in Unsettled
              /\ ~BothPresent(a)
              /\ a \notin preparing
              /\ \A r \in Final : ReplyTo[r] = a =>
                    outcome[ReplyMsg(r)] \notin {"queued", "submitted", "accepted", "unknown"})

\* A scheduled prompt whose time has come, and which no clear or renew cycle holds
\* back any more, leaves the queue: it is written, superseded, or found
\* undeliverable, across crashes, failed connections and the settle gaps of clears.
\* A prompt behind a clear that failed is held back until the daemon is restarted.
DueDeliveryLeavesQueue ==
    \A m \in Msgs :
        []<>~(/\ Transport(m) = "herdr_prompt"
              /\ outcome[m] = "queued"
              /\ sched[m] = "due"
              /\ ~Gated(m))
----------------------------------------------------------------------------
(* Claims of the repository that the code does not keep.                   *)

\* Daemon::bind: "Startup recovery already settled what the previous process
\* left", so that a later recover, which spares the operations created since,
\* "must leave it alone": no reconcile settles a prompt this daemon is writing.
\* A delivery queued for later survives the restart, is fired by the new
\* daemon, and is below the floor.
WriteBelongsToItsDaemon ==
    \A m \in Msgs, o \in PromptOwner :
        job[<<m, o>>] \in InFlight => outcome[m] = "submitted"

\* "A final reply whose delivery is still in flight holds orphan settlement":
\* no ask is orphaned while a final to it is parked and can still be accepted.
InFlightFinalHoldsOrphan ==
    [][\A r \in Final :
          (\E o \in PromptOwner : job[<<ReplyMsg(r), o>>] # "none")
              /\ obl[ReplyTo[r]] \in Unsettled
          => obl'[ReplyTo[r]] # "orphaned"]_vars

\* SPEC: "A stalled or unobserved submission ... MUST NOT resolve, cancel, or
\* orphan any obligation".
StalledNeverResolves ==
    [][\A m \in Msgs, o \in PromptOwner :
          job[<<m, o>>] = "stalled" /\ job'[<<m, o>>] = "none" => obl' = obl]_vars
============================================================================
