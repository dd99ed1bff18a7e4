-------------------------- MODULE MessagingProofs --------------------------
(***************************************************************************)
(* Theorems about Messaging, for every set of agents, asks, replies and    *)
(* tells and every bound: type correctness, the inductive invariant        *)
(* PromptInv, and the safety properties that follow from it.               *)
(***************************************************************************)
EXTENDS Messaging, TLAPS

(* Messages, their recipients and transports. *)

LEMMA MsgFacts ==
    /\ \A a \in Asks : /\ AskMsg(a) \in ClientMsgs
                       /\ WaitingNotice(a) \in NoticeMsgs
                       /\ OwingNotice(a) \in NoticeMsgs
    /\ \A t \in Tells : TellMsg(t) \in ClientMsgs
    /\ \A r \in Replies : ReplyMsg(r) \in ClientMsgs
    /\ ClientMsgs \subseteq Msgs
    /\ NoticeMsgs \subseteq Msgs
    /\ \A m \in ClientMsgs : m \notin NoticeMsgs
BY DEF AskMsg, TellMsg, ReplyMsg, WaitingNotice, OwingNotice, ClientMsgs, NoticeMsgs, Msgs

LEMMA RecipientFact ==
    \A m \in Msgs : Recipient(m) \in HerdrAgents \cup SocketWaiters
BY PartiesAssumption, RepliesAssumption
   DEF Msgs, ClientMsgs, NoticeMsgs, Recipient, AskOf

LEMMA HerdrRecipient ==
    \A m \in Msgs : Transport(m) = "herdr_prompt" => Recipient(m) \in HerdrAgents
BY RecipientFact DEF Transport

LEMMA AskIsPrompted ==
    \A a \in Asks : Transport(AskMsg(a)) = "herdr_prompt"
BY PartiesAssumption DEF Transport, Recipient, AskMsg

LEMMA JobFacts ==
    /\ \A m \in Msgs, o \in PromptOwner : <<m, o>> \in Jobs
    /\ \A j \in Jobs : j[1] \in Msgs /\ j[2] \in PromptOwner /\ j = <<j[1], j[2]>>
BY DEF Jobs

LEMMA NoticeOutcomeType ==
    ASSUME NEW m \in Msgs, NEW e, NEW w
    PROVE  /\ NoticeOutcome(m, e, w) \in {"recorded", "pending", "queued"}
           /\ IsPrompt(m) => NoticeOutcome(m, e, w) = IF w = "now" THEN "pending" ELSE "queued"
           /\ ~IsPrompt(m) => NoticeOutcome(m, e, w) # "pending"
           /\ ~IsPrompt(m) /\ Transport(m) = "herdr_prompt" => NoticeOutcome(m, e, w) = "recorded"
BY DEF NoticeOutcome, IsPrompt, CancelIncarnation, Transport

\* The final reply behind a message, when it is one.
LEMMA FinalOf ==
    ASSUME NEW m \in Msgs, m[1] = "reply", m[2] \in Final
    PROVE  /\ m[2] \in Replies
           /\ AskOf(m) = ReplyTo[m[2]]
           /\ AskOf(m) \in Asks
           /\ m = ReplyMsg(m[2])
BY RepliesAssumption DEF Msgs, ClientMsgs, NoticeMsgs, AskOf, ReplyMsg

\* The due times prompts are given, and what becomes of their parking.
LEMMA DueTimeType ==
    /\ \A m : \A when \in Schedules : DueTime(m, when) \in Schedule
    /\ \A m, when : when = "now" \/ when = "later" => DueTime(m, when) \in Schedule
    /\ \A m, when : DueTime(m, when) = "now" => ~Deferred(m, when)
BY BoundsAssumption DEF DueTime, Deferred, Schedule

LEMMA NoticeTimesType ==
    ASSUME NEW when \in Schedules
    PROVE  NoticeTimes(when) \in [NoticeMsgs -> Schedule]
BY DueTimeType DEF NoticeTimes

LEMMA ParkType ==
    ASSUME job \in [Jobs -> JobState], NEW m \in Msgs, NEW o \in PromptOwner, NEW when,
           Park(m, o, when)
    PROVE  job' \in [Jobs -> JobState]
BY JobFacts DEF Park, JobState

LEMMA InsertPromptType ==
    ASSUME TypeOK, NEW m \in Msgs, NEW when \in Schedule, Transport(m) = "herdr_prompt",
           InsertPrompt(m, when)
    PROVE  /\ outcome' \in [Msgs -> DeliveryOutcome]
           /\ op' \in [Msgs -> OperationOutcome]
           /\ sched' \in [Msgs -> Schedule]
           /\ target' \in [Msgs -> Nat]
<1>1. ReadyTarget(m) \in Nat
  BY HerdrRecipient DEF ReadyTarget, TypeOK
<1> QED
  BY <1>1 DEF InsertPrompt, TypeOK, DeliveryOutcome, OperationOutcome

LEMMA SpacedByType ==
    ASSUME sched \in [Msgs -> Schedule], NEW clears
    PROVE  SpacedBy(clears) \in [Msgs -> Schedule]
BY DEF SpacedBy, Schedule
----------------------------------------------------------------------------
(* Type correctness. *)

LEMMA CloseType ==
    ASSUME TypeOK, NEW asks, NEW withdrawn, NEW state \in {"cancelled", "orphaned"},
           NEW unreachable, NEW e, NEW when \in [NoticeMsgs -> Schedule], NEW owner,
           asks \subseteq Asks, Close(asks, withdrawn, state, unreachable, e, when, owner)
    PROVE  /\ obl' \in [Asks -> ObligationState]
           /\ outcome' \in [Msgs -> DeliveryOutcome]
           /\ op' \in [Msgs -> OperationOutcome]
           /\ sched' \in [Msgs -> Schedule]
           /\ target' \in [Msgs -> Nat]
           /\ job' \in [Jobs -> JobState]
<1>1. \A m \in Msgs : IsPrompt(m) => ReadyTarget(m) \in Nat
  BY HerdrRecipient DEF IsPrompt, CancelIncarnation, ReadyTarget, TypeOK
<1>2. target' \in [Msgs -> Nat]
  BY <1>1 DEF Close, TypeOK, CancellationPrompts
<1>3. outcome' \in [Msgs -> DeliveryOutcome]
  BY NoticeOutcomeType DEF Close, TypeOK, DeliveryOutcome, CancellationPrompts
<1>4. NoticesOf(asks) \subseteq NoticeMsgs
  BY DEF NoticesOf, NoticeMsgs
<1>5. sched' \in [Msgs -> Schedule]
  BY <1>4 DEF Close, TypeOK
<1> QED
  BY <1>2, <1>3, <1>5 DEF Close, TypeOK, ObligationState, OperationOutcome, JobState,
     CancellationPrompts

LEMMA CancelAskType ==
    ASSUME TypeOK, NEW a \in Asks, NEW when \in Schedules, CancelAsk(a, when)
    PROVE  TypeOK'
<1> DEFINE times == NoticeTimes(when)
<1>1. times \in [NoticeMsgs -> Schedule]
  BY NoticeTimesType
<1>2. PICK asks, withdrawn : /\ Close(asks, withdrawn, "cancelled", {}, ended, times, "notice")
                             /\ asks \subseteq Asks
  BY DEF CancelAsk
<1> HIDE DEF times
<1>3. /\ obl' \in [Asks -> ObligationState]
      /\ outcome' \in [Msgs -> DeliveryOutcome]
      /\ op' \in [Msgs -> OperationOutcome]
      /\ sched' \in [Msgs -> Schedule]
      /\ target' \in [Msgs -> Nat]
      /\ job' \in [Jobs -> JobState]
  BY <1>1, <1>2, CloseType
<1> QED
  BY <1>3 DEF CancelAsk, TypeOK, world, work

LEMMA EndWaiterType ==
    ASSUME TypeOK, NEW s \in SocketWaiters, NEW when \in Schedules, NEW owner,
           EndWaiter(s, when, owner)
    PROVE  TypeOK'
<1> DEFINE times == NoticeTimes(when)
<1>1. times \in [NoticeMsgs -> Schedule]
  BY NoticeTimesType
<1>2. PICK asks, withdrawn, inbox :
          /\ Close(asks, withdrawn, "cancelled", inbox, ended \cup {s}, times, owner)
          /\ asks \subseteq Asks
  BY DEF EndWaiter
<1> HIDE DEF times
<1>3. /\ obl' \in [Asks -> ObligationState]
      /\ outcome' \in [Msgs -> DeliveryOutcome]
      /\ op' \in [Msgs -> OperationOutcome]
      /\ sched' \in [Msgs -> Schedule]
      /\ target' \in [Msgs -> Nat]
      /\ job' \in [Jobs -> JobState]
  BY <1>1, <1>2, CloseType
<1> QED
  BY <1>3 DEF EndWaiter, TypeOK, work

\* Recording an ask, a tell or a reply, with whatever due time.
LEMMA RecordingType ==
    ASSUME TypeOK
    PROVE  /\ \A a \in Asks, when \in Schedule :
                  CreateAsk(a, when) => /\ obl' \in [Asks -> ObligationState]
                                        /\ outcome' \in [Msgs -> DeliveryOutcome]
                                        /\ op' \in [Msgs -> OperationOutcome]
                                        /\ sched' \in [Msgs -> Schedule]
                                        /\ target' \in [Msgs -> Nat]
           /\ \A m \in Msgs, when \in Schedule :
                  CreateTell(m, when) => /\ outcome' \in [Msgs -> DeliveryOutcome]
                                         /\ op' \in [Msgs -> OperationOutcome]
                                         /\ sched' \in [Msgs -> Schedule]
                                         /\ target' \in [Msgs -> Nat]
           /\ \A m \in Msgs, when \in Schedule :
                  InsertPickup(m, when) => /\ outcome' \in [Msgs -> DeliveryOutcome]
                                           /\ sched' \in [Msgs -> Schedule]
                                           /\ UNCHANGED <<op, target, job>>
<1>1. ASSUME NEW a \in Asks, NEW when \in Schedule, CreateAsk(a, when)
      PROVE  /\ obl' \in [Asks -> ObligationState]
             /\ outcome' \in [Msgs -> DeliveryOutcome]
             /\ op' \in [Msgs -> OperationOutcome]
             /\ sched' \in [Msgs -> Schedule]
             /\ target' \in [Msgs -> Nat]
  <2>1. InsertPrompt(AskMsg(a), when) /\ obl' = [obl EXCEPT ![a] = "open"]
    BY <1>1 DEF CreateAsk
  <2>2. AskMsg(a) \in Msgs /\ Transport(AskMsg(a)) = "herdr_prompt"
    BY MsgFacts, AskIsPrompted
  <2>3. obl' \in [Asks -> ObligationState]
    BY <2>1 DEF TypeOK, ObligationState
  <2> QED
    BY <2>1, <2>2, <2>3, InsertPromptType
<1>2. ASSUME NEW m \in Msgs, NEW when \in Schedule, CreateTell(m, when)
      PROVE  /\ outcome' \in [Msgs -> DeliveryOutcome]
             /\ op' \in [Msgs -> OperationOutcome]
             /\ sched' \in [Msgs -> Schedule]
             /\ target' \in [Msgs -> Nat]
  BY <1>2, InsertPromptType DEF CreateTell
<1>3. ASSUME NEW m \in Msgs, NEW when \in Schedule, InsertPickup(m, when)
      PROVE  /\ outcome' \in [Msgs -> DeliveryOutcome]
             /\ sched' \in [Msgs -> Schedule]
             /\ UNCHANGED <<op, target, job>>
  BY <1>3 DEF InsertPickup, TypeOK, DeliveryOutcome
<1> QED
  BY <1>1, <1>2, <1>3

LEMMA TypeInit == Init => TypeOK
BY DEF Init, TypeOK, NoJobs, ObligationState, DeliveryOutcome, OperationOutcome, Schedule,
       JobState

LEMMA TypeNext == TypeOK /\ [Next]_vars => TypeOK'
<1> SUFFICES ASSUME TypeOK, [Next]_vars PROVE TypeOK'
  OBVIOUS
<1> USE DEF TypeOK, ObligationState, DeliveryOutcome, OperationOutcome, Schedule, JobState,
           store, world, work, memory
<1>1. ASSUME NEW a \in Asks, NEW when \in Schedules, RecordAsk(a, when) PROVE TypeOK'
  <2> DEFINE due == DueTime(AskMsg(a), when)
  <2>1. due \in Schedule
    BY DueTimeType
  <2>2. CreateAsk(a, due) /\ Park(AskMsg(a), "client", when)
    BY <1>1 DEF RecordAsk
  <2> HIDE DEF due
  <2>3. job' \in [Jobs -> JobState]
    BY <2>2, MsgFacts, ParkType DEF PromptOwner
  <2>4. /\ obl' \in [Asks -> ObligationState]
        /\ outcome' \in [Msgs -> DeliveryOutcome]
        /\ op' \in [Msgs -> OperationOutcome]
        /\ sched' \in [Msgs -> Schedule]
        /\ target' \in [Msgs -> Nat]
    BY <2>1, <2>2, RecordingType
  <2> QED
    BY <1>1, <2>3, <2>4 DEF RecordAsk
<1>2. ASSUME NEW t \in Tells, NEW when \in Schedules, RecordTell(t, when) PROVE TypeOK'
  <2> DEFINE due == DueTime(TellMsg(t), when)
  <2>1. due \in Schedule
    BY DueTimeType
  <2>2. CreateTell(TellMsg(t), due) /\ Park(TellMsg(t), "client", when)
    BY <1>2 DEF RecordTell
  <2> HIDE DEF due
  <2>3. job' \in [Jobs -> JobState]
    BY <2>2, MsgFacts, ParkType DEF PromptOwner
  <2>4. /\ outcome' \in [Msgs -> DeliveryOutcome]
        /\ op' \in [Msgs -> OperationOutcome]
        /\ sched' \in [Msgs -> Schedule]
        /\ target' \in [Msgs -> Nat]
    BY <2>1, <2>2, RecordingType, MsgFacts
  <2> QED
    BY <1>2, <2>3, <2>4 DEF RecordTell
<1>3. ASSUME NEW t \in Tells, NEW when \in Schedules, RecordSocketTell(t, when) PROVE TypeOK'
  BY <1>3, MsgFacts, BoundsAssumption DEF RecordSocketTell, InsertPickup
<1>4. ASSUME NEW r \in Replies, NEW when \in Schedules, RecordReply(r, when) PROVE TypeOK'
  <2> DEFINE m == ReplyMsg(r)
             due == DueTime(ReplyMsg(r), when)
  <2>1. obl' \in [Asks -> ObligationState]
    BY <1>4 DEF RecordReply, ReplyActivity, CreateReply
  <2>2. m \in Msgs /\ due \in Schedule
    BY MsgFacts, DueTimeType
  <2>3. CASE Transport(m) = "herdr_prompt"
    <3>1. InsertPrompt(m, due) /\ Park(m, "client", when)
      BY <1>4, <2>3 DEF RecordReply, CreateReplyPrompt
    <3> HIDE DEF m, due
    <3>2. job' \in [Jobs -> JobState]
      BY <2>2, <3>1, ParkType DEF PromptOwner
    <3>3. /\ outcome' \in [Msgs -> DeliveryOutcome]
          /\ op' \in [Msgs -> OperationOutcome]
          /\ sched' \in [Msgs -> Schedule]
          /\ target' \in [Msgs -> Nat]
      BY <2>2, <2>3, <3>1, InsertPromptType
    <3> QED
      BY <1>4, <2>1, <3>2, <3>3 DEF RecordReply
  <2>4. CASE Transport(m) # "herdr_prompt"
    BY <1>4, <2>1, <2>2, <2>4 DEF RecordReply, InsertPickup
  <2> QED
    BY <2>3, <2>4
<1>5. ASSUME NEW a \in Asks, NEW when \in Schedules, CancelAsk(a, when) PROVE TypeOK'
  BY <1>5, CancelAskType
<1>6. ASSUME NEW t \in Tells, CancelTell(t) PROVE TypeOK'
  BY <1>6, MsgFacts DEF CancelTell
<1>7. ASSUME NEW s \in SocketWaiters, NEW when \in Schedules, NEW owner, EndWaiter(s, when, owner)
      PROVE TypeOK'
  BY <1>7, EndWaiterType
<1>8. ASSUME NEW m \in Msgs, Ack(m) PROVE TypeOK'
  <2>1. obl' \in [Asks -> ObligationState] /\ resolver' \in [Asks -> SUBSET Replies]
    BY <1>8, FinalOf DEF Ack, Resolve
  <2>2. outcome' \in [Msgs -> DeliveryOutcome]
    BY <1>8 DEF Ack
  <2> QED
    BY <1>8, <2>1, <2>2 DEF Ack
<1>9. ASSUME NEW m \in Msgs, NEW o \in PromptOwner, OpenFails(m, o) PROVE TypeOK'
  <2>1. outcome' \in [Msgs -> DeliveryOutcome] /\ op' \in [Msgs -> OperationOutcome]
    BY <1>9 DEF OpenFails, Settle
  <2> QED
    BY <1>9, <2>1, JobFacts DEF OpenFails, DropJob
<1>10. ASSUME NEW m \in Msgs, NEW o \in PromptOwner, PromptOpened(m, o) PROVE TypeOK'
  <2>1. CASE IntentCommits(m)
    <3>1. attempted' \in SUBSET Msgs
      BY <1>10, <2>1 DEF PromptOpened
    <3>2. job' \in [Jobs -> JobState]
      <4>1. job' = [job EXCEPT ![<<m, o>>] = "committed"]
        BY <1>10, <2>1, Zenon DEF PromptOpened
      <4> QED
        BY <4>1, JobFacts
    <3>3. outcome' \in [Msgs -> DeliveryOutcome]
      BY <1>10, <2>1 DEF PromptOpened
    <3> QED
      BY <1>10, <2>1, <3>1, <3>2, <3>3 DEF PromptOpened
  <2>2. CASE ~IntentCommits(m)
    <3>2. job' \in [Jobs -> JobState]
      <4>1. job' = [job EXCEPT ![<<m, o>>] = "none"]
        BY <1>10, <2>2, Zenon DEF PromptOpened, DropJob
      <4> QED
        BY <4>1, JobFacts
    <3>3. UNCHANGED <<attempted, outcome>>
      BY <1>10, <2>2 DEF PromptOpened
    <3> QED
      BY <1>10, <3>2, <3>3 DEF PromptOpened
  <2> QED
    BY <2>1, <2>2
<1>11. ASSUME NEW m \in Msgs, NEW o \in PromptOwner,
              \E seen \in {"landed", "stalled"} : HerdrTakes(m, o, seen)
       PROVE TypeOK'
  BY <1>11, JobFacts DEF HerdrTakes
<1>12. ASSUME NEW m \in Msgs, NEW o \in PromptOwner, PromptAccepted(m, o) PROVE TypeOK'
  <2>1. CASE AcceptCommits(m)
    <3>1. obl' \in [Asks -> ObligationState] /\ resolver' \in [Asks -> SUBSET Replies]
      BY <1>12, <2>1, FinalOf DEF PromptAccepted, Resolve
    <3>2. job' \in [Jobs -> JobState]
      BY <1>12, JobFacts DEF PromptAccepted, DropJob
    <3>3. outcome' \in [Msgs -> DeliveryOutcome] /\ op' \in [Msgs -> OperationOutcome]
      BY <1>12, <2>1 DEF PromptAccepted
    <3> QED
      BY <1>12, <3>1, <3>2, <3>3 DEF PromptAccepted
  <2>2. CASE ~AcceptCommits(m)
    BY <1>12, <2>2, JobFacts DEF PromptAccepted, DropJob
  <2> QED
    BY <2>1, <2>2
<1>13. ASSUME NEW m \in Msgs, NEW o \in PromptOwner, PromptRejected(m, o) PROVE TypeOK'
  <2>1. outcome' \in [Msgs -> DeliveryOutcome] /\ op' \in [Msgs -> OperationOutcome]
    BY <1>13 DEF PromptRejected, Settle
  <2> QED
    BY <1>13, <2>1, JobFacts DEF PromptRejected, DropJob
<1>14. ASSUME NEW m \in Msgs, NEW o \in PromptOwner, PromptLost(m, o) PROVE TypeOK'
  <2>1. outcome' \in [Msgs -> DeliveryOutcome] /\ op' \in [Msgs -> OperationOutcome]
    BY <1>14 DEF PromptLost, Settle
  <2> QED
    BY <1>14, <2>1, JobFacts DEF PromptLost, DropJob
<1>15. ASSUME DueSweep PROVE TypeOK'
  <2>1. attempted' \in SUBSET Msgs
    BY <1>15 DEF DueSweep, DueDeliveries, IncarnationGone
  <2> QED
    BY <1>15, <2>1 DEF DueSweep, IncarnationGone
<1>16. ASSUME AbsenceSweep PROVE TypeOK'
  <2> DEFINE times == [m \in NoticeMsgs |-> "now"]
  <2>1. times \in [NoticeMsgs -> Schedule]
    OBVIOUS
  <2> DEFINE late(a) == (IF a \in {b \in Asks : obl[b] \in Unsettled} THEN Observe(a)
                                                                   ELSE absent[a]) = "expired"
             stranded == {a \in {b \in Asks : obl[b] \in Unsettled} \ preparing :
                             late(a) /\ ~FinalHolds(a)}
  <2>2. Close(stranded, {}, "orphaned", {}, ended, times, "sweep") /\ stranded \subseteq Asks
    BY <1>16 DEF AbsenceSweep
  <2>3. absent' \in [Asks -> {"no", "observed", "expired"}]
    BY <1>16 DEF AbsenceSweep, Observe
  <2> HIDE DEF times, stranded
  <2>4. /\ obl' \in [Asks -> ObligationState]
        /\ outcome' \in [Msgs -> DeliveryOutcome]
        /\ op' \in [Msgs -> OperationOutcome]
        /\ sched' \in [Msgs -> Schedule]
        /\ target' \in [Msgs -> Nat]
        /\ job' \in [Jobs -> JobState]
    BY <2>1, <2>2, CloseType
  <2> QED
    BY <1>16, <2>3, <2>4 DEF AbsenceSweep
<1>17. ASSUME LiveReconcile PROVE TypeOK'
  BY <1>17 DEF LiveReconcile, MarkUnknown
<1>18. ASSUME Restart PROVE TypeOK'
  <2>1. sched' \in [Msgs -> Schedule]
    BY <1>18, SpacedByType DEF Restart
  <2> QED
    BY <1>18, <2>1 DEF Restart, MarkUnknown
<1>19. ASSUME NEW m \in Msgs, DueTimeArrives(m) PROVE TypeOK'
  BY <1>19 DEF DueTimeArrives
<1>20. ASSUME NEW a \in Asks, GraceElapses(a) PROVE TypeOK'
  BY <1>20 DEF GraceElapses
<1>21. ASSUME NEW x \in HerdrAgents, LoseIncarnation(x) PROVE TypeOK'
  BY <1>21 DEF LoseIncarnation
<1>22. ASSUME NEW x \in HerdrAgents, BindIncarnation(x) PROVE TypeOK'
  BY <1>22 DEF BindIncarnation
<1>23. ASSUME Crash PROVE TypeOK'
  <2>1. job' \in [Jobs -> JobState]
    BY <1>23 DEF Crash, NoJobs
  <2> QED
    <3>1. up' \in BOOLEAN
      BY <1>23 DEF Crash
    <3>2. crashes' \in Nat
      BY <1>23 DEF Crash
    <3>3. UNCHANGED <<store, world, carried, landed>>
      BY <1>23 DEF Crash
    <3> QED
    BY <2>1, <3>1, <3>2, <3>3
<1>24. ASSUME NEW a \in Asks, BeginRenewPrepare(a) PROVE TypeOK'
  <2>1. CreateAsk(a, "now") /\ Park(AskMsg(a), "sweep", "now")
    BY <1>24 DEF BeginRenewPrepare
  <2>2. job' \in [Jobs -> JobState]
    BY <2>1, MsgFacts, ParkType DEF PromptOwner
  <2>3. /\ obl' \in [Asks -> ObligationState]
        /\ outcome' \in [Msgs -> DeliveryOutcome]
        /\ op' \in [Msgs -> OperationOutcome]
        /\ sched' \in [Msgs -> Schedule]
        /\ target' \in [Msgs -> Nat]
    BY <2>1, RecordingType
  <2> QED
    BY <1>24, <2>2, <2>3 DEF BeginRenewPrepare
<1>25. ASSUME NEW t \in Tells, FireTellSchedule(t) PROVE TypeOK'
  <2> DEFINE m == TellMsg(t)
  <2>1. m \in Msgs
    BY MsgFacts
  <2>2. \/ InsertPickup(m, "due")
        \/ CreateTell(m, "due") /\ UNCHANGED job
    BY <1>25 DEF FireTellSchedule
  <2> HIDE DEF m
  <2>3. /\ outcome' \in [Msgs -> DeliveryOutcome]
        /\ op' \in [Msgs -> OperationOutcome]
        /\ sched' \in [Msgs -> Schedule]
        /\ target' \in [Msgs -> Nat]
        /\ job' \in [Jobs -> JobState]
    BY <2>1, <2>2, RecordingType
  <2> QED
    BY <1>25, <2>3 DEF FireTellSchedule
<1>26. ASSUME NEW a \in Asks, CycleMovesOn(a) PROVE TypeOK'
  BY <1>26 DEF CycleMovesOn
<1>27. ASSUME NEW kind \in WorkKinds, NEW x \in HerdrAgents, BeginWork(kind, x) PROVE TypeOK'
  <2>1. open' \in SUBSET (WorkKinds \X HerdrAgents \X Nat)
    BY <1>27 DEF BeginWork
  <2> QED
    BY <1>27, <2>1 DEF BeginWork
<1>28. ASSUME NEW w \in open, NEW spaced \in BOOLEAN, EndWork(w, spaced) PROVE TypeOK'
  <2>1. sched' \in [Msgs -> Schedule]
    BY <1>28, SpacedByType DEF EndWork
  <2>2. open' \in SUBSET (WorkKinds \X HerdrAgents \X Nat)
    BY <1>28 DEF EndWork
  <2> QED
    BY <1>28, <2>1, <2>2 DEF EndWork
<1>29. ASSUME UNCHANGED vars PROVE TypeOK'
  BY <1>29 DEF vars
<1> QED
  BY <1>1, <1>2, <1>3, <1>4, <1>5, <1>6, <1>7, <1>8, <1>9, <1>10, <1>11, <1>12, <1>13, <1>14,
       <1>15, <1>16, <1>17, <1>18, <1>19, <1>20, <1>21, <1>22, <1>23, <1>24, <1>25,
       <1>26, <1>27, <1>28, <1>29 DEF Next, Client, Prompt, Daemon, Environment, ClientAsk,
       ClientTell, ClientReply

\* Every reachable state of the store, the daemon and the world is well typed.
THEOREM TypeCorrect == Spec => []TypeOK
BY TypeInit, TypeNext, PTL DEF Spec
============================================================================
