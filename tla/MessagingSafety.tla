-------------------------- MODULE MessagingSafety --------------------------
(***************************************************************************)
(* PromptInv is an inductive invariant of Messaging, and with it the       *)
(* safety properties of the prompt write boundary hold for every set of    *)
(* agents, asks, replies and tells, every key assignment and every bound.  *)
(*                                                                         *)
(* Most actions change the rows and parked prompts of one message, so the  *)
(* argument is made message by message: SameMsg says that a step leaves a  *)
(* message alone, and MsgFrame that such a message keeps its invariant.    *)
(***************************************************************************)
EXTENDS MessagingProofs

SameMsg(n) ==
    /\ op'[n] = op[n]
    /\ outcome'[n] = outcome[n]
    /\ sched'[n] = sched[n]
    /\ landed'[n] = landed[n]
    /\ n \in attempted' <=> n \in attempted
    /\ n \in carried' <=> n \in carried
    /\ \A o \in PromptOwner : job'[<<n, o>>] = job[<<n, o>>]

LEMMA MsgFrame ==
    ASSUME NEW n \in Msgs, MsgAgrees(n), SameMsg(n)
    PROVE  MsgAgrees(n)'
<1>1. RowsAgree(n)'
  BY DEF MsgAgrees, SameMsg, RowsAgree
<1>2. WritesAgree(n)'
  BY DEF MsgAgrees, SameMsg, WritesAgree
<1>3. JobsAgree(n)'
  BY DEF MsgAgrees, SameMsg, JobsAgree
<1> QED
  BY <1>1, <1>2, <1>3 DEF MsgAgrees

\* A message that was never recorded has no operation, no write and no prompt.
LEMMA Unrecorded ==
    ASSUME NEW m \in Msgs, TypeOK, MsgAgrees(m), outcome[m] = "none"
    PROVE  /\ op[m] = "none"
           /\ m \notin attempted
           /\ landed[m] = 0
           /\ \A o \in PromptOwner : job[<<m, o>>] = "none"
<1>1. op[m] \in OperationOutcome
  BY DEF TypeOK
<1>2. op[m] = "none"
  BY <1>1 DEF MsgAgrees, RowsAgree, OperationOutcome
<1> QED
  BY <1>2 DEF MsgAgrees, WritesAgree, JobsAgree
----------------------------------------------------------------------------
(* Each action keeps MsgAgrees. *)

\* What recording message m does to the parked prompts: it may park m for owner o.
ParkedFor(m, o) ==
    \A n \in Msgs, p \in PromptOwner :
        IF n = m /\ p = o THEN job'[<<n, p>>] \in {"none", "opening"}
                         ELSE job'[<<n, p>>] = job[<<n, p>>]

LEMMA ParkParks ==
    ASSUME TypeOK, NEW m \in Msgs, NEW o \in PromptOwner, NEW when, Park(m, o, when)
    PROVE  ParkedFor(m, o)
BY JobFacts DEF Park, ParkedFor, TypeOK

LEMMA NotParked ==
    ASSUME TypeOK, NEW m \in Msgs, NEW o \in PromptOwner, MsgAgrees(m), outcome[m] = "none",
           job' = job
    PROVE  ParkedFor(m, o)
BY Unrecorded DEF ParkedFor

\* Recording a prompt.
LEMMA InsertPromptKeeps ==
    ASSUME TypeOK, NEW m \in ClientMsgs, NEW when \in Schedule, NEW o \in {"client", "sweep"},
           \A n \in Msgs : MsgAgrees(n),
           Transport(m) = "herdr_prompt", outcome[m] = "none",
           InsertPrompt(m, when), ParkedFor(m, o),
           UNCHANGED <<attempted, carried, landed>>
    PROVE  \A n \in Msgs : MsgAgrees(n)'
<1>1. ASSUME NEW n \in Msgs, n # m PROVE MsgAgrees(n)'
  <2>1. SameMsg(n)
    BY <1>1 DEF SameMsg, InsertPrompt, ParkedFor, TypeOK
  <2> QED
    BY <2>1, MsgFrame
<1>2. MsgAgrees(m)'
  <2>1. m \in Msgs /\ m \notin NoticeMsgs
    BY MsgFacts
  <2>2. /\ op[m] = "none"
        /\ m \notin attempted
        /\ landed[m] = 0
        /\ \A p \in PromptOwner : job[<<m, p>>] = "none"
    BY <2>1, Unrecorded
  <2>3. /\ op'[m] = "pending"
        /\ outcome'[m] = IF when = "now" THEN "pending" ELSE "queued"
        /\ sched'[m] = when
        /\ landed'[m] = 0
        /\ m \notin attempted'
    BY <2>1, <2>2 DEF InsertPrompt, TypeOK
  <2>4. \A p \in PromptOwner : /\ job'[<<m, p>>] \in {"none", "opening"}
                               /\ p # o => job'[<<m, p>>] = "none"
    BY <2>1, <2>2 DEF ParkedFor
  <2>5. RowsAgree(m)'
    BY <2>1, <2>3 DEF RowsAgree
  <2>6. WritesAgree(m)'
    BY <2>3 DEF WritesAgree
  <2>7. JobsAgree(m)'
    BY <2>3, <2>4 DEF JobsAgree, InFlight, PromptOwner
  <2> QED
    BY <2>5, <2>6, <2>7 DEF MsgAgrees
<1> QED
  BY <1>1, <1>2

\* Recording a row to pick up, and acknowledging it.
LEMMA PickupKeeps ==
    ASSUME TypeOK, NEW m \in Msgs, NEW new \in {"queued", "accepted"},
           \A n \in Msgs : MsgAgrees(n),
           Transport(m) # "herdr_prompt",
           outcome' = [outcome EXCEPT ![m] = new],
           \A n \in Msgs \ {m} : sched'[n] = sched[n],
           UNCHANGED <<op, job, attempted, carried, landed>>
    PROVE  \A n \in Msgs : MsgAgrees(n)'
<1>1. ASSUME NEW n \in Msgs, n # m PROVE MsgAgrees(n)'
  BY <1>1, MsgFrame DEF SameMsg, TypeOK
<1>2. MsgAgrees(m)'
  <2>1. op[m] = "none" /\ outcome'[m] = new
    BY DEF MsgAgrees, RowsAgree, TypeOK
  <2>2. m \notin attempted /\ landed[m] = 0 /\ \A o \in PromptOwner : job[<<m, o>>] = "none"
    BY <2>1 DEF MsgAgrees, WritesAgree, JobsAgree
  <2>3. RowsAgree(m)'
    BY <2>1 DEF RowsAgree
  <2>4. WritesAgree(m)'
    BY <2>1, <2>2 DEF WritesAgree
  <2>5. JobsAgree(m)'
    BY <2>1, <2>2 DEF JobsAgree, InFlight
  <2> QED
    BY <2>3, <2>4, <2>5 DEF MsgAgrees
<1> QED
  BY <1>1, <1>2

\* Settling a message whose prompt has left the table.  `settled' is the
\* outcome the row may take: one that says "not taken" needs landed = 0.
LEMMA SettleKeeps ==
    ASSUME TypeOK, NEW m \in Msgs, NEW o \in PromptOwner,
           \A n \in Msgs : MsgAgrees(n),
           NEW opOutcome, NEW deliveryOutcome,
           <<opOutcome, deliveryOutcome>> \in {<<"failed", "target_unavailable">>,
                                               <<"failed", "rejected">>,
                                               <<"unknown", "unknown">>},
           opOutcome = "failed" => landed[m] = 0,
           job[<<m, o>>] \in InFlight \/ (sched[m] = "now" /\ job[<<m, o>>] = "opening"),
           DropJob(<<m, o>>), Settle(m, opOutcome, deliveryOutcome),
           UNCHANGED <<attempted, sched, carried, landed>>
    PROVE  \A n \in Msgs : MsgAgrees(n)'
<1> /\ opOutcome \in {"failed", "unknown"}
    /\ opOutcome = "failed" => deliveryOutcome \in {"rejected", "target_unavailable"}
    /\ opOutcome = "unknown" => deliveryOutcome = "unknown"
  OBVIOUS
<1>1. ASSUME NEW n \in Msgs, n # m PROVE MsgAgrees(n)'
  <2>1. SameMsg(n)
    BY <1>1, JobFacts DEF SameMsg, Settle, DropJob, TypeOK
  <2> QED
    BY <2>1, MsgFrame
<1>2. MsgAgrees(m)'
  <2>1. /\ job'[<<m, o>>] = "none"
        /\ \A p \in PromptOwner \ {o} : job'[<<m, p>>] = job[<<m, p>>]
    BY JobFacts DEF DropJob, TypeOK
  <2>2. CASE op[m] # "pending"
    <3>1. op' = op /\ outcome' = outcome
      BY <2>2 DEF Settle
    <3>2. RowsAgree(m)' /\ WritesAgree(m)'
      BY <3>1 DEF MsgAgrees, RowsAgree, WritesAgree
    <3>3. JobsAgree(m)'
      BY <2>1, <3>1 DEF MsgAgrees, JobsAgree, InFlight
    <3> QED
      BY <3>2, <3>3 DEF MsgAgrees
  <2>3. CASE op[m] = "pending"
    <3>1. outcome[m] \in {"pending", "submitted"}
      BY <2>3 DEF MsgAgrees, RowsAgree, JobsAgree
    <3>2. op'[m] = opOutcome /\ outcome'[m] = deliveryOutcome
      BY <2>3, <3>1 DEF Settle, TypeOK
    <3>3. RowsAgree(m)'
      BY <2>3, <3>2 DEF MsgAgrees, RowsAgree
    <3>4. WritesAgree(m)'
      BY <2>3, <3>2 DEF MsgAgrees, WritesAgree
    <3>5. \A p \in PromptOwner \ {o} : /\ job[<<m, p>>] \notin InFlight
                                       /\ sched[m] = "now" => job[<<m, p>>] # "opening"
      BY <2>3 DEF MsgAgrees, JobsAgree
    <3>6. JobsAgree(m)'
      BY <2>1, <3>2, <3>5 DEF MsgAgrees, JobsAgree, InFlight
    <3> QED
      BY <3>3, <3>4, <3>6 DEF MsgAgrees
  <2> QED
    BY <2>2, <2>3
<1> QED
  BY <1>1, <1>2

\* Dropping a parked prompt changes nothing else.
LEMMA DropKeeps ==
    ASSUME TypeOK, NEW m \in Msgs, NEW o \in PromptOwner,
           \A n \in Msgs : MsgAgrees(n),
           DropJob(<<m, o>>),
           UNCHANGED <<op, outcome, attempted, sched, carried, landed>>
    PROVE  \A n \in Msgs : MsgAgrees(n)'
<1>1. \A n \in Msgs, p \in PromptOwner :
          job'[<<n, p>>] = IF n = m /\ p = o THEN "none" ELSE job[<<n, p>>]
  BY JobFacts DEF DropJob, TypeOK
<1>2. ASSUME NEW n \in Msgs PROVE MsgAgrees(n)'
  <2>1. RowsAgree(n)' /\ WritesAgree(n)'
    BY DEF MsgAgrees, RowsAgree, WritesAgree
  <2>2. JobsAgree(n)'
    BY <1>1 DEF MsgAgrees, JobsAgree, InFlight
  <2> QED
    BY <2>1, <2>2 DEF MsgAgrees
<1> QED
  BY <1>2

LEMMA OpenFailsKeeps ==
    ASSUME TypeOK, NEW m \in Msgs, NEW o \in PromptOwner,
           \A n \in Msgs : MsgAgrees(n), OpenFails(m, o)
    PROVE  \A n \in Msgs : MsgAgrees(n)'
<1>1. CASE o = "notice"
  <2>1. sched[m] = "now" /\ landed[m] = 0
    BY <1>1 DEF OpenFails, MsgAgrees, JobsAgree, WritesAgree
  <2> QED
    BY <1>1, <2>1, SettleKeeps DEF OpenFails
<1>2. CASE o # "notice"
  BY <1>2, DropKeeps DEF OpenFails
<1> QED
  BY <1>1, <1>2

\* Committing the intent: nothing of the message was in flight before.
LEMMA PromptOpenedKeeps ==
    ASSUME TypeOK, NEW m \in Msgs, NEW o \in PromptOwner,
           \A n \in Msgs : MsgAgrees(n), PromptOpened(m, o)
    PROVE  \A n \in Msgs : MsgAgrees(n)'
<1>1. CASE ~IntentCommits(m)
  BY <1>1, DropKeeps DEF PromptOpened
<1>2. CASE IntentCommits(m)
  <2>1. /\ job' = [job EXCEPT ![<<m, o>>] = "committed"]
        /\ attempted' = attempted \cup {m}
        /\ outcome' = [outcome EXCEPT ![m] =
               IF @ \in {"pending", "queued"} THEN "submitted" ELSE @]
        /\ UNCHANGED <<op, sched, carried, landed>>
        /\ job[<<m, o>>] = "opening"
    BY <1>2 DEF PromptOpened
  <2>2. ASSUME NEW n \in Msgs, n # m PROVE MsgAgrees(n)'
    <3>1. SameMsg(n)
      BY <2>1, <2>2, JobFacts DEF SameMsg, TypeOK
    <3> QED
      BY <3>1, MsgFrame
  <2>3. MsgAgrees(m)'
    <3>1. op[m] = "pending" /\ outcome[m] \in {"pending", "queued"}
      BY <1>2, <2>1 DEF IntentCommits, MsgAgrees, JobsAgree
    <3>2. landed[m] = 0 /\ outcome'[m] = "submitted" /\ op'[m] = "pending"
      BY <2>1, <3>1 DEF MsgAgrees, WritesAgree, TypeOK
    <3>3. /\ job'[<<m, o>>] = "committed"
          /\ \A p \in PromptOwner \ {o} :
                /\ job'[<<m, p>>] = job[<<m, p>>]
                /\ job[<<m, p>>] \notin InFlight
                /\ sched[m] = "now" => job[<<m, p>>] = "none"
      BY <2>1, <3>1, JobFacts DEF MsgAgrees, JobsAgree, TypeOK
    <3>4. RowsAgree(m)'
      BY <2>1, <3>2 DEF MsgAgrees, RowsAgree
    <3>5. WritesAgree(m)'
      BY <2>1, <3>2 DEF WritesAgree
    <3>6. JobsAgree(m)'
      BY <2>1, <3>1, <3>2, <3>3 DEF MsgAgrees, JobsAgree, InFlight
    <3> QED
      BY <3>4, <3>5, <3>6 DEF MsgAgrees
  <2> QED
    BY <2>2, <2>3
<1> QED
  BY <1>1, <1>2

LEMMA HerdrTakesKeeps ==
    ASSUME TypeOK, NEW m \in Msgs, NEW o \in PromptOwner, NEW seen \in {"landed", "stalled"},
           \A n \in Msgs : MsgAgrees(n), HerdrTakes(m, o, seen)
    PROVE  \A n \in Msgs : MsgAgrees(n)'
<1>1. /\ job' = [job EXCEPT ![<<m, o>>] = seen]
      /\ landed' = [landed EXCEPT ![m] = @ + 1]
      /\ job[<<m, o>>] = "committed"
      /\ UNCHANGED <<op, outcome, attempted, sched, carried>>
  BY DEF HerdrTakes, store
<1>2. ASSUME NEW n \in Msgs, n # m PROVE MsgAgrees(n)'
  <2>1. SameMsg(n)
    BY <1>1, <1>2, JobFacts DEF SameMsg, TypeOK
  <2> QED
    BY <2>1, MsgFrame
<1>3. MsgAgrees(m)'
  <2>1. /\ landed'[m] = 1
        /\ outcome[m] \in {"submitted", "unknown"}
        /\ op[m] # "none"
        /\ op[m] # "succeeded"
    BY <1>1 DEF MsgAgrees, RowsAgree, JobsAgree, InFlight, TypeOK
  <2>2. /\ job'[<<m, o>>] = seen
        /\ \A p \in PromptOwner \ {o} :
              job'[<<m, p>>] = job[<<m, p>>] /\ job[<<m, p>>] \notin InFlight
    BY <1>1, JobFacts DEF MsgAgrees, JobsAgree, InFlight, TypeOK
  <2>3. RowsAgree(m)'
    BY <1>1 DEF MsgAgrees, RowsAgree
  <2>4. WritesAgree(m)'
    BY <1>1, <2>1 DEF MsgAgrees, WritesAgree
  <2>5. JobsAgree(m)'
    BY <1>1, <2>1, <2>2 DEF MsgAgrees, JobsAgree, InFlight
  <2> QED
    BY <2>3, <2>4, <2>5 DEF MsgAgrees
<1> QED
  BY <1>2, <1>3

LEMMA PromptAcceptedKeeps ==
    ASSUME TypeOK, NEW m \in Msgs, NEW o \in PromptOwner,
           \A n \in Msgs : MsgAgrees(n), PromptAccepted(m, o)
    PROVE  \A n \in Msgs : MsgAgrees(n)'
<1>1. CASE ~AcceptCommits(m)
  BY <1>1, DropKeeps DEF PromptAccepted
<1>2. CASE AcceptCommits(m)
  <2>1. /\ job' = [job EXCEPT ![<<m, o>>] = "none"]
        /\ op' = [op EXCEPT ![m] = "succeeded"]
        /\ outcome' = [outcome EXCEPT ![m] = IF @ = "submitted" THEN "accepted" ELSE @]
        /\ UNCHANGED <<attempted, sched, carried, landed>>
        /\ job[<<m, o>>] \in {"landed", "stalled"}
        /\ op[m] = "pending"
    BY <1>2 DEF PromptAccepted, DropJob, AcceptCommits
  <2>2. ASSUME NEW n \in Msgs, n # m PROVE MsgAgrees(n)'
    <3>1. SameMsg(n)
      BY <2>1, <2>2, JobFacts DEF SameMsg, TypeOK
    <3> QED
      BY <3>1, MsgFrame
  <2>3. MsgAgrees(m)'
    <3>1. outcome[m] = "submitted" /\ landed[m] = 1
      BY <2>1 DEF MsgAgrees, RowsAgree, JobsAgree, InFlight
    <3>2. outcome'[m] = "accepted" /\ op'[m] = "succeeded"
      BY <2>1, <3>1 DEF TypeOK
    <3>3. /\ job'[<<m, o>>] = "none"
          /\ \A p \in PromptOwner \ {o} :
                /\ job'[<<m, p>>] = job[<<m, p>>]
                /\ job[<<m, p>>] \notin InFlight
                /\ sched[m] = "now" => job[<<m, p>>] # "opening"
      BY <2>1, <3>1, JobFacts DEF MsgAgrees, JobsAgree, InFlight, TypeOK
    <3>4. RowsAgree(m)'
      BY <2>1, <3>2 DEF MsgAgrees, RowsAgree
    <3>5. WritesAgree(m)'
      BY <2>1, <3>1, <3>2 DEF WritesAgree
    <3>6. JobsAgree(m)'
      BY <2>1, <3>2, <3>3 DEF MsgAgrees, JobsAgree, InFlight
    <3> QED
      BY <3>4, <3>5, <3>6 DEF MsgAgrees
  <2> QED
    BY <2>2, <2>3
<1> QED
  BY <1>1, <1>2

LEMMA CancelTellKeeps ==
    ASSUME TypeOK, NEW t \in Tells, \A n \in Msgs : MsgAgrees(n), CancelTell(t)
    PROVE  \A n \in Msgs : MsgAgrees(n)'
<1> DEFINE m == TellMsg(t)
<1>1. /\ m \in Msgs
      /\ m \notin NoticeMsgs
      /\ outcome[m] = "queued"
      /\ m \notin attempted
      /\ op[m] = "pending"
      /\ outcome' = [outcome EXCEPT ![m] = "superseded"]
      /\ op' = [op EXCEPT ![m] = "superseded"]
      /\ UNCHANGED <<attempted, sched, job, carried, landed>>
  BY MsgFacts DEF CancelTell, Unsubmitted, memory
<1> HIDE DEF m
<1>2. ASSUME NEW n \in Msgs, n # m PROVE MsgAgrees(n)'
  BY <1>1, <1>2, MsgFrame DEF SameMsg, TypeOK
<1>3. MsgAgrees(m)'
  <2>1. outcome'[m] = "superseded" /\ op'[m] = "superseded"
    BY <1>1 DEF TypeOK
  <2>2. RowsAgree(m)'
    BY <1>1, <2>1 DEF MsgAgrees, RowsAgree
  <2>3. WritesAgree(m)'
    BY <1>1, <2>1 DEF MsgAgrees, WritesAgree
  <2>4. JobsAgree(m)'
    BY <1>1, <2>1 DEF MsgAgrees, RowsAgree, JobsAgree, InFlight
  <2> QED
    BY <2>2, <2>3, <2>4 DEF MsgAgrees
<1> QED
  BY <1>2, <1>3

\* Moving due times: a clear's settle gap, and the clock.
LEMMA SchedKeeps ==
    ASSUME \A n \in Msgs : MsgAgrees(n),
           \A n \in Msgs : sched'[n] = "now" <=> sched[n] = "now",
           UNCHANGED <<outcome, op, attempted, job, carried, landed>>
    PROVE  \A n \in Msgs : MsgAgrees(n)'
<1>1. ASSUME NEW n \in Msgs PROVE MsgAgrees(n)'
  <2>1. RowsAgree(n)'
    BY DEF MsgAgrees, RowsAgree
  <2>2. WritesAgree(n)'
    BY DEF MsgAgrees, WritesAgree
  <2>3. JobsAgree(n)'
    BY DEF MsgAgrees, JobsAgree
  <2> QED
    BY <2>1, <2>2, <2>3 DEF MsgAgrees
<1> QED
  BY <1>1

LEMMA SpacedByMoves ==
    ASSUME NEW clears
    PROVE  \A n \in Msgs : SpacedBy(clears)[n] = "now" <=> sched[n] = "now"
BY DEF SpacedBy

LEMMA DueTimeKeeps ==
    ASSUME TypeOK, NEW m \in Msgs, \A n \in Msgs : MsgAgrees(n), DueTimeArrives(m)
    PROVE  \A n \in Msgs : MsgAgrees(n)'
<1>1. /\ \A n \in Msgs : sched'[n] = "now" <=> sched[n] = "now"
      /\ UNCHANGED <<outcome, op, attempted, job, carried, landed>>
  BY DEF DueTimeArrives, memory, TypeOK
<1> QED
  BY <1>1, SchedKeeps

LEMMA WorkKeeps ==
    ASSUME TypeOK, \A n \in Msgs : MsgAgrees(n),
           \/ \E w \in open, spaced \in BOOLEAN : EndWork(w, spaced)
           \/ \E kind \in WorkKinds, x \in HerdrAgents : BeginWork(kind, x)
           \/ \E a \in Asks : CycleMovesOn(a)
    PROVE  \A n \in Msgs : MsgAgrees(n)'
<1>1. /\ \A n \in Msgs : sched'[n] = "now" <=> sched[n] = "now"
      /\ UNCHANGED <<outcome, op, attempted, job, carried, landed>>
  BY SpacedByMoves DEF EndWork, BeginWork, CycleMovesOn, memory, store
<1> QED
  BY <1>1, SchedKeeps

\* The sweep only touches rows that are still queued, which have no prompt in
\* flight; it supersedes asks, fails rows whose incarnation is gone, and parks
\* the rest.
LEMMA DueSweepKeeps ==
    ASSUME TypeOK, \A n \in Msgs : MsgAgrees(n), DueSweep
    PROVE  \A n \in Msgs : MsgAgrees(n)'
<1> DEFINE fired == {m \in DueDeliveries : ~Gated(m)}
           gone == {m \in fired : ReadyTarget(m) # target[m]}
<1>1. /\ \A m \in Msgs : /\ outcome'[m] = IF m \in SettledQueuedAsks THEN "superseded"
                                          ELSE IF m \in gone THEN "target_unavailable"
                                          ELSE outcome[m]
                         /\ op'[m] = IF m \in gone THEN "failed" ELSE op[m]
                         /\ m \in attempted' <=> m \in attempted \/ m \in gone
      /\ \A m \in Msgs, o \in PromptOwner :
            job'[<<m, o>>] = IF m \in fired \ gone /\ o = "sweep"
                             THEN "opening" ELSE job[<<m, o>>]
      /\ UNCHANGED <<sched, carried, landed>>
  BY JobFacts DEF DueSweep, IncarnationGone
<1>2. \A m \in SettledQueuedAsks : m \in Msgs /\ m \notin NoticeMsgs /\ outcome[m] = "queued"
                                   /\ Transport(m) = "herdr_prompt"
  BY MsgFacts, AskIsPrompted DEF SettledQueuedAsks, AskMsg, NoticeMsgs
<1>3. \A m \in fired : /\ m \notin SettledQueuedAsks
                       /\ outcome[m] = "queued"
                       /\ op[m] = "pending"
                       /\ sched[m] = "due"
                       /\ job[<<m, "sweep">>] = "none"
  BY DEF DueDeliveries
<1>4. \A m \in gone : m \in fired
  OBVIOUS
<1> HIDE DEF fired, gone
<1>5. ASSUME NEW n \in Msgs PROVE MsgAgrees(n)'
  <2>1. CASE n \in SettledQueuedAsks
    <3>1. /\ n \notin NoticeMsgs /\ outcome[n] = "queued" /\ outcome'[n] = "superseded"
          /\ op'[n] = op[n] /\ n \notin attempted' /\ n \notin attempted /\ landed[n] = 0
          /\ \A o \in PromptOwner : job'[<<n, o>>] = job[<<n, o>>]
          /\ UNCHANGED <<sched, carried, landed>>
      BY <1>1, <1>2, <1>3, <1>4, <2>1 DEF MsgAgrees, WritesAgree
    <3>2. op[n] = "pending" /\ sched[n] # "now"
      BY <1>2, <2>1, <3>1 DEF MsgAgrees, RowsAgree, TypeOK, OperationOutcome
    <3>3. RowsAgree(n)'
      BY <3>1, <3>2 DEF MsgAgrees, RowsAgree
    <3>4. WritesAgree(n)'
      BY <3>1, <3>2 DEF WritesAgree
    <3>5. JobsAgree(n)'
      BY <3>1, <3>2 DEF MsgAgrees, JobsAgree, InFlight
    <3> QED
      BY <3>3, <3>4, <3>5 DEF MsgAgrees
  <2>2. CASE n \in gone
    <3>1. /\ outcome[n] = "queued" /\ outcome'[n] = "target_unavailable"
          /\ op[n] = "pending" /\ op'[n] = "failed" /\ landed[n] = 0
          /\ sched[n] = "due"
          /\ \A o \in PromptOwner : job'[<<n, o>>] = job[<<n, o>>]
          /\ UNCHANGED <<sched, carried, landed>>
      BY <1>1, <1>3, <1>4, <2>2 DEF MsgAgrees, WritesAgree
    <3>2. RowsAgree(n)'
      BY <3>1 DEF MsgAgrees, RowsAgree
    <3>3. WritesAgree(n)'
      BY <3>1 DEF WritesAgree
    <3>4. JobsAgree(n)'
      BY <3>1 DEF MsgAgrees, JobsAgree, InFlight
    <3> QED
      BY <3>2, <3>3, <3>4 DEF MsgAgrees
  <2>3. CASE n \notin SettledQueuedAsks /\ n \notin gone
    <3>1. /\ outcome'[n] = outcome[n] /\ op'[n] = op[n]
          /\ n \in attempted' <=> n \in attempted
          /\ UNCHANGED <<sched, carried, landed>>
      BY <1>1, <2>3
    <3>2. /\ n \in fired => op[n] = "pending" /\ sched[n] = "due"
          /\ \A o \in PromptOwner :
                job'[<<n, o>>] = IF n \in fired /\ o = "sweep" THEN "opening" ELSE job[<<n, o>>]
      BY <1>1, <1>3, <2>3
    <3>3. RowsAgree(n)'
      BY <3>1 DEF MsgAgrees, RowsAgree
    <3>4. WritesAgree(n)'
      BY <3>1 DEF MsgAgrees, WritesAgree
    <3>5. JobsAgree(n)'
      BY <3>1, <3>2 DEF MsgAgrees, JobsAgree, InFlight
    <3> QED
      BY <3>3, <3>4, <3>5 DEF MsgAgrees
  <2> QED
    BY <2>1, <2>2, <2>3
<1> QED
  BY <1>5

\* Recovery, at startup with no prompt parked and in the live daemon below the
\* floor, turns rows that may have been written into unknown.
LEMMA RestartKeeps ==
    ASSUME TypeOK, \A n \in Msgs : MsgAgrees(n), job = NoJobs, Restart
    PROVE  \A n \in Msgs : MsgAgrees(n)'
<1> DEFINE ms == {m \in Msgs : Interrupted(m) \/ MissedWake(m)}
<1>1. /\ \A m \in Msgs : /\ op'[m] = IF m \in ms THEN "unknown" ELSE op[m]
                         /\ outcome'[m] =
                              IF m \in ms /\ outcome[m] \in {"pending", "queued", "submitted"}
                              THEN "unknown" ELSE outcome[m]
                         /\ sched'[m] = "now" <=> sched[m] = "now"
      /\ UNCHANGED <<attempted, job, landed>>
  BY SpacedByMoves DEF Restart, MarkUnknown
<1>2. \A m \in Msgs, o \in PromptOwner : job[<<m, o>>] = "none"
  BY JobFacts DEF NoJobs
<1>3. \A m \in ms : outcome[m] \in {"pending", "queued", "submitted"} /\ op[m] = "pending"
  BY DEF Interrupted, MissedWake, MsgAgrees, RowsAgree, WritesAgree
<1> HIDE DEF ms
<1>4. ASSUME NEW n \in Msgs PROVE MsgAgrees(n)'
  <2>1. RowsAgree(n)'
    BY <1>1, <1>3 DEF MsgAgrees, RowsAgree
  <2>2. WritesAgree(n)'
    BY <1>1, <1>3 DEF MsgAgrees, WritesAgree
  <2>3. JobsAgree(n)'
    BY <1>1, <1>2 DEF JobsAgree, InFlight
  <2> QED
    BY <2>1, <2>2, <2>3 DEF MsgAgrees
<1> QED
  BY <1>4

LEMMA LiveReconcileKeeps ==
    ASSUME TypeOK, \A n \in Msgs : MsgAgrees(n), LiveReconcile
    PROVE  \A n \in Msgs : MsgAgrees(n)'
<1> DEFINE ms == {m \in Msgs : Interrupted(m) /\ m \in carried}
<1>1. /\ \A m \in Msgs : /\ op'[m] = IF m \in ms THEN "unknown" ELSE op[m]
                         /\ outcome'[m] =
                              IF m \in ms /\ outcome[m] \in {"pending", "queued", "submitted"}
                              THEN "unknown" ELSE outcome[m]
      /\ UNCHANGED <<attempted, sched, job, carried, landed>>
  BY DEF LiveReconcile, MarkUnknown, memory
<1>2. \A m \in ms : outcome[m] = "submitted" /\ op[m] = "pending" /\ m \in carried
  BY DEF Interrupted, MsgAgrees, RowsAgree, WritesAgree
<1> HIDE DEF ms
<1>3. ASSUME NEW n \in Msgs PROVE MsgAgrees(n)'
  <2>1. RowsAgree(n)'
    BY <1>1, <1>2 DEF MsgAgrees, RowsAgree
  <2>2. WritesAgree(n)'
    BY <1>1, <1>2 DEF MsgAgrees, WritesAgree
  <2>3. JobsAgree(n)'
    BY <1>1, <1>2 DEF MsgAgrees, JobsAgree, InFlight
  <2> QED
    BY <2>1, <2>2, <2>3 DEF MsgAgrees
<1> QED
  BY <1>3

LEMMA CrashKeeps ==
    ASSUME TypeOK, \A n \in Msgs : MsgAgrees(n), Crash
    PROVE  \A n \in Msgs : MsgAgrees(n)'
<1>1. /\ \A m \in Msgs, o \in PromptOwner : job'[<<m, o>>] = "none"
      /\ UNCHANGED <<op, outcome, attempted, sched, carried, landed>>
  BY JobFacts DEF Crash, NoJobs, store
<1>2. ASSUME NEW n \in Msgs PROVE MsgAgrees(n)'
  <2>1. RowsAgree(n)' /\ WritesAgree(n)'
    BY <1>1 DEF MsgAgrees, RowsAgree, WritesAgree
  <2>2. JobsAgree(n)'
    BY <1>1 DEF JobsAgree, InFlight
  <2> QED
    BY <2>1, <2>2 DEF MsgAgrees
<1> QED
  BY <1>2

\* Closing asks.  The notices of an unsettled ask are not recorded yet, a
\* withdrawn ask is queued and unwritten, and a row that can no longer be
\* picked up has no operation.
LEMMA CloseKeeps ==
    ASSUME TypeOK, \A n \in Msgs : MsgAgrees(n), NoticesAgree,
           NEW asks \in SUBSET Asks, NEW withdrawn \in SUBSET Asks,
           NEW state, NEW unreachable, NEW e, NEW when \in [NoticeMsgs -> Schedule],
           NEW owner \in {"notice", "sweep"},
           \A a \in asks : obl[a] \in Unsettled,
           \A a \in withdrawn : Unsubmitted(AskMsg(a)),
           \A m \in unreachable : Transport(m) = "socket_inbox" /\ outcome[m] = "queued",
           Close(asks, withdrawn, state, unreachable, e, when, owner),
           UNCHANGED <<attempted, carried, landed>>
    PROVE  \A n \in Msgs : MsgAgrees(n)'
<1> DEFINE notices == NoticesOf(asks)
           prompts == {m \in notices : IsPrompt(m)}
           pulled == {"ask"} \X withdrawn
<1>1. /\ \A m \in Msgs :
            /\ outcome'[m] = IF m \in notices THEN NoticeOutcome(m, e, when[m])
                             ELSE IF m \in pulled THEN "superseded"
                             ELSE IF m \in unreachable THEN "target_unavailable"
                             ELSE outcome[m]
            /\ op'[m] = IF m \in prompts THEN "pending"
                        ELSE IF m \in pulled THEN "superseded"
                        ELSE op[m]
            /\ sched'[m] = IF m \in prompts THEN when[m] ELSE sched[m]
      /\ \A m \in Msgs, o \in PromptOwner :
            job'[<<m, o>>] = IF m \in prompts /\ o = owner /\ when[m] = "now"
                             THEN "opening" ELSE job[<<m, o>>]
  BY JobFacts DEF Close, CancellationPrompts
<1>2. \A m \in notices : m \in Msgs /\ m \in NoticeMsgs /\ outcome[m] = "none"
  <2>1. ASSUME NEW a \in asks, NEW side \in {"waiting", "owing"}
        PROVE  <<side, a>> \in NoticeMsgs /\ outcome[<<side, a>>] = "none"
    BY DEF NoticeMsgs, NoticesAgree, Unsettled
  <2>2. ASSUME NEW m \in notices PROVE m \in NoticeMsgs /\ outcome[m] = "none"
    <3>1. PICK side \in {"waiting", "owing"}, a \in asks : m = <<side, a>>
      BY <2>2 DEF NoticesOf
    <3> QED
      BY <2>1, <3>1
  <2> QED
    BY <2>2, MsgFacts
<1>3. \A m \in pulled : /\ m \in Msgs
                        /\ m \notin NoticeMsgs
                        /\ Unsubmitted(m)
                        /\ Transport(m) = "herdr_prompt"
  BY AskIsPrompted, MsgFacts DEF AskMsg, NoticeMsgs
<1>4. prompts \subseteq notices /\ \A m \in notices : m \in prompts <=> IsPrompt(m)
  OBVIOUS
<1>5. \A m \in pulled \cup unreachable : m \notin notices
  BY <1>2, <1>3 DEF Unsubmitted
<1>6. \A m \in unreachable : m \notin pulled
  BY <1>3
<1> HIDE DEF notices, prompts, pulled
<1>7. ASSUME NEW n \in Msgs, n \in notices PROVE MsgAgrees(n)'
  <2>1. op[n] = "none" /\ n \notin attempted /\ landed[n] = 0
        /\ \A o \in PromptOwner : job[<<n, o>>] = "none"
    BY <1>2, <1>7, Unrecorded
  <2>2. outcome'[n] = NoticeOutcome(n, e, when[n]) /\ n \in NoticeMsgs /\ n \notin pulled
    BY <1>1, <1>2, <1>3, <1>7
  <2>3. CASE n \in prompts
    <3>1. /\ op'[n] = "pending" /\ sched'[n] = when[n] /\ when[n] \in Schedule
          /\ outcome'[n] = IF when[n] = "now" THEN "pending" ELSE "queued"
          /\ \A o \in PromptOwner :
                job'[<<n, o>>] = IF o = owner /\ when[n] = "now" THEN "opening" ELSE "none"
          /\ Transport(n) = "herdr_prompt"
      BY <1>1, <1>4, <1>7, <2>1, <2>2, <2>3, NoticeOutcomeType DEF IsPrompt, CancelIncarnation
    <3>2. RowsAgree(n)'
      BY <2>2, <3>1 DEF RowsAgree
    <3>3. WritesAgree(n)'
      BY <2>1, <3>1 DEF WritesAgree
    <3>4. JobsAgree(n)'
      BY <2>1, <2>2, <3>1 DEF JobsAgree, InFlight
    <3> QED
      BY <3>2, <3>3, <3>4 DEF MsgAgrees
  <2>4. CASE n \notin prompts
    <3>1. /\ op'[n] = "none"
          /\ outcome'[n] \in {"recorded", "queued"}
          /\ Transport(n) = "herdr_prompt" => outcome'[n] = "recorded"
          /\ \A o \in PromptOwner : job'[<<n, o>>] = "none"
      BY <1>1, <1>4, <1>7, <2>1, <2>2, <2>4, NoticeOutcomeType
    <3>2. RowsAgree(n)'
      BY <3>1 DEF RowsAgree
    <3>3. WritesAgree(n)'
      BY <2>1, <3>1 DEF WritesAgree
    <3>4. JobsAgree(n)'
      BY <3>1 DEF JobsAgree, InFlight
    <3> QED
      BY <3>2, <3>3, <3>4 DEF MsgAgrees
  <2> QED
    BY <2>3, <2>4
<1>8. ASSUME NEW n \in Msgs, n \in pulled PROVE MsgAgrees(n)'
  <2>1. /\ outcome[n] = "queued" /\ n \notin attempted /\ n \notin NoticeMsgs
        /\ Transport(n) = "herdr_prompt"
        /\ op[n] # "none" /\ sched[n] # "now" /\ landed[n] = 0
    BY <1>3, <1>8 DEF Unsubmitted, MsgAgrees, RowsAgree, WritesAgree
  <2>2. /\ outcome'[n] = "superseded" /\ op'[n] = "superseded" /\ sched'[n] = sched[n]
        /\ \A o \in PromptOwner : job'[<<n, o>>] = job[<<n, o>>]
    BY <1>1, <1>4, <1>5, <1>8
  <2>3. RowsAgree(n)'
    BY <2>1, <2>2 DEF RowsAgree
  <2>4. WritesAgree(n)'
    BY <2>1, <2>2 DEF WritesAgree
  <2>5. JobsAgree(n)'
    BY <2>1, <2>2 DEF MsgAgrees, JobsAgree, InFlight
  <2> QED
    BY <2>3, <2>4, <2>5 DEF MsgAgrees
<1>9. ASSUME NEW n \in Msgs, n \in unreachable PROVE MsgAgrees(n)'
  <2>1. op[n] = "none" /\ n \notin attempted /\ landed[n] = 0
        /\ Transport(n) = "socket_inbox"
        /\ \A o \in PromptOwner : job[<<n, o>>] = "none"
    BY <1>9 DEF MsgAgrees, RowsAgree, WritesAgree, JobsAgree
  <2>2. /\ outcome'[n] = "target_unavailable" /\ op'[n] = "none"
        /\ \A o \in PromptOwner : job'[<<n, o>>] = "none"
    BY <1>1, <1>4, <1>5, <1>6, <1>9, <2>1
  <2>3. RowsAgree(n)'
    BY <2>1, <2>2 DEF RowsAgree
  <2>4. WritesAgree(n)'
    BY <2>1, <2>2 DEF WritesAgree
  <2>5. JobsAgree(n)'
    BY <2>2 DEF JobsAgree, InFlight
  <2> QED
    BY <2>3, <2>4, <2>5 DEF MsgAgrees
<1>10. ASSUME NEW n \in Msgs, n \notin notices, n \notin pulled, n \notin unreachable
       PROVE  MsgAgrees(n)'
  <2>1. SameMsg(n)
    BY <1>1, <1>4, <1>10 DEF SameMsg
  <2> QED
    BY <2>1, MsgFrame
<1> QED
  BY <1>7, <1>8, <1>9, <1>10
----------------------------------------------------------------------------
(* What a step may not do to the rows of a message it does not create.     *)

RowStays(n) ==
    /\ outcome[n] \in SettledOutcome => outcome'[n] = outcome[n]
    /\ outcome[n] = "none" <=> outcome'[n] = "none"
    /\ outcome'[n] = "queued" => outcome[n] = "queued"
    /\ op[n] \in {"none", "failed"} => op'[n] = op[n]

\* Steps that neither record a message nor close an ask.
Quiet ==
    \/ \E t \in Tells : CancelTell(t)
    \/ \E m \in Msgs : Ack(m)
    \/ \E m \in Msgs, o \in PromptOwner : Prompt(m, o)
    \/ \E a \in Asks : CycleMovesOn(a)
    \/ DueSweep
    \/ LiveReconcile
    \/ Restart
    \/ Environment

LEMMA SettleStays ==
    ASSUME TypeOK, NEW m, NEW opOutcome,
           NEW deliveryOutcome \in DeliveryOutcome \ {"none", "queued"},
           Settle(m, opOutcome, deliveryOutcome)
    PROVE  \A n \in Msgs : RowStays(n)
BY DEF TypeOK, Settle, RowStays, SettledOutcome

LEMMA MarkUnknownStays ==
    ASSUME TypeOK, NEW ms, \A m \in ms : op[m] = "pending", MarkUnknown(ms)
    PROVE  \A n \in Msgs : RowStays(n)
BY DEF TypeOK, MarkUnknown, RowStays, SettledOutcome

LEMMA QuietRowsStay ==
    ASSUME TypeOK, Quiet PROVE \A n \in Msgs : RowStays(n)
<1>0. UNCHANGED <<op, outcome>> => \A n \in Msgs : RowStays(n)
  BY DEF RowStays
<1>1. ASSUME NEW t \in Tells, CancelTell(t) PROVE \A n \in Msgs : RowStays(n)
  BY <1>1 DEF CancelTell, Unsubmitted, TypeOK, RowStays, SettledOutcome
<1>2. ASSUME NEW m \in Msgs, Ack(m) PROVE \A n \in Msgs : RowStays(n)
  BY <1>2 DEF Ack, TypeOK, RowStays, SettledOutcome
<1>3. ASSUME NEW m \in Msgs, NEW o \in PromptOwner, OpenFails(m, o)
      PROVE  \A n \in Msgs : RowStays(n)
  BY <1>0, <1>3, SettleStays DEF OpenFails, DeliveryOutcome
<1>4. ASSUME NEW m \in Msgs, NEW o \in PromptOwner, PromptOpened(m, o)
      PROVE  \A n \in Msgs : RowStays(n)
  <2>1. CASE IntentCommits(m)
    BY <1>4, <2>1 DEF PromptOpened, TypeOK, RowStays, SettledOutcome
  <2>2. CASE ~IntentCommits(m)
    BY <1>0, <1>4, <2>2 DEF PromptOpened
  <2> QED
    BY <2>1, <2>2
<1>5. ASSUME NEW m \in Msgs, NEW o \in PromptOwner, NEW seen, HerdrTakes(m, o, seen)
      PROVE  \A n \in Msgs : RowStays(n)
  BY <1>0, <1>5 DEF HerdrTakes, store
<1>6. ASSUME NEW m \in Msgs, NEW o \in PromptOwner, PromptAccepted(m, o)
      PROVE  \A n \in Msgs : RowStays(n)
  <2>1. CASE AcceptCommits(m)
    BY <1>6, <2>1 DEF PromptAccepted, AcceptCommits, TypeOK, RowStays, SettledOutcome
  <2>2. CASE ~AcceptCommits(m)
    BY <1>0, <1>6, <2>2 DEF PromptAccepted
  <2> QED
    BY <2>1, <2>2
<1>7. ASSUME NEW m \in Msgs, NEW o \in PromptOwner, PromptRejected(m, o) \/ PromptLost(m, o)
      PROVE  \A n \in Msgs : RowStays(n)
  BY <1>7, SettleStays DEF PromptRejected, PromptLost, DeliveryOutcome
<1>8. ASSUME DueSweep PROVE \A n \in Msgs : RowStays(n)
  BY <1>8 DEF DueSweep, SettledQueuedAsks, DueDeliveries, RowStays, SettledOutcome, IncarnationGone
<1>9. ASSUME LiveReconcile \/ Restart PROVE \A n \in Msgs : RowStays(n)
  BY <1>9, MarkUnknownStays DEF LiveReconcile, Restart, Interrupted, MissedWake
<1>10. ASSUME Environment \/ \E a \in Asks : CycleMovesOn(a)
       PROVE  \A n \in Msgs : RowStays(n)
  BY <1>0, <1>10 DEF Environment, DueTimeArrives, GraceElapses, LoseIncarnation,
                     BindIncarnation, BeginWork, EndWork, Crash, store, CycleMovesOn
<1> QED
  BY <1>1, <1>2, <1>3, <1>4, <1>5, <1>6, <1>7, <1>8, <1>9, <1>10 DEF Quiet, Prompt

\* One key keeps at most one operation that did not fail.
LEMMA KeysKeep ==
    ASSUME TypeOK, PromptInv, NEW m \in ClientMsgs,
           \A n \in ClientMsgs \ {m} : RowStays(n),
           RowStays(m) \/ KeyFree(m) \/ op'[m] = "none"
    PROVE  KeysAgree'
<1>1. KeyFree(m) => \A n \in ClientMsgs \ {m} : Key[n] = Key[m] => op[n] \in {"none", "failed"}
  BY MsgFacts, Unrecorded DEF KeyFree, PromptInv, PickupKeyUnused
<1> QED
  BY <1>1 DEF PromptInv, KeysAgree, RowStays

\* Obligations and the rows of their asks and notices keep in step when no
\* notice is created.
LEMMA NoticesKeep ==
    ASSUME TypeOK, PromptInv,
           \A n \in NoticeMsgs : RowStays(n),
           \A a \in Asks :
              \/ /\ RowStays(AskMsg(a))
                 /\ \/ obl'[a] = obl[a]
                    \/ obl[a] \in Unsettled /\ obl'[a] \in {"in_progress", "resolved"}
                    \/ obl[a] \in Unsettled /\ obl'[a] = "cancelled" /\ a \in PrepareAsks
              \/ /\ outcome[AskMsg(a)] = "none"
                 /\ outcome'[AskMsg(a)] # "none"
                 /\ obl'[a] = "open"
    PROVE  NoticesAgree' /\ AsksAgree'
<1>1. AsksAgree'
  BY DEF PromptInv, AsksAgree, RowStays, Unsettled
<1>2. ASSUME NEW a \in Asks, NEW side \in {"waiting", "owing"}
      PROVE  IF obl'[a] \in {"cancelled", "orphaned"}
             THEN \/ outcome'[<<side, a>>] # "none"
                  \/ outcome'[AskMsg(a)] = "superseded"
                  \/ a \in PrepareAsks
             ELSE outcome'[<<side, a>>] = "none"
  <2>1. RowStays(<<side, a>>)
    BY DEF NoticeMsgs
  <2>2. CASE RowStays(AskMsg(a)) /\ obl'[a] = obl[a]
    BY <2>1, <2>2 DEF PromptInv, NoticesAgree, RowStays, SettledOutcome
  <2>3. CASE obl[a] \in Unsettled /\ obl'[a] \in {"in_progress", "resolved"}
    BY <2>1, <2>3 DEF PromptInv, NoticesAgree, RowStays, Unsettled
  <2>4. CASE outcome[AskMsg(a)] = "none" /\ obl'[a] = "open"
    BY <2>1, <2>4 DEF PromptInv, NoticesAgree, AsksAgree, RowStays
  <2>5. CASE obl'[a] = "cancelled" /\ a \in PrepareAsks
    BY <2>5
  <2> QED
    BY <2>2, <2>3, <2>4, <2>5
<1> QED
  BY <1>1, <1>2 DEF NoticesAgree

\* Of the waiters that end with it, every ask is closed and every queued row given up.
Drains(asks, withdrawn, unreachable, e) ==
    /\ ended' = e
    /\ \A a \in Asks : Waiting[a] \in e \ ended /\ obl[a] \in Unsettled
                      => a \in asks \cup withdrawn
    /\ \A m \in Msgs :
          /\ Recipient(m) \in e \ ended
          /\ Transport(m) = "socket_inbox" /\ outcome[m] = "queued"
          => m \in unreachable

\* A step of the live daemon that closes unsettled asks.
ClosesUnsettled(asks, withdrawn, state, unreachable, e, when, owner) ==
    /\ asks \in SUBSET Asks
    /\ withdrawn \in SUBSET Asks
    /\ state \in {"cancelled", "orphaned"}
    /\ when \in [NoticeMsgs -> Schedule]
    /\ owner \in {"notice", "sweep"}
    /\ \A a \in asks \cup withdrawn : obl[a] \in Unsettled
    /\ \A a \in withdrawn : Unsubmitted(AskMsg(a))
    /\ \A m \in unreachable : Transport(m) = "socket_inbox" /\ outcome[m] = "queued"
    /\ Close(asks, withdrawn, state, unreachable, e, when, owner)
    /\ UNCHANGED <<resolver, attempted, carried, landed>>
    /\ up /\ up'
    /\ Drains(asks, withdrawn, unreachable, e)

\* Closing asks creates their notices and keeps every other row that is settled.
LEMMA CloseRest ==
    ASSUME TypeOK, PromptInv, NEW asks, NEW withdrawn, NEW state, NEW unreachable, NEW e,
           NEW when, NEW owner,
           ClosesUnsettled(asks, withdrawn, state, unreachable, e, when, owner)
    PROVE  /\ \A n \in Msgs : n \notin NoticesOf(asks) => RowStays(n)
           /\ \A n \in NoticesOf(asks) : outcome[n] = "none"
           /\ KeysAgree' /\ NoticesAgree' /\ AsksAgree'
<1> USE DEF ClosesUnsettled
<1> DEFINE pulled == {"ask"} \X withdrawn
<1>1. \A n \in pulled : /\ n \in Msgs
                        /\ outcome[n] = "queued"
                        /\ op[n] \notin {"none", "failed"}
  <2>1. \A n \in pulled : n \in Msgs /\ Unsubmitted(n) /\ Transport(n) = "herdr_prompt"
    BY AskIsPrompted, MsgFacts DEF AskMsg
  <2> QED
    BY <2>1 DEF Unsubmitted, PromptInv, MsgAgrees, RowsAgree
<1>2. ASSUME NEW n \in Msgs, n \notin NoticesOf(asks)
      PROVE  /\ outcome'[n] = IF n \in pulled THEN "superseded"
                              ELSE IF n \in unreachable THEN "target_unavailable"
                              ELSE outcome[n]
             /\ op'[n] = IF n \in pulled THEN "superseded" ELSE op[n]
  BY <1>2 DEF Close, CancellationPrompts
<1>3. ASSUME NEW n \in Msgs, n \notin NoticesOf(asks) PROVE RowStays(n)
  <2> HIDE DEF pulled
  <2> QED
    BY <1>1, <1>2, <1>3 DEF RowStays, SettledOutcome
<1>4. ASSUME NEW n \in ClientMsgs PROVE RowStays(n)
  <2>1. n \in Msgs /\ n \notin NoticesOf(asks)
    BY MsgFacts DEF NoticesOf, NoticeMsgs
  <2> QED
    BY <1>3, <2>1
<1>5. \A n \in NoticesOf(asks) : outcome[n] = "none"
  <2>1. ASSUME NEW n \in NoticesOf(asks) PROVE outcome[n] = "none"
    <3>1. PICK side \in {"waiting", "owing"}, a \in asks : n = <<side, a>>
      BY DEF NoticesOf
    <3> QED
      BY <3>1 DEF PromptInv, NoticesAgree, Unsettled
  <2> QED
    BY <2>1
<1>6. KeysAgree'
  BY <1>4 DEF PromptInv, KeysAgree, RowStays
<1>7. \A a \in Asks : obl'[a] = IF a \in asks \cup withdrawn THEN state ELSE obl[a]
  BY DEF Close, CancellationPrompts
<1>8. AsksAgree'
  BY <1>4, <1>7, MsgFacts DEF PromptInv, AsksAgree, RowStays, Unsettled
<1>9. ASSUME NEW a \in Asks, NEW side \in {"waiting", "owing"}
      PROVE  IF obl'[a] \in {"cancelled", "orphaned"}
             THEN \/ outcome'[<<side, a>>] # "none"
                  \/ outcome'[AskMsg(a)] = "superseded"
                  \/ a \in PrepareAsks
             ELSE outcome'[<<side, a>>] = "none"
  <2>1. <<side, a>> \in Msgs /\ (<<side, a>> \in NoticesOf(asks) <=> a \in asks)
    BY DEF NoticesOf, NoticeMsgs, Msgs
  <2>2. CASE a \in asks
    <3>1. outcome'[<<side, a>>] = NoticeOutcome(<<side, a>>, e, when[<<side, a>>])
      BY <2>1, <2>2 DEF Close, CancellationPrompts
    <3> QED
      BY <1>7, <2>1, <2>2, <3>1, NoticeOutcomeType
  <2>3. CASE a \notin asks /\ a \in withdrawn
    <3>1. AskMsg(a) \in pulled /\ AskMsg(a) \in Msgs /\ AskMsg(a) \notin NoticesOf(asks)
      BY <2>3, MsgFacts DEF AskMsg, NoticesOf
    <3>2. outcome'[AskMsg(a)] = "superseded"
      BY <1>2, <3>1
    <3> QED
      BY <1>7, <2>3, <3>2
  <2>4. CASE a \notin asks /\ a \notin withdrawn
    BY <1>3, <1>4, <1>7, <2>1, <2>4, MsgFacts
       DEF PromptInv, NoticesAgree, RowStays, SettledOutcome
  <2> QED
    BY <2>2, <2>3, <2>4
<1> QED
  BY <1>3, <1>5, <1>6, <1>8, <1>9 DEF NoticesAgree

\* The three ways to close asks.
Closing ==
    \/ \E a \in Asks, when \in Schedules \ {"due"} : CancelAsk(a, when)
    \/ \E s \in SocketWaiters, when \in Schedules \ {"due"}, owner \in {"notice", "sweep"} :
           EndWaiter(s, when, owner)
    \/ AbsenceSweep

\* Each of them is a Close of unsettled asks.
LEMMA ClosingIsClose ==
    ASSUME Closing
    PROVE  \E asks, withdrawn, state, unreachable, e, when, owner :
             ClosesUnsettled(asks, withdrawn, state, unreachable, e, when, owner)
<1>1. \A when \in Schedules : NoticeTimes(when) \in [NoticeMsgs -> Schedule]
  BY NoticeTimesType
<1>2. CASE \E a \in Asks, when \in Schedules \ {"due"} : CancelAsk(a, when)
  <2>1. PICK a \in Asks, when \in Schedules \ {"due"} : CancelAsk(a, when)
    BY <1>2
  <2> DEFINE times == NoticeTimes(when)
  <2>2. /\ obl[a] \in Unsettled
        /\ times \in [NoticeMsgs -> Schedule]
        /\ UNCHANGED <<resolver, attempted, carried, landed>> /\ up /\ up'
        /\ ended' = ended
    BY <1>1, <2>1 DEF CancelAsk, world
  <2>5. \/ Unsubmitted(AskMsg(a)) /\ Close({}, {a}, "cancelled", {}, ended, times, "notice")
        \/ ~Unsubmitted(AskMsg(a)) /\ Close({a}, {}, "cancelled", {}, ended, times, "notice")
    BY <2>1 DEF CancelAsk
  <2> HIDE DEF times
  <2>3. CASE Unsubmitted(AskMsg(a))
    <3>1. Close({}, {a}, "cancelled", {}, ended, times, "notice")
      BY <2>3, <2>5
    <3>2. ClosesUnsettled({}, {a}, "cancelled", {}, ended, times, "notice")
      BY <2>2, <2>3, <3>1 DEF ClosesUnsettled, Drains
    <3> QED
      BY <3>2, Zenon
  <2>4. CASE ~Unsubmitted(AskMsg(a))
    <3>1. Close({a}, {}, "cancelled", {}, ended, times, "notice")
      BY <2>4, <2>5
    <3>2. ClosesUnsettled({a}, {}, "cancelled", {}, ended, times, "notice")
      BY <2>2, <3>1 DEF ClosesUnsettled, Drains
    <3> QED
      BY <3>2, Zenon
  <2> QED
    BY <2>3, <2>4
<1>3. CASE \E s \in SocketWaiters, when \in Schedules \ {"due"}, owner \in {"notice", "sweep"} :
               EndWaiter(s, when, owner)
  <2>1. PICK s \in SocketWaiters, when \in Schedules \ {"due"}, owner \in {"notice", "sweep"} :
               EndWaiter(s, when, owner)
    BY <1>3
  <2> DEFINE waits == {a \in Asks : Waiting[a] = s /\ obl[a] \in Unsettled}
             withdrawn == {a \in waits : Unsubmitted(AskMsg(a))}
             rest == waits \ withdrawn
             inbox == {m \in Msgs : /\ Transport(m) = "socket_inbox"
                                    /\ Recipient(m) = s
                                    /\ outcome[m] = "queued"}
             e == ended \cup {s}
             times == NoticeTimes(when)
  <2>2. /\ Close(rest, withdrawn, "cancelled", inbox, e, times, owner)
        /\ UNCHANGED <<resolver, attempted, carried, landed>> /\ up /\ up'
        /\ ended' = e
    BY <2>1 DEF EndWaiter
  <2>3. /\ rest \in SUBSET Asks
        /\ withdrawn \in SUBSET Asks
        /\ \A a \in rest \cup withdrawn : obl[a] \in Unsettled
        /\ \A a \in withdrawn : Unsubmitted(AskMsg(a))
        /\ \A m \in inbox : Transport(m) = "socket_inbox" /\ outcome[m] = "queued"
        /\ times \in [NoticeMsgs -> Schedule]
        /\ \A a \in Asks : Waiting[a] \in e \ ended /\ obl[a] \in Unsettled
                          => a \in rest \cup withdrawn
        /\ \A m \in Msgs :
              /\ Recipient(m) \in e \ ended
              /\ Transport(m) = "socket_inbox" /\ outcome[m] = "queued"
              => m \in inbox
    BY <1>1
  <2> HIDE DEF waits, withdrawn, rest, inbox, e, times
  <2>4. ClosesUnsettled(rest, withdrawn, "cancelled", inbox, e, times, owner)
    BY <2>2, <2>3 DEF ClosesUnsettled, Drains
  <2> QED
    BY <2>4, Zenon
<1>4. CASE AbsenceSweep
  <2> DEFINE unsettled == {a \in Asks : obl[a] \in Unsettled}
             observed == [a \in Asks |-> IF a \in unsettled THEN Observe(a) ELSE absent[a]]
             stranded == {a \in unsettled \ preparing : observed[a] = "expired" /\ ~FinalHolds(a)}
             times == [m \in NoticeMsgs |-> "now"]
  <2>1. /\ Close(stranded, {}, "orphaned", {}, ended, times, "sweep")
        /\ UNCHANGED <<resolver, attempted, carried, landed>> /\ up /\ up'
        /\ ended' = ended
    BY <1>4 DEF AbsenceSweep, world
  <2>2. stranded \in SUBSET Asks /\ \A a \in stranded : obl[a] \in Unsettled
    OBVIOUS
  <2>3. times \in [NoticeMsgs -> Schedule]
    BY DEF Schedule
  <2> HIDE DEF stranded, times
  <2>4. ClosesUnsettled(stranded, {}, "orphaned", {}, ended, times, "sweep")
    BY <2>1, <2>2, <2>3 DEF ClosesUnsettled, Drains
  <2> QED
    BY <2>4, Zenon
<1> QED
  BY <1>2, <1>3, <1>4 DEF Closing
----------------------------------------------------------------------------
(* The inductive invariant. *)

LEMMA PromptInvInit == Init => PromptInv
<1> SUFFICES ASSUME Init PROVE PromptInv
  OBVIOUS
<1>1. \A m \in Msgs, o \in PromptOwner : job[<<m, o>>] = "none"
  BY JobFacts DEF Init, NoJobs
<1>2. ASSUME NEW m \in Msgs PROVE MsgAgrees(m)
  BY <1>1 DEF Init, MsgAgrees, RowsAgree, WritesAgree, JobsAgree, InFlight
<1>3. KeysAgree
  BY MsgFacts DEF Init, KeysAgree
<1>4. NoticesAgree /\ AsksAgree
  BY MsgFacts DEF Init, NoticesAgree, AsksAgree, NoticeMsgs, Msgs
<1>5. up
  BY DEF Init
<1> QED
  BY <1>2, <1>3, <1>4, <1>5 DEF PromptInv

\* Recording message m: its rows, and what happens to the obligations.
InsertsRow(m, o) ==
    \/ /\ Transport(m) = "herdr_prompt"
       /\ KeyFree(m)
       /\ \E when \in Schedule : InsertPrompt(m, when)
       /\ ParkedFor(m, o)
    \/ /\ Transport(m) # "herdr_prompt"
       /\ \E w \in Schedule : InsertPickup(m, w)

OpensOrProgresses(m) ==
    \A a \in Asks : IF m = AskMsg(a) THEN obl'[a] = "open"
                    ELSE \/ obl'[a] = obl[a]
                         \/ obl[a] \in Unsettled /\ obl'[a] = "in_progress"

LEMMA RecordKeeps ==
    ASSUME TypeOK, PromptInv, NEW m \in ClientMsgs, NEW o \in {"client", "sweep"},
           outcome[m] = "none",
           InsertsRow(m, o), OpensOrProgresses(m),
           up', UNCHANGED <<attempted, carried, landed>>
    PROVE  PromptInv' /\ \A n \in Msgs : outcome[n] # "none" => RowStays(n)
<1> USE DEF InsertsRow, OpensOrProgresses
<1>1. m \in Msgs /\ m \notin NoticeMsgs
  BY MsgFacts
<1>2. \A n \in Msgs : MsgAgrees(n)
  BY DEF PromptInv
<1>3. \A n \in Msgs : MsgAgrees(n)'
  <2>1. CASE Transport(m) = "herdr_prompt"
    BY <1>2, <2>1, InsertPromptKeeps
  <2>2. CASE Transport(m) # "herdr_prompt"
    <3>1. /\ outcome' = [outcome EXCEPT ![m] = "queued"]
          /\ \A n \in Msgs \ {m} : sched'[n] = sched[n]
          /\ UNCHANGED <<op, job>>
      BY <2>2 DEF InsertPickup, TypeOK
    <3> QED
      BY <1>1, <1>2, <2>2, <3>1, PickupKeeps
  <2> QED
    BY <2>1, <2>2
<1>4. /\ outcome'[m] # "none"
      /\ \A n \in Msgs \ {m} : outcome'[n] = outcome[n] /\ op'[n] = op[n]
      /\ Transport(m) # "herdr_prompt" => op'[m] = op[m]
  BY <1>1 DEF InsertPrompt, InsertPickup, TypeOK
<1>5. \A n \in Msgs \ {m} : RowStays(n)
  BY <1>4 DEF RowStays
<1>6. KeysAgree'
  <2>1. op[m] = "none"
    BY <1>1, <1>2, Unrecorded
  <2>2. KeyFree(m) \/ op'[m] = "none"
    BY <1>4, <2>1
  <2> QED
    BY <1>5, <2>2, MsgFacts, KeysKeep
<1>7. NoticesAgree' /\ AsksAgree'
  <2>1. \A n \in NoticeMsgs : RowStays(n)
    BY <1>1, <1>5, MsgFacts
  <2>2. \A a \in Asks : AskMsg(a) # m => RowStays(AskMsg(a))
    BY <1>5, MsgFacts
  <2> QED
    BY <1>4, <2>1, <2>2, NoticesKeep
<1> QED
  BY <1>3, <1>5, <1>6, <1>7 DEF PromptInv

\* Steps that do not record or close keep the messages in order.
LEMMA QuietMsgs ==
    ASSUME TypeOK, PromptInv, Quiet PROVE \A n \in Msgs : MsgAgrees(n)'
<1>0. \A n \in Msgs : MsgAgrees(n)
  BY DEF PromptInv
<1>1. ASSUME NEW t \in Tells, CancelTell(t) PROVE \A n \in Msgs : MsgAgrees(n)'
  BY <1>0, <1>1, CancelTellKeeps
<1>2. ASSUME NEW m \in Msgs, Ack(m) PROVE \A n \in Msgs : MsgAgrees(n)'
  <2>1. /\ Transport(m) # "herdr_prompt"
        /\ outcome' = [outcome EXCEPT ![m] = "accepted"]
        /\ UNCHANGED <<op, sched, job, attempted, carried, landed>>
    BY <1>2 DEF Ack, memory
  <2> QED
    BY <1>0, <2>1, PickupKeeps
<1>3. ASSUME NEW m \in Msgs, NEW o \in PromptOwner, OpenFails(m, o)
      PROVE  \A n \in Msgs : MsgAgrees(n)'
  BY <1>0, <1>3, OpenFailsKeeps
<1>4. ASSUME NEW m \in Msgs, NEW o \in PromptOwner, PromptOpened(m, o)
      PROVE  \A n \in Msgs : MsgAgrees(n)'
  BY <1>0, <1>4, PromptOpenedKeeps
<1>5. ASSUME NEW m \in Msgs, NEW o \in PromptOwner, NEW seen \in {"landed", "stalled"},
             HerdrTakes(m, o, seen)
      PROVE  \A n \in Msgs : MsgAgrees(n)'
  BY <1>0, <1>5, HerdrTakesKeeps
<1>6. ASSUME NEW m \in Msgs, NEW o \in PromptOwner, PromptAccepted(m, o)
      PROVE  \A n \in Msgs : MsgAgrees(n)'
  BY <1>0, <1>6, PromptAcceptedKeeps
<1>7. ASSUME NEW m \in Msgs, NEW o \in PromptOwner, PromptRejected(m, o)
      PROVE  \A n \in Msgs : MsgAgrees(n)'
  <2>1. landed[m] = 0
    BY <1>0, <1>7 DEF PromptRejected, MsgAgrees, JobsAgree
  <2> QED
    BY <1>0, <1>7, <2>1, SettleKeeps DEF PromptRejected, InFlight
<1>8. ASSUME NEW m \in Msgs, NEW o \in PromptOwner, PromptLost(m, o)
      PROVE  \A n \in Msgs : MsgAgrees(n)'
  BY <1>0, <1>8, SettleKeeps DEF PromptLost
<1>9. ASSUME DueSweep PROVE \A n \in Msgs : MsgAgrees(n)'
  BY <1>0, <1>9, DueSweepKeeps
<1>10. ASSUME LiveReconcile PROVE \A n \in Msgs : MsgAgrees(n)'
  BY <1>0, <1>10, LiveReconcileKeeps
<1>11. ASSUME Restart PROVE \A n \in Msgs : MsgAgrees(n)'
  <2>1. job = NoJobs
    BY <1>11 DEF Restart, PromptInv
  <2> QED
    BY <1>0, <1>11, <2>1, RestartKeeps
<1>12. ASSUME NEW m \in Msgs, DueTimeArrives(m) PROVE \A n \in Msgs : MsgAgrees(n)'
  BY <1>0, <1>12, DueTimeKeeps
<1>13. ASSUME Crash PROVE \A n \in Msgs : MsgAgrees(n)'
  BY <1>0, <1>13, CrashKeeps
<1>14. ASSUME \/ \E a \in Asks : GraceElapses(a)
              \/ \E x \in HerdrAgents : LoseIncarnation(x) \/ BindIncarnation(x)
       PROVE  \A n \in Msgs : MsgAgrees(n)'
  <2>1. UNCHANGED <<op, outcome, sched, landed, attempted, carried, job>>
    BY <1>14 DEF GraceElapses, LoseIncarnation, BindIncarnation, store, memory
  <2> QED
    BY <1>0, <2>1, MsgFrame DEF SameMsg
<1>15. ASSUME \/ \E w \in open, spaced \in BOOLEAN : EndWork(w, spaced)
              \/ \E kind \in WorkKinds, x \in HerdrAgents : BeginWork(kind, x)
              \/ \E a \in Asks : CycleMovesOn(a)
       PROVE  \A n \in Msgs : MsgAgrees(n)'
  BY <1>0, <1>15, WorkKeeps
<1> QED
  BY <1>1, <1>2, <1>3, <1>4, <1>5, <1>6, <1>7, <1>8, <1>9, <1>10, <1>11, <1>12, <1>13, <1>14, <1>15
     DEF Quiet, Prompt, Environment

\* They settle an obligation only by resolving one that waits, or by ending that of a
\* renew cycle, and leave no prompt parked in a dead daemon.
LEMMA QuietRest ==
    ASSUME TypeOK, PromptInv, Quiet
    PROVE  /\ \A a \in Asks : \/ obl'[a] = obl[a]
                              \/ obl[a] \in Unsettled /\ obl'[a] = "resolved"
                              \/ /\ obl[a] \in Unsettled
                                 /\ obl'[a] = "cancelled" /\ a \in PrepareAsks
           /\ ~up' => job' = NoJobs
<1>1. ASSUME NEW m \in Msgs, Resolve(m)
      PROVE  \A a \in Asks : \/ obl'[a] = obl[a]
                             \/ obl[a] \in Unsettled /\ obl'[a] = "resolved"
  BY <1>1 DEF Resolve, TypeOK
<1>2. ASSUME NEW m \in Msgs, Ack(m)
      PROVE  /\ \A a \in Asks : \/ obl'[a] = obl[a]
                                \/ obl[a] \in Unsettled /\ obl'[a] = "resolved"
             /\ up'
  BY <1>1, <1>2 DEF Ack, memory
<1>3. ASSUME NEW m \in Msgs, NEW o \in PromptOwner, PromptAccepted(m, o)
      PROVE  /\ \A a \in Asks : \/ obl'[a] = obl[a]
                                \/ obl[a] \in Unsettled /\ obl'[a] = "resolved"
             /\ up'
  BY <1>1, <1>3 DEF PromptAccepted
<1>4. ASSUME NEW m \in Msgs, NEW o \in PromptOwner,
             OpenFails(m, o) \/ PromptOpened(m, o) \/ PromptRejected(m, o) \/ PromptLost(m, o)
      PROVE  obl' = obl /\ up'
  BY <1>4 DEF OpenFails, PromptOpened, PromptRejected, PromptLost
<1>5. ASSUME NEW m \in Msgs, NEW o \in PromptOwner, NEW seen, HerdrTakes(m, o, seen)
      PROVE  obl' = obl /\ up'
  <2>1. up
    BY <1>5, JobFacts DEF HerdrTakes, PromptInv, NoJobs
  <2> QED
    BY <1>5, <2>1 DEF HerdrTakes, store
<1>6. ASSUME \/ \E t \in Tells : CancelTell(t)
             \/ DueSweep \/ LiveReconcile \/ Restart
      PROVE  obl' = obl /\ up'
  BY <1>6 DEF CancelTell, DueSweep, LiveReconcile, Restart, memory, IncarnationGone
<1>7. ASSUME Environment PROVE obl' = obl /\ (~up' => job' = NoJobs)
  <2>1. CASE Crash
    BY <2>1 DEF Crash, store
  <2>2. CASE ~Crash
    BY <1>7, <2>2 DEF Environment, DueTimeArrives, GraceElapses, LoseIncarnation,
                      BindIncarnation, BeginWork, EndWork, store, memory, PromptInv
  <2> QED
    BY <2>1, <2>2
<1>8. ASSUME NEW b \in Asks, CycleMovesOn(b)
      PROVE  /\ \A a \in Asks : \/ obl'[a] = obl[a]
                                \/ /\ obl[a] \in Unsettled
                                   /\ obl'[a] = "cancelled" /\ a \in PrepareAsks
             /\ up'
  BY <1>8 DEF CycleMovesOn, memory, TypeOK
<1> QED
  BY <1>2, <1>3, <1>4, <1>5, <1>6, <1>7, <1>8 DEF Quiet, Prompt

LEMMA QuietKeeps ==
    ASSUME TypeOK, PromptInv, Quiet PROVE PromptInv'
<1>1. \A n \in Msgs : RowStays(n)
  BY QuietRowsStay
<1>2. KeysAgree'
  BY <1>1, MsgFacts DEF PromptInv, KeysAgree, RowStays
<1>3. NoticesAgree' /\ AsksAgree'
  BY <1>1, MsgFacts, QuietRest, NoticesKeep
<1> QED
  BY <1>2, <1>3, QuietMsgs, QuietRest DEF PromptInv

LEMMA ClosingKeeps ==
    ASSUME TypeOK, PromptInv, Closing
    PROVE  PromptInv' /\ \A n \in Msgs : outcome[n] # "none" => RowStays(n)
<1>1. PICK asks, withdrawn, state, unreachable, e, when, owner :
          ClosesUnsettled(asks, withdrawn, state, unreachable, e, when, owner)
  BY ClosingIsClose
<1>2. \A n \in Msgs : MsgAgrees(n)'
  BY <1>1, CloseKeeps DEF ClosesUnsettled, PromptInv
<1>3. /\ \A n \in Msgs : n \notin NoticesOf(asks) => RowStays(n)
      /\ \A n \in NoticesOf(asks) : outcome[n] = "none"
      /\ KeysAgree' /\ NoticesAgree' /\ AsksAgree'
  BY <1>1, CloseRest
<1>4. up'
  BY <1>1 DEF ClosesUnsettled
<1> QED
  BY <1>2, <1>3, <1>4 DEF PromptInv

Recording ==
    \/ \E a \in Asks, when \in Schedules : RecordAsk(a, when)
    \/ \E a \in Asks : BeginRenewPrepare(a)
    \/ \E t \in Tells, when \in Schedules : RecordTell(t, when)
    \/ \E t \in Tells, when \in Schedules : RecordSocketTell(t, when)
    \/ \E t \in Tells : FireTellSchedule(t)
    \/ \E r \in Replies, when \in Schedules : RecordReply(r, when)

LEMMA RecordingKeeps ==
    ASSUME TypeOK, PromptInv, Recording
    PROVE  PromptInv' /\ \A n \in Msgs : outcome[n] # "none" => RowStays(n)
<1>1. /\ \A m : \A when \in Schedules : DueTime(m, when) \in Schedule
      /\ \A when \in Schedules : when \in Schedule
      /\ "now" \in Schedule /\ "due" \in Schedule
      /\ "client" \in PromptOwner /\ "sweep" \in PromptOwner
  BY DueTimeType, BoundsAssumption DEF Schedule, PromptOwner
<1>2. ASSUME NEW a \in Asks, NEW due \in Schedule, NEW o \in {"client", "sweep"}, NEW when,
             CreateAsk(a, due), Park(AskMsg(a), o, when),
             up', UNCHANGED <<attempted, carried, landed>>
      PROVE  PromptInv' /\ \A n \in Msgs : outcome[n] # "none" => RowStays(n)
  <2>1. OpensOrProgresses(AskMsg(a))
    BY <1>2 DEF CreateAsk, AskMsg, TypeOK, OpensOrProgresses
  <2>2. AskMsg(a) \in ClientMsgs /\ AskMsg(a) \in Msgs
    BY MsgFacts
  <2>3. outcome[AskMsg(a)] = "none" /\ KeyFree(AskMsg(a)) /\ InsertPrompt(AskMsg(a), due)
    BY <1>2 DEF CreateAsk
  <2>4. InsertsRow(AskMsg(a), o)
    BY <1>1, <1>2, <2>2, <2>3, AskIsPrompted, ParkParks DEF InsertsRow
  <2> QED
    BY <1>2, <2>1, <2>2, <2>3, <2>4, RecordKeeps
<1>3. ASSUME NEW a \in Asks, NEW when \in Schedules, RecordAsk(a, when)
      PROVE  PromptInv' /\ \A n \in Msgs : outcome[n] # "none" => RowStays(n)
  <2> DEFINE due == DueTime(AskMsg(a), when)
  <2>1. /\ due \in Schedule /\ CreateAsk(a, due) /\ Park(AskMsg(a), "client", when)
        /\ up' /\ UNCHANGED <<attempted, carried, landed>>
    BY <1>1, <1>3 DEF RecordAsk
  <2> HIDE DEF due
  <2> QED
    BY <1>2, <2>1
<1>4. ASSUME NEW a \in Asks, BeginRenewPrepare(a)
      PROVE  PromptInv' /\ \A n \in Msgs : outcome[n] # "none" => RowStays(n)
  <2>1. /\ CreateAsk(a, "now") /\ Park(AskMsg(a), "sweep", "now")
        /\ up' /\ UNCHANGED <<attempted, carried, landed>>
    BY <1>4 DEF BeginRenewPrepare
  <2> QED
    BY <1>1, <1>2, <2>1
<1>5. ASSUME NEW t \in Tells, NEW due \in Schedule,
             CreateTell(TellMsg(t), due), ParkedFor(TellMsg(t), "client"),
             outcome[TellMsg(t)] = "none", obl' = obl,
             up', UNCHANGED <<attempted, carried, landed>>
      PROVE  PromptInv' /\ \A n \in Msgs : outcome[n] # "none" => RowStays(n)
  <2>1. OpensOrProgresses(TellMsg(t))
    BY <1>5 DEF TellMsg, AskMsg, OpensOrProgresses
  <2>2. InsertsRow(TellMsg(t), "client")
    BY <1>5 DEF InsertsRow, CreateTell
  <2> QED
    BY <1>5, <2>1, <2>2, MsgFacts, RecordKeeps
<1>6. ASSUME NEW t \in Tells, NEW w \in Schedule,
             InsertPickup(TellMsg(t), w), Transport(TellMsg(t)) = "socket_inbox",
             outcome[TellMsg(t)] = "none", obl' = obl,
             up', UNCHANGED <<attempted, carried, landed>>
      PROVE  PromptInv' /\ \A n \in Msgs : outcome[n] # "none" => RowStays(n)
  <2>1. OpensOrProgresses(TellMsg(t))
    BY <1>6 DEF TellMsg, AskMsg, OpensOrProgresses
  <2>2. InsertsRow(TellMsg(t), "client")
    BY <1>6 DEF InsertsRow
  <2> QED
    BY <1>6, <2>1, <2>2, MsgFacts, RecordKeeps
<1>7. ASSUME NEW t \in Tells, NEW when \in Schedules, RecordTell(t, when)
      PROVE  PromptInv' /\ \A n \in Msgs : outcome[n] # "none" => RowStays(n)
  <2> DEFINE due == DueTime(TellMsg(t), when)
  <2>1. /\ due \in Schedule /\ CreateTell(TellMsg(t), due)
        /\ Park(TellMsg(t), "client", when) /\ outcome[TellMsg(t)] = "none" /\ obl' = obl
        /\ up' /\ UNCHANGED <<attempted, carried, landed>>
    BY <1>1, <1>7 DEF RecordTell
  <2> HIDE DEF due
  <2>2. ParkedFor(TellMsg(t), "client")
    BY <1>1, <2>1, MsgFacts, ParkParks
  <2> QED
    BY <1>5, <2>1, <2>2
<1>8. ASSUME NEW t \in Tells, NEW when \in Schedules, RecordSocketTell(t, when)
      PROVE  PromptInv' /\ \A n \in Msgs : outcome[n] # "none" => RowStays(n)
  BY <1>1, <1>6, <1>8 DEF RecordSocketTell
<1>9. ASSUME NEW t \in Tells, FireTellSchedule(t)
      PROVE  PromptInv' /\ \A n \in Msgs : outcome[n] # "none" => RowStays(n)
  <2>1. /\ outcome[TellMsg(t)] = "none" /\ obl' = obl
        /\ up' /\ UNCHANGED <<attempted, carried, landed>>
    BY <1>9 DEF FireTellSchedule
  <2>2. \/ Transport(TellMsg(t)) = "socket_inbox" /\ InsertPickup(TellMsg(t), "due")
        \/ CreateTell(TellMsg(t), "due") /\ job' = job
    BY <1>9 DEF FireTellSchedule
  <2>3. TellMsg(t) \in Msgs /\ MsgAgrees(TellMsg(t))
    BY MsgFacts DEF PromptInv
  <2>4. job' = job => ParkedFor(TellMsg(t), "client")
    BY <1>1, <2>1, <2>3, NotParked
  <2> QED
    BY <1>1, <1>5, <1>6, <2>1, <2>2, <2>4
<1>10. ASSUME NEW r \in Replies, NEW when \in Schedules, RecordReply(r, when)
      PROVE  PromptInv' /\ \A n \in Msgs : outcome[n] # "none" => RowStays(n)
  <2> DEFINE m == ReplyMsg(r)
             due == DueTime(ReplyMsg(r), when)
  <2>1. OpensOrProgresses(m)
    BY <1>10 DEF RecordReply, ReplyActivity, ReplyMsg, AskMsg, TypeOK, OpensOrProgresses,
         CreateReply
  <2>2. m \in ClientMsgs /\ m \in Msgs /\ due \in Schedule
    BY <1>1, MsgFacts
  <2>3. /\ outcome[m] = "none" /\ KeyFree(m)
        /\ \/ /\ Transport(m) = "herdr_prompt"
              /\ InsertPrompt(m, due) /\ Park(m, "client", when)
           \/ Transport(m) # "herdr_prompt" /\ InsertPickup(m, "now")
        /\ up' /\ UNCHANGED <<attempted, carried, landed>>
    BY <1>10 DEF RecordReply, CreateReplyPrompt, CreateReply
  <2> HIDE DEF m, due
  <2>4. Park(m, "client", when) => ParkedFor(m, "client")
    BY <1>1, <2>2, ParkParks
  <2>5. InsertsRow(m, "client")
    BY <1>1, <2>2, <2>3, <2>4 DEF InsertsRow
  <2> QED
    BY <2>1, <2>2, <2>3, <2>5, RecordKeeps
<1> QED
  BY <1>3, <1>4, <1>7, <1>8, <1>9, <1>10 DEF Recording

LEMMA NextKinds == Next => Recording \/ Closing \/ Quiet
BY DEF Next, Client, Daemon, Recording, Closing, Quiet, ClientAsk, ClientTell, ClientReply

LEMMA PromptInvNext == TypeOK /\ PromptInv /\ [Next]_vars => PromptInv'
<1> SUFFICES ASSUME TypeOK, PromptInv, [Next]_vars PROVE PromptInv'
  OBVIOUS
<1>1. CASE UNCHANGED vars
  <2>1. UNCHANGED <<op, outcome, sched, landed, attempted, carried, job, obl, up>>
    BY <1>1 DEF vars, store, memory
  <2>2. \A n \in Msgs : MsgAgrees(n)'
    BY <2>1, MsgFrame DEF SameMsg, PromptInv
  <2>3. KeysAgree' /\ NoticesAgree' /\ AsksAgree'
    BY <2>1 DEF PromptInv, KeysAgree, NoticesAgree, AsksAgree
  <2> QED
    BY <2>1, <2>2, <2>3 DEF PromptInv
<1> QED
  BY <1>1, NextKinds, RecordingKeeps, ClosingKeeps, QuietKeeps

\* The rows, writes and parked prompts of every message, the idempotency keys
\* and the notices of closed asks agree in every reachable state.
THEOREM PromptInvariant == Spec => []PromptInv
<1>1. TypeOK /\ PromptInv /\ TypeOK' /\ [Next]_vars => PromptInv'
  BY PromptInvNext
<1> QED
  BY <1>1, PromptInvInit, TypeCorrect, PTL DEF Spec
----------------------------------------------------------------------------
(* The safety properties. *)

\* No message is handed to an agent twice: whatever sweeps, clients, crashes
\* and recoveries do, Herdr takes a prompt of one message at most once.
THEOREM WrittenAtMostOnce == Spec => []AtMostOneWrite
<1>1. PromptInv => AtMostOneWrite
  BY DEF PromptInv, MsgAgrees, WritesAgree, AtMostOneWrite
<1> QED
  BY <1>1, PromptInvariant, PTL

\* Retrying with one idempotency key never has two messages taken by Herdr.
THEOREM KeyWrittenAtMostOnce == Spec => []KeyLandsOnce
<1>1. TypeOK /\ PromptInv => KeyLandsOnce
  <2> SUFFICES ASSUME TypeOK, PromptInv PROVE KeyLandsOnce
    OBVIOUS
  <2>1. \A m \in ClientMsgs : op[m] \in {"none", "failed"} => landed[m] = 0
    BY MsgFacts DEF PromptInv, MsgAgrees, RowsAgree, WritesAgree
  <2> QED
    BY <2>1 DEF PromptInv, KeysAgree, KeyLandsOnce
<1> QED
  BY <1>1, PromptInvariant, TypeCorrect, PTL

\* What a settled delivery row says about the agent's terminal is true.
THEOREM OutcomesAreHonest == Spec => []OutcomeIsHonest
<1>1. TypeOK /\ PromptInv => OutcomeIsHonest
  <2> SUFFICES ASSUME TypeOK, PromptInv, NEW m \in Msgs, Transport(m) = "herdr_prompt"
               PROVE  /\ outcome[m] = "accepted" => landed[m] = 1
                      /\ outcome[m] \notin {"accepted", "submitted", "unknown"} => landed[m] = 0
    BY DEF OutcomeIsHonest
  <2>1. op[m] \in OperationOutcome /\ outcome[m] \in DeliveryOutcome
    BY DEF TypeOK
  <2>2. outcome[m] = "accepted" => op[m] = "succeeded"
    BY <2>1 DEF PromptInv, MsgAgrees, RowsAgree, OperationOutcome
  <2> QED
    BY <2>1, <2>2 DEF PromptInv, MsgAgrees, WritesAgree, DeliveryOutcome
<1> QED
  BY <1>1, PromptInvariant, TypeCorrect, PTL

\* A prompt being written for an operation of this daemon is recorded as
\* submitted and pending: no recovery, sweep or cancel settles it meanwhile.
THEOREM LiveWritesAreSubmitted == Spec => []LiveWriteIsSubmitted
<1>1. PromptInv => LiveWriteIsSubmitted
  BY DEF PromptInv, MsgAgrees, RowsAgree, JobsAgree, LiveWriteIsSubmitted
<1> QED
  BY <1>1, PromptInvariant, PTL

\* An ask an agent has seen is not closed without a notice for each side.
THEOREM ClosesAreAnnounced == Spec => []NoSilentClose
<1>1. PromptInv => NoSilentClose
  <2> SUFFICES ASSUME PromptInv, NEW a \in Asks \ PrepareAsks, obl[a] \in {"cancelled", "orphaned"},
                      landed[AskMsg(a)] > 0
               PROVE  outcome[WaitingNotice(a)] # "none" /\ outcome[OwingNotice(a)] # "none"
    BY DEF NoSilentClose
  <2>1. outcome[AskMsg(a)] # "superseded"
    BY MsgFacts DEF PromptInv, MsgAgrees, WritesAgree
  <2> QED
    BY <2>1 DEF PromptInv, NoticesAgree, WaitingNotice, OwingNotice
<1> QED
  BY <1>1, PromptInvariant, PTL

\* Settled delivery rows are never changed again, by any step.
THEOREM SettledRowsStay == Spec => SettledDeliveryStays
<1>1. TypeOK /\ PromptInv /\ [Next]_vars
         => [\A m \in Msgs : outcome[m] \in SettledOutcome => outcome'[m] = outcome[m]]_vars
  <2> SUFFICES ASSUME TypeOK, PromptInv, Next, NEW m \in Msgs, outcome[m] \in SettledOutcome
               PROVE  outcome'[m] = outcome[m]
    OBVIOUS
  <2>1. outcome[m] # "none"
    BY DEF SettledOutcome
  <2>2. RowStays(m)
    BY <2>1, NextKinds, RecordingKeeps, ClosingKeeps, QuietRowsStay
  <2> QED
    BY <2>2 DEF RowStays
<1> QED
  BY <1>1, PromptInvariant, TypeCorrect, PTL DEF Spec, SettledDeliveryStays
----------------------------------------------------------------------------
(* What an ended waiter leaves behind. *)

\* A message that is recorded for an ended waiter is not put in its inbox, and no ask
\* of an ended waiter is opened or gone on with.
LEMMA RecordingDrained ==
    ASSUME TypeOK, PromptInv, Recording, EndedWaiterIsDrained
    PROVE  EndedWaiterIsDrained'
<1>1. ASSUME NEW m \in Msgs, NEW a \in Asks, Waiting[a] \notin ended,
             outcome' = [outcome EXCEPT ![m] = outcome'[m]],
             Transport(m) = "socket_inbox" => Recipient(m) \notin ended,
             obl' = [obl EXCEPT ![a] = obl'[a]], ended' = ended
      PROVE  EndedWaiterIsDrained'
  BY <1>1 DEF EndedWaiterIsDrained, TypeOK
<1>2. ASSUME NEW m \in Msgs, outcome' = [outcome EXCEPT ![m] = outcome'[m]],
             Transport(m) = "socket_inbox" => Recipient(m) \notin ended,
             UNCHANGED <<obl, ended>>
      PROVE  EndedWaiterIsDrained'
  BY <1>2 DEF EndedWaiterIsDrained, TypeOK
<1>3. ASSUME NEW a \in Asks, NEW when, RecordAsk(a, when) \/ BeginRenewPrepare(a)
      PROVE  EndedWaiterIsDrained'
  <2>1. /\ AskMsg(a) \in Msgs /\ Waiting[a] \notin ended /\ ended' = ended
        /\ outcome' = [outcome EXCEPT ![AskMsg(a)] = outcome'[AskMsg(a)]]
        /\ obl' = [obl EXCEPT ![a] = obl'[a]]
    BY <1>3, MsgFacts DEF RecordAsk, BeginRenewPrepare, CreateAsk, InsertPrompt, TypeOK, world
  <2>2. Transport(AskMsg(a)) # "socket_inbox"
    BY AskIsPrompted
  <2> QED
    BY <1>1, <2>1, <2>2
<1>4. ASSUME NEW t \in Tells, NEW when,
             RecordTell(t, when) \/ RecordSocketTell(t, when) \/ FireTellSchedule(t)
      PROVE  EndedWaiterIsDrained'
  <2>1. /\ TellMsg(t) \in Msgs /\ UNCHANGED <<obl, ended>>
        /\ outcome' = [outcome EXCEPT ![TellMsg(t)] = outcome'[TellMsg(t)]]
    BY <1>4, MsgFacts DEF RecordTell, RecordSocketTell, FireTellSchedule, CreateTell,
       InsertPrompt, InsertPickup, TypeOK, world
  <2>2. Transport(TellMsg(t)) = "socket_inbox" => Recipient(TellMsg(t)) \notin ended
    BY <1>4 DEF RecordTell, RecordSocketTell, FireTellSchedule, CreateTell
  <2> QED
    BY <1>2, <2>1, <2>2
<1>5. ASSUME NEW r \in Replies, NEW when \in Schedules, RecordReply(r, when)
      PROVE  EndedWaiterIsDrained'
  <2>1. ReplyTo[r] \in Asks /\ ReplyMsg(r) \in Msgs /\ Recipient(ReplyMsg(r)) = Waiting[ReplyTo[r]]
    BY RepliesAssumption, MsgFacts DEF ReplyMsg, Recipient, AskOf
  <2>2. /\ Waiting[ReplyTo[r]] \notin ended /\ ended' = ended
        /\ obl' = [obl EXCEPT ![ReplyTo[r]] = obl'[ReplyTo[r]]]
    BY <1>5, <2>1 DEF RecordReply, CreateReply, ReplyActivity, TypeOK, world
  <2>3. outcome' = [outcome EXCEPT ![ReplyMsg(r)] = outcome'[ReplyMsg(r)]]
    BY <1>5, <2>1 DEF RecordReply, CreateReplyPrompt, InsertPrompt, InsertPickup, TypeOK
  <2> QED
    BY <1>1, <2>1, <2>2, <2>3
<1> QED
  BY <1>3, <1>4, <1>5 DEF Recording

\* A notice to a waiter that has ended, or ends in this very step, is not queued for it.
LEMMA NoticeToEnded ==
    ASSUME NEW m \in NoticeMsgs, NEW e, NEW when, Recipient(m) \in e,
           Transport(m) = "socket_inbox"
    PROVE  NoticeOutcome(m, e, when) # "queued"
BY DEF NoticeOutcome

\* Closing asks leaves nothing to a waiter that has ended or ends with it.
LEMMA ClosingDrained ==
    ASSUME TypeOK, Closing, EndedWaiterIsDrained
    PROVE  EndedWaiterIsDrained'
<1>1. PICK asks, withdrawn, state, inbox, e, when, owner :
          ClosesUnsettled(asks, withdrawn, state, inbox, e, when, owner)
  BY ClosingIsClose
<1>2. /\ obl' = [a \in Asks |-> IF a \in asks \cup withdrawn THEN state ELSE obl[a]]
      /\ state \notin Unsettled /\ ended' = e
      /\ \A m \in Msgs : outcome'[m] = IF m \in NoticesOf(asks) THEN NoticeOutcome(m, e, when[m])
                                        ELSE IF m \in {"ask"} \X withdrawn THEN "superseded"
                                        ELSE IF m \in inbox THEN "target_unavailable"
                                        ELSE outcome[m]
  BY <1>1 DEF ClosesUnsettled, Drains, Close, Unsettled
<1>3. \A m \in NoticesOf(asks) : m \in NoticeMsgs
  BY <1>1 DEF NoticesOf, NoticeMsgs, ClosesUnsettled
<1>4. ASSUME NEW a \in Asks, Waiting[a] \in e PROVE obl'[a] \notin Unsettled
  <2>1. obl[a] \in Unsettled => a \in asks \cup withdrawn
    BY <1>1, <1>4 DEF ClosesUnsettled, Drains, EndedWaiterIsDrained
  <2> QED
    BY <1>2, <2>1
<1>5. ASSUME NEW m \in Msgs, Recipient(m) \in e, Transport(m) = "socket_inbox"
      PROVE  outcome'[m] # "queued"
  <2>1. outcome[m] = "queued" => m \in inbox
    BY <1>1, <1>5 DEF ClosesUnsettled, Drains, EndedWaiterIsDrained
  <2>2. m \in NoticesOf(asks) => NoticeOutcome(m, e, when[m]) # "queued"
    BY <1>3, <1>5, NoticeToEnded
  <2> QED
    BY <1>2, <2>1, <2>2
<1> QED
  BY <1>2, <1>4, <1>5 DEF EndedWaiterIsDrained

LEMMA QuietDrained ==
    ASSUME TypeOK, PromptInv, Quiet, EndedWaiterIsDrained
    PROVE  EndedWaiterIsDrained'
<1>1. ended' = ended
  BY DEF Quiet, CancelTell, Ack, Prompt, OpenFails, PromptOpened, HerdrTakes, PromptAccepted,
     PromptRejected, PromptLost, DueSweep, LiveReconcile, Restart, Environment, DueTimeArrives,
     GraceElapses, LoseIncarnation, BindIncarnation, BeginWork, EndWork, Crash, CycleMovesOn,
     world
<1>2. /\ \A a \in Asks : obl'[a] \in Unsettled => obl[a] \in Unsettled
      /\ \A m \in Msgs : outcome'[m] = "queued" => outcome[m] = "queued"
  BY QuietRest, QuietRowsStay DEF RowStays, Unsettled
<1> QED
  BY <1>1, <1>2 DEF EndedWaiterIsDrained

\* An ended waiter leaves nothing behind: its asks are settled and its inbox is empty, and
\* no reply, tell or notice that was under way puts anything there later (end_socket_waiter).
THEOREM EndedWaitersAreDrained == Spec => []EndedWaiterIsDrained
<1>1. Init => EndedWaiterIsDrained
  BY DEF Init, EndedWaiterIsDrained
<1>2. TypeOK /\ PromptInv /\ EndedWaiterIsDrained /\ [Next]_vars => EndedWaiterIsDrained'
  <2>1. UNCHANGED vars /\ EndedWaiterIsDrained => EndedWaiterIsDrained'
    BY DEF EndedWaiterIsDrained, vars, store, world
  <2> QED
    BY <2>1, NextKinds, RecordingDrained, ClosingDrained, QuietDrained
<1> QED
  BY <1>1, <1>2, TypeCorrect, PromptInvariant, PTL DEF Spec
============================================================================
