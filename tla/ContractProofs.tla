--------------------------- MODULE ContractProofs ---------------------------
(***************************************************************************)
(* Messaging implements ReplyContract: every step of the store, the daemon *)
(* and the world is, for each ask, one of the contract's moves.  With the  *)
(* contract follow the two properties that tie an ask to its answer.       *)
(***************************************************************************)
EXTENDS MessagingSafety

\* The moves of the contract for one ask, in the terms of Messaging.
Untouched(a) == obl'[a] = obl[a] /\ resolver'[a] = resolver[a]

Answered(a) ==
    /\ obl[a] \in Unsettled
    /\ obl'[a] = "resolved"
    /\ \E r \in Final :
          /\ ReplyTo[r] = a
          /\ outcome[ReplyMsg(r)] # "accepted"
          /\ outcome'[ReplyMsg(r)] = "accepted"
          /\ resolver'[a] = {r}

Move(a) ==
    \/ Untouched(a)
    \/ obl[a] = "none" /\ obl'[a] = "open" /\ resolver'[a] = resolver[a]
    \/ obl[a] \in Unsettled /\ obl'[a] = "in_progress" /\ resolver'[a] = resolver[a]
    \/ Answered(a)
    \/ obl[a] \in Unsettled /\ obl'[a] \in {"cancelled", "orphaned"} /\ resolver'[a] = resolver[a]

\* No message becomes accepted.
NoneAccepted == \A n \in Msgs : outcome'[n] = "accepted" => outcome[n] = "accepted"

LEMMA RecordingMoves ==
    ASSUME TypeOK, PromptInv, Recording
    PROVE  (\A a \in Asks : Move(a)) /\ NoneAccepted
<1>0. ASSUME NEW b \in Asks, NEW due, CreateAsk(b, due), resolver' = resolver
      PROVE  (\A a \in Asks : Move(a)) /\ NoneAccepted
  <2>1. obl[b] = "none" /\ obl' = [obl EXCEPT ![b] = "open"]
    BY <1>0 DEF CreateAsk, PromptInv, AsksAgree
  <2>2. \A a \in Asks : Move(a)
    BY <1>0, <2>1 DEF Move, Untouched, TypeOK
  <2>3. NoneAccepted
    BY <1>0, MsgFacts DEF CreateAsk, InsertPrompt, NoneAccepted, TypeOK
  <2> QED
    BY <2>2, <2>3
<1>1. CASE \/ \E a \in Asks, when \in Schedules : RecordAsk(a, when)
           \/ \E a \in Asks : BeginRenewPrepare(a)
  <2>1. PICK b \in Asks : \E due : CreateAsk(b, due) /\ resolver' = resolver
    BY <1>1 DEF RecordAsk, BeginRenewPrepare
  <2>2. PICK due : CreateAsk(b, due) /\ resolver' = resolver
    BY <2>1
  <2> QED
    BY <1>0, <2>2
<1>2. CASE \/ \E t \in Tells, when \in Schedules : RecordTell(t, when)
           \/ \E t \in Tells : FireTellSchedule(t)
  <2>1. PICK t \in Tells : \/ \E due : CreateTell(TellMsg(t), due)
                          \/ InsertPickup(TellMsg(t), "due")
    BY <1>2 DEF RecordTell, FireTellSchedule
  <2>2. UNCHANGED <<obl, resolver>>
    BY <1>2 DEF RecordTell, FireTellSchedule
  <2>3. \/ outcome' = [outcome EXCEPT ![TellMsg(t)] = "pending"]
        \/ outcome' = [outcome EXCEPT ![TellMsg(t)] = "queued"]
    BY <2>1 DEF CreateTell, InsertPrompt, InsertPickup
  <2>4. NoneAccepted
    BY <2>3, MsgFacts DEF NoneAccepted, TypeOK
  <2> QED
    BY <2>2, <2>4 DEF Move, Untouched
<1>3. CASE \E t \in Tells, when \in Schedules : RecordSocketTell(t, when)
  <2>1. UNCHANGED <<obl, resolver>>
    BY <1>3 DEF RecordSocketTell
  <2>2. NoneAccepted
    BY <1>3, MsgFacts DEF RecordSocketTell, InsertPickup, NoneAccepted, TypeOK
  <2> QED
    BY <2>1, <2>2 DEF Move, Untouched
<1>4. CASE \E r \in Replies, when \in Schedules : RecordReply(r, when)
  <2>1. PICK r \in Replies, when \in Schedules : RecordReply(r, when)
    BY <1>4
  <2>2. /\ obl[ReplyTo[r]] \in Unsettled
        /\ obl' = obl \/ obl' = [obl EXCEPT ![ReplyTo[r]] = "in_progress"]
        /\ resolver' = resolver
    BY <2>1 DEF RecordReply, CreateReplyPrompt, ReplyActivity, CreateReply
  <2>3. \A a \in Asks : Move(a)
    BY <2>2 DEF Move, Untouched, TypeOK
  <2>4. outcome' = [outcome EXCEPT ![ReplyMsg(r)] = "pending"]
        \/ outcome' = [outcome EXCEPT ![ReplyMsg(r)] = "queued"]
    BY <2>1 DEF RecordReply, CreateReplyPrompt, InsertPrompt, InsertPickup, CreateReply
  <2>5. NoneAccepted
    BY <2>4, MsgFacts DEF NoneAccepted, TypeOK
  <2> QED
    BY <2>3, <2>5
<1> QED
  BY <1>1, <1>2, <1>3, <1>4 DEF Recording

LEMMA ClosingMoves ==
    ASSUME TypeOK, PromptInv, Closing
    PROVE  (\A a \in Asks : Move(a)) /\ NoneAccepted
<1>1. PICK asks, withdrawn, state, unreachable, e, when, owner :
          ClosesUnsettled(asks, withdrawn, state, unreachable, e, when, owner)
  BY ClosingIsClose
<1>2. \A a \in Asks : Move(a)
  BY <1>1 DEF ClosesUnsettled, Close, Move, Untouched, CancellationPrompts
<1>3. \A n \in Msgs : NoticeOutcome(n, e, when[n]) # "accepted"
  BY NoticeOutcomeType
<1>4. NoneAccepted
  BY <1>1, <1>3 DEF ClosesUnsettled, Close, NoneAccepted, CancellationPrompts
<1> QED
  BY <1>2, <1>4

\* Accepting message m, over Herdr or by acknowledgement.
LEMMA AcceptMoves ==
    ASSUME TypeOK, NEW m \in Msgs, Resolve(m),
           outcome[m] # "accepted", outcome'[m] = "accepted"
    PROVE  \A a \in Asks : Move(a)
<1>1. CASE m[1] = "reply" /\ m[2] \in Final /\ obl[AskOf(m)] \in Unsettled
  <2>1. m[2] \in Replies /\ AskOf(m) = ReplyTo[m[2]] /\ AskOf(m) \in Asks /\ m = ReplyMsg(m[2])
    BY <1>1, FinalOf
  <2>2. /\ obl' = [obl EXCEPT ![AskOf(m)] = "resolved"]
        /\ resolver' = [resolver EXCEPT ![AskOf(m)] = {m[2]}]
    BY <1>1 DEF Resolve
  <2>3. Answered(AskOf(m))
    BY <1>1, <2>1, <2>2 DEF Answered, TypeOK
  <2>4. \A a \in Asks : a # AskOf(m) => Untouched(a)
    BY <2>2 DEF Untouched, TypeOK
  <2> QED
    BY <2>3, <2>4 DEF Move
<1>2. CASE ~(m[1] = "reply" /\ m[2] \in Final /\ obl[AskOf(m)] \in Unsettled)
  BY <1>2 DEF Resolve, Move, Untouched
<1> QED
  BY <1>1, <1>2

\* A final accepted over Herdr is the answer to its ask.
AcceptsAnswer(n) ==
    /\ n[1] = "reply"
    /\ n[2] \in Final
    /\ Transport(n) = "herdr_prompt"
    /\ outcome[n] # "accepted"
    /\ outcome'[n] = "accepted"
    => resolver'[AskOf(n)] = {n[2]}

LEMMA QuietMoves ==
    ASSUME TypeOK, PromptInv, Quiet
    PROVE  (\A a \in Asks : Move(a)) /\ (\A n \in Msgs : AcceptsAnswer(n))
<1>0. ASSUME UNCHANGED <<obl, resolver>>, NoneAccepted
      PROVE  (\A a \in Asks : Move(a)) /\ (\A n \in Msgs : AcceptsAnswer(n))
  BY <1>0 DEF Move, Untouched, NoneAccepted, AcceptsAnswer
<1>1. ASSUME NEW m \in Msgs, Ack(m)
      PROVE  (\A a \in Asks : Move(a)) /\ (\A n \in Msgs : AcceptsAnswer(n))
  <2>1. /\ Transport(m) # "herdr_prompt" /\ Resolve(m) /\ outcome[m] = "queued"
        /\ outcome'[m] = "accepted" /\ \A n \in Msgs \ {m} : outcome'[n] = outcome[n]
    BY <1>1 DEF Ack, TypeOK
  <2>2. \A a \in Asks : Move(a)
    BY <2>1, AcceptMoves
  <2>3. \A n \in Msgs : AcceptsAnswer(n)
    BY <2>1 DEF AcceptsAnswer
  <2> QED
    BY <2>2, <2>3
<1>2. ASSUME NEW m \in Msgs, NEW o \in PromptOwner, PromptAccepted(m, o)
      PROVE  (\A a \in Asks : Move(a)) /\ (\A n \in Msgs : AcceptsAnswer(n))
  <2>1. CASE ~AcceptCommits(m)
    <3>1. UNCHANGED <<obl, resolver, outcome>>
      BY <1>2, <2>1 DEF PromptAccepted
    <3> QED
      BY <1>0, <3>1 DEF NoneAccepted
  <2>2. CASE AcceptCommits(m)
    <3>1. /\ op[m] = "pending"
          /\ job[<<m, o>>] \in {"landed", "stalled"}
          /\ Resolve(m)
          /\ outcome' = [outcome EXCEPT ![m] = IF @ = "submitted" THEN "accepted" ELSE @]
          /\ m[1] = "reply" /\ m[2] \in Final => obl[AskOf(m)] \in Unsettled
      BY <1>2, <2>2 DEF PromptAccepted, AcceptCommits
    <3>2. outcome[m] = "submitted"
      BY <3>1 DEF PromptInv, MsgAgrees, RowsAgree, JobsAgree, InFlight
    <3>3. outcome'[m] = "accepted" /\ \A n \in Msgs \ {m} : outcome'[n] = outcome[n]
      BY <3>1, <3>2 DEF TypeOK
    <3>4. \A a \in Asks : Move(a)
      BY <3>1, <3>2, <3>3, AcceptMoves
    <3>5. m[1] = "reply" /\ m[2] \in Final => resolver'[AskOf(m)] = {m[2]}
      BY <3>1, FinalOf DEF Resolve, TypeOK
    <3>6. \A n \in Msgs : AcceptsAnswer(n)
      BY <3>3, <3>5 DEF AcceptsAnswer
    <3> QED
      BY <3>4, <3>6
  <2> QED
    BY <2>1, <2>2
<1>3. ASSUME NEW m, NEW opOutcome, NEW deliveryOutcome \in DeliveryOutcome \ {"accepted"},
             Settle(m, opOutcome, deliveryOutcome)
      PROVE  NoneAccepted
  BY <1>3 DEF Settle, NoneAccepted, TypeOK
<1>4. ASSUME NEW m \in Msgs, NEW o \in PromptOwner,
             OpenFails(m, o) \/ PromptRejected(m, o) \/ PromptLost(m, o)
      PROVE  UNCHANGED <<obl, resolver>> /\ NoneAccepted
  <2>1. outcome' = outcome => NoneAccepted
    BY DEF NoneAccepted
  <2> QED
    BY <1>3, <1>4, <2>1 DEF OpenFails, PromptRejected, PromptLost, DeliveryOutcome
<1>5. ASSUME NEW m \in Msgs, NEW o \in PromptOwner, PromptOpened(m, o)
      PROVE  UNCHANGED <<obl, resolver>> /\ NoneAccepted
  <2>1. UNCHANGED <<obl, resolver>>
    BY <1>5 DEF PromptOpened
  <2>2. outcome' = outcome \/ outcome' = [outcome EXCEPT ![m] =
                                  IF @ \in {"pending", "queued"} THEN "submitted" ELSE @]
    BY <1>5 DEF PromptOpened
  <2>3. NoneAccepted
    BY <2>2 DEF NoneAccepted, TypeOK
  <2> QED
    BY <2>1, <2>3
<1>6. ASSUME NEW m \in Msgs, NEW o \in PromptOwner, NEW seen, HerdrTakes(m, o, seen)
      PROVE  UNCHANGED <<obl, resolver>> /\ NoneAccepted
  BY <1>6 DEF HerdrTakes, store, NoneAccepted
<1>7. ASSUME NEW t \in Tells, CancelTell(t) PROVE UNCHANGED <<obl, resolver>> /\ NoneAccepted
  BY <1>7, MsgFacts DEF CancelTell, NoneAccepted, TypeOK
<1>8. ASSUME DueSweep PROVE UNCHANGED <<obl, resolver>> /\ NoneAccepted
  BY <1>8 DEF DueSweep, NoneAccepted, IncarnationGone
<1>9. ASSUME LiveReconcile \/ Restart PROVE UNCHANGED <<obl, resolver>> /\ NoneAccepted
  BY <1>9 DEF LiveReconcile, Restart, MarkUnknown, NoneAccepted
<1>10. ASSUME Environment PROVE UNCHANGED <<obl, resolver>> /\ NoneAccepted
  BY <1>10 DEF Environment, DueTimeArrives, GraceElapses, LoseIncarnation, BindIncarnation,
               BeginWork, EndWork, Crash, store, NoneAccepted
<1>11. ASSUME NEW b \in Asks, CycleMovesOn(b)
       PROVE  (\A a \in Asks : Move(a)) /\ (\A n \in Msgs : AcceptsAnswer(n))
  <2>1. /\ obl' = obl \/ (obl[b] \in Unsettled /\ obl' = [obl EXCEPT ![b] = "cancelled"])
        /\ UNCHANGED <<resolver, outcome>>
    BY <1>11 DEF CycleMovesOn
  <2>2. \A a \in Asks : Move(a)
    BY <2>1 DEF Move, Untouched, TypeOK
  <2>3. \A n \in Msgs : AcceptsAnswer(n)
    BY <2>1 DEF AcceptsAnswer
  <2> QED
    BY <2>2, <2>3
<1> QED
  BY <1>0, <1>1, <1>2, <1>4, <1>5, <1>6, <1>7, <1>8, <1>9, <1>10, <1>11 DEF Quiet, Prompt

\* Every step moves each ask as the contract allows, keeps the received finals
\* and accepts a final over Herdr only as the answer.
LEMMA StepMoves ==
    ASSUME TypeOK, PromptInv, Next
    PROVE  /\ \A a \in Asks : Move(a)
           /\ \A n \in Msgs : outcome[n] = "accepted" => outcome'[n] = "accepted"
           /\ \A n \in Msgs : AcceptsAnswer(n)
<1>1. NoneAccepted => \A n \in Msgs : AcceptsAnswer(n)
  BY DEF NoneAccepted, AcceptsAnswer
<1>2. ASSUME NEW n \in Msgs, outcome[n] = "accepted" PROVE outcome'[n] = "accepted"
  <2>1. RowStays(n)
    BY <1>2, NextKinds, RecordingKeeps, ClosingKeeps, QuietRowsStay
  <2> QED
    BY <1>2, <2>1 DEF RowStays, SettledOutcome
<1> QED
  BY <1>1, <1>2, NextKinds, RecordingMoves, ClosingMoves, QuietMoves

----------------------------------------------------------------------------
\* What one step keeps of the two invariants below.
LEMMA StepKeepsAnswers ==
    ASSUME TypeOK, PromptInv, ResolvedByAcceptedFinal, AcceptedPromptFinalResolves, Next
    PROVE  ResolvedByAcceptedFinal' /\ AcceptedPromptFinalResolves'
<1>1. \A a \in Asks : Move(a)
  BY StepMoves
<1>2. \A n \in Msgs : outcome[n] = "accepted" => outcome'[n] = "accepted"
  BY StepMoves
<1>3. \A r \in Final : r \in Replies /\ ReplyMsg(r) \in Msgs /\ ReplyTo[r] \in Asks
  BY MsgFacts, RepliesAssumption
<1>4. ResolvedByAcceptedFinal'
  <2> SUFFICES ASSUME NEW a \in Asks
               PROVE  /\ (obl'[a] = "resolved") <=> (resolver'[a] # {})
                      /\ \A r \in resolver'[a] : /\ resolver'[a] = {r}
                                                 /\ r \in Final
                                                 /\ ReplyTo[r] = a
                                                 /\ outcome'[ReplyMsg(r)] = "accepted"
    BY DEF ResolvedByAcceptedFinal, ReplyMsg
  <2>1. /\ (obl[a] = "resolved") <=> (resolver[a] # {})
        /\ \A r \in resolver[a] : /\ resolver[a] = {r}
                                  /\ r \in Final
                                  /\ ReplyTo[r] = a
                                  /\ outcome[ReplyMsg(r)] = "accepted"
    BY DEF ResolvedByAcceptedFinal
  <2>2. CASE Answered(a)
    BY <2>2 DEF Answered
  <2>3. CASE ~Answered(a)
    <3>1. resolver'[a] = resolver[a] /\ ((obl'[a] = "resolved") <=> (obl[a] = "resolved"))
      BY <1>1, <2>3 DEF Move, Untouched, Unsettled
    <3>2. \A r \in resolver[a] : outcome'[ReplyMsg(r)] = "accepted"
      BY <1>2, <1>3, <2>1
    <3> QED
      BY <2>1, <3>1, <3>2
  <2> QED
    BY <2>2, <2>3
<1>5. AcceptedPromptFinalResolves'
  <2> SUFFICES ASSUME NEW r \in Final,
                      Transport(ReplyMsg(r)) = "herdr_prompt",
                      outcome'[ReplyMsg(r)] = "accepted"
               PROVE  resolver'[ReplyTo[r]] = {r}
    BY DEF AcceptedPromptFinalResolves, Transport, Recipient, ReplyMsg, AskOf
  <2>1. ReplyMsg(r) \in Msgs /\ ReplyTo[r] \in Asks
    BY <1>3
  <2>2. CASE outcome[ReplyMsg(r)] = "accepted"
    <3>1. resolver[ReplyTo[r]] = {r}
      BY <2>2 DEF AcceptedPromptFinalResolves
    <3>2. obl[ReplyTo[r]] = "resolved"
      BY <2>1, <3>1 DEF ResolvedByAcceptedFinal
    <3>3. Untouched(ReplyTo[r])
      BY <1>1, <2>1, <3>2 DEF Move, Answered, Unsettled
    <3> QED
      BY <3>1, <3>3 DEF Untouched
  <2>3. CASE outcome[ReplyMsg(r)] # "accepted"
    <3>1. AcceptsAnswer(ReplyMsg(r))
      BY <2>1, StepMoves
    <3>2. /\ ReplyMsg(r)[1] = "reply"
          /\ ReplyMsg(r)[2] = r
          /\ AskOf(ReplyMsg(r)) = ReplyTo[r]
      BY DEF ReplyMsg, AskOf
    <3> QED
      BY <2>3, <3>1, <3>2 DEF AcceptsAnswer
  <2> QED
    BY <2>2, <2>3
<1> QED
  BY <1>4, <1>5

LEMMA AnswersInvariant ==
    Spec => [](ResolvedByAcceptedFinal /\ AcceptedPromptFinalResolves)
<1>1. Init => ResolvedByAcceptedFinal /\ AcceptedPromptFinalResolves
  BY MsgFacts, RepliesAssumption
  DEF Init, ResolvedByAcceptedFinal, AcceptedPromptFinalResolves
<1>2. TypeOK /\ PromptInv /\ ResolvedByAcceptedFinal /\ AcceptedPromptFinalResolves /\ [Next]_vars
         => ResolvedByAcceptedFinal' /\ AcceptedPromptFinalResolves'
  <2>1. CASE Next
    BY <2>1, StepKeepsAnswers
  <2>2. CASE UNCHANGED vars
    BY <2>2 DEF vars, store, ResolvedByAcceptedFinal, AcceptedPromptFinalResolves,
                Transport, Recipient, ReplyMsg, AskOf
  <2> QED
    BY <2>1, <2>2
<1> QED
  BY <1>1, <1>2, TypeCorrect, PromptInvariant, PTL DEF Spec

\* An ask is resolved exactly when one final reply to it, accepted by the
\* waiter, is recorded as its answer.
THEOREM AskResolvedByAcceptedFinal == Spec => []ResolvedByAcceptedFinal
  BY AnswersInvariant, PTL

\* A final reply Herdr accepted is the recorded answer to its ask: no second
\* final is accepted, and none is accepted after the ask was closed.
THEOREM AcceptedFinalIsTheAnswer == Spec => []AcceptedPromptFinalResolves
  BY AnswersInvariant, PTL

\* Every behaviour of the store, the daemon and the world is one the
\* obligation contract allows.
THEOREM ImplementsReplyContract == Spec => KeepsReplyContract
<1>1. Init => Contract!Init
  <2> SUFFICES ASSUME Init PROVE Contract!Init
    OBVIOUS
  <2>1. \A r \in Final : outcome[ReplyMsg(r)] = "none"
    BY MsgFacts, RepliesAssumption DEF Init
  <2> QED
    BY <2>1 DEF Init, Contract!Init, ReceivedFinals
<1>2. TypeOK /\ PromptInv /\ [Next]_vars => [Contract!Next]_(Contract!contract)
  <2>1. ASSUME TypeOK, PromptInv, Next PROVE Contract!Next
    <3>1. \A a \in Asks : Move(a)
      BY <2>1, StepMoves
    <3>2. ReceivedFinals \subseteq ReceivedFinals'
      BY <2>1, StepMoves, MsgFacts, RepliesAssumption DEF ReceivedFinals, ReplyMsg
    <3>3. ASSUME NEW a \in Asks
          PROVE  Contract!Stay(a) \/ Contract!Open(a) \/ Contract!Progress(a)
                    \/ Contract!Answer(a) \/ Contract!Close(a)
      <4>1. obl[a] \in Unsettled => Contract!Waits(a)
        BY DEF Unsettled, Contract!Waits
      <4>2. CASE Answered(a)
        <5>1. PICK r \in Final : /\ ReplyTo[r] = a
                                 /\ outcome[ReplyMsg(r)] # "accepted"
                                 /\ outcome'[ReplyMsg(r)] = "accepted"
                                 /\ resolver'[a] = {r}
          BY <4>2 DEF Answered
        <5>2. r \notin ReceivedFinals /\ r \in ReceivedFinals'
          BY <5>1 DEF ReceivedFinals, ReplyMsg
        <5> QED
          BY <4>1, <4>2, <5>1, <5>2 DEF Answered, Contract!Answer
      <4>3. CASE ~Answered(a)
        BY <3>1, <4>1, <4>3
        DEF Move, Untouched, Contract!Stay, Contract!Open, Contract!Progress, Contract!Close
      <4> QED
        BY <4>2, <4>3
    <3> QED
      BY <3>2, <3>3 DEF Contract!Next
  <2>2. ASSUME UNCHANGED vars PROVE UNCHANGED Contract!contract
    BY <2>2 DEF vars, store, Contract!contract, ReceivedFinals, ReplyMsg
  <2> QED
    BY <2>1, <2>2
<1> QED
  BY <1>1, <1>2, TypeCorrect, PromptInvariant, PTL DEF Spec, KeepsReplyContract, Contract!Spec
============================================================================
