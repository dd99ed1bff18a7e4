---------------------------- MODULE InboxProofs ----------------------------
(***************************************************************************)
(* InboxInv is an inductive invariant of Inbox.  From it follow the types,  *)
(* that a name addresses one recipient, and that no waiter is given up      *)
(* before its grace: for every set of keys, names, agents and readers and   *)
(* every grace, wire and budget.                                            *)
(*                                                                         *)
(* Its three parts are independent of each other: what a session carries,   *)
(* who may hold a name, and how the clock of a waiter relates to its absence. *)
(***************************************************************************)
EXTENDS Inbox, FunctionTheorems, FiniteSetTheorems, SequenceTheorems, TLAPS

\* What is buffered, on the wire, held by the host or acknowledged was offered on this
\* very connection.
SessionAgrees(c) ==
    /\ c.out \in Seq(c.offered) /\ c.wire \in Seq(c.offered) /\ Len(c.wire) <= Wire
    /\ c.acks \cup c.held \subseteq c.offered

\* Only a ready agent, or one that is being retired, has a rename pending, and active
\* waiters have a name.
NamesAgree ==
    /\ \A a \in Agents : agents[a].state \notin {"ready", "retiring"}
                            => agents[a].renaming = NoName
    /\ \A k \in Keys : Active(k) => waiters[k].name \in Names
    /\ WaiterNameExclusive

\* The clock of a waiter is at most one interval ahead of its absence.  A waiter that
\* is connected has just been seen, unless the sweep that is due has yet to see it.
ClockAgrees(k) ==
    /\ waiters[k].state = "none" => waiters[k].seen = Never /\ ~conn[k].open
    /\ Active(k) => waiters[k].seen <= absent[k] + 1
    /\ conn[k].open => daemon.up
    /\ conn[k].open /\ Active(k) => \/ waiters[k].seen = 0
                                    \/ waiters[k].seen = 1 /\ daemon.due

InboxInv ==
    /\ TypeOK
    /\ \A k \in Keys : SessionAgrees(conn[k]) /\ ClockAgrees(k)
    /\ NamesAgree

-----------------------------------------------------------------------------
(* Sequences of messages.                                                   *)

\* In a finite set of numbers every rank is taken, because the ranks are different
\* and there are as many of them as numbers.
LEMMA MsgSets ==
    ASSUME NEW S \in SUBSET Msgs
    PROVE  IsFiniteSet(S) /\ Cardinality(S) \in Nat /\ S \subseteq Nat
<1>1. IsFiniteSet(Msgs) /\ Msgs \subseteq Nat
  BY InboxAssumption, FS_Interval DEF Msgs
<1> QED
  BY <1>1, FS_Subset, FS_CardinalityType

LEMMA EveryRank ==
    ASSUME NEW S \in SUBSET Msgs, NEW i \in 1..Cardinality(S)
    PROVE  \E m \in S : Cardinality({o \in S : o < m}) = i - 1
<1> DEFINE Below(m) == {o \in S : o < m}
           rank == [m \in S |-> Cardinality(Below(m))]
           T == 0..(Cardinality(S) - 1)
<1>1. IsFiniteSet(S) /\ Cardinality(S) \in Nat /\ S \subseteq Nat
  BY MsgSets
<1>2. \A m \in S : /\ IsFiniteSet(Below(m)) /\ Cardinality(Below(m)) \in Nat
                   /\ Cardinality(Below(m)) < Cardinality(S)
  <2> TAKE m \in S
  <2>1. Below(m) \subseteq S /\ Below(m) # S
    BY <1>1
  <2> QED
    BY <1>1, <2>1, FS_Subset, FS_CardinalityType
<1>3. rank \in [S -> T]
  BY <1>1, <1>2
<1>4. ASSUME NEW m \in S, NEW n \in S, m < n PROVE rank[m] < rank[n]
  <2>1. Below(m) \subseteq Below(n)
    <3>1. \A x \in S : x < m => x < n
      BY <1>1, <1>4
    <3> QED
      BY <3>1
  <2>2. m \in Below(n) /\ m \notin Below(m)
    BY <1>1, <1>4
  <2> HIDE DEF Below
  <2>3. Cardinality(Below(m)) < Cardinality(Below(n))
    <3>1. Below(m) # Below(n)
      BY <2>2
    <3>2. /\ IsFiniteSet(Below(m)) /\ IsFiniteSet(Below(n))
          /\ Cardinality(Below(m)) \in Nat /\ Cardinality(Below(n)) \in Nat
      BY <1>2
    <3>3. /\ Cardinality(Below(m)) <= Cardinality(Below(n))
          /\ Cardinality(Below(m)) = Cardinality(Below(n)) => Below(m) = Below(n)
      BY <2>1, <3>2, FS_Subset
    <3> QED
      BY <3>1, <3>2, <3>3
  <2> QED
    BY <2>3
<1>5. ASSUME NEW m \in S, NEW n \in S, rank[m] = rank[n] PROVE m = n
  <2>1. rank[m] \in Nat /\ rank[n] \in Nat
    BY <1>2
  <2> HIDE DEF rank
  <2> QED
    BY <1>1, <1>4, <1>5, <2>1
<1>6. IsFiniteSet(T) /\ Cardinality(T) = Cardinality(S)
  <2>1. 0 \in Int /\ Cardinality(S) - 1 \in Int
    BY <1>1
  <2>2. /\ IsFiniteSet(0..(Cardinality(S) - 1))
        /\ Cardinality(0..(Cardinality(S) - 1))
              = IF 0 > Cardinality(S) - 1 THEN 0 ELSE Cardinality(S) - 1 - 0 + 1
    BY <2>1, FS_Interval
  <2> QED
    BY <1>1, <2>2
<1> HIDE DEF rank, T
<1>7. rank \in Injection(S, T)
  BY <1>3, <1>5, Fun_IsInj
<1>8. rank \in Surjection(S, T)
  BY <1>6, <1>7, FS_Injection
<1>9. PICK m \in S : rank[m] = i - 1
  <2>1. i - 1 \in T
    BY <1>1 DEF T
  <2> QED
    BY <1>8, <2>1, Fun_SurjectionProperties
<1> QED
  BY <1>9 DEF rank

LEMMA InOrderSeq ==
    ASSUME NEW S \in SUBSET Msgs
    PROVE  InOrder(S) \in Seq(S)
<1>1. Cardinality(S) \in Nat
  BY MsgSets
<1>2. \A i \in 1..Cardinality(S) :
         (CHOOSE m \in S : Cardinality({o \in S : o < m}) = i - 1) \in S
  BY EveryRank
<1>3. InOrder(S) \in [1..Cardinality(S) -> S]
  BY <1>2 DEF InOrder
<1> QED
  BY <1>1, <1>3

-----------------------------------------------------------------------------
(* One session.                                                             *)

LEMMA ConstantFacts ==
    /\ Grace \in Nat /\ Grace >= 1 /\ Wire \in Nat /\ Wire >= 1 /\ MaxMsgs \in Nat
    /\ NoName \notin Names
  BY InboxAssumption

IsSession(c) == c \in SessionRecord /\ SessionAgrees(c)

LEMMA NoSessionFacts ==
    IsSession(NoSession) /\ IsSession(NewSession) /\ ~NoSession.open /\ NewSession.open
<1>1. /\ <<>> \in Seq(Msgs) /\ <<>> \in Seq({}) /\ Len(<<>>) = 0
  OBVIOUS
<1>2. NoSession \in SessionRecord /\ NewSession \in SessionRecord
  BY <1>1 DEF NoSession, NewSession, Session, SessionRecord
<1>3. SessionAgrees(NoSession) /\ ~NoSession.open
  BY <1>1, ConstantFacts DEF NoSession, Session, SessionAgrees
<1>4. SessionAgrees(NewSession) /\ NewSession.open
  BY <1>1, ConstantFacts DEF NewSession, Session, SessionAgrees
<1> QED
  BY <1>2, <1>3, <1>4 DEF IsSession

LEMMA RoomOnWire ==
    ASSUME NEW a \in Nat, NEW l \in Nat, l <= Wire
    PROVE  LET n == IF a < Wire - l THEN a ELSE Wire - l IN n \in 0..a /\ l + n <= Wire
  BY ConstantFacts

\* Flushing moves lines from the buffer to the wire, as many as it has room for.
LEMMA FlushFacts ==
    ASSUME NEW c, IsSession(c)
    PROVE  IsSession(Flush(c)) /\ Flush(c).open = c.open
<1> DEFINE n == IF Len(c.out) < Wire - Len(c.wire) THEN Len(c.out) ELSE Wire - Len(c.wire)
<1>1. /\ c \in SessionRecord /\ c.out \in Seq(c.offered) /\ c.wire \in Seq(c.offered)
      /\ c.out \in Seq(Msgs) /\ c.wire \in Seq(Msgs)
      /\ Len(c.wire) <= Wire /\ Len(c.wire) \in Nat /\ Len(c.out) \in Nat
  BY DEF IsSession, SessionAgrees, SessionRecord
<1>2. n \in 0..Len(c.out) /\ Len(c.wire) + n <= Wire
  BY <1>1, RoomOnWire
<1>3. \A S : c.out \in Seq(S) /\ c.wire \in Seq(S) =>
         /\ SubSeq(c.out, n + 1, Len(c.out)) \in Seq(S)
         /\ c.wire \o SubSeq(c.out, 1, n) \in Seq(S)
  BY <1>1, <1>2, SubSeqProperties, ConcatProperties
<1>4. Len(c.wire \o SubSeq(c.out, 1, n)) <= Wire
  <2>1. SubSeq(c.out, 1, n) \in Seq(Msgs) /\ Len(SubSeq(c.out, 1, n)) = n
    BY <1>1, <1>2, SubSeqProperties
  <2>2. Len(c.wire \o SubSeq(c.out, 1, n)) = Len(c.wire) + n
    BY <1>1, <2>1, ConcatProperties
  <2> QED
    BY <1>2, <2>2
<1> HIDE DEF n
<1>5. Flush(c) = [c EXCEPT !.out = SubSeq(c.out, n + 1, Len(c.out)),
                           !.wire = c.wire \o SubSeq(c.out, 1, n)]
  BY <1>1 DEF Flush, n, SessionRecord
<1> QED
  BY <1>1, <1>3, <1>4, <1>5 DEF IsSession, SessionAgrees, SessionRecord

LEMMA OfferFacts ==
    ASSUME NEW k, NEW c, IsSession(c)
    PROVE  IsSession(OfferQueued(k, c)) /\ OfferQueued(k, c).open = c.open
<1> DEFINE new == QueuedFor(k) \ c.offered
           all == c.offered \cup new
<1>1. /\ c \in SessionRecord /\ c.out \in Seq(c.offered) /\ c.wire \in Seq(c.offered)
      /\ c.out \in Seq(Msgs) /\ c.offered \subseteq Msgs
  BY DEF IsSession, SessionAgrees, SessionRecord
<1>2. new \subseteq Msgs
  BY DEF QueuedFor
<1>3. InOrder(new) \in Seq(new)
  BY <1>2, InOrderSeq
<1>4. InOrder(new) \in Seq(all) /\ InOrder(new) \in Seq(Msgs)
  BY <1>2, <1>3, SeqMonotonic
<1>5. c.out \in Seq(all) /\ c.wire \in Seq(all)
  BY <1>1, SeqMonotonic
<1>6. c.out \o InOrder(new) \in Seq(all) /\ c.out \o InOrder(new) \in Seq(Msgs)
  BY <1>1, <1>4, <1>5, ConcatProperties
<1>7. OfferQueued(k, c) = [c EXCEPT !.out = c.out \o InOrder(new), !.offered = all]
  BY <1>1 DEF OfferQueued, SessionRecord
<1>8. all \subseteq Msgs /\ c.offered \subseteq all
  BY <1>1, <1>2
<1> HIDE DEF new, all
<1> QED
  BY <1>1, <1>5, <1>6, <1>7, <1>8 DEF IsSession, SessionAgrees, SessionRecord

\* What the host does to its end.
LEMMA HostFacts ==
    ASSUME NEW c, IsSession(c)
    PROVE  /\ c.wire # <<>> =>
                LET d == [c EXCEPT !.wire = Tail(c.wire), !.held = c.held \cup {Head(c.wire)}]
                IN  IsSession(d) /\ d.open = c.open
           /\ \A m \in c.held :
                LET d == [c EXCEPT !.held = c.held \ {m}, !.acks = c.acks \cup {m}]
                IN  IsSession(d) /\ d.open = c.open
           /\ LET d == [c EXCEPT !.closed = TRUE, !.wire = <<>>, !.held = {}]
              IN  IsSession(d) /\ d.open = c.open
           /\ LET d == [c EXCEPT !.acks = {}] IN IsSession(d) /\ d.open = c.open
<1>1. /\ c \in SessionRecord /\ c.out \in Seq(c.offered) /\ c.wire \in Seq(c.offered)
      /\ c.wire \in Seq(Msgs) /\ c.offered \subseteq Msgs /\ Len(c.wire) <= Wire
      /\ c.acks \subseteq c.offered /\ c.held \subseteq c.offered
  BY DEF IsSession, SessionAgrees, SessionRecord
<1>2. ASSUME c.wire # <<>>
      PROVE  /\ Tail(c.wire) \in Seq(c.offered) /\ Tail(c.wire) \in Seq(Msgs)
             /\ Head(c.wire) \in c.offered /\ Len(Tail(c.wire)) <= Wire
  <2>1. /\ Tail(c.wire) \in Seq(c.offered) /\ Head(c.wire) \in c.offered
        /\ Len(Tail(c.wire)) = Len(c.wire) - 1
    BY <1>1, <1>2, HeadTailProperties
  <2>2. Tail(c.wire) \in Seq(Msgs) /\ Len(c.wire) \in Nat
    BY <1>1, <1>2, HeadTailProperties
  <2> QED
    BY <1>1, <2>1, <2>2, ConstantFacts
<1>3. <<>> \in Seq(c.offered) /\ <<>> \in Seq(Msgs) /\ Len(<<>>) = 0
  OBVIOUS
<1>4. ASSUME c.wire # <<>>
      PROVE  LET d == [c EXCEPT !.wire = Tail(c.wire), !.held = c.held \cup {Head(c.wire)}]
             IN  IsSession(d) /\ d.open = c.open
  BY <1>1, <1>2, <1>4 DEF IsSession, SessionAgrees, SessionRecord
<1>5. ASSUME NEW m \in c.held
      PROVE  LET d == [c EXCEPT !.held = c.held \ {m}, !.acks = c.acks \cup {m}]
             IN  IsSession(d) /\ d.open = c.open
  BY <1>1 DEF IsSession, SessionAgrees, SessionRecord
<1>6. LET d == [c EXCEPT !.closed = TRUE, !.wire = <<>>, !.held = {}]
      IN  IsSession(d) /\ d.open = c.open
  <2> DEFINE d == [c EXCEPT !.closed = TRUE, !.wire = <<>>, !.held = {}]
  <2>1. d \in SessionRecord /\ d.open = c.open
    BY <1>1, <1>3 DEF SessionRecord
  <2>2. /\ d.wire = <<>> /\ d.held = {} /\ d.acks = c.acks /\ d.out = c.out
        /\ d.offered = c.offered
    BY <1>1 DEF SessionRecord
  <2>3. SessionAgrees(d)
    BY <1>1, <1>3, <2>2, ConstantFacts DEF SessionAgrees
  <2> QED
    BY <2>1, <2>3 DEF IsSession
<1>7. LET d == [c EXCEPT !.acks = {}] IN IsSession(d) /\ d.open = c.open
  BY <1>1 DEF IsSession, SessionAgrees, SessionRecord
<1> QED
  BY <1>4, <1>5, <1>6, <1>7

-----------------------------------------------------------------------------
(* Types.                                                                   *)

Sessions == conn \in [Keys -> SessionRecord] /\ \A k \in Keys : SessionAgrees(conn[k])

\* The parts of TypeOK, with what a session carries.
Typed ==
    /\ waiters \in [Keys -> WaiterRecord] /\ agents \in [Agents -> AgentRecord]
    /\ \A k \in Keys : waiters[k].client = "parked" => waiters[k].notice = "parked"
    /\ inbox \in [Msgs -> MessageRecord] /\ Sessions
    /\ daemon \in DaemonRecord /\ absent \in [Keys -> 0..Grace]

PullTyped ==
    /\ pull \in PullRecord /\ readers \in [Readers -> ReaderRecord]
    /\ \A r \in Readers : /\ readers[r].lease \in 0..pull.leases
                          /\ readers[r].cursor \in 0..Len(pull.events)
                          /\ readers[r].read \subseteq DOMAIN pull.events

LEMMA TypedIsTypeOK == (TypeOK /\ \A k \in Keys : SessionAgrees(conn[k])) <=> (Typed /\ PullTyped)
  BY DEF TypeOK, Typed, PullTyped, Sessions, SessionAgrees

LEMMA OneWaiter ==
    ASSUME Typed, NEW k \in Keys, NEW w \in WaiterRecord,
           w.client = "parked" => w.notice = "parked",
           waiters' = [waiters EXCEPT ![k] = w]
    PROVE  /\ waiters' \in [Keys -> WaiterRecord]
           /\ \A j \in Keys : waiters'[j].client = "parked" => waiters'[j].notice = "parked"
  BY DEF Typed

LEMMA OneSession ==
    ASSUME Typed, NEW k \in Keys, NEW c, IsSession(c), conn' = [conn EXCEPT ![k] = c]
    PROVE  Sessions'
  BY DEF Typed, Sessions, IsSession

LEMMA NamingTyped == Typed /\ PullTyped /\ Naming => Typed' /\ PullTyped'
<1> SUFFICES ASSUME Typed, PullTyped, Naming PROVE Typed' /\ PullTyped'
  OBVIOUS
<1>1. ASSUME NEW k \in Keys, NEW n \in Names, RegisterWaiter(k, n) PROVE Typed' /\ PullTyped'
  <2>1. UNCHANGED <<agents, inbox, conn, daemon, pull, readers, absent>>
    BY <1>1 DEF RegisterWaiter
  <2>2. waiters' = [waiters EXCEPT ![k] = [waiters[k] EXCEPT !.state = "active", !.name = n]]
    BY <1>1 DEF RegisterWaiter, InsertLogicalAgent, Typed
  <2>3. [waiters[k] EXCEPT !.state = "active", !.name = n] \in WaiterRecord
    BY DEF Typed, WaiterRecord
  <2>4. /\ [waiters[k] EXCEPT !.state = "active", !.name = n].client = waiters[k].client
        /\ [waiters[k] EXCEPT !.state = "active", !.name = n].notice = waiters[k].notice
    BY DEF Typed, WaiterRecord
  <2>5. waiters[k].client = "parked" => waiters[k].notice = "parked"
    BY DEF Typed
  <2>6. /\ waiters' \in [Keys -> WaiterRecord]
        /\ \A j \in Keys : waiters'[j].client = "parked" => waiters'[j].notice = "parked"
    BY <2>2, <2>3, <2>4, <2>5, OneWaiter
  <2> QED
    BY <2>1, <2>6 DEF Typed, PullTyped, Sessions
<1>2. ASSUME UNCHANGED <<waiters, inbox, conn, daemon, pull, readers, absent>>,
             agents' \in [Agents -> AgentRecord]
      PROVE  Typed' /\ PullTyped'
  BY <1>2 DEF Typed, PullTyped, Sessions
<1>3. ASSUME NEW a \in Agents, NEW n \in Names,
             (\E how \in {"start", "adopt"} : Declare(a, n, how)) \/ DeclareRename(a, n)
      PROVE  Typed' /\ PullTyped'
  BY <1>2, <1>3 DEF Declare, DeclareRename, Typed, AgentRecord
<1>4. ASSUME NEW a \in Agents,
             \/ BeginLaunch(a) \/ AcceptStartReady(a) \/ AcceptAdoptReady(a)
             \/ IncarnationEnds(a) \/ RequestRetirement(a)
             \/ CommitRename(a) \/ RecoverRenamed(a) \/ AbandonRename(a)
             \/ ContinueOccupant(a)
      PROVE  Typed' /\ PullTyped'
  <2>1. UNCHANGED <<waiters, inbox, conn, daemon, pull, readers, absent>>
    BY <1>4 DEF BeginLaunch, AcceptStartReady, AcceptAdoptReady, IncarnationEnds,
       RequestRetirement, CommitRename, RecoverRenamed, AbandonRename, ContinueOccupant
  <2>2. agents' \in [Agents -> AgentRecord]
    BY <1>4 DEF Typed, AgentRecord, BeginLaunch, AcceptStartReady, AcceptAdoptReady,
       IncarnationEnds, RequestRetirement, CommitRename, RecoverRenamed, AbandonRename,
       ContinueOccupant, BecomeReady
  <2> QED
    BY <1>2, <2>1, <2>2
<1> QED
  BY <1>1, <1>3, <1>4 DEF Naming

\* A change to one waiter that leaves its notice and its client alone.
LEMMA SameNotice ==
    ASSUME Typed, NEW k \in Keys, NEW w \in WaiterRecord,
           w.client = waiters[k].client, w.notice = waiters[k].notice,
           waiters' = [waiters EXCEPT ![k] = w]
    PROVE  /\ waiters' \in [Keys -> WaiterRecord]
           /\ \A j \in Keys : waiters'[j].client = "parked" => waiters'[j].notice = "parked"
<1>1. w.client = "parked" => w.notice = "parked"
  BY DEF Typed
<1> QED
  BY <1>1, OneWaiter

LEMMA QueueTyped ==
    ASSUME Typed, NEW k \in Keys, NEW final \in BOOLEAN, NEW due \in BOOLEAN,
           QueueInboxAt(k, final, due)
    PROVE  inbox' \in [Msgs -> MessageRecord]
<1> DEFINE new == [to |-> k, final |-> final, due |-> due, outcome |-> "queued"]
<1>1. new \in MessageRecord
  BY DEF MessageRecord
<1>2. inbox' = [inbox EXCEPT ![NextMsg] = new]
  BY DEF QueueInboxAt
<1> HIDE DEF new
<1> QED
  BY <1>1, <1>2 DEF Typed

\* Acknowledged deliveries are accepted, and a final among them resolves the ask.
LEMMA AckTyped ==
    ASSUME Typed, NEW k \in Keys, NEW acks, AckInbox(k, acks)
    PROVE  /\ inbox' \in [Msgs -> MessageRecord]
           /\ waiters' \in [Keys -> WaiterRecord]
           /\ \A j \in Keys : waiters'[j].client = "parked" => waiters'[j].notice = "parked"
<1>1. inbox' \in [Msgs -> MessageRecord]
  BY DEF AckInbox, Typed, MessageRecord
<1>2. PICK ask \in {"none", "unsent", "open", "resolved", "cancelled"} :
         waiters' = [waiters EXCEPT ![k] = [waiters[k] EXCEPT !.ask = ask]]
  BY DEF AckInbox, Typed, WaiterRecord
<1>3. /\ [waiters[k] EXCEPT !.ask = ask] \in WaiterRecord
      /\ [waiters[k] EXCEPT !.ask = ask].client = waiters[k].client
      /\ [waiters[k] EXCEPT !.ask = ask].notice = waiters[k].notice
  BY DEF Typed, WaiterRecord
<1> QED
  BY <1>1, <1>2, <1>3, SameNotice

\* A turn of the poll loop leaves a session of the waiter, or none.
LEMMA PumpFacts ==
    ASSUME Typed, NEW k \in Keys, Pump(k)
    PROVE  /\ \E c : /\ IsSession(c) /\ conn' = [conn EXCEPT ![k] = c]
                     /\ c.open => conn[k].open
           /\ \/ UNCHANGED <<waiters, inbox>>
              \/ \E acks : AckInbox(k, acks)
<1> DEFINE flushed == Flush(conn[k])
           offered == Flush(OfferQueued(k, flushed))
           read == [offered EXCEPT !.acks = {}]
<1>1. IsSession(conn[k]) /\ conn[k].open
  BY DEF Typed, Sessions, IsSession, Pump
<1>2. IsSession(flushed) /\ IsSession(offered)
  BY <1>1, FlushFacts, OfferFacts
<1>3. IsSession(read)
  BY <1>2, HostFacts
<1>4. IsSession(NoSession) /\ ~NoSession.open
  BY NoSessionFacts
<1>5. \E c \in {flushed, offered, read, NoSession} : conn' = [conn EXCEPT ![k] = c]
  <2>1. CASE conn[k].closed
    BY <2>1 DEF Pump, SetConn
  <2>2. CASE ~conn[k].closed
    BY <2>2 DEF Pump, SetConn
  <2> QED
    BY <2>1, <2>2
<1>6. UNCHANGED <<waiters, inbox>> \/ \E acks : AckInbox(k, acks)
  BY DEF Pump
<1> HIDE DEF flushed, offered, read
<1> QED
  BY <1>1, <1>2, <1>3, <1>4, <1>5, <1>6

\* Ending waiters parks their clients only on notices that are parked.
LEMMA EndTyped ==
    ASSUME Typed, NEW gone \in SUBSET Keys, NEW how \in {"retired", "lost"},
           NEW notice \in [gone -> {"none", "parked", "recorded"}],
           NEW client \in {"none", "parked", "answered"},
           client = "parked" => \A k \in gone : notice[k] = "parked",
           EndWaiters(gone, how, notice, client)
    PROVE  /\ inbox' \in [Msgs -> MessageRecord]
           /\ waiters' \in [Keys -> WaiterRecord]
           /\ \A j \in Keys : waiters'[j].client = "parked" => waiters'[j].notice = "parked"
<1>1. inbox' \in [Msgs -> MessageRecord]
  <2>1. \A m \in Msgs : [inbox[m] EXCEPT !.outcome = "unavailable"] \in MessageRecord
    BY DEF Typed, MessageRecord
  <2> QED
    BY <2>1 DEF EndWaiters, Typed
<1>2. waiters' \in [Keys -> WaiterRecord]
  <2>1. ASSUME NEW j \in gone PROVE waiters'[j] \in WaiterRecord
    <3>1. waiters[j] \in WaiterRecord /\ j \in Keys
      BY DEF Typed
    <3>2. notice[j] \in {"none", "parked", "recorded"}
      OBVIOUS
    <3>3. waiters'[j] = [waiters[j] EXCEPT !.state = how, !.notice = notice[j], !.client = client,
                            !.ask = IF Unresolved(j) THEN "cancelled" ELSE waiters[j].ask]
      BY <3>1 DEF EndWaiters, WaiterRecord
    <3> QED
      BY <3>1, <3>2, <3>3 DEF WaiterRecord
  <2>2. ASSUME NEW j \in Keys \ gone PROVE waiters'[j] \in WaiterRecord
    BY DEF EndWaiters, Typed
  <2>3. waiters' = [j \in Keys |-> waiters'[j]]
    BY DEF EndWaiters
  <2> QED
    BY <2>1, <2>2, <2>3
<1>3. ASSUME NEW j \in Keys, waiters'[j].client = "parked" PROVE waiters'[j].notice = "parked"
  <2>1. CASE j \in gone
    <3>1. waiters'[j].client = client /\ waiters'[j].notice = notice[j]
      BY <2>1 DEF EndWaiters, Typed, WaiterRecord
    <3> QED
      BY <1>3, <2>1, <3>1
  <2>2. CASE j \notin gone
    BY <1>3, <2>2 DEF EndWaiters, Typed
  <2> QED
    BY <2>1, <2>2
<1> QED
  BY <1>1, <1>2, <1>3

LEMMA RetireTyped ==
    ASSUME Typed, NEW k \in Keys, RetireWaiter(k)
    PROVE  Typed'
<1>1. PICK notice \in [{k} -> {"none", "parked", "recorded"}] :
         EndWaiters({k}, "retired", notice, ParkWaiterRetire(notice))
  BY DEF RetireWaiter, PrepareRetire
<1>2. ParkWaiterRetire(notice) = "parked" => \A j \in {k} : notice[j] = "parked"
  BY DEF ParkWaiterRetire
<1>3. ParkWaiterRetire(notice) \in {"none", "parked", "answered"}
  BY DEF ParkWaiterRetire
<1>4. /\ inbox' \in [Msgs -> MessageRecord] /\ waiters' \in [Keys -> WaiterRecord]
      /\ \A j \in Keys : waiters'[j].client = "parked" => waiters'[j].notice = "parked"
  BY <1>1, <1>2, <1>3, EndTyped
<1> QED
  BY <1>4 DEF Typed, Sessions, RetireWaiter

LEMMA ReceivingTyped == Typed /\ PullTyped /\ Receiving => Typed' /\ PullTyped'
<1> SUFFICES ASSUME Typed, PullTyped, Receiving PROVE Typed' /\ PullTyped'
  OBVIOUS
<1>1. UNCHANGED <<agents, daemon, pull, readers>> => PullTyped'
  BY DEF PullTyped
<1>2. UNCHANGED <<agents, daemon, pull, readers>>
  BY DEF Receiving, Ask, AskIsTyped, ClaimInbox, Pump, RetireWaiter, HostReads, HostAcks,
     HostCloses, TellWaiter, ReplyToWaiter, NoteWaiterRetireNotice, RetireWaiterByName, BecomesDue
<1>3. ASSUME NEW k \in Keys, Ask(k) \/ AskIsTyped(k) PROVE Typed'
  <2>1. UNCHANGED <<inbox, conn, absent>>
    BY <1>3 DEF Ask, AskIsTyped
  <2>2. PICK ask \in {"unsent", "open"} :
           waiters' = [waiters EXCEPT ![k] = [waiters[k] EXCEPT !.ask = ask]]
    BY <1>3 DEF Ask, AskIsTyped, Typed
  <2>3. /\ [waiters[k] EXCEPT !.ask = ask] \in WaiterRecord
        /\ [waiters[k] EXCEPT !.ask = ask].client = waiters[k].client
        /\ [waiters[k] EXCEPT !.ask = ask].notice = waiters[k].notice
    BY DEF Typed, WaiterRecord
  <2>4. /\ waiters' \in [Keys -> WaiterRecord]
        /\ \A j \in Keys : waiters'[j].client = "parked" => waiters'[j].notice = "parked"
    BY <2>2, <2>3, SameNotice
  <2> QED
    BY <1>2, <2>1, <2>4 DEF Typed, Sessions
<1>4. ASSUME NEW k \in Keys, ClaimInbox(k) PROVE Typed'
  <2>1. UNCHANGED inbox /\ absent' \in [Keys -> 0..Grace]
    BY <1>4, ConstantFacts DEF ClaimInbox, Typed
  <2>2. waiters' = [waiters EXCEPT ![k] = [waiters[k] EXCEPT !.seen = 0]]
    BY <1>4 DEF ClaimInbox, Typed
  <2>3. /\ [waiters[k] EXCEPT !.seen = 0] \in WaiterRecord
        /\ [waiters[k] EXCEPT !.seen = 0].client = waiters[k].client
        /\ [waiters[k] EXCEPT !.seen = 0].notice = waiters[k].notice
    BY ConstantFacts DEF Typed, WaiterRecord, Never
  <2>4. /\ waiters' \in [Keys -> WaiterRecord]
        /\ \A j \in Keys : waiters'[j].client = "parked" => waiters'[j].notice = "parked"
    BY <2>2, <2>3, SameNotice
  <2>5. Sessions'
    BY <1>4, OneSession, NoSessionFacts DEF ClaimInbox
  <2> QED
    BY <1>2, <2>1, <2>4, <2>5 DEF Typed
<1>5. ASSUME NEW k \in Keys, Pump(k) PROVE Typed'
  <2>1. Sessions'
    BY <1>5, PumpFacts, OneSession
  <2>2. absent' \in [Keys -> 0..Grace]
    BY <1>5, ConstantFacts DEF Pump, Typed
  <2>3. CASE UNCHANGED <<waiters, inbox>>
    BY <1>2, <2>1, <2>2, <2>3 DEF Typed
  <2>4. ASSUME NEW acks, AckInbox(k, acks) PROVE Typed'
    BY <1>2, <2>1, <2>2, <2>4, AckTyped DEF Typed
  <2> QED
    BY <1>5, <2>3, <2>4, PumpFacts
<1>6. ASSUME NEW k \in Keys, RetireWaiter(k) PROVE Typed'
  BY <1>6, RetireTyped
<1>7. ASSUME NEW k \in Keys, HostReads(k) \/ HostAcks(k) \/ HostCloses(k) PROVE Typed'
  <2>1. UNCHANGED <<waiters, inbox, absent>>
    BY <1>7 DEF HostReads, HostAcks, HostCloses
  <2>2. IsSession(conn[k])
    BY DEF Typed, Sessions, IsSession
  <2>3. \E c : IsSession(c) /\ conn' = [conn EXCEPT ![k] = c]
    <3>1. CASE HostReads(k)
      BY <2>2, <3>1, HostFacts DEF HostReads, Typed, Sessions
    <3>2. CASE HostAcks(k)
      BY <2>2, <3>2, HostFacts DEF HostAcks, Typed, Sessions
    <3>3. CASE HostCloses(k)
      BY <2>2, <3>3, HostFacts DEF HostCloses, Typed, Sessions
    <3> QED
      BY <1>7, <3>1, <3>2, <3>3
  <2> QED
    BY <1>2, <2>1, <2>3, OneSession DEF Typed
<1>8. ASSUME NEW k \in Keys,
             \/ \E due \in BOOLEAN : TellWaiter(k, due)
             \/ \E final \in BOOLEAN : ReplyToWaiter(k, final)
      PROVE  Typed'
  <2>1. UNCHANGED <<waiters, conn, absent>>
    BY <1>8 DEF TellWaiter, ReplyToWaiter
  <2>2. inbox' \in [Msgs -> MessageRecord]
    BY <1>8, QueueTyped DEF TellWaiter, ReplyToWaiter
  <2> QED
    BY <1>2, <2>1, <2>2 DEF Typed, Sessions
<1>9. ASSUME NEW k \in Keys, NEW how \in {"recorded", "delivered"}, NoteWaiterRetireNotice(k, how)
      PROVE  Typed'
  <2>1. UNCHANGED <<inbox, conn, absent>>
    BY <1>9 DEF NoteWaiterRetireNotice
  <2>2. PICK client \in {"none", "answered"} :
           waiters' = [waiters EXCEPT ![k] = [waiters[k] EXCEPT !.notice = how, !.client = client]]
    <3>1. waiters[k].client \in {"none", "parked", "answered"}
      BY DEF Typed, WaiterRecord
    <3> DEFINE client == IF waiters[k].client = "parked" THEN "answered" ELSE waiters[k].client
    <3>2. client \in {"none", "answered"}
      BY <3>1
    <3>3. waiters' = [waiters EXCEPT ![k] = [waiters[k] EXCEPT !.notice = how, !.client = client]]
      BY <1>9 DEF NoteWaiterRetireNotice, Typed, WaiterRecord
    <3> QED
      BY <3>2, <3>3
  <2>3. /\ [waiters[k] EXCEPT !.notice = how, !.client = client] \in WaiterRecord
        /\ [waiters[k] EXCEPT !.notice = how, !.client = client].client # "parked"
    BY DEF Typed, WaiterRecord
  <2>4. /\ waiters' \in [Keys -> WaiterRecord]
        /\ \A j \in Keys : waiters'[j].client = "parked" => waiters'[j].notice = "parked"
    BY <2>2, <2>3, OneWaiter
  <2> QED
    BY <1>2, <2>1, <2>4 DEF Typed, Sessions
<1>10. ASSUME NEW m \in Msgs, BecomesDue(m) PROVE Typed'
  BY <1>10 DEF BecomesDue, Typed, Sessions, MessageRecord
<1> QED
  BY <1>1, <1>2, <1>3, <1>4, <1>5, <1>6, <1>7, <1>8, <1>9, <1>10
     DEF Receiving, RetireWaiterByName, ResolveWaiterRetireTarget

LEMMA DeliverTyped ==
    ASSUME PullTyped, NEW r \in Readers, Deliver(r), UNCHANGED pull
    PROVE  PullTyped'
<1> DEFINE new == EventsAfter(r)
<1>1. /\ Len(pull.events) \in Nat /\ DOMAIN pull.events = 1..Len(pull.events)
  BY DEF PullTyped, PullRecord
<1>2. new \subseteq DOMAIN pull.events /\ new \subseteq Nat
  BY <1>1 DEF EventsAfter
<1>3. readers[r] \in ReaderRecord /\ readers[r].read \subseteq DOMAIN pull.events
      /\ readers[r].lease \in 0..pull.leases /\ readers[r].cursor \in 0..Len(pull.events)
  BY DEF PullTyped
<1>6. readers \in [Readers -> ReaderRecord]
  BY DEF PullTyped
<1> HIDE DEF new
<1>4. PICK cursor \in 0..Len(pull.events) :
         readers' = [readers EXCEPT ![r] = [readers[r] EXCEPT !.read = readers[r].read \cup new,
                                               !.cursor = cursor, !.waiting = FALSE]]
  <2> DEFINE cursor == IF new = {} THEN readers[r].cursor ELSE Len(pull.events)
  <2>1. cursor \in 0..Len(pull.events)
    BY <1>1, <1>3
  <2>2. readers' = [readers EXCEPT ![r] = [readers[r] EXCEPT !.read = readers[r].read \cup new,
                                               !.cursor = cursor, !.waiting = FALSE]]
    BY <1>3, <1>6 DEF Deliver, new, ReaderRecord
  <2> QED
    BY <2>1, <2>2
<1> DEFINE d == [readers[r] EXCEPT !.read = readers[r].read \cup new,
                                   !.cursor = cursor, !.waiting = FALSE]
<1>5. /\ d.lease = readers[r].lease /\ d.cursor = cursor
      /\ d.read = readers[r].read \cup new
  BY <1>3 DEF ReaderRecord
<1>7. cursor \in Nat /\ readers[r].read \cup new \in SUBSET Nat
  BY <1>1, <1>2, <1>3
<1>8. d \in ReaderRecord
  BY <1>3, <1>7 DEF ReaderRecord
<1> HIDE DEF d
<1> QED
  BY <1>2, <1>3, <1>4, <1>5, <1>6, <1>8 DEF PullTyped, d

\* A reader never has a lease or a position beyond those that were given out.
LEMMA PullingTyped == Typed /\ PullTyped /\ Pulling => Typed' /\ PullTyped'
<1> SUFFICES ASSUME Typed, PullTyped, Pulling PROVE Typed' /\ PullTyped'
  OBVIOUS
<1>1. UNCHANGED <<waiters, agents, inbox, conn, daemon, absent>>
  BY DEF Pulling, AdvanceRepliesWaits, CompleteWait, PullReply, ClaimLease, Poll, AckPull
<1>2. Typed'
  BY <1>1 DEF Typed, Sessions
<1>3. /\ pull.events \in Seq(EventRecord) /\ Len(pull.events) \in Nat
      /\ DOMAIN pull.events = 1..Len(pull.events) /\ pull.leases \in Nat
      /\ pull \in PullRecord /\ pull.ask \in {"open", "resolved", "cancelled"}
  BY DEF PullTyped, PullRecord
<1>4. ASSUME NEW kind \in {"progress", "final", "notice"}, PullReply(kind) PROVE PullTyped'
  <2> DEFINE event == [kind |-> kind, outcome |-> "queued"]
  <2>1. event \in EventRecord
    BY DEF EventRecord
  <2> HIDE DEF event
  <2>2. /\ Append(pull.events, event) \in Seq(EventRecord)
        /\ Len(Append(pull.events, event)) = Len(pull.events) + 1
        /\ DOMAIN Append(pull.events, event) = 1..(Len(pull.events) + 1)
    BY <1>3, <2>1
  <2>3. /\ pull' \in PullRecord /\ pull'.events = Append(pull.events, event)
        /\ pull'.leases = pull.leases
    BY <1>3, <1>4, <2>2 DEF PullReply, QueueAskPullDelivery, event, PullRecord
  <2>4. UNCHANGED readers
    BY <1>4 DEF PullReply
  <2> QED
    BY <1>3, <2>2, <2>3, <2>4 DEF PullTyped
<1>5. ASSUME NEW r \in Readers, ClaimLease(r) PROVE PullTyped'
  <2>1. /\ pull' \in PullRecord /\ pull'.leases = pull.leases + 1
        /\ pull'.events = pull.events
    BY <1>3, <1>5 DEF ClaimLease, PullRecord
  <2>2. readers' = [readers EXCEPT ![r] = [readers[r] EXCEPT !.lease = pull.leases + 1,
                                                             !.cursor = 0]]
    BY <1>5 DEF ClaimLease, PullTyped
  <2>3. readers[r] \in ReaderRecord /\ pull.leases + 1 \in Nat
    BY <1>3 DEF PullTyped
  <2> DEFINE d == [readers[r] EXCEPT !.lease = pull.leases + 1, !.cursor = 0]
  <2>4. d.lease = pull.leases + 1 /\ d.cursor = 0 /\ d.read = readers[r].read
    BY <2>3 DEF ReaderRecord
  <2>5. d \in ReaderRecord
    BY <2>3 DEF ReaderRecord
  <2> HIDE DEF d
  <2>6. /\ readers' \in [Readers -> ReaderRecord]
        /\ \A o \in Readers : readers'[o] = IF o = r THEN d ELSE readers[o]
    BY <2>2, <2>5 DEF PullTyped, d
  <2> QED
    BY <1>3, <2>1, <2>4, <2>6 DEF PullTyped
<1>6. ASSUME NEW r \in Readers, NEW b \in BOOLEAN, UNCHANGED pull,
             readers' = [readers EXCEPT ![r].waiting = b]
      PROVE  PullTyped'
  <2>1. readers' = [readers EXCEPT ![r] = [readers[r] EXCEPT !.waiting = b]]
    BY <1>6 DEF PullTyped
  <2>2. LET d == [readers[r] EXCEPT !.waiting = b]
        IN  /\ d \in ReaderRecord /\ d.lease = readers[r].lease
            /\ d.cursor = readers[r].cursor /\ d.read = readers[r].read
    BY DEF PullTyped, ReaderRecord
  <2> QED
    BY <1>6, <2>1, <2>2 DEF PullTyped
<1>7. ASSUME NEW r \in Readers, Poll(r) \/ CompleteWait(r) PROVE PullTyped'
  BY <1>6, <1>7, DeliverTyped DEF Poll, CompleteWait
<1>8. ASSUME NEW r \in Readers, NEW e \in DOMAIN pull.events, AckPull(r, e) PROVE PullTyped'
  <2> DEFINE event == [pull.events[e] EXCEPT !.outcome = "accepted"]
  <2>1. event \in EventRecord
    <3>1. pull.events[e] \in EventRecord
      BY <1>3, ElementOfSeq
    <3> QED
      BY <3>1 DEF EventRecord
  <2> HIDE DEF event
  <2>2. /\ [pull.events EXCEPT ![e] = event] \in Seq(EventRecord)
        /\ Len([pull.events EXCEPT ![e] = event]) = Len(pull.events)
        /\ DOMAIN [pull.events EXCEPT ![e] = event] = DOMAIN pull.events
    BY <1>3, <2>1, ExceptSeq
  <2>3. ResolveByPulledFinal(e) \in {"open", "resolved", "cancelled"}
    BY <1>3 DEF ResolveByPulledFinal
  <2>4. /\ pull' \in PullRecord /\ pull'.events = [pull.events EXCEPT ![e] = event]
        /\ pull'.leases = pull.leases
    BY <1>3, <1>8, <2>2, <2>3 DEF AckPull, event, PullRecord
  <2>5. UNCHANGED readers
    BY <1>8 DEF AckPull
  <2> QED
    BY <1>3, <2>2, <2>4, <2>5 DEF PullTyped
<1> QED
  BY <1>2, <1>4, <1>5, <1>7, <1>8 DEF Pulling, AdvanceRepliesWaits

\* The clock, the sweep, and what a crash and a boot make of the waiters.
LEMMA DaemonTyped ==
    ASSUME Typed, PullTyped, Tick \/ SweepBegins \/ SweepFails \/ SweepAbsent \/ Crash \/ Restart
    PROVE  Typed' /\ PullTyped'
<1>1. UNCHANGED <<agents, pull>> /\ daemon' \in DaemonRecord
  <2>1. UNCHANGED <<agents, pull>>
    BY DEF Tick, SweepBegins, SweepFails, SweepAbsent, Crash, Restart
  <2>2. daemon \in DaemonRecord /\ daemon.up \in BOOLEAN
    BY DEF Typed, DaemonRecord
  <2>3. CASE Tick
    BY <2>2, <2>3 DEF Tick, DaemonRecord
  <2>4. CASE SweepBegins
    BY <2>2, <2>4 DEF SweepBegins, DaemonRecord
  <2>5. CASE SweepFails \/ SweepAbsent
    BY <2>2, <2>5 DEF SweepFails, SweepAbsent, DaemonRecord
  <2>6. CASE Crash
    BY <2>6 DEF Crash, DaemonRecord
  <2>7. CASE Restart
    BY <2>2, <2>7 DEF Restart, DaemonRecord
  <2> QED
    BY <2>1, <2>3, <2>4, <2>5, <2>6, <2>7
<1>2. PullTyped'
  <2>1. CASE ~Crash
    BY <2>1, <1>1 DEF Tick, SweepBegins, SweepFails, SweepAbsent, Restart, PullTyped
  <2>2. CASE Crash
    <3>1. \A r \in Readers :
             LET d == [readers[r] EXCEPT !.waiting = FALSE]
             IN  /\ d \in ReaderRecord /\ d.lease = readers[r].lease
                 /\ d.cursor = readers[r].cursor /\ d.read = readers[r].read
      BY DEF PullTyped, ReaderRecord
    <3>2. readers' = [r \in Readers |-> [readers[r] EXCEPT !.waiting = FALSE]]
      BY <2>2 DEF Crash
    <3> QED
      BY <1>1, <3>1, <3>2 DEF PullTyped
  <2> QED
    BY <2>1, <2>2
<1>3. Sessions'
  <2>1. CASE Crash
    BY <2>1, NoSessionFacts DEF Crash, Sessions, IsSession
  <2>2. CASE ~Crash
    BY <2>2 DEF Tick, SweepBegins, SweepFails, SweepAbsent, Restart, Typed, Sessions
  <2> QED
    BY <2>1, <2>2
<1>4. absent' \in [Keys -> 0..Grace]
  <2>1. CASE Tick
    <3>1. \A t \in 0..Grace : t # Grace => t + 1 \in 0..Grace
      BY ConstantFacts
    <3>2. absent \in [Keys -> 0..Grace]
      BY DEF Typed
    <3> QED
      BY <2>1, <3>1, <3>2 DEF Tick
  <2>2. CASE Restart
    BY <2>2, ConstantFacts DEF Restart
  <2>3. CASE SweepBegins \/ SweepFails \/ SweepAbsent \/ Crash
    BY <2>3 DEF SweepBegins, SweepFails, SweepAbsent, Crash, Typed
  <2> QED
    BY <2>1, <2>2, <2>3
<1>5. \A k \in Keys, t \in Never..Grace :
         LET w == [waiters[k] EXCEPT !.seen = t]
         IN  w \in WaiterRecord /\ w.client = waiters[k].client /\ w.notice = waiters[k].notice
  BY DEF Typed, WaiterRecord
<1>6. CASE Tick \/ SweepBegins \/ SweepFails \/ Restart
  <2>1. \A k \in Keys : waiters[k].seen \in Never..Grace
    BY DEF Typed, WaiterRecord
  <2>2. 0 \in Never..Grace /\ \A t \in 0..(Grace - 1) : t + 1 \in Never..Grace
    BY ConstantFacts DEF Never
  <2>3. /\ waiters' \in [Keys -> WaiterRecord]
        /\ \A k \in Keys : /\ waiters'[k].client = waiters[k].client
                           /\ waiters'[k].notice = waiters[k].notice
    <3>1. CASE Tick
      <4>1. waiters' = [k \in Keys |-> IF waiters[k].seen \in 0..(Grace - 1)
                          THEN [waiters[k] EXCEPT !.seen = waiters[k].seen + 1] ELSE waiters[k]]
        BY <3>1 DEF Tick, Typed, WaiterRecord
      <4> QED
        BY <1>5, <2>1, <2>2, <4>1 DEF Typed
    <3>2. CASE TouchSessions
      BY <1>5, <2>2, <3>2 DEF TouchSessions, Typed
    <3>4. CASE UNCHANGED waiters
      BY <3>4 DEF Typed
    <3>5. SweepBegins \/ SweepFails => TouchSessions \/ UNCHANGED waiters
      BY DEF SweepBegins, SweepFails
    <3>3. CASE Restart
      BY <1>5, <2>2, <3>3 DEF Restart, BootResetWaiterSeen, Typed
    <3> QED
      BY <1>6, <3>1, <3>2, <3>3, <3>4, <3>5
  <2>4. UNCHANGED inbox
    BY <1>6 DEF Tick, SweepBegins, SweepFails, Restart
  <2> QED
    BY <1>1, <1>2, <1>3, <1>4, <2>3, <2>4 DEF Typed
<1>7. CASE SweepAbsent
  <2>1. PICK notice \in [Expired -> {"none", "parked", "recorded"}] :
           EndWaiters(Expired, "lost", notice, "none")
    BY <1>7 DEF SweepAbsent, SweepAbsentAsks, PrepareRetire
  <2>2. Expired \in SUBSET Keys
    BY DEF Expired
  <2>3. /\ inbox' \in [Msgs -> MessageRecord] /\ waiters' \in [Keys -> WaiterRecord]
        /\ \A j \in Keys : waiters'[j].client = "parked" => waiters'[j].notice = "parked"
    BY <2>1, <2>2, EndTyped
  <2> QED
    BY <1>1, <1>2, <1>3, <1>4, <2>3 DEF Typed
<1>8. CASE Crash
  <2>1. \A k \in Keys : waiters'[k] \in WaiterRecord /\ waiters'[k].client # "parked"
    <3> TAKE k \in Keys
    <3>1. waiters[k] \in WaiterRecord
      BY DEF Typed
    <3>2. waiters'[k] = [waiters[k] EXCEPT
             !.notice = IF waiters[k].notice = "parked" THEN "recorded" ELSE waiters[k].notice,
             !.client = IF waiters[k].client = "parked" THEN "none" ELSE waiters[k].client]
      BY <1>8, <3>1 DEF Crash, WaiterRecord
    <3> QED
      BY <3>1, <3>2 DEF WaiterRecord
  <2>2. waiters' = [k \in Keys |-> waiters'[k]] /\ UNCHANGED inbox
    BY <1>8 DEF Crash
  <2> QED
    BY <1>1, <1>2, <1>3, <1>4, <2>1, <2>2 DEF Typed
<1> QED
  BY <1>6, <1>7, <1>8

LEMMA NextTyped == Typed /\ PullTyped /\ [Next]_vars => Typed' /\ PullTyped'
<1>1. Typed /\ PullTyped /\ UNCHANGED vars => Typed' /\ PullTyped'
  BY DEF Typed, PullTyped, Sessions, vars
<1> QED
  BY <1>1, NamingTyped, ReceivingTyped, PullingTyped, DaemonTyped DEF Next

LEMMA InitTyped == Init => Typed /\ PullTyped
<1> SUFFICES ASSUME Init PROVE Typed /\ PullTyped
  OBVIOUS
<1>1. Never \in Never..Grace /\ 0 \in 0..Grace /\ FirstName \in Names /\ FirstKey \in Keys
  BY InboxAssumption DEF Never
<1>2. \A k \in Keys : waiters[k] \in WaiterRecord /\ waiters[k].client = "none"
  BY <1>1 DEF Init, WaiterRecord
<1>3. waiters \in [Keys -> WaiterRecord]
  BY <1>2 DEF Init
<1>4. agents \in [Agents -> AgentRecord] /\ inbox \in [Msgs -> MessageRecord]
  BY <1>1 DEF Init, AgentRecord, MessageRecord
<1>5. Sessions
  BY NoSessionFacts DEF Init, Sessions, IsSession
<1>6. daemon \in DaemonRecord /\ absent \in [Keys -> 0..Grace]
  BY <1>1 DEF Init, DaemonRecord
<1>7. PullTyped
  <2>1. <<>> \in Seq(EventRecord) /\ Len(<<>>) = 0
    OBVIOUS
  <2> QED
    BY <2>1 DEF Init, PullTyped, PullRecord, ReaderRecord, NewReader
<1> QED
  BY <1>2, <1>3, <1>4, <1>5, <1>6, <1>7 DEF Typed
-----------------------------------------------------------------------------
(* How a step changes a waiter.                                             *)

\* It keeps its name and its clock, and its state too unless it ends.
Keeps(k, how) ==
    /\ waiters'[k].name = waiters[k].name /\ waiters'[k].seen = waiters[k].seen
    /\ \/ waiters'[k].state = waiters[k].state
       \/ Active(k) /\ waiters'[k].state = how

LEMMA EndKeeps ==
    ASSUME Typed, NEW gone \in SUBSET Keys, NEW how, NEW notice, NEW client,
           EndWaiters(gone, how, notice, client), \A k \in gone : Active(k)
    PROVE  \A k \in Keys : /\ Keeps(k, how)
                           /\ k \notin gone => waiters'[k].state = waiters[k].state
<1> TAKE k \in Keys
<1>1. waiters[k] \in WaiterRecord
  BY DEF Typed
<1>2. CASE k \in gone
  <2>1. /\ waiters'[k].name = waiters[k].name /\ waiters'[k].seen = waiters[k].seen
        /\ waiters'[k].state = how
    BY <1>1, <1>2 DEF EndWaiters, WaiterRecord
  <2> QED
    BY <1>2, <2>1 DEF Keeps
<1>3. CASE k \notin gone
  BY <1>3 DEF EndWaiters, Keeps
<1> QED
  BY <1>2, <1>3

LEMMA AckKeeps ==
    ASSUME Typed, NEW k \in Keys, NEW acks, AckInbox(k, acks)
    PROVE  \A j \in Keys : Keeps(j, "retired")
<1>1. PICK ask : waiters' = [waiters EXCEPT ![k] = [waiters[k] EXCEPT !.ask = ask]]
  BY DEF AckInbox, Typed, WaiterRecord
<1>2. /\ [waiters[k] EXCEPT !.ask = ask].name = waiters[k].name
      /\ [waiters[k] EXCEPT !.ask = ask].seen = waiters[k].seen
      /\ [waiters[k] EXCEPT !.ask = ask].state = waiters[k].state
  BY DEF Typed, WaiterRecord
<1> QED
  BY <1>1, <1>2 DEF Keeps, Typed

\* What the recipients do ends a waiter only on request, and moves its clock only when
\* the waiter claims its inbox.
LEMMA ReceivingKeeps ==
    ASSUME Typed, Receiving, NEW j \in Keys, ~ClaimInbox(j)
    PROVE  Keeps(j, "retired")
<1>1. UNCHANGED waiters => Keeps(j, "retired")
  BY DEF Keeps
<1>2. ASSUME NEW k \in Keys, Ask(k) \/ AskIsTyped(k) PROVE Keeps(j, "retired")
  <2>1. PICK ask : waiters' = [waiters EXCEPT ![k] = [waiters[k] EXCEPT !.ask = ask]]
    BY <1>2 DEF Ask, AskIsTyped, Typed, WaiterRecord
  <2> QED
    BY <2>1 DEF Keeps, Typed, WaiterRecord
<1>3. ASSUME NEW k \in Keys, ClaimInbox(k) PROVE Keeps(j, "retired")
  <2>1. j # k
    BY <1>3
  <2> QED
    BY <1>3, <2>1 DEF ClaimInbox, Keeps, Typed
<1>4. ASSUME NEW k \in Keys, Pump(k) PROVE Keeps(j, "retired")
  BY <1>1, <1>4, PumpFacts, AckKeeps
<1>5. ASSUME NEW k \in Keys, RetireWaiter(k) PROVE Keeps(j, "retired")
  <2>1. PICK notice \in [{k} -> {"none", "parked", "recorded"}] :
           EndWaiters({k}, "retired", notice, ParkWaiterRetire(notice))
    BY <1>5 DEF RetireWaiter, PrepareRetire
  <2>2. Active(k)
    BY <1>5 DEF RetireWaiter
  <2> QED
    BY <2>1, <2>2, EndKeeps
<1>6. ASSUME NEW k \in Keys, HostReads(k) \/ HostAcks(k) \/ HostCloses(k)
      PROVE  Keeps(j, "retired")
  BY <1>1, <1>6 DEF HostReads, HostAcks, HostCloses
<1>7. ASSUME NEW k \in Keys,
             \/ \E due \in BOOLEAN : TellWaiter(k, due)
             \/ \E final \in BOOLEAN : ReplyToWaiter(k, final)
      PROVE  Keeps(j, "retired")
  BY <1>1, <1>7 DEF TellWaiter, ReplyToWaiter
<1>8. ASSUME NEW k \in Keys, NEW how \in {"recorded", "delivered"}, NoteWaiterRetireNotice(k, how)
      PROVE  Keeps(j, "retired")
  <2>1. PICK client :
           waiters' = [waiters EXCEPT ![k] = [waiters[k] EXCEPT !.notice = how, !.client = client]]
    BY <1>8 DEF NoteWaiterRetireNotice, Typed, WaiterRecord
  <2> QED
    BY <2>1 DEF Keeps, Typed, WaiterRecord
<1>9. ASSUME NEW m \in Msgs, BecomesDue(m) PROVE Keeps(j, "retired")
  BY <1>1, <1>9 DEF BecomesDue
<1> QED
  BY <1>2, <1>3, <1>4, <1>5, <1>6, <1>7, <1>8, <1>9
     DEF Receiving, RetireWaiterByName, ResolveWaiterRetireTarget

LEMMA SweepKeeps ==
    ASSUME Typed, SweepAbsent
    PROVE  \A k \in Keys : /\ Keeps(k, "lost")
                           /\ k \notin Expired => waiters'[k].state = waiters[k].state
<1>1. PICK notice \in [Expired -> {"none", "parked", "recorded"}] :
         EndWaiters(Expired, "lost", notice, "none")
  BY DEF SweepAbsent, SweepAbsentAsks, PrepareRetire
<1>2. Expired \in SUBSET Keys /\ \A k \in Expired : Active(k)
  BY DEF Expired
<1> QED
  BY <1>1, <1>2, EndKeeps

-----------------------------------------------------------------------------
(* Names.                                                                   *)

\* A step that leaves agents alone and gives no waiter a name keeps names exclusive.
LEMMA NamesAgreeFrame ==
    ASSUME NamesAgree, UNCHANGED agents,
           \A k \in Keys : /\ waiters'[k].name = waiters[k].name
                           /\ waiters'[k].state = "active" => Active(k)
    PROVE  NamesAgree'
  BY DEF NamesAgree, WaiterNameExclusive, Active

\* A change to one agent keeps names exclusive when no active waiter has the names it
\* then goes by.
LEMMA NamesAgreeAgent ==
    ASSUME Typed, NamesAgree, UNCHANGED waiters, NEW a \in Agents, NEW i,
           agents' = [agents EXCEPT ![a] = i],
           i.state \notin {"ready", "retiring"} => i.renaming = NoName,
           i.state = "ready" => \A k \in Keys :
                                   Active(k) => waiters[k].name \notin {i.name, i.renaming}
    PROVE  NamesAgree'
<1>1. \A b \in Agents : agents'[b] = IF b = a THEN i ELSE agents[b]
  BY DEF Typed
<1>2. \A k \in Keys : Active(k)' <=> Active(k)
  BY DEF Active
<1> QED
  BY <1>1, <1>2 DEF NamesAgree, WaiterNameExclusive

LEMMA NamingAgrees == Typed /\ NamesAgree /\ Naming => NamesAgree'
<1> SUFFICES ASSUME Typed, NamesAgree, Naming PROVE NamesAgree'
  OBVIOUS
<1>1. \A k \in Keys : Active(k) => waiters[k].name # NoName
  BY ConstantFacts DEF NamesAgree
<1>2. agents \in [Agents -> AgentRecord]
  BY DEF Typed
<1>3. ASSUME NEW k \in Keys, NEW n \in Names, RegisterWaiter(k, n) PROVE NamesAgree'
  <2> DEFINE w == [waiters[k] EXCEPT !.state = "active", !.name = n]
  <2>1. w.state = "active" /\ w.name = n
    BY DEF Typed, WaiterRecord
  <2>2. waiters' = [waiters EXCEPT ![k] = w] /\ UNCHANGED agents
    BY <1>3 DEF RegisterWaiter, InsertLogicalAgent, Typed
  <2> HIDE DEF w
  <2>3. \A j \in Keys : waiters'[j] = IF j = k THEN w ELSE waiters[j]
    BY <2>2 DEF Typed
  <2>4. /\ \A j \in Keys : Active(j) => waiters[j].name # n
        /\ \A a \in Agents : agents[a].state = "ready" => n \notin {agents[a].name,
                                                                    agents[a].renaming}
    BY <1>3 DEF RegisterWaiter, HeldByWaiter, LiveOrPending
  <2> QED
    BY <2>1, <2>2, <2>3, <2>4 DEF NamesAgree, WaiterNameExclusive, Active
<1>4. ASSUME NEW a \in Agents, NEW n \in Names,
             \E how \in {"start", "adopt"} : Declare(a, n, how)
      PROVE  NamesAgree'
  BY <1>4, NamesAgreeAgent DEF Declare
<1>5. ASSUME NEW a \in Agents, NEW n \in Names, DeclareRename(a, n) PROVE NamesAgree'
  <2> DEFINE i == [agents[a] EXCEPT !.renaming = n]
  <2>1. /\ i.state = "ready" /\ i.name = agents[a].name /\ i.renaming = n
        /\ agents' = [agents EXCEPT ![a] = i] /\ UNCHANGED waiters
    BY <1>2, <1>5 DEF DeclareRename, AgentRecord
  <2>2. \A k \in Keys : Active(k) => waiters[k].name \notin {i.name, i.renaming}
    BY <1>5, <2>1 DEF DeclareRename, HeldByWaiter, NamesAgree, WaiterNameExclusive
  <2> HIDE DEF i
  <2> QED
    BY <2>1, <2>2, NamesAgreeAgent
<1>6. ASSUME NEW a \in Agents, BeginLaunch(a) \/ IncarnationEnds(a) \/ RequestRetirement(a)
      PROVE  NamesAgree'
  <2>1. agents[a] \in AgentRecord
    BY <1>2
  <2>2. CASE BeginLaunch(a)
    <3> DEFINE i == [agents[a] EXCEPT !.state = "starting"]
    <3>1. /\ i.state = "starting" /\ i.renaming = agents[a].renaming
          /\ agents' = [agents EXCEPT ![a] = i] /\ UNCHANGED waiters
      BY <1>2, <2>1, <2>2 DEF BeginLaunch, AgentRecord
    <3>2. agents[a].renaming = NoName
      BY <2>2 DEF BeginLaunch, NamesAgree
    <3> HIDE DEF i
    <3> QED
      BY <3>1, <3>2, NamesAgreeAgent
  <2>3. CASE IncarnationEnds(a)
    <3> DEFINE i == [agents[a] EXCEPT !.state = "gone", !.renaming = NoName]
    <3>1. /\ i.state = "gone" /\ i.renaming = NoName
          /\ agents' = [agents EXCEPT ![a] = i] /\ UNCHANGED waiters
      BY <1>2, <2>1, <2>3 DEF IncarnationEnds, AgentRecord
    <3> HIDE DEF i
    <3> QED
      BY <3>1, NamesAgreeAgent
  <2>4. CASE RequestRetirement(a)
    <3> DEFINE i == [agents[a] EXCEPT !.state = "retiring"]
    <3>1. /\ i.state = "retiring"
          /\ agents' = [agents EXCEPT ![a] = i] /\ UNCHANGED waiters
      BY <1>2, <2>1, <2>4 DEF RequestRetirement, AgentRecord
    <3> HIDE DEF i
    <3> QED
      BY <3>1, NamesAgreeAgent
  <2> QED
    BY <1>6, <2>2, <2>3, <2>4
<1>7. ASSUME NEW a \in Agents, AcceptStartReady(a) \/ AcceptAdoptReady(a) \/ ContinueOccupant(a)
      PROVE  NamesAgree'
  <2> DEFINE i == [agents[a] EXCEPT !.state = "ready"]
  <2>1. i.state = "ready" /\ i.name = agents[a].name /\ i.renaming = agents[a].renaming
    BY <1>2 DEF AgentRecord
  <2>2. /\ agents' = [agents EXCEPT ![a] = i] /\ UNCHANGED waiters
        /\ ~HeldByWaiter(agents[a].name) /\ agents[a].state \notin {"ready", "retiring"}
    BY <1>2, <1>7 DEF AcceptStartReady, AcceptAdoptReady, ContinueOccupant, BecomeReady
  <2>3. agents[a].renaming = NoName
    BY <2>2 DEF NamesAgree
  <2>4. \A k \in Keys : Active(k) => waiters[k].name \notin {i.name, i.renaming}
    BY <1>1, <2>1, <2>2, <2>3 DEF HeldByWaiter
  <2> HIDE DEF i
  <2> QED
    BY <2>1, <2>2, <2>4, NamesAgreeAgent
<1>8. ASSUME NEW a \in Agents, CommitRename(a) \/ RecoverRenamed(a) PROVE NamesAgree'
  <2> DEFINE i == [agents[a] EXCEPT !.name = agents[a].renaming, !.renaming = NoName]
  <2>1. i.state = agents[a].state /\ i.name = agents[a].renaming /\ i.renaming = NoName
    BY <1>2 DEF AgentRecord
  <2>2. agents' = [agents EXCEPT ![a] = i] /\ UNCHANGED waiters /\ agents[a].state = "ready"
    BY <1>2, <1>8 DEF CommitRename, RecoverRenamed
  <2>3. \A k \in Keys : Active(k) => waiters[k].name \notin {i.name, i.renaming}
    BY <1>1, <2>1, <2>2 DEF NamesAgree, WaiterNameExclusive
  <2> HIDE DEF i
  <2> QED
    BY <2>1, <2>2, <2>3, NamesAgreeAgent
<1>9. ASSUME NEW a \in Agents, AbandonRename(a) PROVE NamesAgree'
  <2> DEFINE i == [agents[a] EXCEPT !.renaming = NoName]
  <2>1. i.state = agents[a].state /\ i.name = agents[a].name /\ i.renaming = NoName
    BY <1>2 DEF AgentRecord
  <2>2. agents' = [agents EXCEPT ![a] = i] /\ UNCHANGED waiters /\ agents[a].state = "ready"
    BY <1>2, <1>9 DEF AbandonRename
  <2>3. \A k \in Keys : Active(k) => waiters[k].name \notin {i.name, i.renaming}
    BY <1>1, <2>1, <2>2 DEF NamesAgree, WaiterNameExclusive
  <2> HIDE DEF i
  <2> QED
    BY <2>1, <2>2, <2>3, NamesAgreeAgent
<1> QED
  BY <1>3, <1>4, <1>5, <1>6, <1>7, <1>8, <1>9 DEF Naming
-----------------------------------------------------------------------------
(* Clocks.                                                                  *)

\* No step but a claim opens a session.
LEMMA NoneOpens ==
    ASSUME Typed, Receiving, NEW j \in Keys, ~ClaimInbox(j), conn'[j].open
    PROVE  conn[j].open
<1>1. ASSUME NEW k \in Keys, ClaimInbox(k) PROVE conn[j].open
  <2>1. j # k
    BY <1>1
  <2> QED
    BY <1>1, <2>1 DEF ClaimInbox, Typed, Sessions
<1>2. ASSUME NEW k \in Keys, Pump(k) PROVE conn[j].open
  <2>1. PICK c : conn' = [conn EXCEPT ![k] = c] /\ (c.open => conn[k].open)
    BY <1>2, PumpFacts
  <2> QED
    BY <2>1 DEF Typed, Sessions
<1>3. ASSUME NEW k \in Keys, HostReads(k) \/ HostAcks(k) \/ HostCloses(k) PROVE conn[j].open
  <2>1. conn[k].open /\ conn \in [Keys -> SessionRecord]
    BY <1>3 DEF HostReads, HostAcks, HostCloses, Typed, Sessions
  <2>2. j # k => conn'[j] = conn[j]
    BY <1>3, <2>1 DEF HostReads, HostAcks, HostCloses
  <2> QED
    BY <2>1, <2>2
<1>4. CASE UNCHANGED conn
  BY <1>4
<1> QED
  BY <1>1, <1>2, <1>3, <1>4
     DEF Receiving, Ask, AskIsTyped, RetireWaiter, TellWaiter, ReplyToWaiter,
         NoteWaiterRetireNotice, RetireWaiterByName, ResolveWaiterRetireTarget, BecomesDue

LEMMA SeenTyped ==
    ASSUME Typed, NEW k \in Keys
    PROVE  /\ waiters[k].seen \in Int /\ waiters[k].seen >= Never /\ waiters[k].seen <= Grace
           /\ absent[k] \in Nat /\ absent[k] <= Grace
<1>1. waiters[k] \in WaiterRecord /\ absent[k] \in 0..Grace
  BY DEF Typed
<1> QED
  BY <1>1, ConstantFacts DEF WaiterRecord, Never

\* A step that keeps a waiter, its session and the daemon keeps what its clock says.  A
\* turn of the poll loop counts as being seen, and its session has a clock of at most one.
LEMMA ClockFrame ==
    ASSUME Typed, NEW k \in Keys, ClockAgrees(k), NEW how \in {"retired", "lost"}, Keeps(k, how),
           conn'[k].open => conn[k].open,
           daemon'.up = daemon.up, daemon'.due = daemon.due,
           absent'[k] = absent[k] \/ (conn[k].open /\ absent'[k] = 0)
    PROVE  ClockAgrees(k)'
<1>1. /\ waiters'[k].state = "none" => waiters[k].state = "none"
      /\ Active(k)' => Active(k)
      /\ waiters'[k].seen = waiters[k].seen
  BY DEF Keeps, Active
<1>2. Active(k)' => waiters'[k].seen <= absent'[k] + 1
  <2>1. CASE absent'[k] = absent[k]
    BY <1>1, <2>1 DEF ClockAgrees
  <2>2. CASE conn[k].open /\ absent'[k] = 0
    BY <1>1, <2>2 DEF ClockAgrees
  <2> QED
    BY <2>1, <2>2
<1> QED
  BY <1>1, <1>2 DEF ClockAgrees

LEMMA NamingClock ==
    ASSUME Typed, NEW k \in Keys, ClockAgrees(k), Naming
    PROVE  ClockAgrees(k)'
<1>1. UNCHANGED <<conn, daemon, absent>>
  BY DEF Naming, RegisterWaiter, Declare, DeclareRename, BeginLaunch, AcceptStartReady,
     AcceptAdoptReady, IncarnationEnds, RequestRetirement, CommitRename, RecoverRenamed,
     AbandonRename, ContinueOccupant
<1>2. CASE UNCHANGED waiters
  BY <1>1, <1>2 DEF ClockAgrees, Active
<1>3. ASSUME NEW j \in Keys, NEW n \in Names, RegisterWaiter(j, n) PROVE ClockAgrees(k)'
  <2>1. waiters[j].state = "none"
    BY <1>3 DEF RegisterWaiter
  <2>2. waiters' = [waiters EXCEPT ![j] = [waiters[j] EXCEPT !.state = "active", !.name = n]]
    BY <1>3 DEF RegisterWaiter, InsertLogicalAgent, Typed
  <2>3. CASE j = k
    <3>1. waiters'[k].state = "active" /\ waiters'[k].seen = waiters[k].seen
      BY <2>2, <2>3 DEF Typed, WaiterRecord
    <3>2. waiters[k].seen = Never /\ ~conn[k].open
      BY <2>1, <2>3 DEF ClockAgrees
    <3> QED
      BY <1>1, <3>1, <3>2, SeenTyped DEF ClockAgrees, Never
  <2>4. CASE j # k
    <3>1. waiters'[k] = waiters[k]
      BY <2>2, <2>4 DEF Typed
    <3> QED
      BY <1>1, <3>1 DEF ClockAgrees, Active
  <2> QED
    BY <2>3, <2>4
<1> QED
  BY <1>2, <1>3
     DEF Naming, Declare, DeclareRename, BeginLaunch, AcceptStartReady, AcceptAdoptReady,
         IncarnationEnds, RequestRetirement, CommitRename, RecoverRenamed, AbandonRename,
         ContinueOccupant

LEMMA ReceivingClock ==
    ASSUME Typed, NEW k \in Keys, ClockAgrees(k), Receiving
    PROVE  ClockAgrees(k)'
<1>1. CASE ClaimInbox(k)
  <2>1. /\ waiters'[k].seen = 0 /\ waiters'[k].state = "active" /\ absent'[k] = 0
    BY <1>1 DEF ClaimInbox, Active, Typed, WaiterRecord
  <2>2. daemon'.up
    BY <1>1 DEF ClaimInbox
  <2> QED
    BY <2>1, <2>2 DEF ClockAgrees
<1>2. CASE ~ClaimInbox(k)
  <2>1. UNCHANGED daemon
    BY DEF Receiving, Ask, AskIsTyped, ClaimInbox, Pump, RetireWaiter, HostReads, HostAcks,
       HostCloses, TellWaiter, ReplyToWaiter, NoteWaiterRetireNotice, RetireWaiterByName,
       ResolveWaiterRetireTarget, BecomesDue
  <2>2. absent'[k] = absent[k] \/ (conn[k].open /\ absent'[k] = 0)
    <3>1. ASSUME NEW j \in Keys, ClaimInbox(j) \/ Pump(j)
          PROVE  absent'[k] = absent[k] \/ (conn[k].open /\ absent'[k] = 0)
      <4>1. absent' = [absent EXCEPT ![j] = 0] /\ (j = k => conn[k].open)
        BY <1>2, <3>1 DEF ClaimInbox, Pump
      <4> QED
        BY <4>1 DEF Typed
    <3>2. CASE UNCHANGED absent
      BY <3>2
    <3> QED
      BY <3>1, <3>2
         DEF Receiving, Ask, AskIsTyped, RetireWaiter, HostReads, HostAcks, HostCloses,
             TellWaiter, ReplyToWaiter, NoteWaiterRetireNotice, RetireWaiterByName,
             ResolveWaiterRetireTarget, BecomesDue
  <2> QED
    BY <1>2, <2>1, <2>2, ReceivingKeeps, NoneOpens, ClockFrame
<1> QED
  BY <1>1, <1>2

\* While the daemon runs the clock does not tick again before the sweep that is due has
\* seen who is connected.
LEMMA TickClock ==
    ASSUME Typed, NEW k \in Keys, ClockAgrees(k), Tick
    PROVE  ClockAgrees(k)'
<1> DEFINE seen == waiters[k].seen
<1>1. /\ UNCHANGED conn /\ daemon'.up = daemon.up /\ daemon'.due = daemon.up
      /\ ~daemon.up \/ ~daemon.due
  BY DEF Tick, Typed, DaemonRecord
<1>2. /\ waiters'[k].state = waiters[k].state
      /\ waiters'[k].seen = IF seen \in 0..(Grace - 1) THEN seen + 1 ELSE seen
  BY DEF Tick, Typed, WaiterRecord
<1>3. absent'[k] = IF conn[k].open \/ seen = Never \/ absent[k] = Grace
                   THEN absent[k] ELSE absent[k] + 1
  BY DEF Tick
<1>4. /\ seen \in Int /\ seen >= -1 /\ seen <= Grace /\ absent[k] \in Nat /\ absent[k] <= Grace
      /\ Grace \in Nat /\ Grace >= 1 /\ Never = -1
  BY SeenTyped, ConstantFacts DEF Never
<1>5. Active(k)' <=> Active(k)
  BY <1>2 DEF Active
<1>6. conn[k].open /\ Active(k) => seen = 0 /\ daemon.up
  BY <1>1 DEF ClockAgrees
<1>7. Active(k) => seen <= absent[k] + 1
  BY DEF ClockAgrees
<1>8. waiters[k].state = "none" => seen = Never /\ ~conn[k].open
  BY DEF ClockAgrees
<1>9. conn[k].open => daemon.up
  BY DEF ClockAgrees
<1> HIDE DEF seen
<1>10. Active(k) => waiters'[k].seen <= absent'[k] + 1
  <2>1. CASE conn[k].open
    BY <1>2, <1>3, <1>4, <1>6, <2>1
  <2>2. CASE ~conn[k].open
    BY <1>2, <1>3, <1>4, <1>7, <2>2
  <2> QED
    BY <2>1, <2>2
<1>11. conn[k].open /\ Active(k) => waiters'[k].seen = 1
  BY <1>2, <1>4, <1>6
<1>12. waiters[k].state = "none" => waiters'[k].seen = Never
  BY <1>2, <1>4, <1>8
<1> QED
  BY <1>1, <1>2, <1>5, <1>6, <1>8, <1>9, <1>10, <1>11, <1>12 DEF ClockAgrees

LEMMA SweepBeginsClock ==
    ASSUME Typed, NEW k \in Keys, ClockAgrees(k), SweepBegins
    PROVE  ClockAgrees(k)'
<1>1. UNCHANGED <<conn, absent>> /\ daemon'.up = daemon.up
  BY DEF SweepBegins, Typed, DaemonRecord
<1>2. CASE conn[k].open /\ Active(k)
  <2>1. HasSweepable
    BY <1>2 DEF HasSweepable, ClockAgrees, Never
  <2>2. waiters'[k].seen = 0 /\ waiters'[k].state = waiters[k].state
    BY <1>2, <2>1 DEF SweepBegins, TouchSessions, Typed, WaiterRecord
  <2> QED
    BY <1>1, <1>2, <2>2, SeenTyped DEF ClockAgrees, Active
<1>3. CASE ~(conn[k].open /\ Active(k))
  <2>1. waiters'[k] = waiters[k]
    BY <1>3 DEF SweepBegins, TouchSessions
  <2> QED
    BY <1>1, <1>3, <2>1 DEF ClockAgrees, Active
<1> QED
  BY <1>2, <1>3

\* Nobody is connected after a crash, and a boot starts every clock afresh.
LEMMA BootClock ==
    ASSUME Typed, NEW k \in Keys, ClockAgrees(k), Crash \/ Restart
    PROVE  ClockAgrees(k)'
<1>1. CASE Crash
  <2>1. /\ waiters'[k].state = waiters[k].state /\ waiters'[k].seen = waiters[k].seen
        /\ UNCHANGED absent
    BY <1>1 DEF Crash, Typed, WaiterRecord
  <2>2. ~conn'[k].open
    BY <1>1, NoSessionFacts DEF Crash
  <2> QED
    BY <2>1, <2>2 DEF ClockAgrees, Active
<1>2. CASE Restart
  <2>1. ~conn[k].open /\ UNCHANGED conn /\ absent'[k] = 0
    BY <1>2 DEF Restart, ClockAgrees
  <2>2. /\ waiters'[k].state = waiters[k].state
        /\ waiters'[k].seen = IF Active(k) /\ waiters[k].seen # Never THEN 0
                              ELSE waiters[k].seen
    BY <1>2 DEF Restart, BootResetWaiterSeen, Typed, WaiterRecord
  <2> QED
    BY <2>1, <2>2 DEF ClockAgrees, Active, Never
<1> QED
  BY <1>1, <1>2

-----------------------------------------------------------------------------
(* The invariant.                                                           *)

LEMMA InitInv == Init => InboxInv
<1> SUFFICES ASSUME Init PROVE InboxInv
  OBVIOUS
<1>1. TypeOK /\ \A k \in Keys : SessionAgrees(conn[k])
  BY InitTyped, TypedIsTypeOK
<1>2. ASSUME NEW k \in Keys PROVE ClockAgrees(k)
  <2>1. ~conn[k].open /\ waiters[k].seen = Never /\ absent[k] = 0
    BY NoSessionFacts DEF Init
  <2> QED
    BY <2>1 DEF ClockAgrees, Never
<1>3. NamesAgree
  <2>1. /\ \A a \in Agents : agents[a].state = "absent" /\ agents[a].renaming = NoName
        /\ \A k \in Keys : Active(k) => k = FirstKey /\ waiters[k].name = FirstName
    BY DEF Init, Active
  <2> QED
    BY <2>1, InboxAssumption DEF NamesAgree, WaiterNameExclusive
<1> QED
  BY <1>1, <1>2, <1>3 DEF InboxInv

LEMMA NextClock ==
    ASSUME Typed, NEW k \in Keys, ClockAgrees(k), [Next]_vars
    PROVE  ClockAgrees(k)'
<1>1. CASE Naming
  BY <1>1, NamingClock
<1>2. CASE Receiving
  BY <1>2, ReceivingClock
<1>3. CASE Pulling \/ UNCHANGED vars
  <2>1. UNCHANGED <<waiters, conn, daemon, absent>>
    BY <1>3 DEF Pulling, AdvanceRepliesWaits, CompleteWait, PullReply, ClaimLease, Poll, AckPull,
       vars
  <2> QED
    BY <2>1 DEF ClockAgrees, Active
<1>4. CASE Tick
  BY <1>4, TickClock
<1>5. CASE SweepBegins
  BY <1>5, SweepBeginsClock
<1>6. CASE SweepFails \/ SweepAbsent
  <2>1. /\ UNCHANGED <<conn, absent>>
        /\ daemon'.up = daemon.up /\ daemon'.due = daemon.due
    BY <1>6 DEF SweepFails, SweepAbsent, Typed, DaemonRecord
  <2>2. Keeps(k, "lost")
    BY <1>6, SweepKeeps DEF SweepFails, Keeps
  <2> QED
    BY <2>1, <2>2, ClockFrame
<1>7. CASE Crash \/ Restart
  BY <1>7, BootClock
<1> QED
  BY <1>1, <1>2, <1>3, <1>4, <1>5, <1>6, <1>7 DEF Next

\* The clock, the start and the failure of a sweep, a crash and a boot change no waiter's
\* state and no waiter's name.
LEMMA DaemonKeeps ==
    ASSUME Typed, NEW k \in Keys, Tick \/ SweepBegins \/ SweepFails \/ Crash \/ Restart
    PROVE  waiters'[k].state = waiters[k].state /\ waiters'[k].name = waiters[k].name
<1>1. waiters[k] \in WaiterRecord
  BY DEF Typed
<1>2. CASE Tick
  BY <1>1, <1>2 DEF Tick, WaiterRecord
<1>3. CASE TouchSessions
  BY <1>1, <1>3 DEF TouchSessions, WaiterRecord
<1>4. CASE UNCHANGED waiters
  BY <1>4
<1>5. CASE Crash
  BY <1>1, <1>5 DEF Crash, WaiterRecord
<1>6. CASE Restart
  BY <1>1, <1>6 DEF Restart, BootResetWaiterSeen, WaiterRecord
<1>7. SweepBegins \/ SweepFails => TouchSessions \/ UNCHANGED waiters
  BY DEF SweepBegins, SweepFails
<1> QED
  BY <1>2, <1>3, <1>4, <1>5, <1>6, <1>7

\* No step outside Naming gives a waiter a name or makes one active.
LEMMA NextNames == Typed /\ NamesAgree /\ [Next]_vars => NamesAgree'
<1> SUFFICES ASSUME Typed, NamesAgree, [Next]_vars PROVE NamesAgree'
  OBVIOUS
<1>1. CASE Naming
  BY <1>1, NamingAgrees
<1>2. CASE ~Naming
  <2>1. UNCHANGED agents
    BY <1>2 DEF Next, Receiving, Ask, AskIsTyped, ClaimInbox, Pump, RetireWaiter, HostReads,
       HostAcks, HostCloses, TellWaiter, ReplyToWaiter, NoteWaiterRetireNotice,
       RetireWaiterByName, ResolveWaiterRetireTarget, BecomesDue, Pulling, AdvanceRepliesWaits,
       CompleteWait, PullReply, ClaimLease, Poll, AckPull, Tick, SweepBegins, SweepFails,
       SweepAbsent, Crash, Restart, vars
  <2>2. ASSUME NEW k \in Keys
        PROVE  /\ waiters'[k].name = waiters[k].name
               /\ waiters'[k].state = "active" => Active(k)
    <3>1. CASE Receiving /\ ~ClaimInbox(k)
      BY <3>1, ReceivingKeeps DEF Keeps, Active
    <3>2. CASE ClaimInbox(k)
      BY <3>2 DEF ClaimInbox, Typed, WaiterRecord
    <3>3. CASE SweepAbsent
      BY <3>3, SweepKeeps DEF Keeps, Active
    <3>4. CASE Tick \/ SweepBegins \/ SweepFails \/ Crash \/ Restart
      BY <3>4, DaemonKeeps DEF Active
    <3>5. CASE Pulling \/ UNCHANGED vars
      BY <3>5 DEF Pulling, AdvanceRepliesWaits, CompleteWait, PullReply, ClaimLease, Poll,
         AckPull, vars, Active
    <3> QED
      BY <1>2, <3>1, <3>2, <3>3, <3>4, <3>5 DEF Next
  <2> QED
    BY <2>1, <2>2, NamesAgreeFrame
<1> QED
  BY <1>1, <1>2

LEMMA NextInv == InboxInv /\ [Next]_vars => InboxInv'
<1> SUFFICES ASSUME InboxInv, [Next]_vars PROVE InboxInv'
  OBVIOUS
<1>1. Typed /\ PullTyped /\ NamesAgree /\ \A k \in Keys : ClockAgrees(k)
  BY TypedIsTypeOK DEF InboxInv
<1>2. Typed' /\ PullTyped'
  BY <1>1, NextTyped
<1>3. TypeOK' /\ \A k \in Keys : SessionAgrees(conn'[k])
  BY <1>2 DEF TypeOK, Typed, PullTyped, Sessions, SessionAgrees
<1>4. \A k \in Keys : ClockAgrees(k)'
  BY <1>1, NextClock
<1>5. NamesAgree'
  BY <1>1, NextNames
<1> QED
  BY <1>3, <1>4, <1>5 DEF InboxInv, SessionAgrees

THEOREM InboxInvariant == Spec => []InboxInv
  BY InitInv, NextInv, PTL DEF Spec

\* The state of Inbox always has its types.  With them go three facts about what a host,
\* a client and a reader can do: a host acknowledges only what this very session offered
\* it, a client waits only while a notice is being typed, and no reader's position or
\* lease runs ahead of the log and of the leases that were given out.
THEOREM InboxTypeCorrect == Spec => []TypeOK
<1>1. InboxInv => TypeOK
  BY DEF InboxInv
<1> QED
  BY <1>1, InboxInvariant, PTL

\* Registration, start, adoption, rename, recovery and continuation look for other
\* holders of a name at different times, and never give it to two of them.
THEOREM NamesAreExclusive == Spec => []WaiterNameExclusive
<1>1. InboxInv => WaiterNameExclusive
  BY DEF InboxInv, NamesAgree
<1> QED
  BY <1>1, InboxInvariant, PTL

\* The sweep gives up only waiters whose clock reached the grace, and a clock is at most
\* one interval ahead of the absence it measures.
THEOREM GraceIsKept == Spec => ExpiredHadItsGrace
<1>1. InboxInv /\ [Next]_vars =>
        [\A k \in Keys : Active(k) /\ waiters'[k].state = "lost" => absent[k] >= Grace - 1]_vars
  <2> SUFFICES ASSUME InboxInv, Next, NEW k \in Keys, Active(k), waiters'[k].state = "lost"
               PROVE  absent[k] >= Grace - 1
    OBVIOUS
  <2>1. Typed /\ ClockAgrees(k)
    BY TypedIsTypeOK DEF InboxInv
  <2>2. waiters[k].state = "active"
    BY DEF Active
  <2>3. CASE SweepAbsent
    <3>1. k \in Expired
      BY <2>1, <2>2, <2>3, SweepKeeps
    <3> QED
      BY <2>1, <3>1, SeenTyped, ConstantFacts DEF Expired, ClockAgrees
  <2>4. CASE ~SweepAbsent
    <3>1. CASE Naming
      BY <2>1, <2>2, <3>1 DEF Naming, RegisterWaiter, InsertLogicalAgent, Declare, DeclareRename,
         BeginLaunch, AcceptStartReady, AcceptAdoptReady, IncarnationEnds, RequestRetirement,
         CommitRename, RecoverRenamed, AbandonRename, ContinueOccupant, Typed, WaiterRecord
    <3>2. CASE Receiving /\ ~ClaimInbox(k)
      BY <2>1, <2>2, <3>2, ReceivingKeeps DEF Keeps
    <3>3. CASE ClaimInbox(k)
      <4>1. waiters' = [waiters EXCEPT ![k].seen = 0]
        BY <3>3 DEF ClaimInbox
      <4>2. waiters[k] \in WaiterRecord /\ waiters \in [Keys -> WaiterRecord]
        BY <2>1 DEF Typed
      <4> QED
        BY <2>2, <4>1, <4>2 DEF WaiterRecord
    <3>4. CASE Tick \/ SweepBegins \/ SweepFails \/ Crash \/ Restart
      BY <2>1, <2>2, <3>4, DaemonKeeps
    <3>5. CASE Pulling
      BY <2>2, <3>5 DEF Pulling, AdvanceRepliesWaits, CompleteWait, PullReply, ClaimLease, Poll,
         AckPull
    <3> QED
      BY <2>4, <3>1, <3>2, <3>3, <3>4, <3>5 DEF Next
  <2> QED
    BY <2>3, <2>4
<1> QED
  BY <1>1, InboxInvariant, PTL DEF Spec, ExpiredHadItsGrace
============================================================================
