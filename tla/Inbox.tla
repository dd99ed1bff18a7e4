------------------------------- MODULE Inbox -------------------------------
(***************************************************************************)
(* Socket waiters and pull readers: the recipients that have no pane.       *)
(*                                                                          *)
(* A socket waiter is registered under a name that no live agent may share.  *)
(* A host claims its inbox over a long connection; the daemon offers queued  *)
(* deliveries on it and only the host's ack accepts one.  A waiter whose     *)
(* connection stays away for the grace is retired by a sweep.  A pull ask    *)
(* has no connection at all: readers poll its event log with a cursor, and   *)
(* the one that took the latest lease acknowledges.  Connections drop, hosts *)
(* and readers are replaced, and the daemon restarts between any two steps.  *)
(*                                                                          *)
(* Time passes in sweep intervals.  The grace is a whole number of them, and *)
(* a sweep's snapshot answers within one interval.  The replies a host gets  *)
(* to its acks, and lines that are not acks, are left out.  Incarnations are *)
(* kept only as far as they hold a name; Identities has the rest.            *)
(***************************************************************************)
EXTENDS Integers, Sequences, FiniteSets

CONSTANTS
    Keys,       \* idempotency keys, one waiter each
    Names,      \* public names
    Agents,     \* logical agents with a pane
    MaxMsgs,    \* bound: messages to waiters, numbered in the order of their creation
    Readers,    \* processes that read the pull ask
    NoName,
    FirstKey, FirstName,  \* a waiter that is registered where no name is given away
    Grace,      \* sweep intervals in the grace
    Wire,       \* bound: lines the connection holds before a write blocks
    Budgets     \* bounds: how often each kind of event may happen, one of these

ASSUME InboxAssumption ==
    /\ NoName \notin Names /\ FirstKey \in Keys /\ FirstName \in Names
    /\ Grace \in Nat \ {0} /\ Wire \in Nat \ {0}
    /\ MaxMsgs \in Nat
    /\ Budgets \subseteq [names : Nat, messages : 0..MaxMsgs, retires : Nat, claims : Nat,
                          drops : Nat, events : Nat, leases : Nat, faults : Nat, crashes : Nat]

VARIABLES
    waiters,  \* logical agents with the socket_inbox transport
    agents,   \* the newest incarnation of each logical agent with a pane
    inbox,    \* deliveries to waiters
    conn,     \* the daemon's inbox session of each waiter, with its wire
    daemon,   \* whether it runs, and its absence sweep
    pull,     \* the pull ask: its event log and its lease
    readers,  \* what each reader has seen
    absent,   \* sweep intervals since a waiter was last connected
    left      \* how much of each bound is left

vars == <<waiters, agents, inbox, conn, daemon, pull, readers, absent, left>>

Msgs == 1..MaxMsgs
Never == -1
Session(open) == [open |-> open, offered |-> {}, out |-> <<>>, wire |-> <<>>, held |-> {},
                  acks |-> {}, closed |-> FALSE]
NoSession == Session(FALSE)
NewSession == Session(TRUE)
NewReader == [lease |-> 0, cursor |-> 0, read |-> {}, waiting |-> FALSE]

WaiterRecord ==
    [state : {"none", "active", "retired", "lost"}, name : Names \cup {NoName},
     seen : Never..Grace, ask : {"none", "unsent", "open", "resolved", "cancelled"},
     notice : {"none", "parked", "recorded", "delivered"}, client : {"none", "parked", "answered"}]
AgentRecord ==
    [state : {"absent", "declared", "starting", "ready", "retiring", "gone"},
     name : Names \cup {NoName}, how : {"start", "adopt", "none"}, renaming : Names \cup {NoName}]
MessageRecord ==
    [to : Keys, final : BOOLEAN, due : BOOLEAN,
     outcome : {"none", "queued", "accepted", "unavailable"}]
SessionRecord ==
    [open : BOOLEAN, offered : SUBSET Msgs, out : Seq(Msgs), wire : Seq(Msgs),
     held : SUBSET Msgs, acks : SUBSET Msgs, closed : BOOLEAN]
DaemonRecord == [up : BOOLEAN, due : BOOLEAN, sweeping : BOOLEAN]
EventRecord == [kind : {"progress", "final", "notice"}, outcome : {"queued", "accepted"}]
PullRecord ==
    [ask : {"open", "resolved", "cancelled"}, events : Seq(EventRecord), leases : Nat]
ReaderRecord == [lease : Nat, cursor : Nat, read : SUBSET Nat, waiting : BOOLEAN]

TypeOK ==
    /\ waiters \in [Keys -> WaiterRecord] /\ agents \in [Agents -> AgentRecord]
    /\ \A k \in Keys : waiters[k].client = "parked" => waiters[k].notice = "parked"
    /\ inbox \in [Msgs -> MessageRecord] /\ conn \in [Keys -> SessionRecord]
    /\ \A k \in Keys : /\ Len(conn[k].wire) <= Wire
                       /\ conn[k].acks \cup conn[k].held \subseteq conn[k].offered
    /\ daemon \in DaemonRecord /\ absent \in [Keys -> 0..Grace]
    /\ pull \in PullRecord /\ readers \in [Readers -> ReaderRecord]
    /\ \A r \in Readers : /\ readers[r].lease \in 0..pull.leases
                          /\ readers[r].cursor \in 0..Len(pull.events)
                          /\ readers[r].read \subseteq DOMAIN pull.events

-----------------------------------------------------------------------------
(* Names *)

Active(k) == waiters[k].state = "active"
HeldByWaiter(n) == \E k \in Keys : Active(k) /\ waiters[k].name = n
HeldByReady(n) == \E a \in Agents : agents[a].state = "ready" /\ agents[a].name = n
LiveOrPending(n) ==
    \E a \in Agents : \/ agents[a].state \in {"starting", "ready"} /\ agents[a].name = n
                      \/ agents[a].state = "ready" /\ agents[a].renaming = n

Spend(f) == left[f] > 0 /\ left' = [left EXCEPT ![f] = @ - 1]

InsertLogicalAgent(k, n) ==
    waiters' = [waiters EXCEPT ![k].state = "active", ![k].name = n]

\* waiter.register.  Replaying a key with its own name answers without a write;
\* a key bound to another name or to an ended waiter is refused.
RegisterWaiter(k, n) ==
    /\ daemon.up /\ Spend("names")
    /\ waiters[k].state = "none"
    /\ ~HeldByWaiter(n) /\ ~LiveOrPending(n)
    /\ InsertLogicalAgent(k, n)
    /\ UNCHANGED <<agents, inbox, conn, daemon, pull, readers, absent>>

\* A start, or an adoption, of an agent that has no live incarnation.
Declare(a, n, how) ==
    /\ daemon.up /\ Spend("names")
    /\ agents[a].state \in {"absent", "gone"}
    /\ ~HeldByWaiter(n) /\ ~HeldByReady(n)
    /\ agents' = [agents EXCEPT ![a] = [state |-> "declared", name |-> n, how |-> how,
                                        renaming |-> NoName]]
    /\ UNCHANGED <<waiters, inbox, conn, daemon, pull, readers, absent>>

\* The attempt to launch or rename is recorded only after the intent: until then the
\* declared incarnation holds no name.
BeginLaunch(a) ==
    /\ daemon.up
    /\ agents[a].state = "declared"
    /\ agents' = [agents EXCEPT ![a].state = "starting"]
    /\ UNCHANGED <<waiters, inbox, conn, daemon, pull, readers, absent, left>>

BecomeReady(a) == agents' = [agents EXCEPT ![a].state = "ready"]

\* Variant for the mutation check: readiness does not look at waiters again.
AcceptStartUnchecked(a) ==
    /\ daemon.up
    /\ agents[a].state = "starting" /\ agents[a].how = "start"
    /\ BecomeReady(a)
    /\ UNCHANGED <<waiters, inbox, conn, daemon, pull, readers, absent, left>>

AcceptStartReady(a) ==
    /\ daemon.up
    /\ agents[a].state = "starting" /\ agents[a].how = "start"
    /\ ~HeldByWaiter(agents[a].name)
    /\ BecomeReady(a)
    /\ UNCHANGED <<waiters, inbox, conn, daemon, pull, readers, absent, left>>

AcceptAdoptReady(a) ==
    /\ daemon.up
    /\ agents[a].state \in {"declared", "starting"} /\ agents[a].how = "adopt"
    /\ ~HeldByWaiter(agents[a].name)
    /\ BecomeReady(a)
    /\ UNCHANGED <<waiters, inbox, conn, daemon, pull, readers, absent, left>>

\* The launch failed, the retirement finished, or recovery found it absent.
IncarnationEnds(a) ==
    /\ daemon.up
    /\ agents[a].state \notin {"absent", "gone"}
    /\ agents' = [agents EXCEPT ![a].state = "gone", ![a].renaming = NoName]
    /\ UNCHANGED <<waiters, inbox, conn, daemon, pull, readers, absent, left>>

RequestRetirement(a) ==
    /\ daemon.up
    /\ agents[a].state = "ready"
    /\ agents' = [agents EXCEPT ![a].state = "retiring"]
    /\ UNCHANGED <<waiters, inbox, conn, daemon, pull, readers, absent, left>>

DeclareRename(a, n) ==
    /\ daemon.up /\ Spend("names")
    /\ agents[a].state = "ready" /\ agents[a].renaming = NoName
    /\ ~\E b \in Agents \ {a} : agents[b].state = "ready" /\ agents[b].name = n
    /\ ~HeldByWaiter(n)
    /\ agents' = [agents EXCEPT ![a].renaming = n]
    /\ UNCHANGED <<waiters, inbox, conn, daemon, pull, readers, absent>>

\* Herdr confirmed the rename.
CommitRename(a) ==
    /\ daemon.up
    /\ agents[a].state = "ready" /\ agents[a].renaming # NoName
    /\ ~HeldByWaiter(agents[a].renaming)
    /\ agents' = [agents EXCEPT ![a].name = agents[a].renaming, ![a].renaming = NoName]
    /\ UNCHANGED <<waiters, inbox, conn, daemon, pull, readers, absent, left>>

\* Recovery saw the pending rename done, and does not look at waiters.
RecoverRenamed(a) ==
    /\ daemon.up
    /\ agents[a].state = "ready" /\ agents[a].renaming # NoName
    /\ agents' = [agents EXCEPT ![a].name = agents[a].renaming, ![a].renaming = NoName]
    /\ UNCHANGED <<waiters, inbox, conn, daemon, pull, readers, absent, left>>

AbandonRename(a) ==
    /\ daemon.up
    /\ agents[a].state = "ready" /\ agents[a].renaming # NoName
    /\ agents' = [agents EXCEPT ![a].renaming = NoName]
    /\ UNCHANGED <<waiters, inbox, conn, daemon, pull, readers, absent, left>>

\* Boot recovery binds a stopped agent that Herdr restored under its name.
ContinueOccupant(a) ==
    /\ daemon.up /\ Spend("names")
    /\ agents[a].state = "gone"
    /\ ~HeldByWaiter(agents[a].name) /\ ~LiveOrPending(agents[a].name)
    /\ BecomeReady(a)
    /\ UNCHANGED <<waiters, inbox, conn, daemon, pull, readers, absent>>

-----------------------------------------------------------------------------
(* The inbox connection *)

QueuedFor(k) == {m \in Msgs : inbox[m].to = k /\ inbox[m].outcome = "queued" /\ inbox[m].due}

\* The messages in S, from the one that was recorded first on.
InOrder(S) == [i \in 1..Cardinality(S) |->
                 CHOOSE m \in S : Cardinality({o \in S : o < m}) = i - 1]

Unresolved(k) == waiters[k].ask \in {"unsent", "open"}
Ended(k) == waiters[k].state \in {"retired", "lost"}

\* The waiter asks an agent with a pane: the ask is recorded, then typed into it.
Ask(k) ==
    /\ daemon.up /\ Active(k) /\ waiters[k].ask = "none" /\ left.messages > 0
    /\ waiters' = [waiters EXCEPT ![k].ask = "unsent"]
    /\ UNCHANGED <<agents, inbox, conn, daemon, pull, readers, absent, left>>

AskIsTyped(k) ==
    /\ daemon.up /\ waiters[k].ask = "unsent"
    /\ waiters' = [waiters EXCEPT ![k].ask = "open"]
    /\ UNCHANGED <<agents, inbox, conn, daemon, pull, readers, absent, left>>

NextMsg == CHOOSE m \in Msgs : /\ inbox[m].outcome = "none"
                               /\ \A o \in Msgs : o < m => inbox[o].outcome # "none"

QueueInboxAt(k, final, due) ==
    inbox' = [inbox EXCEPT ![NextMsg] = [to |-> k, final |-> final, due |-> due,
                                         outcome |-> "queued"]]

\* A waiter is told under its name only, which must not be a Ready agent's as well.
ResolveTellRecipient(k) == Active(k) /\ ~HeldByReady(waiters[k].name)

\* A tell to the waiter, for now or for a later time.
TellWaiter(k, due) ==
    /\ daemon.up /\ ResolveTellRecipient(k) /\ Spend("messages")
    /\ QueueInboxAt(k, FALSE, due)
    /\ UNCHANGED <<waiters, agents, conn, daemon, pull, readers, absent>>

\* A reply to the waiter's ask.  A reply can come before the ask is seen typed.
ReplyToWaiter(k, final) ==
    /\ daemon.up /\ Spend("messages")
    /\ Unresolved(k) /\ ~Ended(k)
    /\ QueueInboxAt(k, final, TRUE)
    /\ UNCHANGED <<waiters, agents, conn, daemon, pull, readers, absent>>

BecomesDue(m) ==
    /\ inbox[m].outcome = "queued" /\ ~inbox[m].due
    /\ inbox' = [inbox EXCEPT ![m].due = TRUE]
    /\ UNCHANGED <<waiters, agents, conn, daemon, pull, readers, absent, left>>

\* Variant for the mutation check: the new session inherits what the displaced
\* one had offered.
ClaimKeepsOffered(k) ==
    /\ daemon.up /\ Active(k) /\ Spend("claims")
    /\ waiters' = [waiters EXCEPT ![k].seen = 0]
    /\ conn' = [conn EXCEPT ![k] = [NewSession EXCEPT !.offered = conn[k].offered]]
    /\ absent' = [absent EXCEPT ![k] = 0]
    /\ UNCHANGED <<agents, inbox, daemon, pull, readers>>

\* inbox.claim.  The claim counts as being seen, and the new session displaces
\* the one the waiter had, with whatever was still on its wire.
ClaimInbox(k) ==
    /\ daemon.up /\ Active(k) /\ Spend("claims")
    /\ waiters' = [waiters EXCEPT ![k].seen = 0]
    /\ conn' = [conn EXCEPT ![k] = NewSession]
    /\ absent' = [absent EXCEPT ![k] = 0]
    /\ UNCHANGED <<agents, inbox, daemon, pull, readers>>

\* Variant for the mutation check: a write is taken as done when it would block.
FlushAll(c) == [c EXCEPT !.out = <<>>, !.wire = @ \o c.out]

Flush(c) == LET n == IF Len(c.out) < Wire - Len(c.wire) THEN Len(c.out) ELSE Wire - Len(c.wire)
            IN  [c EXCEPT !.out = SubSeq(@, n + 1, Len(@)), !.wire = @ \o SubSeq(c.out, 1, n)]

OfferQueued(k, c) ==
    LET new == QueuedFor(k) \ c.offered
    IN  [c EXCEPT !.out = @ \o InOrder(new), !.offered = @ \cup new]

\* Each ack is one transaction; a repeated or refused one changes nothing.
AckInbox(k, acks) ==
    LET done == {m \in acks : inbox[m].to = k /\ inbox[m].outcome = "queued"}
    IN  /\ inbox' = [m \in Msgs |-> IF m \in done THEN [inbox[m] EXCEPT !.outcome = "accepted"]
                                                  ELSE inbox[m]]
        /\ waiters' = [waiters EXCEPT ![k].ask =
                         IF Unresolved(k) /\ \E m \in done : inbox[m].final
                         THEN "resolved" ELSE @]

SetConn(k, c) == conn' = [conn EXCEPT ![k] = c]

\* The poll loop's turn for one session: write what is buffered, and only when
\* nothing is left to write offer more and read acks.  An ended waiter has no
\* queue to read, which drops its session; so does the host's end of file, after
\* the acks that came before it, and a write to a connection the host closed.
Pump(k) ==
    /\ daemon.up /\ conn[k].open
    /\ LET flushed == Flush(conn[k])
           offered == Flush(OfferQueued(k, flushed))
       IN  \/ /\ flushed.out # <<>> /\ flushed # conn[k]
              /\ SetConn(k, flushed) /\ UNCHANGED <<waiters, inbox>>
           \/ /\ flushed.out = <<>> /\ ~Active(k)
              /\ SetConn(k, NoSession) /\ UNCHANGED <<waiters, inbox>>
           \/ /\ flushed.out = <<>> /\ Active(k) /\ offered.out # <<>>
              /\ SetConn(k, offered) /\ UNCHANGED <<waiters, inbox>>
           \/ /\ flushed.out = <<>> /\ Active(k) /\ offered.out = <<>>
              /\ offered # conn[k] \/ conn[k].acks # {} \/ conn[k].closed
              /\ AckInbox(k, offered.acks)
              /\ SetConn(k, IF conn[k].closed THEN NoSession ELSE [offered EXCEPT !.acks = {}])
           \/ /\ conn[k].closed
              /\ SetConn(k, NoSession) /\ UNCHANGED <<waiters, inbox>>
    /\ absent' = [absent EXCEPT ![k] = 0]
    /\ UNCHANGED <<agents, daemon, pull, readers, left>>

\* The host takes a line off the wire, acknowledges what it holds, or goes away.
HostReads(k) ==
    /\ conn[k].open /\ ~conn[k].closed /\ conn[k].wire # <<>>
    /\ conn' = [conn EXCEPT ![k].wire = Tail(@), ![k].held = @ \cup {Head(conn[k].wire)}]
    /\ UNCHANGED <<waiters, agents, inbox, daemon, pull, readers, absent, left>>

HostAcks(k) ==
    /\ conn[k].open /\ ~conn[k].closed
    /\ \E m \in conn[k].held : conn' = [conn EXCEPT ![k].held = @ \ {m},
                                                    ![k].acks = @ \cup {m}]
    /\ UNCHANGED <<waiters, agents, inbox, daemon, pull, readers, absent, left>>

HostCloses(k) ==
    /\ conn[k].open /\ ~conn[k].closed /\ Spend("drops")
    /\ conn' = [conn EXCEPT ![k].closed = TRUE, ![k].wire = <<>>, ![k].held = {}]
    /\ UNCHANGED <<waiters, agents, inbox, daemon, pull, readers, absent>>

-----------------------------------------------------------------------------
(* Retirement and the absence sweep *)

\* The notice that stops the owing agent's work is typed now, unless that agent has
\* no pane or a clear that is under way in it puts the notice off to the due sweep.
PrepareCancellationNotice(k) ==
    IF waiters[k].ask = "open" THEN {"parked", "recorded"} ELSE {"none"}

\* Ending waiters cancels the asks they wait on and gives up what they had queued.
\* An ask that was not typed is withdrawn and its owing agent hears nothing of it.
EndWaiters(gone, how, notice, client) ==
    /\ waiters' = [k \in Keys |->
                     IF k \in gone
                     THEN [waiters[k] EXCEPT !.state = how, !.notice = notice[k],
                                             !.client = client,
                                             !.ask = IF Unresolved(k) THEN "cancelled" ELSE @]
                     ELSE waiters[k]]
    /\ inbox' = [m \in Msgs |-> IF inbox[m].to \in gone /\ inbox[m].outcome = "queued"
                                THEN [inbox[m] EXCEPT !.outcome = "unavailable"] ELSE inbox[m]]

\* The client waits for the notices that are being typed and is answered at once
\* when there is none.
ParkWaiterRetire(notice) == IF \E k \in DOMAIN notice : notice[k] = "parked"
                            THEN "parked" ELSE "answered"

\* Retirement prepares one notice for each ask the waiter waits on.
PrepareRetire(gone, how, asked) ==
    \E notice \in [gone -> {"none", "parked", "recorded"}] :
        /\ \A k \in gone : notice[k] \in PrepareCancellationNotice(k)
        /\ EndWaiters(gone, how, notice, IF asked THEN ParkWaiterRetire(notice) ELSE "none")

RetireWaiter(k) ==
    /\ daemon.up /\ Active(k) /\ Spend("retires")
    /\ PrepareRetire({k}, "retired", TRUE)
    /\ UNCHANGED <<agents, conn, daemon, pull, readers, absent>>

\* A name is a target only while one waiter, and no ready agent, answers to it.
ResolveWaiterRetireTarget(n) ==
    {k \in Keys : Active(k) /\ waiters[k].name = n /\ ~HeldByReady(n)}

RetireWaiterByName(n) == \E k \in ResolveWaiterRetireTarget(n) : RetireWaiter(k)

\* The notice was typed or refused: the last one answers the client.  One whose
\* intent cannot be committed is forgotten, with the client that waits for it.
NoteWaiterRetireNotice(k, how) ==
    /\ daemon.up /\ waiters[k].notice = "parked"
    /\ waiters' = [waiters EXCEPT ![k].notice = how,
                                  ![k].client = IF @ = "parked" THEN "answered" ELSE @]
    /\ UNCHANGED <<agents, inbox, conn, daemon, pull, readers, absent, left>>

HasSweepable == \E k \in Keys : \/ Unresolved(k)
                                \/ Active(k) /\ waiters[k].seen # Never

\* One sweep interval passes.  A session that is open is not absent.
Tick ==
    /\ ~daemon.up \/ (~daemon.due /\ ~daemon.sweeping)
    /\ waiters' = [k \in Keys |-> IF waiters[k].seen \in 0..(Grace - 1)
                                  THEN [waiters[k] EXCEPT !.seen = @ + 1] ELSE waiters[k]]
    /\ absent' = [k \in Keys |-> IF conn[k].open \/ waiters[k].seen = Never \/ absent[k] = Grace
                                 THEN absent[k] ELSE absent[k] + 1]
    /\ daemon' = [daemon EXCEPT !.due = daemon.up]
    /\ UNCHANGED <<agents, inbox, conn, pull, readers, left>>

TouchSessions ==
    waiters' = [k \in Keys |-> IF conn[k].open /\ Active(k)
                               THEN [waiters[k] EXCEPT !.seen = 0] ELSE waiters[k]]

SweepBegins ==
    /\ daemon.up /\ daemon.due /\ ~daemon.sweeping
    /\ IF HasSweepable
       THEN TouchSessions /\ daemon' = [daemon EXCEPT !.due = FALSE, !.sweeping = TRUE]
       ELSE UNCHANGED waiters /\ daemon' = [daemon EXCEPT !.due = FALSE]
    /\ UNCHANGED <<agents, inbox, conn, pull, readers, absent, left>>

Expired == {k \in Keys : Active(k) /\ waiters[k].seen >= Grace}

\* A snapshot failure is not evidence of absence.
SweepFails ==
    /\ daemon.up /\ daemon.sweeping /\ Spend("faults")
    /\ daemon' = [daemon EXCEPT !.sweeping = FALSE]
    /\ UNCHANGED <<waiters, agents, inbox, conn, pull, readers, absent>>

SweepAbsentAsks == PrepareRetire(Expired, "lost", FALSE)

\* The snapshot came: nobody waits for the notices of the waiters the sweep retires.
SweepAbsent ==
    /\ daemon.up /\ daemon.sweeping
    /\ SweepAbsentAsks
    /\ daemon' = [daemon EXCEPT !.sweeping = FALSE]
    /\ UNCHANGED <<agents, conn, pull, readers, absent, left>>

Crash ==
    /\ daemon.up /\ Spend("crashes")
    /\ daemon' = [up |-> FALSE, due |-> FALSE, sweeping |-> FALSE]
    /\ conn' = [k \in Keys |-> NoSession]
    /\ readers' = [r \in Readers |-> [readers[r] EXCEPT !.waiting = FALSE]]
    /\ waiters' = [k \in Keys |->
                     [waiters[k] EXCEPT !.notice = IF @ = "parked" THEN "recorded" ELSE @,
                                        !.client = IF @ = "parked" THEN "none" ELSE @]]
    /\ UNCHANGED <<agents, inbox, pull, absent>>

\* Variant for the mutation check: the clocks keep running over the downtime.
KeepWaiterSeen == waiters' = waiters

BootResetWaiterSeen ==
    waiters' = [k \in Keys |-> IF Active(k) /\ waiters[k].seen # Never
                               THEN [waiters[k] EXCEPT !.seen = 0] ELSE waiters[k]]

Restart ==
    /\ ~daemon.up
    /\ daemon' = [daemon EXCEPT !.up = TRUE]
    /\ BootResetWaiterSeen
    /\ absent' = [k \in Keys |-> 0]
    /\ UNCHANGED <<agents, inbox, conn, pull, readers, left>>

-----------------------------------------------------------------------------
(* The pull ask *)

QueueAskPullDelivery(kind) == Append(pull.events, [kind |-> kind, outcome |-> "queued"])

\* A reply to the ask, or the notice of its cancellation, joins the event log.
\* One final reply may be under way.
PullReply(kind) ==
    /\ daemon.up /\ Spend("events")
    /\ pull.ask = "open"
    /\ kind = "final" => \A e \in DOMAIN pull.events : pull.events[e].kind # "final"
    /\ pull' = [pull EXCEPT !.events = QueueAskPullDelivery(kind),
                            !.ask = IF kind = "notice" THEN "cancelled" ELSE @]
    /\ UNCHANGED <<waiters, agents, inbox, conn, daemon, readers, absent>>

\* Lease ids are never reused: the newest one is the live one.
ClaimLease(r) ==
    /\ daemon.up /\ Spend("leases")
    /\ pull' = [pull EXCEPT !.leases = @ + 1]
    /\ readers' = [readers EXCEPT ![r].lease = pull.leases + 1, ![r].cursor = 0]
    /\ UNCHANGED <<waiters, agents, inbox, conn, daemon, absent>>

LeaseLive(r) == readers[r].lease = pull.leases

\* Variant for the mutation check: a poll starts where the log was last read.
EventsPastAnyReader(r) ==
    {e \in DOMAIN pull.events : \A o \in Readers : e > readers[o].cursor}

EventsAfter(r) == {e \in DOMAIN pull.events : e > readers[r].cursor}

\* A poll hands over the events after the reader's cursor and takes nothing away.
Deliver(r) ==
    LET new == EventsAfter(r)
    IN  readers' = [readers EXCEPT ![r].read = @ \cup new,
                                   ![r].cursor = IF new = {} THEN @ ELSE Len(pull.events),
                                   ![r].waiting = FALSE]

\* replies, with the reader's lease and a timeout: answered at once when there are
\* events, else parked.
Poll(r) ==
    /\ daemon.up /\ ~readers[r].waiting
    /\ readers[r].lease > 0 /\ LeaseLive(r)
    /\ IF EventsAfter(r) # {} THEN Deliver(r)
       ELSE readers' = [readers EXCEPT ![r].waiting = TRUE]
    /\ UNCHANGED <<waiters, agents, inbox, conn, daemon, pull, absent, left>>

\* A parked poll ends with events, with the conflict of a stale lease, or when
\* its time is up.
CompleteWait(r) ==
    /\ daemon.up /\ readers[r].waiting
    /\ IF LeaseLive(r) THEN Deliver(r)
       ELSE readers' = [readers EXCEPT ![r].waiting = FALSE]
    /\ UNCHANGED <<waiters, agents, inbox, conn, daemon, pull, absent, left>>

\* Accepting a final resolves the ask, if it is still unresolved.
ResolveByPulledFinal(e) == IF pull.ask = "open" /\ pull.events[e].kind = "final"
                           THEN "resolved" ELSE pull.ask

AckPull(r, e) ==
    /\ daemon.up
    /\ e \in readers[r].read /\ LeaseLive(r)
    /\ pull.events[e].outcome = "queued"
    /\ pull' = [pull EXCEPT !.events[e].outcome = "accepted", !.ask = ResolveByPulledFinal(e)]
    /\ UNCHANGED <<waiters, agents, inbox, conn, daemon, readers, absent, left>>

-----------------------------------------------------------------------------

Init ==
    /\ left \in Budgets
    /\ waiters = [k \in Keys |->
                    IF left.names = 0 /\ k = FirstKey
                    THEN [state |-> "active", name |-> FirstName, seen |-> Never, ask |-> "none",
                          notice |-> "none", client |-> "none"]
                    ELSE [state |-> "none", name |-> NoName, seen |-> Never, ask |-> "none",
                          notice |-> "none", client |-> "none"]]
    /\ agents = [a \in Agents |-> [state |-> "absent", name |-> NoName, how |-> "none",
                                   renaming |-> NoName]]
    /\ inbox = [m \in Msgs |-> [to |-> FirstKey, final |-> FALSE, due |-> FALSE,
                                outcome |-> "none"]]
    /\ conn = [k \in Keys |-> NoSession]
    /\ daemon = [up |-> TRUE, due |-> FALSE, sweeping |-> FALSE]
    /\ pull = [ask |-> "open", events |-> <<>>, leases |-> 0]
    /\ readers = [r \in Readers |-> NewReader]
    /\ absent = [k \in Keys |-> 0]

Naming ==
    \/ \E k \in Keys, n \in Names : RegisterWaiter(k, n)
    \/ \E a \in Agents, n \in Names :
          \/ \E how \in {"start", "adopt"} : Declare(a, n, how)
          \/ DeclareRename(a, n)
    \/ \E a \in Agents : \/ BeginLaunch(a) \/ AcceptStartReady(a) \/ AcceptAdoptReady(a)
                         \/ IncarnationEnds(a) \/ RequestRetirement(a)
                         \/ CommitRename(a) \/ RecoverRenamed(a) \/ AbandonRename(a)
                         \/ ContinueOccupant(a)

Receiving ==
    \/ \E k \in Keys : \/ Ask(k) \/ AskIsTyped(k) \/ ClaimInbox(k) \/ Pump(k) \/ RetireWaiter(k)
                       \/ HostReads(k) \/ HostAcks(k) \/ HostCloses(k)
                       \/ \E due \in BOOLEAN : TellWaiter(k, due)
                       \/ \E final \in BOOLEAN : ReplyToWaiter(k, final)
                       \/ \E how \in {"recorded", "delivered"} : NoteWaiterRetireNotice(k, how)
    \/ \E n \in Names : RetireWaiterByName(n)
    \/ \E m \in Msgs : BecomesDue(m)

AdvanceRepliesWaits == \E r \in Readers : CompleteWait(r)

Pulling ==
    \/ \E kind \in {"progress", "final", "notice"} : PullReply(kind)
    \/ AdvanceRepliesWaits
    \/ \E r \in Readers : \/ ClaimLease(r) \/ Poll(r)
                          \/ \E e \in DOMAIN pull.events : AckPull(r, e)

Next == Naming \/ Receiving \/ Pulling \/ Tick \/ SweepBegins \/ SweepFails \/ SweepAbsent
           \/ Crash \/ Restart

\* The daemon's loop, the clock, a supervisor that restarts the daemon, and
\* recipients that read and acknowledge what reaches them while they are there.
Fairness ==
    /\ \A k \in Keys : WF_vars(Pump(k)) /\ WF_vars(HostReads(k) \/ HostAcks(k))
    /\ WF_vars(\E m \in Msgs : BecomesDue(m))
    /\ WF_vars(Tick \/ SweepBegins \/ SweepAbsent) /\ WF_vars(Restart)
    /\ \A r \in Readers : /\ WF_vars(Poll(r) \/ CompleteWait(r))
                          /\ WF_vars(\E e \in DOMAIN pull.events : AckPull(r, e))

Spec == Init /\ [][Next]_vars /\ Fairness

-----------------------------------------------------------------------------

\* A name addresses one recipient: no active waiter shares its name with another
\* waiter or with a ready agent, nor has the name a ready agent is being renamed
\* to.  Registration looks at agents and readiness looks at waiters, at different
\* times: a start, an adoption, a rename and a continuation each take several
\* steps between which the name can be given away.
WaiterNameExclusive ==
    \A k \in Keys : Active(k) =>
        /\ \A a \in Agents : agents[a].state = "ready" =>
                                waiters[k].name \notin {agents[a].name, agents[a].renaming}
        /\ \A j \in Keys \ {k} : Active(j) => waiters[j].name # waiters[k].name

\* A waiter is retired for absence only after this daemon saw it unconnected for
\* the grace, to within the one interval between two sweeps.  Its clock is only
\* moved by claims, by sweeps that find its session open and by a restart, so a
\* missed touch or a clock that runs while the daemon is down retires a host that
\* was there.
ExpiredHadItsGrace ==
    [][\A k \in Keys : Active(k) /\ waiters'[k].state = "lost" => absent[k] >= Grace - 1]_vars

\* A delivery queued for a waiter that ever claimed its inbox leaves the queue:
\* the host acknowledges it, over as many connections as it takes, or the waiter
\* is given up.  A session that is displaced, closed or lost in a crash takes no
\* delivery with it.
QueuedLeaves ==
    (\E m \in Msgs : inbox[m].outcome = "queued" /\ waiters[inbox[m].to].seen # Never)
        ~> (\A m \in Msgs : inbox[m].outcome # "queued")

\* Every event of a pull ask is acknowledged once readers stop taking the lease
\* from each other: what a reader had read and not acknowledged when it lost the
\* lease is read again by the one that took it.
PulledEventsAreAcked ==
    pull.leases > 0 ~> \A e \in DOMAIN pull.events : pull.events[e].outcome = "accepted"
============================================================================
