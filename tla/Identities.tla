----------------------------- MODULE Identities -----------------------------
(***************************************************************************)
(* Logical agents, their incarnations, and the runtimes Herdr runs.         *)
(*                                                                          *)
(* A logical agent has a public name and a history of incarnations, each a   *)
(* claim that one runtime in one pane and terminal is that agent.  Clients   *)
(* start, hand off, adopt, rename and retire; the daemon checks each request *)
(* against a Herdr snapshot, records its intent, writes to Herdr, and        *)
(* records what it observes next.  Between any two of those steps other      *)
(* requests run, Herdr changes, an answer is lost, or the daemon crashes.    *)
(* Recovery, at boot and on request, settles the records against a snapshot. *)
(*                                                                          *)
(* All agents use one backend kind and one working directory, and Herdr      *)
(* reports a native session, here the runtime itself, for each of them; the  *)
(* branches on a different kind or directory are left out.  Socket waiters   *)
(* and obligations, which also hold names, are in other modules.  The        *)
(* attempt rows of an operation are folded into the incarnation's state: an  *)
(* attempt was made once it has left "declared".                             *)
(***************************************************************************)
EXTENDS Integers, Sequences, FiniteSets

CONSTANTS
    Agents,     \* logical agents, minted or not
    Names,      \* public names
    Panes,      \* Herdr panes
    Clients,    \* client connections, one request each
    Boot,       \* the daemon's own recovery
    Requests,   \* what each client may ask for
    NoAgent,
    NoName,
    FirstAgent, FirstName, FirstPane,  \* an agent that is Ready at the start
    MaxIncs,    \* bound: incarnations
    MaxRuns,    \* bound: runtimes
    MaxWorld,   \* bound: changes people make to Herdr
    MaxFaults,  \* bound: jobs that fail in transport, and busy panes
    MaxCrashes  \* bound: daemon crashes

ASSUME IdentitiesAssumption ==
    /\ FirstAgent \in Agents /\ FirstName \in Names /\ FirstPane \in Panes
    /\ NoAgent \notin Agents /\ NoName \notin Names /\ Boot \notin Clients
    /\ Requests \in [Clients -> SUBSET [method : {"start", "handoff", "adopt", "rename",
                                                  "retire", "close", "recover",
                                                  "whoami", "alias"},
                                        agent : Agents \cup {NoAgent},
                                        name : Names \cup {NoName},
                                        pane : Panes]]
    /\ \A c \in Clients : \A q \in Requests[c] :
          q.method \in {"start", "handoff", "rename", "alias"} => q.name \in Names
    /\ IsFiniteSet(Panes)
    /\ {MaxIncs, MaxRuns} \subseteq Nat \ {0}
    /\ {MaxWorld, MaxFaults, MaxCrashes} \subseteq Nat

VARIABLES
    db,      \* the store: names of logical agents, which of them are archived, and
             \* the incarnations in order of creation
    herdr,   \* what each pane holds
    req,     \* the daemon's record of each request
    launch,  \* the incarnation that launched each runtime, 0 for a person
    used     \* how much of each bound is used

vars == <<db, herdr, req, launch, used>>

States == {"declared", "starting", "ready", "failed", "unknown", "retiring", "retired",
           "lost", "superseded"}
Open == {"pending", "accepted"}
Phases == {"idle", "snapshot", "opening", "sending", "busy", "polling", "settling", "prompting",
           "confirm", "done"}
Incs == DOMAIN db.inc
NoView == <<>>
Idle == [method |-> "none", phase |-> "idle", agent |-> NoAgent, name |-> NoName,
         pane |-> FirstPane, term |-> 0, old |-> 0, inc |-> 0, was |-> NoName,
         resuming |-> FALSE, view |-> NoView, kept |-> NoView, result |-> "none"]

TypeOK ==
    /\ db.name \in [Agents -> Names \cup {NoName}]
    /\ db.archived \subseteq Agents
    /\ Len(db.inc) <= MaxIncs
    /\ \A i \in Incs : db.inc[i] \in
          [agent : Agents, state : States, pane : Panes, term : Nat, bound : BOOLEAN,
           kind : {"start", "adopt", "none"}, op : Open \cup {"succeeded", "failed", "unknown"},
           mine : BOOLEAN, want : Names, renaming : Names \cup {NoName}, run : 0..MaxRuns,
           replaces : 0..MaxIncs,
           first : {"none", "pending", "sent", "accepted", "unknown"}]
    /\ herdr \in [Panes -> [open : BOOLEAN, term : Nat, run : 0..MaxRuns,
                            name : Names \cup {NoName},
                            stage : {"launching", "ready", "manual"}]]
    /\ \A c \in Clients \cup {Boot} :
          /\ req[c].phase \in Phases
          /\ req[c].result \in {"none", "ok", "busy", "rejected", "lost", "unsent"}
          /\ {req[c].inc, req[c].old} \subseteq 0..MaxIncs
    /\ launch \in Seq(0..MaxIncs)
    /\ used \in [world : 0..MaxWorld, faults : 0..MaxFaults, crashes : 0..MaxCrashes]

Shell == [open |-> TRUE, term |-> 1, run |-> 0, name |-> NoName, stage |-> "manual"]

\* One agent is Ready, in its pane and with its name.
OneReady ==
    [name |-> [a \in Agents |-> IF a = FirstAgent THEN FirstName ELSE NoName],
     archived |-> {},
     inc |-> <<[agent |-> FirstAgent, state |-> "ready", pane |-> FirstPane,
                term |-> 1, bound |-> TRUE, kind |-> "start", op |-> "succeeded",
                mine |-> TRUE, want |-> FirstName, renaming |-> NoName, run |-> 1,
                replaces |-> 0, first |-> "none"]>>]

OneRunning ==
    [p \in Panes |-> IF p = FirstPane
                     THEN [Shell EXCEPT !.run = 1, !.name = FirstName, !.stage = "ready"]
                     ELSE Shell]

Init ==
    /\ db = OneReady
    /\ herdr = OneRunning
    /\ req = [c \in Clients \cup {Boot} |-> Idle]
    /\ launch = <<1>>
    /\ used = [world |-> 0, faults |-> 0, crashes |-> 0]

-----------------------------------------------------------------------------
(***************************************************************************)
(* Reading a Herdr snapshot v.                                              *)
(***************************************************************************)
HasTerminal(v, p, t) == v[p].open /\ v[p].term = t
Occupied(v, p, t) == HasTerminal(v, p, t) /\ v[p].run # 0
SeatLive(v, r) == Occupied(v, r.pane, r.term)
NameLive(v, n) == \E p \in Panes : v[p].open /\ v[p].run # 0 /\ v[p].name = n

\* exact_live_binding, and a live seat whose occupant has no name.
ExactLive(v, r, n) == SeatLive(v, r) /\ v[r.pane].name = n
UnnamedLive(v, r) == SeatLive(v, r) /\ v[r.pane].name = NoName

\* check_pane_matches_intent.
PaneMatchesIntent(v, q) == HasTerminal(v, q.pane, q.term) /\ v[q.pane].run = 0

(***************************************************************************)
(* Questions to the store.                                                  *)
(***************************************************************************)
In(d, S) == {i \in DOMAIN d.inc : d.inc[i].state \in S}
NameOf(d, i) == d.name[d.inc[i].agent]
Newest(S) == CHOOSE i \in S : \A j \in S : j <= i
ReadyOf(d, a) == {i \in In(d, {"ready"}) : d.inc[i].agent = a}
ReadyNamed(d, n) == {i \in In(d, {"ready"}) : NameOf(d, i) = n}

\* What holds the agent or the name that a start claims.
ReadyClaimsForStart(d, q) ==
    {i \in In(d, {"ready", "starting"}) : d.inc[i].agent = q.agent \/ NameOf(d, i) = q.name}

\* refuse_start_over_live_ready: a claim of a start, or of a runtime that is live.
StartBlocked(d, v, q) ==
    \E i \in ReadyClaimsForStart(d, q) \ {q.old} :
        d.inc[i].state = "ready" => SeatLive(v, d.inc[i])

\* name_holder_for_start: the agent bound most recently under its current name.
NameHolder(d, n) ==
    LET bound == {i \in DOMAIN d.inc : NameOf(d, i) = n}
    IN  IF bound = {} THEN NoAgent ELSE d.inc[Newest(bound)].agent

Unminted(d) == {a \in Agents : d.name[a] = NoName}
InsertLogicalAgent(d) == CHOOSE a \in Unminted(d) : TRUE
\* The agent the intent continues, or a new one.
AgentFor(d, a) == IF a = NoAgent THEN InsertLogicalAgent(d) ELSE a

\* retirable_binding: those of agent a that have a seat to retire.
RetirableBinding(d, a) == {i \in In(d, {"ready", "retiring"}) : d.inc[i].agent = a}
ReadyIncarnationOtherThan(d, i) ==
    {j \in In(d, {"ready"}) \ {i} : /\ d.inc[j].pane = d.inc[i].pane
                                    /\ d.inc[j].term = d.inc[i].term}

\* The rows that once had this seat, and the agent they say its occupant continues:
\* NoAgent if there is none, no answer if they do not agree.
SeatHistory(d, p, t) ==
    {i \in DOMAIN d.inc : /\ d.inc[i].bound /\ d.inc[i].pane = p /\ d.inc[i].term = t
                          /\ d.inc[i].state \notin {"ready", "retiring", "retired", "superseded"}}
Continuable == {"lost", "unknown", "declared", "failed"}
ContinuableAgent(d, p, t) ==
    LET seat == SeatHistory(d, p, t)
        recorded == {d.inc[i].agent : i \in seat}
    IN  IF recorded = {} THEN {NoAgent}
        ELSE IF Cardinality(recorded) = 1 /\ \E i \in seat : d.inc[i].state \in Continuable
             THEN recorded ELSE {}

FindReadyAlias(d, n) == ReadyNamed(d, n)
FindReadyIdentityForPane(d, p) == {i \in In(d, {"ready"}) : d.inc[i].pane = p}
\* name_info: an archived agent does not hold its name against a new one.
Claimants(d, n) == {a \in Agents \ d.archived : d.name[a] = n}

(***************************************************************************)
(* Transactions of the store, as functions of its contents d.               *)
(***************************************************************************)
\* A new incarnation takes its agent out of the archive (a trigger of the schema).
Insert(d, a, n, r) ==
    [d EXCEPT !.name[a] = n, !.archived = @ \ {a}, !.inc = Append(@, r)]

NewInc(a, n, p, t) ==
    [agent |-> a, state |-> "declared", pane |-> p, term |-> t, bound |-> FALSE,
     kind |-> "start", op |-> "pending", mine |-> TRUE, want |-> n, renaming |-> NoName,
     run |-> 0, replaces |-> 0, first |-> "none"]

DeclareStart(d, a, q) ==
    Insert(d, a, q.name, [NewInc(a, q.name, q.pane, q.term) EXCEPT !.replaces = q.old])

\* insert_adopt_binding, for declare_adopt (at once) and declare_adopt_pending.
AdoptRefused(d, k, q) ==
    \/ k.asked \notin {NoName, k.name}
    \/ \E i \in In(d, {"ready"}) : d.inc[i].pane = q.pane /\ d.inc[i].term = q.term
    \/ ReadyNamed(d, k.name) # {}
    \/ k.agent \in Unminted(d)

DeclareAdopt(d, a, n, q, run, atOnce) ==
    Insert(d, a, n, [NewInc(a, n, q.pane, q.term) EXCEPT
                        !.kind = "adopt", !.bound = TRUE, !.run = run,
                        !.state = IF atOnce THEN "ready" ELSE "declared",
                        !.op = IF atOnce THEN "succeeded" ELSE "pending"])

\* begin_attempt and mark_submitted.
BeginAttempt(d, i) ==
    [d EXCEPT !.inc[i].state = IF @ = "declared" THEN "starting" ELSE @]

\* accept_start_submission, where the terminal is the intended one.
AcceptStartSubmission(d, i) ==
    [d EXCEPT !.inc[i].op = "accepted", !.inc[i].bound = TRUE]

\* mark_rejected and mark_unknown settle an open operation only.
Settle(d, i, outcome) ==
    IF d.inc[i].op \in Open
    THEN [d EXCEPT !.inc[i].op = outcome,
                   !.inc[i].state = IF @ = "starting" THEN outcome ELSE @]
    ELSE d
MarkRejected(d, i) == Settle(d, i, "failed")
MarkUnknown(d, i) == Settle(d, i, "unknown")

\* What accept_start_ready and accept_adopt_ready ask of the observation o.
ProvesReady(d, i, p, o) ==
    /\ o.open /\ o.run # 0 /\ o.stage # "launching"
    /\ p = d.inc[i].pane /\ o.term = d.inc[i].term /\ o.name = NameOf(d, i)
    /\ d.inc[i].op \in Open
    /\ \/ d.inc[i].kind = "start" /\ d.inc[i].state = "starting" /\ o.stage = "ready"
       \/ d.inc[i].kind = "adopt" /\ d.inc[i].state \in {"declared", "starting"}

\* A handoff also needs its predecessor: Ready, and of the same agent.
PredecessorReady(d, i, old) ==
    old = 0 \/ (d.inc[old].state = "ready" /\ d.inc[old].agent = d.inc[i].agent)

AcceptReady(d, i, o, old) ==
    LET up == [d EXCEPT !.inc[i].state = "ready", !.inc[i].op = "succeeded",
                        !.inc[i].bound = TRUE, !.inc[i].run = o.run]
    IN  IF old = 0 THEN up ELSE [up EXCEPT !.inc[old].state = "superseded"]

\* release_absent_alias_binding.
ReleaseAbsentAlias(d, n, v) ==
    LET gone == {i \in ReadyNamed(d, n) : ~SeatLive(v, d.inc[i])}
    IN  IF gone = {} THEN d ELSE [d EXCEPT !.inc[Newest(gone)].state = "lost"]

DeclareRename(d, i, n) == [d EXCEPT !.inc[i].renaming = n]
RenameRefused(d, i, n) ==
    \/ ReadyNamed(d, n) \ {i} # {}
    \/ d.inc[i].state # "ready" \/ d.inc[i].renaming # NoName
CommitRename(d, i, n) == [d EXCEPT !.name[d.inc[i].agent] = n, !.inc[i].renaming = NoName]
AbandonRename(d, i) == [d EXCEPT !.inc[i].renaming = NoName]

RequestRetirement(d, i) == [d EXCEPT !.inc[i].state = "retiring", !.inc[i].mine = TRUE]

\* Variant for the mutation check: the snapshot is not consulted.
CompleteRetirementAnyway(d, i, v) == [d EXCEPT !.inc[i].state = "retired"]

\* reconcile_retirement, also as complete_retirement_if_absent.
CompleteRetirementIfAbsent(d, i, v) ==
    IF SeatLive(v, d.inc[i]) \/ d.inc[i].state # "retiring" THEN d
    ELSE [d EXCEPT !.inc[i].state = "retired"]

-----------------------------------------------------------------------------
(***************************************************************************)
(* Recovery: Store::reconcile against one snapshot.                         *)
(***************************************************************************)
\* reconcile_ready_incarnations.
ReconcileReady(d, v) ==
    LET renamed == {i \in In(d, {"ready"}) : /\ d.inc[i].renaming # NoName
                                             /\ ExactLive(v, d.inc[i], d.inc[i].renaming)}
        exact == {i \in In(d, {"ready"}) : ExactLive(v, d.inc[i], NameOf(d, i))}
        unnamed == {i \in In(d, {"ready"}) : UnnamedLive(v, d.inc[i])}
        absent == In(d, {"ready"}) \ (renamed \cup exact \cup unnamed)
    IN  [d EXCEPT
         !.name = [a \in Agents |->
                     LET of == {i \in renamed : d.inc[i].agent = a}
                     IN  IF of = {} THEN d.name[a] ELSE d.inc[Newest(of)].renaming],
         !.inc = [i \in DOMAIN d.inc |->
                     [d.inc[i] EXCEPT
                        !.state = IF i \in absent THEN "lost" ELSE @,
                        !.renaming = IF i \in renamed \cup exact THEN NoName ELSE @]]]

\* The agents that no older row may continue.
Blocked(d) ==
    {a \in Agents :
        LET own == {i \in DOMAIN d.inc : d.inc[i].agent = a}
        IN  own # {} /\ d.inc[Newest(own)].state \notin Continuable}

RunningAgents(d) == {d.inc[i].agent : i \in In(d, {"ready", "starting"})}
ReadySeat(d, p, t) == \E i \in In(d, {"ready"}) : d.inc[i].pane = p /\ d.inc[i].term = t

\* continuable_session_rows: per agent, the newest row that has a session.
SessionRows(d) ==
    LET rows == {i \in In(d, Continuable) : /\ d.inc[i].run # 0
                                            /\ d.inc[i].agent \notin Blocked(d)}
    IN  {i \in rows : \A j \in rows : d.inc[j].agent = d.inc[i].agent => j <= i}

\* The claims [pane, source] of the agents whose session is live somewhere else.
SessionClaims(d, v) ==
    LET live == {p \in Panes : v[p].open /\ v[p].run # 0 /\ v[p].stage # "launching"}
        match(p) == {i \in SessionRows(d) : /\ d.inc[i].run = v[p].run
                                            /\ v[p].name \in {NoName, NameOf(d, i)}}
    IN  {k \in [pane : live, source : DOMAIN d.inc] :
            /\ match(k.pane) # {} /\ k.source = Newest(match(k.pane))
            /\ ~ReadySeat(d, k.pane, v[k.pane].term)
            /\ d.inc[k.source].agent \notin RunningAgents(d)
            /\ ~(/\ d.inc[k.source].bound /\ d.inc[k.source].pane = k.pane
                 /\ d.inc[k.source].term = v[k.pane].term)}

\* The claims of the agents whose pane came back with a new terminal.
SeatClaims(d, v, bySession) ==
    LET holder(p) == Newest({i \in DOMAIN d.inc : d.inc[i].bound /\ d.inc[i].pane = p})
        taken == {d.inc[k.source].agent : k \in bySession}
    IN  {k \in [pane : Panes, source : In(d, Continuable)] :
            LET r == d.inc[k.source]
                o == v[k.pane]
            IN  /\ r.bound /\ r.pane = k.pane /\ holder(k.pane) = k.source
                /\ r.agent \notin Blocked(d) \cup taken \cup RunningAgents(d)
                /\ o.open /\ o.run # 0 /\ o.stage # "launching" /\ o.term # r.term
                /\ o.name \in {NoName, d.name[r.agent]}
                /\ ~ReadySeat(d, k.pane, o.term)}

\* Variant for the mutation check: an agent that still runs is continued too.
ClaimsOfAll(d, v) ==
    {k \in [pane : {p \in Panes : v[p].open /\ v[p].run # 0}, source : DOMAIN d.inc] :
        d.inc[k.source].run = v[k.pane].run /\ d.inc[k.source].term # v[k.pane].term}

Claims(d, v) == SessionClaims(d, v) \cup SeatClaims(d, v, SessionClaims(d, v))

\* continue_restored_occupants.
Continue(d, v) ==
    LET claims == Claims(d, v)
        agent(k) == d.inc[k.source].agent
        name(k) == d.name[agent(k)]
        contested(k) == \E l \in claims : name(l) = name(k) /\ agent(l) # agent(k)
        held(k) == \E i \in In(d, {"ready", "starting"}) :
                      /\ d.inc[i].agent # agent(k)
                      /\ \/ NameOf(d, i) = name(k)
                         \/ d.inc[i].state = "ready" /\ d.inc[i].renaming = name(k)
        granted == {k \in claims : ~contested(k) /\ ~held(k)}
        order == CHOOSE f \in [1..Cardinality(granted) -> granted] :
                    \A x, y \in DOMAIN f : x # y => f[x] # f[y]
        row(k) == [NewInc(agent(k), name(k), k.pane, v[k.pane].term) EXCEPT
                      !.state = "ready", !.kind = "none", !.op = "succeeded",
                      !.bound = TRUE, !.run = v[k.pane].run]
    IN  [d EXCEPT !.archived = @ \ {agent(k) : k \in granted},
                  !.inc = @ \o [n \in DOMAIN order |-> row(order[n])]]

\* Variant for the mutation check: an unknown start is settled as its operation is.
SettleToAbsent(d, v) ==
    [d EXCEPT !.inc = [i \in DOMAIN d.inc |->
                         IF d.inc[i].state = "unknown" THEN [d.inc[i] EXCEPT !.op = "lost"]
                         ELSE d.inc[i]]]

\* settle_absent_unknown_starts.
SettleAbsentUnknown(d, v) ==
    LET settled(i) == /\ d.inc[i].state = "unknown" /\ d.inc[i].op \notin Open
                      /\ ~NameLive(v, NameOf(d, i))
                      /\ ~(d.inc[i].bound /\ SeatLive(v, d.inc[i]))
    IN  [d EXCEPT !.inc = [i \in DOMAIN d.inc |->
                             IF settled(i) THEN [d.inc[i] EXCEPT !.state = "lost"]
                             ELSE d.inc[i]]]

\* Variant for the mutation check: recovery also takes the running daemon's work.
EveryOperation(d) == In(d, {"retiring"}) \cup {i \in DOMAIN d.inc : d.inc[i].op \in Open}

\* The open operations of an earlier daemon (live_operation_floor).
Candidates(d) ==
    {i \in DOMAIN d.inc : /\ ~d.inc[i].mine
                          /\ \/ d.inc[i].op \in Open
                             \/ d.inc[i].state = "retiring"
                             \/ d.inc[i].first = "sent"}

\* A first message whose write was submitted has an unknown outcome; one that was
\* not attempted is left.
RecoverFirst(d, i) == [d EXCEPT !.inc[i].first = IF @ = "sent" THEN "unknown" ELSE @]

\* The loop of reconcile over the open operations.
RecoverOperation(d, v, i) ==
    LET e == RecoverFirst(d, i)
        o == v[d.inc[i].pane]
    IN  IF d.inc[i].state = "retiring" THEN CompleteRetirementIfAbsent(e, i, v)
        ELSE IF d.inc[i].state = "declared" \/ d.inc[i].op \notin Open THEN e
        ELSE IF ProvesReady(d, i, d.inc[i].pane, o) /\ o.name = d.inc[i].want
             THEN AcceptReady(e, i, o, 0)
             ELSE MarkUnknown(e, i)

RecoverOperations(d, v) ==
    [d EXCEPT !.inc = [i \in DOMAIN d.inc |->
                         IF i \in Candidates(d) THEN RecoverOperation(d, v, i).inc[i]
                         ELSE d.inc[i]]]

\* recover_with_snapshot.
Reconcile(d, v) ==
    RecoverOperations(SettleAbsentUnknown(Continue(ReconcileReady(d, v), v), v), v)

\* name_projection_repair: the Ready agents whose runtime has lost its name.
Unprojected(d, v) ==
    {i \in In(d, {"ready"}) : /\ d.inc[i].renaming \in {NoName, NameOf(d, i)}
                              /\ UnnamedLive(v, d.inc[i])
                              /\ v[d.inc[i].pane].stage # "launching"}

-----------------------------------------------------------------------------
(***************************************************************************)
(* The daemon's requests.                                                   *)
(***************************************************************************)
Keep == UNCHANGED <<herdr, launch, used>>
Goto(c, phase) ==
    req' = [req EXCEPT ![c].phase = phase, ![c].view = NoView, ![c].result = "none"]
Answer(c) == req' = [req EXCEPT ![c] = [Idle EXCEPT !.phase = "done"]]
At(c, methods, phase) == req[c].method \in methods /\ req[c].phase = phase
Seen(c) == req[c].view # NoView
Lost(c) == req[c].result \in {"lost", "unsent"}
Starting == {"start", "handoff"}
\* A pane asked to be adopted, one that asks who it is, and a name with no Ready agent.
Adopting == {"adopt", "whoami", "alias"}

\* Boot recovers before the daemon serves (kelpied's main).
Serving == req[Boot].method # "recover"

Park(c, r) == req' = [req EXCEPT ![c] = r]
Asked(c, q) ==
    [Idle EXCEPT !.method = q.method, !.phase = "snapshot", !.agent = q.agent,
                 !.name = q.name, !.pane = q.pane, !.term = herdr[q.pane].term]
Target(r, i) ==
    [r EXCEPT !.inc = i, !.pane = db.inc[i].pane, !.term = db.inc[i].term]

\* The handoff arm of a start (validate_handoff), start and adopt.
AskStart(c, q) ==
    /\ q.method \in {"start", "adopt"}
    /\ herdr[q.pane].open
    /\ Park(c, Asked(c, q))
    /\ UNCHANGED db

\* prepare_whoami_read: only a pane without a Ready agent is looked at.
AskWhoami(c, q) ==
    /\ q.method = "whoami" /\ FindReadyIdentityForPane(db, q.pane) = {}
    /\ Park(c, Asked(c, q))
    /\ UNCHANGED db

\* pending_alias_bind: an ask, a tell or a clear to a name that has no Ready agent.
AskAlias(c, q) ==
    /\ q.method = "alias" /\ FindReadyAlias(db, q.name) = {}
    /\ Park(c, Asked(c, q))
    /\ UNCHANGED db

AskHandoff(c, q) ==
    /\ q.method = "handoff"
    /\ herdr[q.pane].open
    /\ \E i \in ReadyOf(db, q.agent) : Park(c, [Asked(c, q) EXCEPT !.old = i])
    /\ UNCHANGED db

\* The one Ready incarnation of an agent; several are refused like none.
ResolveReadyIncarnation(d, a) == {i \in ReadyOf(d, a) : ReadyOf(d, a) = {i}}

\* prepare_rename.
AskRename(c, q) ==
    /\ q.method = "rename"
    /\ \E i \in ResolveReadyIncarnation(db, q.agent) :
          Park(c, [Target(Asked(c, q), i) EXCEPT !.was = db.name[q.agent]])
    /\ UNCHANGED db

\* open_retirement resumes a retirement that is on record, another is requested.
Retiring(d, i) == IF d.inc[i].state = "retiring" THEN d ELSE RequestRetirement(d, i)

\* retire without a pane to close is answered at once; recovery completes it.
AskRetire(c, q) ==
    /\ q.method = "retire"
    /\ \E i \in RetirableBinding(db, q.agent) :
          Answer(c) /\ db' = Retiring(db, i)

\* prepare_retire_close: Ready becomes Retiring before the seat is compared.
AskRetireClose(c, q) ==
    /\ q.method = "close"
    /\ \E i \in RetirableBinding(db, q.agent) :
          /\ db' = Retiring(db, i)
          /\ IF ReadyIncarnationOtherThan(db, i) # {} THEN Answer(c)
             ELSE Park(c, [Target(Asked(c, q), i) EXCEPT
                              !.was = db.name[q.agent],
                              !.resuming = db.inc[i].state = "retiring"])

AskRecover(c, q) ==
    q.method = "recover" /\ Park(c, Asked(c, q)) /\ UNCHANGED db

Ask(c) ==
    /\ Serving /\ req[c].phase = "idle"
    /\ \E q \in Requests[c] :
          AskStart(c, q) \/ AskHandoff(c, q) \/ AskRename(c, q) \/ AskRetire(c, q)
            \/ AskRetireClose(c, q) \/ AskRecover(c, q)
            \/ AskWhoami(c, q) \/ AskAlias(c, q)
    /\ Keep

(***************************************************************************)
(* A start: snapshot, intent, launch, readiness, first message.             *)
(***************************************************************************)
\* continue_identity_by_name.
ContinueIdentityByName(d, q) == IF q.agent = NoAgent THEN NameHolder(d, q.name) ELSE q.agent

OpenStartLease(c, i) ==
    Park(c, [req[c] EXCEPT !.phase = "opening", !.view = NoView, !.inc = i])

\* The pane is as intended, the identity is free, and the intent is declared.
DeclareStartFromSnapshot(c, q) ==
    LET holder == ContinueIdentityByName(db, q)
    IN  IF /\ PaneMatchesIntent(q.view, q) /\ ~StartBlocked(db, q.view, q)
           /\ holder \notin Unminted(db)
        THEN /\ Len(db.inc) < MaxIncs
             /\ holder = NoAgent => Unminted(db) # {}
             /\ db' = DeclareStart(db, AgentFor(db, holder), q)
             /\ OpenStartLease(c, Len(db.inc) + 1)
        ELSE Answer(c) /\ UNCHANGED db

\* The first snapshot declares the start; the snapshot of a retry checks the pane again.
OnStartSnapshot(c) ==
    /\ At(c, Starting, "snapshot") /\ Seen(c)
    /\ \/ req[c].inc = 0 /\ DeclareStartFromSnapshot(c, req[c])
       \/ /\ req[c].inc # 0 /\ PaneMatchesIntent(req[c].view, req[c])
          /\ OpenStartLease(c, req[c].inc) /\ UNCHANGED db
       \/ /\ req[c].inc # 0 /\ ~PaneMatchesIntent(req[c].view, req[c])
          /\ Answer(c) /\ db' = MarkRejected(db, req[c].inc)
    /\ Keep

\* commit_start_intent.
CommitStartIntent(d, i) == BeginAttempt(d, i)

\* on_start_opened: the intent to launch is recorded, then agent.start is sent.
OnStartOpened(c) ==
    /\ At(c, Starting, "opening") /\ ~Lost(c)
    /\ db' = CommitStartIntent(db, req[c].inc)
    /\ Goto(c, "sending")
    /\ Keep

\* Variant for the mutation check: a launch whose answer was lost counts as rejected.
OnLaunchUnclear(c) ==
    /\ At(c, Starting, "sending")
    /\ req[c].result \in {"rejected", "lost"}
    /\ Answer(c) /\ db' = MarkRejected(db, req[c].inc)
    /\ Keep

\* apply_agent_start_result of a rejection.
OnStartRejected(c) ==
    /\ At(c, Starting, "sending") /\ req[c].result = "rejected"
    /\ Answer(c) /\ db' = MarkRejected(db, req[c].inc)
    /\ Keep

\* Variant for the mutation check: a lost answer is treated as a busy pane.
OnStartBusyOrLost(c) ==
    /\ At(c, Starting, "sending") /\ req[c].result \in {"busy", "lost"}
    /\ Goto(c, "busy") /\ UNCHANGED db
    /\ Keep

\* schedule_start_retry, and the end of its budget.
OnStartBusy(c) ==
    /\ At(c, Starting, "sending") /\ req[c].result = "busy"
    /\ \/ Goto(c, "busy") /\ UNCHANGED db
       \/ Answer(c) /\ db' = MarkRejected(db, req[c].inc)
    /\ Keep

\* advance_awaiting_starts for a busy pane.
OnBusyElapsed(c) ==
    /\ At(c, Starting, "busy")
    /\ \/ Goto(c, "snapshot") /\ UNCHANGED db
       \/ Answer(c) /\ db' = MarkRejected(db, req[c].inc)
    /\ Keep

\* The daemon asks for the pane's agent, again and again until the start is settled.
SubmitStartReadyGet(c) == Goto(c, "polling")

\* apply_agent_start_result of a success: Herdr names the pane's terminal.
OnStartAccepted(c) ==
    /\ At(c, Starting, "sending") /\ req[c].result = "ok"
    /\ IF req[c].view[req[c].pane].term = req[c].term
       THEN SubmitStartReadyGet(c) /\ db' = AcceptStartSubmission(db, req[c].inc)
       ELSE Answer(c) /\ db' = MarkUnknown(db, req[c].inc)
    /\ Keep

\* classify_start_readiness.
Readiness(o, r) ==
    IF ~o.open \/ o.run = 0 THEN "waiting"
    ELSE IF o.term # r.term \/ o.name \notin {NoName, r.want} THEN "failed"
    ELSE IF o.stage = "ready" THEN "ready"
    ELSE IF o.stage = "manual" /\ o.name = NoName THEN "failed"
    ELSE "waiting"

\* create_initial_message: only the exact Ready incarnation is written to.
CreateInitialMessage(d, i) ==
    [d EXCEPT !.inc[i].first = IF d.inc[i].state = "ready" THEN "pending" ELSE @]

\* begin_initial_message: its row is on record before the settle delay.
BeginInitialMessage(d, i) == CreateInitialMessage(d, i)

\* apply_start_observation; a readiness that does not prove the start leaves it open.
ApplyStartObservation(c, i, o) ==
    LET state == Readiness(o, db.inc[i])
    IN  \/ /\ state = "ready"
           /\ IF ProvesReady(db, i, req[c].pane, o) /\ PredecessorReady(db, i, req[c].old)
              THEN /\ Goto(c, "settling")
                   /\ db' = BeginInitialMessage(AcceptReady(db, i, o, req[c].old), i)
              ELSE Answer(c) /\ UNCHANGED db
        \/ state = "failed" /\ Answer(c) /\ db' = MarkRejected(db, i)
        \/ state = "waiting" /\ SubmitStartReadyGet(c) /\ UNCHANGED db
        \/ state = "waiting" /\ Answer(c) /\ db' = MarkUnknown(db, i)

OnStartReadyGet(c) ==
    /\ At(c, Starting, "polling") /\ Seen(c)
    /\ ApplyStartObservation(c, req[c].inc, req[c].view[req[c].pane])
    /\ Keep

\* commit_prompt_intent: whether the recipient is still Ready is not asked.
CommitInitialIntent(d, i) == [d EXCEPT !.inc[i].first = "sent"]

\* open_initial_message after the settle delay, then on_initial_opened.
OnInitialOpened(c) ==
    /\ At(c, Starting, "settling") /\ ~Lost(c)
    /\ db' = CommitInitialIntent(db, req[c].inc)
    /\ Goto(c, "prompting")
    /\ Keep

\* complete_initial_delivery: an acceptance must name the seat that is on record.
CompleteInitialDelivery(d, i, accepted) ==
    IF d.inc[i].first # "sent" THEN d
    ELSE IF ~accepted THEN [d EXCEPT !.inc[i].first = "unknown"]
    ELSE IF d.inc[i].state = "ready" THEN [d EXCEPT !.inc[i].first = "accepted"]
    ELSE d

\* on_initial_done, also with an error that fail_parked_start passes on.
OnInitialDone(c) ==
    /\ At(c, Starting, "prompting") /\ req[c].result # "none"
    /\ Answer(c)
    /\ LET i == req[c].inc
           ok == req[c].result = "ok"
       IN  db' = IF ok /\ ~HasTerminal(req[c].view, req[c].pane, db.inc[i].term) THEN db
                 ELSE CompleteInitialDelivery(db, i, ok)
    /\ Keep

\* on_start_failed: what Herdr refused goes to the step that waits for the answer.
StartJobFailed(c) == req[c].method \in Starting /\ Lost(c) /\ req[c].phase # "prompting"

\* fail_parked_start, fail_start_at: only a failed readiness poll is recorded.
OnStartFailed(c) ==
    /\ StartJobFailed(c)
    /\ Answer(c)
    /\ db' = IF req[c].phase = "polling" THEN MarkUnknown(db, req[c].inc) ELSE db
    /\ Keep

(***************************************************************************)
(* An adoption: snapshot, then Ready at once, or a name claim and a proof.  *)
(***************************************************************************)
\* claim_name_for_unbound: the name asked for, or one derived from the directory.
ClaimName(d, v, q) ==
    LET others == {v[p].name : p \in {x \in Panes : v[x].open /\ x # q.pane}}
        taken == others \cup {NameOf(d, i) : i \in In(d, {"ready"})}
        free == (IF q.name = NoName THEN Names ELSE {q.name}) \ taken
    IN  {[agent |-> IF q.name = NoName THEN NameHolder(d, n) ELSE NoAgent,
          asked |-> q.name, name |-> n] : n \in free}

\* continue_adopted_name: the agent that last had the occupant's name, or the one asked for,
\* and the name that the intent asks for from then on.
ContinueAdoptedName(d, live, q) ==
    LET asked == IF live # NoName THEN live ELSE q.name
        holder == IF asked = NoName THEN NoAgent ELSE NameHolder(d, asked)
    IN  IF q.agent # NoAgent \/ holder = NoAgent THEN [agent |-> q.agent, asked |-> q.name]
        ELSE [agent |-> holder, asked |-> asked]

\* The agent and the name for an occupant that no recorded seat identifies; an agent that
\* does not exist has no name to restore.
AdoptAs(d, v, q, live) ==
    LET k == ContinueAdoptedName(d, live, q)
        named == IF k.asked = NoName THEN d.name[k.agent] ELSE k.asked
    IN  IF live # NoName THEN {[agent |-> k.agent, asked |-> k.asked, name |-> live]}
        ELSE IF k.agent = NoAgent THEN ClaimName(d, v, q)
        ELSE {[agent |-> k.agent, asked |-> k.asked, name |-> n] : n \in {named} \ {NoName}}

\* adopt_after_snapshot: whom the occupant continues, and the name it is to have.
AdoptChoices(d, v, q) ==
    LET live == v[q.pane].name
        recorded == IF q.agent = NoAgent THEN ContinuableAgent(d, q.pane, q.term) ELSE {NoAgent}
    IN  IF ~Occupied(v, q.pane, q.term) \/ recorded = {} THEN {}
        ELSE IF recorded = {NoAgent} THEN AdoptAs(d, v, q, live)
        ELSE {[agent |-> a, asked |-> d.name[a], name |-> d.name[a]] :
                 a \in {x \in recorded : live \in {NoName, d.name[x]}}}

\* pane_adopt_after_snapshot: whoever is in the pane now.
PaneIntents(d, v, q) ==
    LET o == v[q.pane]
    IN  IF ~o.open \/ o.run = 0 THEN {}
        ELSE {[q EXCEPT !.term = o.term, !.agent = a,
                        !.name = IF a = NoAgent THEN NoName ELSE d.name[a]] :
                 a \in {x \in ContinuableAgent(d, q.pane, o.term) :
                           x = NoAgent \/ o.name \in {NoName, d.name[x]}}}

\* alias_after_snapshot: the one unnamed occupant, never a stranger under a used name.
AliasIntents(d, v, q) ==
    LET candidates == {p \in Panes : /\ v[p].open /\ v[p].run # 0 /\ v[p].name = NoName
                                     /\ v[p].stage # "launching"}
        agents(p) == {a \in ContinuableAgent(d, p, v[p].term) :
                         a # NoAgent \/ Claimants(d, q.name) = {}}
    IN  IF Cardinality(candidates) # 1 THEN {}
        ELSE UNION {{[q EXCEPT !.pane = p, !.term = v[p].term, !.agent = a] : a \in agents(p)} :
                       p \in candidates}

\* A Ready agent under its live name, or a declared one that claims its name first.
AdoptAfterSnapshot(c, q) ==
    LET o == q.view[q.pane]
        choices == AdoptChoices(db, q.view, q)
    IN  \/ choices = {} /\ Answer(c) /\ UNCHANGED db
        \/ \E k \in choices :
             LET d == ReleaseAbsentAlias(db, k.name, q.view)
             IN  IF o.stage = "launching" \/ AdoptRefused(d, k, q)
                 THEN Answer(c) /\ db' = d
                 ELSE /\ Len(db.inc) < MaxIncs
                      /\ k.agent = NoAgent => Unminted(d) # {}
                      /\ db' = DeclareAdopt(d, AgentFor(d, k.agent), k.name, q, o.run,
                                            o.name = k.name)
                      /\ IF o.name = k.name THEN Answer(c)
                         ELSE Park(c, [q EXCEPT !.phase = "opening", !.view = NoView,
                                                !.name = k.name, !.inc = Len(db.inc) + 1])

OnAdoptSnapshot(c) ==
    /\ At(c, {"adopt"}, "snapshot") /\ Seen(c)
    /\ AdoptAfterSnapshot(c, req[c])
    /\ Keep

\* finish_whoami_snapshot.
FinishWhoamiSnapshot(c) ==
    /\ At(c, {"whoami"}, "snapshot") /\ Seen(c)
    /\ LET intents == PaneIntents(db, req[c].view, req[c])
       IN  \/ intents = {} /\ Answer(c) /\ UNCHANGED db
           \/ \E q \in intents : AdoptAfterSnapshot(c, q)
    /\ Keep

\* finish_alias_snapshot; the request that named the alias goes on once it is bound.
FinishAliasSnapshot(c) ==
    /\ At(c, {"alias"}, "snapshot") /\ Seen(c)
    /\ LET intents == AliasIntents(db, req[c].view, req[c])
       IN  \/ intents = {} /\ Answer(c) /\ UNCHANGED db
           \/ \E q \in intents : AdoptAfterSnapshot(c, q)
    /\ Keep

\* submit_adopt_rename_intent.
SubmitAdoptRenameIntent(d, i) == BeginAttempt(d, i)

\* on_adopt_opened: the intent is recorded, then agent.rename is sent.
OnAdoptOpened(c) ==
    /\ At(c, Adopting, "opening") /\ ~Lost(c)
    /\ db' = SubmitAdoptRenameIntent(db, req[c].inc)
    /\ Goto(c, "sending")
    /\ Keep

\* apply_adopt_rename_error: a rejection is certain, anything else is not.
ApplyAdoptRenameError(d, i, result) ==
    IF result = "rejected" THEN MarkRejected(d, i) ELSE MarkUnknown(d, i)

OnAdoptRenamed(c) ==
    /\ At(c, Adopting, "sending")
    /\ \/ req[c].result = "ok" /\ Goto(c, "confirm") /\ UNCHANGED db
       \/ /\ req[c].result = "rejected" /\ Answer(c)
          /\ db' = ApplyAdoptRenameError(db, req[c].inc, "rejected")
    /\ Keep

\* accept_adopt_confirm: the occupant of the seat proves the adoption, or it is unknown.
AcceptAdoptConfirm(d, i, q) ==
    IF ProvesReady(d, i, q.pane, q.view[q.pane]) THEN AcceptReady(d, i, q.view[q.pane], 0)
    ELSE MarkUnknown(d, i)

OnAdoptConfirm(c) ==
    /\ At(c, Adopting, "confirm") /\ Seen(c)
    /\ db' = AcceptAdoptConfirm(db, req[c].inc, req[c])
    /\ Answer(c)
    /\ Keep

\* apply_adopt_confirm_error.
ApplyAdoptConfirmError(d, i) == MarkUnknown(d, i)

\* on_adopt_failed: a failure before the name claim was submitted records nothing.
OnAdoptFailed(c) ==
    /\ req[c].method \in Adopting /\ Lost(c)
    /\ Answer(c)
    /\ db' = IF req[c].phase = "sending"
             THEN ApplyAdoptRenameError(db, req[c].inc, req[c].result)
             ELSE IF req[c].phase = "confirm" THEN ApplyAdoptConfirmError(db, req[c].inc)
             ELSE db
    /\ Keep

(***************************************************************************)
(* A rename, and the name projection that recovery repairs, which is a      *)
(* rename of a runtime to the name its agent already has.                   *)
(***************************************************************************)
VerifyRenameAfterSnapshot(q) == ExactLive(q.view, q, q.was)

OnRenameSnapshot(c) ==
    /\ At(c, {"rename"}, "snapshot") /\ Seen(c)
    /\ IF VerifyRenameAfterSnapshot(req[c]) THEN Goto(c, "opening") ELSE Answer(c)
    /\ UNCHANGED db
    /\ Keep

\* commit_rename_intent.
CommitRenameIntent(c) ==
    IF RenameRefused(db, req[c].inc, req[c].name)
    THEN Answer(c) /\ UNCHANGED db
    ELSE Goto(c, "sending") /\ db' = DeclareRename(db, req[c].inc, req[c].name)

\* on_rename_opened: the intent is recorded, then agent.rename is sent.
OnRenameOpened(c) ==
    /\ At(c, {"rename"}, "opening") /\ ~Lost(c)
    /\ CommitRenameIntent(c)
    /\ Keep

OnProjectionOpened(c) ==
    /\ At(c, {"recover"}, "opening") /\ ~Lost(c)
    /\ Goto(c, "sending") /\ UNCHANGED db
    /\ Keep

\* answer_rename_at: a recovery looks again, or settles what it has seen.
Renamed(c, d, ok) ==
    IF req[c].method = "rename" THEN Answer(c) /\ db' = d
    ELSE IF ok
         THEN /\ Park(c, [Idle EXCEPT !.method = "recover", !.phase = "snapshot"])
              /\ db' = d
         ELSE /\ Answer(c)
              /\ Len(Reconcile(d, req[c].kept).inc) <= MaxIncs
              /\ db' = Reconcile(d, req[c].kept)

\* apply_rename_write_error: only a rejection takes the intent back.
ApplyRenameWriteError(q) ==
    IF q.result = "rejected" THEN AbandonRename(db, q.inc) ELSE db
\* abandon_rename_before_write.
AbandonRenameBeforeWrite(q) == AbandonRename(db, q.inc)

OnRenameSent(c) ==
    /\ At(c, {"rename", "recover"}, "sending")
    /\ \/ req[c].result = "ok" /\ Goto(c, "confirm") /\ UNCHANGED db
       \/ req[c].result = "rejected" /\ Renamed(c, ApplyRenameWriteError(req[c]), FALSE)
    /\ Keep

\* commit_rename_confirm: the runtime has the name, and the intent is still recorded.
RenameConfirmed(q) ==
    /\ ExactLive(q.view, q, q.name)
    /\ db.inc[q.inc].state = "ready" /\ db.inc[q.inc].renaming = q.name

OnRenameConfirm(c) ==
    /\ At(c, {"rename", "recover"}, "confirm") /\ Seen(c)
    /\ IF RenameConfirmed(req[c])
       THEN Renamed(c, CommitRename(db, req[c].inc, req[c].name), TRUE)
       ELSE IF req[c].method = "rename" THEN Answer(c) /\ UNCHANGED db
       ELSE /\ Answer(c)
            /\ Len(Reconcile(db, req[c].view).inc) <= MaxIncs
            /\ db' = Reconcile(db, req[c].view)
    /\ Keep

\* on_rename_failed: what was never written is taken back, what may have been is kept.
OnRenameFailed(c) ==
    /\ \/ req[c].method = "rename"
       \/ req[c].method = "recover" /\ req[c].phase \in {"opening", "sending", "confirm"}
    /\ Lost(c)
    /\ Renamed(c, IF req[c].result = "unsent" THEN AbandonRenameBeforeWrite(req[c])
                  ELSE ApplyRenameWriteError(req[c]), FALSE)
    /\ Keep

(***************************************************************************)
(* The archive.                                                             *)
(***************************************************************************)
Dead(d, i) ==
    /\ d.inc[i].state \in {"failed", "lost", "retired", "superseded"}
    /\ d.inc[i].op \notin Open /\ d.inc[i].first \notin {"pending", "sent"}

\* The store's archive_dead_identities: agents with no incarnation alive or open.
Archivable(d) ==
    {a \in Agents \ d.archived :
        LET own == {i \in DOMAIN d.inc : d.inc[i].agent = a}
        IN  own # {} /\ \A i \in own : Dead(d, i)}

\* The daemon's archive_dead_identities: they ended a day ago, which is longer than any
\* request takes.
ArchiveDeadIdentities ==
    /\ Serving /\ \A c \in Clients \cup {Boot} : req[c].phase \in {"idle", "done"}
    /\ Archivable(db) # {}
    /\ db' = [db EXCEPT !.archived = @ \cup Archivable(db)]
    /\ UNCHANGED req
    /\ Keep

(***************************************************************************)
(* Recovery on request, at boot, and in the window after boot.              *)
(***************************************************************************)
\* finish_recover_snapshot: repair one lost name, or settle the records.
OnRecoverSnapshot(c) ==
    /\ At(c, {"recover"}, "snapshot") /\ Seen(c)
    /\ LET v == req[c].view
           todo == Unprojected(db, v)
           i == CHOOSE j \in todo : \A k \in todo : j <= k
           declared == IF db.inc[i].renaming = NoName
                       THEN DeclareRename(db, i, NameOf(db, i)) ELSE db
       IN  IF todo = {}
           THEN /\ Answer(c)
                /\ Len(Reconcile(db, v).inc) <= MaxIncs
                /\ db' = Reconcile(db, v)
           ELSE IF db.inc[i].renaming = NoName /\ RenameRefused(db, i, NameOf(db, i))
           THEN Answer(c) /\ UNCHANGED db
           ELSE /\ db' = declared
                /\ Park(c, [Target(req[c], i) EXCEPT !.phase = "opening", !.view = NoView,
                                                     !.kept = v, !.name = NameOf(db, i)])
    /\ Keep

OnRecoverFailed(c) ==
    /\ At(c, {"recover"}, "snapshot") /\ Lost(c)
    /\ Answer(c) /\ UNCHANGED db
    /\ Keep

\* schedule_boot_continue, on_boot_continue_done.
BootContinue ==
    /\ \/ /\ req[Boot].phase = "done"
          /\ Park(Boot, [Idle EXCEPT !.method = "continue", !.phase = "snapshot"])
          /\ UNCHANGED db
       \/ /\ At(Boot, {"continue"}, "snapshot") /\ Seen(Boot)
          /\ Answer(Boot)
          /\ Len(Reconcile(db, req[Boot].view).inc) <= MaxIncs
          /\ db' = Reconcile(db, req[Boot].view)
    /\ Keep

(***************************************************************************)
(* A retirement that closes its pane.                                       *)
(***************************************************************************)
\* retire_after_snapshot.
OnRetireSnapshot(c) ==
    /\ At(c, {"close"}, "snapshot") /\ Seen(c)
    /\ IF ExactLive(req[c].view, req[c], req[c].was)
       THEN Goto(c, "opening") /\ UNCHANGED db
       ELSE /\ Answer(c)
            /\ db' = IF req[c].resuming
                     THEN CompleteRetirementIfAbsent(db, req[c].inc, req[c].view) ELSE db
    /\ Keep

OnRetireOpened(c) ==
    /\ At(c, {"close"}, "opening") /\ ~Lost(c)
    /\ Goto(c, "sending") /\ UNCHANGED db
    /\ Keep

OnRetireClosed(c) ==
    /\ At(c, {"close"}, "sending")
    /\ \/ req[c].result = "ok" /\ Goto(c, "confirm")
       \/ req[c].result = "rejected" /\ Answer(c)
    /\ UNCHANGED db
    /\ Keep

\* complete_retire_confirm.
OnRetireConfirm(c) ==
    /\ At(c, {"close"}, "confirm") /\ Seen(c)
    /\ Answer(c)
    /\ db' = CompleteRetirementIfAbsent(db, req[c].inc, req[c].view)
    /\ Keep

OnRetireFailed(c) ==
    /\ req[c].method = "close" /\ Lost(c)
    /\ Answer(c) /\ UNCHANGED db
    /\ Keep

-----------------------------------------------------------------------------
(***************************************************************************)
(* Herdr, the people who use it, and faults.                                *)
(***************************************************************************)
\* session.snapshot, or agent.get of one pane.
HerdrObserves(c) ==
    /\ req[c].phase \in {"snapshot", "confirm", "polling"}
    /\ ~Seen(c) /\ ~Lost(c)
    /\ req' = [req EXCEPT ![c].view =
                  IF req[c].phase = "polling" THEN [p \in {req[c].pane} |-> herdr[p]]
                  ELSE herdr]
    /\ UNCHANGED <<db, herdr, launch, used>>

Write(c, methods) == At(c, methods, "sending") /\ req[c].result = "none"
Says(c, result) == req' = [req EXCEPT ![c].result = result]
Taken(p, n) == \E x \in Panes \ {p} : herdr[x].open /\ herdr[x].run # 0 /\ herdr[x].name = n

\* agent.start: a pane that is not ready for it, or has an agent, is busy.
HerdrStarts(c) ==
    /\ Write(c, Starting)
    /\ LET p == req[c].pane
       IN  \/ /\ ~herdr[p].open \/ Taken(p, req[c].name)
              /\ Says(c, "rejected") /\ UNCHANGED <<herdr, launch, used>>
           \/ /\ herdr[p].open /\ herdr[p].run # 0
              /\ Says(c, "busy") /\ UNCHANGED <<herdr, launch, used>>
           \/ /\ herdr[p].open /\ used.faults < MaxFaults
              /\ Says(c, "busy") /\ used' = [used EXCEPT !.faults = @ + 1]
              /\ UNCHANGED <<herdr, launch>>
           \/ /\ herdr[p].open /\ herdr[p].run = 0 /\ ~Taken(p, req[c].name)
              /\ Len(launch) < MaxRuns
              /\ launch' = Append(launch, req[c].inc)
              /\ herdr' = [herdr EXCEPT ![p].run = Len(launch) + 1, ![p].name = req[c].name,
                                        ![p].stage = "launching"]
              /\ req' = [req EXCEPT ![c].result = "ok", ![c].view = [x \in {p} |-> herdr[p]]]
              /\ UNCHANGED used
    /\ UNCHANGED db

\* agent.rename: by pane, to a name no other agent has.
HerdrRenames(c) ==
    /\ Write(c, Adopting \cup {"rename", "recover"})
    /\ LET p == req[c].pane
       IN  IF herdr[p].open /\ herdr[p].run # 0 /\ ~Taken(p, req[c].name)
           THEN Says(c, "ok") /\ herdr' = [herdr EXCEPT ![p].name = req[c].name]
           ELSE Says(c, "rejected") /\ UNCHANGED herdr
    /\ UNCHANGED <<db, launch, used>>

\* agent.prompt: by pane; without an agent there it is rejected.
HerdrPrompts(c) ==
    /\ At(c, Starting, "prompting") /\ req[c].result = "none"
    /\ IF herdr[req[c].pane].run # 0
       THEN req' = [req EXCEPT ![c].result = "ok", ![c].view = herdr]
       ELSE Says(c, "rejected")
    /\ UNCHANGED <<db, herdr, launch, used>>

Closed(o) == [o EXCEPT !.open = FALSE, !.run = 0, !.name = NoName, !.stage = "manual"]

\* pane.close: by pane.
HerdrCloses(c) ==
    /\ Write(c, {"close"})
    /\ IF herdr[req[c].pane].open
       THEN Says(c, "ok") /\ herdr' = [herdr EXCEPT ![req[c].pane] = Closed(@)]
       ELSE Says(c, "rejected") /\ UNCHANGED herdr
    /\ UNCHANGED <<db, launch, used>>

\* A job fails in transport: before its request was written, or at any later time.
JobFails(c) ==
    /\ c # Boot /\ used.faults < MaxFaults
    /\ req[c].phase \in {"snapshot", "opening", "sending", "polling", "settling", "prompting",
                        "confirm"}
    /\ req[c].result \in {"none", "ok"}
    /\ req' = [req EXCEPT ![c].view = NoView,
                          ![c].result = IF req[c].phase = "sending" /\ req[c].result = "none"
                                        THEN "unsent" ELSE "lost"]
    /\ used' = [used EXCEPT !.faults = @ + 1]
    /\ UNCHANGED <<db, herdr, launch>>

\* A launched runtime becomes interactive.
BecomesReady(p) ==
    /\ herdr[p].stage = "launching"
    /\ herdr' = [herdr EXCEPT ![p].stage = "ready"]
    /\ UNCHANGED <<db, req, launch, used>>

\* People: an agent exits, one is run by hand, a name is cleared, Herdr restarts
\* with every runtime resumed unnamed in some pane, each pane on a new terminal.
Empty(o) == [o EXCEPT !.run = 0, !.name = NoName, !.stage = "manual"]
PeopleAct ==
    /\ used.world < MaxWorld
    /\ used' = [used EXCEPT !.world = @ + 1]
    /\ \/ \E p \in Panes : /\ herdr[p].run # 0
                           /\ herdr' = [herdr EXCEPT ![p] = Empty(@)]
                           /\ UNCHANGED launch
       \/ \E p \in Panes : /\ herdr[p].open /\ herdr[p].run = 0 /\ Len(launch) < MaxRuns
                           /\ herdr' = [herdr EXCEPT ![p].run = Len(launch) + 1]
                           /\ launch' = Append(launch, 0)
       \/ \E p \in Panes : /\ herdr[p].name # NoName
                           /\ herdr' = [herdr EXCEPT ![p].name = NoName]
                           /\ UNCHANGED launch
       \/ \E f \in [Panes -> Panes] :
             /\ \A p, x \in Panes : p # x => f[p] # f[x]
             /\ \A p \in Panes : herdr[p].open
             /\ herdr' = [p \in Panes |-> [Empty(herdr[p]) EXCEPT !.term = @ + 1,
                                                                 !.run = herdr[f[p]].run]]
             /\ UNCHANGED launch
    /\ UNCHANGED <<db, req>>

\* The daemon dies and restarts: clients are gone, open work is an earlier daemon's.
Crash ==
    /\ used.crashes < MaxCrashes
    /\ used' = [used EXCEPT !.crashes = @ + 1]
    /\ db' = [db EXCEPT !.inc = [i \in Incs |-> [db.inc[i] EXCEPT !.mine = FALSE]]]
    /\ req' = [c \in Clients \cup {Boot} |->
                 IF c = Boot THEN [Idle EXCEPT !.method = "recover", !.phase = "snapshot"]
                 ELSE IF req[c].phase = "idle" THEN Idle ELSE [Idle EXCEPT !.phase = "done"]]
    /\ UNCHANGED <<herdr, launch>>

-----------------------------------------------------------------------------
OnStart(c) ==
    \/ OnStartSnapshot(c) \/ OnStartOpened(c) \/ OnStartRejected(c)
    \/ OnStartBusy(c) \/ OnBusyElapsed(c) \/ OnStartAccepted(c) \/ OnStartReadyGet(c)
    \/ OnInitialOpened(c) \/ OnInitialDone(c) \/ OnStartFailed(c)
OnAdopt(c) ==
    \/ OnAdoptSnapshot(c) \/ FinishWhoamiSnapshot(c) \/ FinishAliasSnapshot(c)
    \/ OnAdoptOpened(c) \/ OnAdoptRenamed(c) \/ OnAdoptConfirm(c)
    \/ OnAdoptFailed(c)
OnRename(c) ==
    \/ OnRenameSnapshot(c) \/ OnRenameOpened(c) \/ OnProjectionOpened(c) \/ OnRenameSent(c)
    \/ OnRenameConfirm(c) \/ OnRenameFailed(c)
OnRecover(c) == OnRecoverSnapshot(c) \/ OnRecoverFailed(c)
OnRetire(c) ==
    \/ OnRetireSnapshot(c) \/ OnRetireOpened(c) \/ OnRetireClosed(c) \/ OnRetireConfirm(c)
    \/ OnRetireFailed(c)
Herdr(c) ==
    \/ HerdrObserves(c) \/ HerdrStarts(c) \/ HerdrPrompts(c) \/ HerdrRenames(c)
    \/ HerdrCloses(c) \/ JobFails(c)

Next ==
    \/ \E c \in Clients : Ask(c) \/ OnStart(c) \/ OnAdopt(c) \/ OnRetire(c)
    \/ \E c \in Clients \cup {Boot} : OnRename(c) \/ OnRecover(c) \/ Herdr(c)
    \/ BootContinue
    \/ ArchiveDeadIdentities
    \/ \E p \in Panes : BecomesReady(p)
    \/ PeopleAct
    \/ Crash

Spec == Init /\ [][Next]_vars

-----------------------------------------------------------------------------
\* A retired incarnation's runtime is gone from its seat: retirement is recorded
\* on what Herdr shows, however late the close, its answer or the snapshot is.
RetiredMeansGone ==
    \A i \in In(db, {"retired"}) :
        ~(SeatLive(herdr, db.inc[i]) /\ herdr[db.inc[i].pane].run = db.inc[i].run)

\* A start launches at most one runtime, over busy panes, lost answers and retries.
AtMostOneLaunch ==
    \A r, s \in DOMAIN launch : launch[r] = launch[s] /\ launch[r] # 0 => r = s

\* A start recorded as failed, which Herdr never answered with a terminal, launched
\* nothing: a launch whose answer was lost is never taken for one that was refused.
FailedStartLeftNothing ==
    \A i \in In(db, {"failed"}) : ~db.inc[i].bound => \A r \in DOMAIN launch : launch[r] # i

Recovered == \/ \E c \in Clients \cup {Boot} : OnRecoverSnapshot(c) \/ OnRename(c)
             \/ BootContinue

\* A recovery leaves the open work of the running daemon to the request that owns it.
RecoveryLeavesLiveWork ==
    [][Recovered => \A i \in Incs :
          /\ db.inc[i].mine
          /\ db.inc[i].op \in Open \/ db.inc[i].state = "retiring"
          => db'.inc[i].op = db.inc[i].op
             /\ (db.inc[i].state # "ready" => db'.inc[i].state = db.inc[i].state)]_vars

\* What a recovery continues was not running, starting, or ended on purpose.
ContinuesOnlyTheStopped ==
    [][Recovered => \A i \in DOMAIN db'.inc \ Incs :
          LET own == {j \in Incs : db.inc[j].agent = db'.inc[i].agent}
          IN  /\ \A j \in own : db'.inc[j].state \notin {"ready", "starting"}
              /\ db.inc[Newest(own)].state \notin {"retiring", "retired", "superseded"}]_vars
============================================================================
