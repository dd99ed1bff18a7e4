------------------------------- MODULE Lanes -------------------------------
(***************************************************************************)
(* The daemon's poll loop, its client connections and the Herdr executor.   *)
(*                                                                          *)
(* The daemon is one thread.  It never waits for Herdr: it submits jobs to  *)
(* an executor with a fixed pool of worker threads, and handles the events  *)
(* the workers send back.  Jobs on one lane (the snapshot, or one pane) run *)
(* one at a time; snapshots queued behind another queued snapshot share its *)
(* request.  A job that writes to a pane holds its worker on a lease: the   *)
(* worker reports the connection, waits for the command, writes it, reports *)
(* the answer, and is released by the daemon or by the lease's time limit.  *)
(*                                                                          *)
(* A client connection carries one request.  It is read without blocking,   *)
(* answered at once or parked until the jobs it needs have ended, and its   *)
(* answer may itself have to wait for a client that does not read.          *)
(*                                                                          *)
(* A worker's two channel sends at the end of a request are one step, and   *)
(* the Written event, on which the daemon only runs a test pause, is left   *)
(* out.  The probes of clears, renews and starts (AgentGet) run like a      *)
(* snapshot on a pane's lane; the modules of those components have them.    *)
(***************************************************************************)
EXTENDS Integers, Sequences, FiniteSets

CONSTANTS
    Clients,   \* client connections
    Asks,      \* the methods each of them may ask for
    Workers,   \* worker threads of the executor
    Panes,     \* Herdr panes a prompt is written to
    PanesOf,   \* the panes each job of a client may be for, if it writes to one
    NoJob      \* no job: an idle worker, a free lane

ASSUME LanesAssumption ==
    /\ Workers # {}
    /\ NoJob \notin Clients \X (1..4)
    /\ Asks \in [Clients -> SUBSET {"now", "report", "liveReport", "read", "alias",
                                    "prompt", "cancel"}]
    /\ PanesOf \in [Clients \X (1..4) -> SUBSET Panes]

(***************************************************************************)
(* A client's request needs at most four jobs.  One that names an alias     *)
(* nobody is bound to looks for the pane in a snapshot (1), may have to     *)
(* rename the agent there (2), confirms that in a second snapshot (3), and  *)
(* goes on to its prompt (4).  whoami and who of an unknown pane go the     *)
(* same way and end before the prompt.  A cancel has up to two notices      *)
(* (1 and 2); every other request has one job.                              *)
(***************************************************************************)
Job == Clients \X (1..4)
Owner(j) == j[1]

SnapshotLane == "snapshot"
Lane == Panes \cup {SnapshotLane}

Methods == UNION {Asks[c] : c \in Clients}
\* Until a job is opened it has no lease; then the daemon's command, or the drop of its
\* end of the channel.
LeaseStates == {"none", "open", "send", "drop", "gone"}
Kinds == {"none", "snapshot", "lifecycle", "open"}

VARIABLES
    conn,      \* the life of each connection
    method,    \* the method each parked client asked for
    remaining, \* notices a cancel still waits for
    parked,    \* jobs with an entry in awaiting_reads or awaiting_prompts
    owners,    \* herdr_owners: jobs the daemon routes events for
    kind,      \* the kind of each submitted job
    lane,      \* the lane of each submitted job
    exec,      \* queued, inFlight, coalesced, channel of the executor
    lease,     \* the lease channel of each open job
    worker,    \* what each worker thread is doing
    events,    \* the workers' events, not yet received
    fanned     \* pending_events: events copied for coalesced jobs

daemonVars == <<conn, method, remaining, parked, owners, kind, lane>>
vars == <<daemonVars, exec, lease, worker, events, fanned>>

Idle == [job |-> NoJob, at |-> "idle", covers |-> {}]
Event(type, j, ok, covers) == [type |-> type, job |-> j, ok |-> ok, covers |-> covers]
EventTypes == {"Opened", "Done", "Failed", "Dropped"}

\* The executor as it is spawned.
NoWork == [queued |-> [l \in Lane |-> <<>>], inFlight |-> [l \in Lane |-> NoJob],
           coalesced |-> [j \in Job |-> <<>>], channel |-> <<>>]

ExecRecord ==
    [queued : [Lane -> Seq(Job)], inFlight : [Lane -> Job \cup {NoJob}],
     coalesced : [Job -> Seq(Job)], channel : Seq(Job)]
WorkerRecord ==
    [job : Job \cup {NoJob}, at : {"idle", "request", "lease", "written"}, covers : SUBSET Job]
EventRecord == [type : EventTypes, job : Job, ok : BOOLEAN, covers : SUBSET Job]

TypeOK ==
    /\ conn \in [Clients -> {"reading", "parked", "writing", "closed"}]
    /\ method \in [Clients -> Methods \cup {"none"}]
    /\ remaining \in [Clients -> 0..2]
    /\ parked \subseteq owners
    /\ owners \subseteq Job
    /\ kind \in [Job -> Kinds]
    /\ lane \in [Job -> Lane \cup {"none"}]
    /\ exec \in ExecRecord
    /\ lease \in [Job -> LeaseStates]
    /\ worker \in [Workers -> WorkerRecord]
    /\ events \in Seq(EventRecord) /\ fanned \in Seq(EventRecord)

Init ==
    /\ conn = [c \in Clients |-> "reading"]
    /\ method = [c \in Clients |-> "none"]
    /\ remaining = [c \in Clients |-> 0]
    /\ parked = {}
    /\ owners = {}
    /\ kind = [j \in Job |-> "none"]
    /\ lane = [j \in Job |-> "none"]
    /\ exec = NoWork
    /\ lease = [j \in Job |-> "none"]
    /\ worker = [w \in Workers |-> Idle]
    /\ events = <<>>
    /\ fanned = <<>>

-----------------------------------------------------------------------------
(***************************************************************************)
(* The executor: one job in flight per lane, the rest queued.               *)
(***************************************************************************)
LaneFor(k, pane) == IF k = "open" THEN pane ELSE SnapshotLane

\* HerdrExec::dispatch: the lane is taken and a worker may pick the job up.
Dispatch(x, l, j) ==
    [x EXCEPT !.inFlight[l] = j, !.channel = Append(@, j)]

\* Variant for the mutation check: a job also joins the snapshot in flight.
CoalescingInFlight(x, l, k, kindOf) ==
    {j \in {x.queued[l][n] : n \in DOMAIN x.queued[l]} \cup ({x.inFlight[l]} \ {NoJob}) :
        kindOf[j] = k /\ k \in {"snapshot", "lifecycle"}}

\* The queued job that an identical snapshot job joins.
CoalescingLeaders(x, l, k, kindOf) ==
    {j \in {x.queued[l][n] : n \in DOMAIN x.queued[l]} :
        kindOf[j] = k /\ k \in {"snapshot", "lifecycle"}}

Join(x, leader, j) == [x EXCEPT !.coalesced[leader] = Append(@, j)]

\* Variant for the mutation check: a job is dispatched though its lane is taken.
SubmitAtOnce(x, j, k, l, kindOf) == Dispatch(x, l, j)

\* HerdrExec::submit.
Submit(x, j, k, l, kindOf) ==
    LET leaders == CoalescingLeaders(x, l, k, kindOf)
    IN  IF x.queued[l] # <<>> \/ x.inFlight[l] # NoJob
        THEN IF leaders # {}
             THEN Join(x, CHOOSE j2 \in leaders : TRUE, j)
             ELSE [x EXCEPT !.queued[l] = Append(@, j)]
        ELSE Dispatch(x, l, j)

\* Variant for the mutation check: a failed job keeps its lane.
TerminalDropOnly(e) == e.type = "Dropped"

\* Events after which a lane is free: the job has ended for the executor.
Terminal(e) == e.type \in {"Dropped", "Failed"}

\* The lane of a job in flight is released and its next queued job dispatched.
FreeLane(x, j) ==
    LET held == {l \in Lane : x.inFlight[l] = j}
    IN  IF held = {} THEN x
        ELSE LET l == CHOOSE l \in held : TRUE
                 y == [x EXCEPT !.inFlight[l] = NoJob]
             IN  IF x.queued[l] = <<>> THEN y
                 ELSE Dispatch([y EXCEPT !.queued[l] = Tail(@)], l, Head(x.queued[l]))

\* A completion event of a leader, once for each job that joined it.
FanOut(x, e) ==
    [n \in DOMAIN x.coalesced[e.job] |-> [e EXCEPT !.job = x.coalesced[e.job][n]]]

\* HerdrExec::try_recv of an event of a worker: what the executor does with it.
Settle(x, e) ==
    IF Terminal(e)
    THEN FreeLane([x EXCEPT !.coalesced[e.job] = <<>>], e.job)
    ELSE x

-----------------------------------------------------------------------------
(***************************************************************************)
(* Connections: accepted, read to a line, served.  A connection is here from *)
(* the start: before its first byte it is like one that never came.          *)
(***************************************************************************)
\* Daemon::pump_reading without a line to serve: the request's deadline passed, the
\* client hung up, sent too much, or the read failed.
GiveUpReading(c) ==
    /\ conn[c] = "reading"
    /\ conn' = [conn EXCEPT ![c] = "closed"]
    /\ UNCHANGED <<method, remaining, parked, owners, kind, lane>>
    /\ UNCHANGED <<exec, lease, worker, events, fanned>>

\* write_response: the answer is written, or the write fails; either way the stream is
\* closed.  park_response writes what the socket takes now and keeps the rest.
Outcomes(m) ==
    IF m \in {"report", "liveReport"} THEN {"closed", "writing"} ELSE {"closed"}

\* Variant for the mutation check: events of the job find no owner.
ParkJobUnowned(j, k, l) ==
    /\ kind' = [kind EXCEPT ![j] = k]
    /\ lane' = [lane EXCEPT ![j] = l]
    /\ parked' = parked \cup {j}
    /\ exec' = Submit(exec, j, k, l, kind)
    /\ UNCHANGED owners

\* Submitting a job the daemon owns, with its entry in the map of parked requests.
ParkJob(j, k, l) ==
    /\ kind' = [kind EXCEPT ![j] = k]
    /\ lane' = [lane EXCEPT ![j] = l]
    /\ owners' = owners \cup {j}
    /\ parked' = parked \cup {j}
    /\ exec' = Submit(exec, j, k, l, kind)

\* Daemon::park_prompt.
ParkPrompt(j, pane) == ParkJob(j, "open", LaneFor("open", pane))

\* Daemon::park_read.
ParkRead(j, m) ==
    LET k == IF m = "liveReport" THEN "lifecycle" ELSE "snapshot"
    IN  ParkJob(j, k, LaneFor(k, NoJob))

\* Daemon::park_cancel: one or two notices, each a parked prompt of its own.
ParkCancel(c, pane) ==
    LET j1 == <<c, 1>>
        j2 == <<c, 2>>
    IN  \/ /\ remaining' = [remaining EXCEPT ![c] = 1]
           /\ ParkPrompt(j1, pane)
        \/ \E pane2 \in PanesOf[j2] :
             /\ remaining' = [remaining EXCEPT ![c] = 2]
             /\ kind' = [kind EXCEPT ![j1] = "open", ![j2] = "open"]
             /\ lane' = [lane EXCEPT ![j1] = pane, ![j2] = pane2]
             /\ owners' = owners \cup {j1, j2}
             /\ parked' = parked \cup {j1, j2}
             /\ exec' = Submit(Submit(exec, j1, "open", pane, kind),
                               j2, "open", pane2, kind)

\* Daemon::dispatch_line / serve_parsed_line: the method decides whether the line is
\* answered now or parked; any method may be refused at once.
ServeNow(c, m) ==
    /\ conn' \in {[conn EXCEPT ![c] = r] : r \in Outcomes(m)}
    /\ UNCHANGED <<method, remaining, parked, owners, kind, lane, exec>>

ServeRead(c, m) ==
    /\ m \in {"read", "liveReport", "alias"}
    /\ conn' = [conn EXCEPT ![c] = "parked"]
    /\ method' = [method EXCEPT ![c] = m]
    /\ ParkRead(<<c, 1>>, m)
    /\ UNCHANGED remaining

ServePrompt(c, m) ==
    /\ m = "prompt"
    /\ conn' = [conn EXCEPT ![c] = "parked"]
    /\ method' = [method EXCEPT ![c] = m]
    /\ \E pane \in PanesOf[<<c, 1>>] : ParkPrompt(<<c, 1>>, pane)
    /\ UNCHANGED remaining

ServeCancel(c, m) ==
    /\ m = "cancel"
    /\ conn' = [conn EXCEPT ![c] = "parked"]
    /\ method' = [method EXCEPT ![c] = m]
    /\ \E pane \in PanesOf[<<c, 1>>] : ParkCancel(c, pane)

Serve(c, m) ==
    /\ conn[c] = "reading"
    /\ \/ ServeNow(c, m)
       \/ ServeRead(c, m)
       \/ ServePrompt(c, m)
       \/ ServeCancel(c, m)
    /\ UNCHANGED <<lease, worker, events, fanned>>

\* The last bytes are written, or the write fails.
WriteEnds(c) == conn' = [conn EXCEPT ![c] = "closed"]

\* Daemon::advance_writes: the rest is written, the write fails, or it times out.
AdvanceWrite(c) ==
    /\ conn[c] = "writing"
    /\ WriteEnds(c)
    /\ UNCHANGED <<method, remaining, parked, owners, kind, lane>>
    /\ UNCHANGED <<exec, lease, worker, events, fanned>>

-----------------------------------------------------------------------------
(***************************************************************************)
(* Worker threads.                                                          *)
(***************************************************************************)
Submitted == {j \in Job : kind[j] # "none"}

WorkerAt(w, at) == worker' = [worker EXCEPT ![w].at = at]
Rest(w) == worker' = [worker EXCEPT ![w] = Idle]
Emit(e) == events' = Append(events, e)

\* worker_loop: take a snapshot job; its request is made from here on.
TakeRead(w) ==
    /\ worker[w].at = "idle"
    /\ exec.channel # <<>>
    /\ kind[Head(exec.channel)] # "open"
    /\ worker' = [worker EXCEPT ![w] =
           [job |-> Head(exec.channel), at |-> "request", covers |-> Submitted]]
    /\ exec' = [exec EXCEPT !.channel = Tail(@)]
    /\ UNCHANGED <<daemonVars, lease, events, fanned>>

\* worker_loop: take an open job, connect and offer its lease, or fail to connect.
TakeOpen(w) ==
    /\ worker[w].at = "idle"
    /\ exec.channel # <<>>
    /\ kind[Head(exec.channel)] = "open"
    /\ LET j == Head(exec.channel)
       IN  \/ /\ Emit(Event("Opened", j, TRUE, {}))
              /\ lease' = [lease EXCEPT ![j] = "open"]
              /\ worker' = [worker EXCEPT ![w] = [job |-> j, at |-> "lease", covers |-> {}]]
           \/ /\ Emit(Event("Failed", j, FALSE, {}))
              /\ UNCHANGED <<lease, worker>>
    /\ exec' = [exec EXCEPT !.channel = Tail(@)]
    /\ UNCHANGED <<daemonVars, fanned>>

\* A snapshot is answered, or fails, within the client's time limit.  What is made of
\* it depends on the outcome only for an alias bind.
FinishRequest(w) ==
    /\ worker[w].at = "request"
    /\ \E ok \in IF kind[worker[w].job] = "snapshot" THEN BOOLEAN ELSE {TRUE} :
         events' = events \o <<Event("Done", worker[w].job, ok, worker[w].covers),
                               Event("Dropped", worker[w].job, TRUE, {})>>
    /\ Rest(w)
    /\ UNCHANGED <<daemonVars, exec, lease, fanned>>

\* run_lease: the command arrives and is written; a failed write is reported and the
\* lease stays.
WriteCommand(w) ==
    /\ worker[w].at = "lease"
    /\ lease[worker[w].job] = "send"
    /\ lease' = [lease EXCEPT ![worker[w].job] = "open"]
    /\ \/ /\ WorkerAt(w, "written")
          /\ UNCHANGED events
       \/ /\ Emit(Event("Failed", worker[w].job, FALSE, {}))
          /\ UNCHANGED worker
    /\ UNCHANGED <<daemonVars, exec, fanned>>

\* run_lease: the stream refuses the command's time limit, and the worker gives up.
LoseCommand(w) ==
    /\ worker[w].at = "lease"
    /\ lease[worker[w].job] = "send"
    /\ lease' = [lease EXCEPT ![worker[w].job] = "gone"]
    /\ Emit(Event("Failed", worker[w].job, FALSE, {}))
    /\ Rest(w)
    /\ UNCHANGED <<daemonVars, exec, fanned>>

\* run_lease: the answer is read, or the read fails or times out.
ReadAnswer(w) ==
    /\ worker[w].at = "written"
    /\ \/ Emit(Event("Done", worker[w].job, TRUE, {}))
       \/ Emit(Event("Failed", worker[w].job, FALSE, {}))
    /\ WorkerAt(w, "lease")
    /\ UNCHANGED <<daemonVars, exec, lease, fanned>>

\* run_lease: the daemon let the lease go.
DropLease(w) ==
    /\ worker[w].at = "lease"
    /\ lease[worker[w].job] = "drop"
    /\ lease' = [lease EXCEPT ![worker[w].job] = "gone"]
    /\ Emit(Event("Dropped", worker[w].job, TRUE, {}))
    /\ Rest(w)
    /\ UNCHANGED <<daemonVars, exec, fanned>>

\* Variant for the mutation check: the worker reports the expiry but keeps the lease.
ExpireLeaseKept(w) ==
    /\ worker[w].at = "lease"
    /\ lease[worker[w].job] = "open"
    /\ Emit(Event("Failed", worker[w].job, FALSE, {}))
    /\ UNCHANGED <<daemonVars, exec, lease, worker, fanned>>

\* run_lease: nothing came within LEASE_TTL, and the worker gives the lease up.
ExpireLease(w) ==
    /\ worker[w].at = "lease"
    /\ lease[worker[w].job] = "open"
    /\ lease' = [lease EXCEPT ![worker[w].job] = "gone"]
    /\ Emit(Event("Failed", worker[w].job, FALSE, {}))
    /\ Rest(w)
    /\ UNCHANGED <<daemonVars, exec, fanned>>

WorkerStep(w) ==
    \/ TakeRead(w)
    \/ TakeOpen(w)
    \/ FinishRequest(w)
    \/ WriteCommand(w)
    \/ LoseCommand(w)
    \/ ReadAnswer(w)
    \/ DropLease(w)

-----------------------------------------------------------------------------
(***************************************************************************)
(* The daemon handles one event: drain_herdr_events.                        *)
(***************************************************************************)
\* drop_lease, or the Drop command: the worker is told to let go.
LetGo(j) ==
    lease' = [lease EXCEPT ![j] = IF @ = "open" THEN "drop" ELSE @]

\* The client's answer; a cancel is answered with its last notice
\* (note_cancel_notice), and the notices' prompts have no stream of their own.
Conclude(c) ==
    IF method[c] = "cancel"
    THEN /\ remaining' = [remaining EXCEPT ![c] = @ - 1]
         /\ conn' \in IF remaining[c] = 1
                      THEN {[conn EXCEPT ![c] = r] : r \in Outcomes("cancel")}
                      ELSE {conn}
    ELSE /\ UNCHANGED remaining
         /\ conn' \in {[conn EXCEPT ![c] = r] :
                          r \in Outcomes(method[c])}

\* finish_parked_prompt, fail_parked_prompt and (for a rename) on_adopt_failed, as far as
\* the client sees them: the entry is removed, the lease let go, the outcome recorded, the
\* client answered.
EndPrompt(j) ==
    /\ IF j \in parked
       THEN /\ parked' = parked \ {j}
            /\ LetGo(j)
            /\ Conclude(Owner(j))
       ELSE UNCHANGED <<parked, lease, conn, remaining>>
    /\ UNCHANGED <<kind, lane, owners>>

\* answer_parked_prompt: the intent could not be committed.  A cancel's notice has no
\* stream, so nobody is answered and the cancel's count stays where it is.
RefusePrompt(j) ==
    /\ parked' = parked \ {j}
    /\ LetGo(j)
    /\ IF method[Owner(j)] = "cancel"
       THEN UNCHANGED <<conn, remaining>>
       ELSE Conclude(Owner(j))
    /\ UNCHANGED <<kind, lane, owners>>

\* on_prompt_opened, and on_adopt_opened of a rename: intent, then the command.  A lease
\* whose worker has just given up refuses the command, or takes it and never reads it.
OnPromptOpened(j) ==
    IF j \notin parked
    THEN LetGo(j) /\ UNCHANGED <<conn, remaining, parked, kind, lane, owners>>
    ELSE \/ RefusePrompt(j)
         \/ /\ lease[j] = "open"
            /\ lease' = [lease EXCEPT ![j] = "send"]
            /\ UNCHANGED <<conn, remaining, parked, kind, lane, owners>>
         \/ /\ lease[j] = "gone"
            /\ EndPrompt(j)
         \/ /\ lease[j] = "gone"
            /\ UNCHANGED <<conn, remaining, parked, kind, lane, owners, lease>>

\* on_client_read_done and fail_client_read: the read is answered from the result.
OnReadDone(j) ==
    /\ IF j \in parked
       THEN /\ parked' = parked \ {j}
            /\ Conclude(Owner(j))
       ELSE UNCHANGED <<parked, conn, remaining>>
    /\ UNCHANGED <<kind, lane, owners, lease>>

\* A request whose job has ended goes on with its next job, in the same step.
GoOn(j, next, k, l, x) ==
    /\ kind' = [kind EXCEPT ![next] = k]
    /\ lane' = [lane EXCEPT ![next] = l]
    /\ owners' = owners \cup {next}
    /\ parked' = (parked \ {j}) \cup {next}
    /\ exec' = Submit(x, next, k, l, kind)
    /\ UNCHANGED <<conn, remaining>>

\* The jobs of an alias request: the snapshot it starts from, the rename, the confirming
\* snapshot.
Adopts(j) == method[Owner(j)] = "alias" /\ j[2] = 1
Renames(j) == method[Owner(j)] = "alias" /\ j[2] = 2
Binds(j) == method[Owner(j)] = "alias" /\ j[2] \in {1, 3}

\* finish_alias_snapshot: the pane's agent is adopted, but has to be renamed first.
OnAliasFound(j, x) ==
    \E pane \in PanesOf[<<Owner(j), 2>>] :
        GoOn(j, <<Owner(j), 2>>, "open", pane, x) /\ UNCHANGED lease

\* on_adopt_renamed: the rename was answered; its lease is let go, and a snapshot asked
\* for that confirms the name.
OnAdoptRenamed(j, x) ==
    GoOn(j, <<Owner(j), 3>>, "snapshot", SnapshotLane, x) /\ LetGo(j)

\* finish_alias_snapshot or on_adopt_confirm, then resume_bound_request: the alias is
\* bound and the request goes on to its prompt.
OnAliasBound(j, x) ==
    \E pane \in PanesOf[<<Owner(j), 4>>] :
        GoOn(j, <<Owner(j), 4>>, "open", pane, x) /\ UNCHANGED lease

\* What the handler of an event does; x is the executor after it took the event.
Handle(e, x) ==
    LET j == e.job
    IN  \/ /\ j \notin owners
           /\ exec' = x
           /\ IF e.type = "Opened" THEN LetGo(j) ELSE UNCHANGED lease
           /\ UNCHANGED <<conn, remaining, parked, owners, kind, lane>>
        \/ /\ j \in owners /\ e.type = "Opened"
           /\ exec' = x
           /\ OnPromptOpened(j)
        \/ /\ j \in owners /\ e.type \in {"Done", "Failed"} /\ kind[j] = "open"
           /\ exec' = x
           /\ EndPrompt(j)
        \/ /\ j \in owners /\ e.type \in {"Done", "Failed"} /\ kind[j] # "open"
           /\ exec' = x
           /\ OnReadDone(j)
        \/ /\ j \in parked /\ e.type = "Done" /\ e.ok
           /\ \/ Adopts(j) /\ OnAliasFound(j, x)
              \/ Renames(j) /\ OnAdoptRenamed(j, x)
              \/ Binds(j) /\ OnAliasBound(j, x)
        \/ /\ j \in owners /\ e.type = "Dropped"
           /\ exec' = x
           /\ owners' = owners \ {j}
           /\ UNCHANGED <<conn, remaining, parked, kind, lane, lease>>

\* HerdrExec::try_recv hands out copied events first.
HandleFanned ==
    /\ fanned # <<>>
    /\ fanned' = Tail(fanned)
    /\ Handle(Head(fanned), exec)
    /\ UNCHANGED <<method, worker, events>>

\* An event of a worker: copied for the jobs that joined it, its lane freed and the
\* next job dispatched, before the handler runs.
HandleEvent ==
    /\ fanned = <<>>
    /\ events # <<>>
    /\ events' = Tail(events)
    /\ LET e == Head(events)
       IN  /\ fanned' = IF e.type = "Done" \/ Terminal(e) THEN FanOut(exec, e) ELSE <<>>
           /\ Handle(e, Settle(exec, e))
    /\ UNCHANGED <<method, worker>>

Next ==
    \/ \E c \in Clients : \/ GiveUpReading(c)
                          \/ \E m \in Asks[c] : Serve(c, m)
                          \/ AdvanceWrite(c)
    \/ \E w \in Workers : WorkerStep(w) \/ ExpireLease(w)
    \/ HandleFanned
    \/ HandleEvent

Spec == Init /\ [][Next]_vars

(***************************************************************************)
(* The daemon's loop passes over its connections and events forever; each   *)
(* worker is a thread that runs, and every call to Herdr it makes has a     *)
(* time limit.                                                              *)
(***************************************************************************)
Fairness ==
    /\ \A c \in Clients : WF_vars(GiveUpReading(c)) /\ WF_vars(AdvanceWrite(c))
    /\ \A w \in Workers : WF_vars(WorkerStep(w))
    /\ WF_vars(HandleFanned)
    /\ WF_vars(HandleEvent)

FairSpec == Spec /\ Fairness

-----------------------------------------------------------------------------
(***************************************************************************)
(* Properties.                                                              *)
(***************************************************************************)
\* A lane is one queue: no two workers have a command written, and not answered, on
\* the same pane, even when a failed job has freed its lane before its worker returned.
LaneIsExclusive ==
    \A w1, w2 \in Workers :
        worker[w1].at = "written" /\ worker[w2].at = "written" /\ w1 # w2
            => lane[worker[w1].job] # lane[worker[w2].job]

\* A snapshot that answers a job was asked for after the job was submitted: sharing a
\* request never serves an observation older than the caller's question.
SnapshotIsFresh ==
    \A q \in {events, fanned} : \A k \in DOMAIN q :
        q[k].type = "Done" /\ kind[q[k].job] # "open" => q[k].job \in q[k].covers

\* Nothing is written to a pane for a request that has been settled: a command the
\* daemon gave up on (its lease expired, its job failed) never reaches Herdr later.
NoWriteAfterVerdict ==
    [][\A w \in Workers :
          worker[w].at # "written" /\ worker'[w].at = "written"
              => worker[w].job \in parked]_vars

\* A cancel one of whose notices could not record its intent: that notice is gone, the
\* cancel still counts on it.
NoticeForgotten(c) ==
    method[c] = "cancel" /\ remaining[c] > Cardinality({j \in parked : Owner(j) = c})

\* Every client of a modelled method is released: answered, or cut by a deadline.  However
\* few workers there are, a lane whose pane does not answer delays the others and does not
\* block them, and no failed job leaves a parked client without an answer.  The code breaks
\* this when the intent of a cancel's notice cannot be recorded (RefusePrompt): its client
\* is never answered, and the property says so with NoticeForgotten.  Inbox sessions and
\* the replies of a waiter are not here (Inbox), nor the clients of starts, clears, renews,
\* adoptions, renames and retirements.
EveryClientIsReleased ==
    \A c \in Clients :
        conn[c] \in {"reading", "parked", "writing"}
            ~> (conn[c] = "closed" \/ NoticeForgotten(c))
=============================================================================
