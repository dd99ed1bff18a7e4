---------------------------- MODULE LanesProofs ----------------------------
(***************************************************************************)
(* LanesInv is an inductive invariant of Lanes.  From it follow the types,  *)
(* that a pane has one command on it at a time, that a shared snapshot is   *)
(* never older than a job it answers, and that nothing is written for a     *)
(* request that was settled: for every number of clients, workers and panes. *)
(*                                                                         *)
(* The properties are far from inductive.  What keeps a pane to one command *)
(* is where each job stands: queued, taken by its lane, with a worker, with *)
(* events under way, or ended.  The executor's own books are ExecAgrees;    *)
(* the others say what a lease, a worker and an event tell of a job.        *)
(***************************************************************************)
EXTENDS Lanes, SequenceTheorems, TLAPS

Elems(q) == {q[n] : n \in DOMAIN q}
Once(q) == \A m, n \in DOMAIN q : q[m] = q[n] => m = n

\* Jobs a worker has taken: they have a lease, a worker or an event.
Touched ==
    {j \in Job : \/ lease[j] # "none"
                 \/ \E w \in Workers : worker[w].job = j
                 \/ \E n \in DOMAIN events : events[n].job = j}

\* The executor's books.  A queued job waits for its own lane, once; a job in the channel
\* holds its lane; only snapshots share a request.
QueuesAgree(x, K, L, T) ==
    \A l \in Lane :
        /\ Once(x.queued[l])
        /\ \A j \in Elems(x.queued[l]) :
              /\ L[j] = l /\ K[j] # "none" /\ j \notin T
              /\ x.inFlight[l] # j /\ j \notin Elems(x.channel)

ChannelAgrees(x, K, L, T) ==
    /\ Once(x.channel)
    /\ \A j \in Elems(x.channel) : K[j] # "none" /\ j \notin T /\ x.inFlight[L[j]] = j

ExecAgrees(x, K, L, T) ==
    /\ x \in ExecRecord
    /\ QueuesAgree(x, K, L, T)
    /\ ChannelAgrees(x, K, L, T)
    /\ \A l \in Lane : x.inFlight[l] # NoJob => L[x.inFlight[l]] = l /\ K[x.inFlight[l]] # "none"
    /\ \A j \in Job : \A i \in Elems(x.coalesced[j]) :
          K[i] \notin {"none", "open"} /\ K[j] \notin {"none", "open"}

\* A job that was not submitted is known to nobody, one that was has a lane.
NewJobsAgree ==
    \A j \in Job : IF kind[j] = "none" THEN j \notin Touched /\ j \notin owners
                   ELSE lane[j] \in Lane

\* A client that is read submitted nothing.  The jobs of an alias request come one after
\* the other; a cancel has two jobs, and counts at least the notices that are parked.
ClientAgrees(c) ==
    /\ conn[c] = "reading" => \A n \in 1..4 : kind[<<c, n>>] = "none"
    /\ method[c] = "alias" =>
          \A n, m \in 1..4 : <<c, n>> \in parked /\ n < m => kind[<<c, m>>] = "none"
    /\ method[c] # "alias" => <<c, 3>> \notin parked /\ <<c, 4>> \notin parked
    /\ method[c] = "cancel" =>
          /\ <<c, 1>> \in parked \/ <<c, 2>> \in parked => remaining[c] >= 1
          /\ <<c, 1>> \in parked /\ <<c, 2>> \in parked => remaining[c] = 2

ClientsAgree == \A c \in Clients : ClientAgrees(c)

\* Workers have different jobs.  A job of one worker is shared by those that joined it
\* before the worker asked.
WorkersAgree ==
    /\ \A w1, w2 \in Workers :
          w1 # w2 /\ worker[w1].job = worker[w2].job => worker[w1].job = NoJob
    /\ \A w \in Workers :
          LET j == worker[w].job
          IN  /\ worker[w].at = "idle" <=> j = NoJob
              /\ worker[w].at \in {"lease", "written"} => kind[j] = "open"
              /\ worker[w].at = "written" => lease[j] = "open"
              /\ worker[w].at = "request" =>
                    /\ kind[j] \notin {"none", "open"}
                    /\ j \in worker[w].covers /\ Elems(exec.coalesced[j]) \subseteq worker[w].covers

Written(j) == \E w \in Workers : worker[w].job = j /\ worker[w].at = "written"

\* Until the daemon hears that a lease is open, the job holds its lane and nothing else
\* was said of it, but that the worker gave the lease up.
OpenedAgree ==
    \A n \in DOMAIN events : events[n].type = "Opened" =>
        LET j == events[n].job
        IN  /\ kind[j] = "open" /\ exec.inFlight[lane[j]] = j /\ lease[j] \in {"open", "gone"}
            /\ \A m \in DOMAIN events : events[m].job = j => n <= m /\ (lease[j] = "open" => m = n)

\* A command that was given, or is written and not answered, belongs to a parked prompt
\* that holds its lane and of which no event is under way.
CommandsAgree ==
    \A j \in Job :
        /\ lease[j] = "send" \/ Written(j) =>
              /\ kind[j] = "open" /\ exec.inFlight[lane[j]] = j /\ j \in parked
              /\ \A n \in DOMAIN events : events[n].job # j
        /\ lease[j] = "drop" => j \notin parked

\* An answered snapshot is fresh for its job and for those that joined it.
AnswersAgree ==
    /\ \A n \in DOMAIN events :
          LET e == events[n]
          IN  e.type = "Done" /\ kind[e.job] # "open" =>
                 e.job \in e.covers /\ Elems(exec.coalesced[e.job]) \subseteq e.covers
    /\ \A n \in DOMAIN fanned : /\ kind[fanned[n].job] \notin {"none", "open"}
                                /\ fanned[n].type # "Opened"
                                /\ fanned[n].type = "Done" => fanned[n].job \in fanned[n].covers

Verdict(e, j) == e.job = j /\ e.type \in {"Done", "Failed"}

\* The last event of a job comes after the one that settles its request, also for the
\* jobs that share it.
DropsAgree ==
    /\ \A n \in DOMAIN events : events[n].type = "Dropped" =>
          \A j \in {events[n].job} \cup Elems(exec.coalesced[events[n].job]) :
              j \in parked => \/ \E m \in 1..(n - 1) : Verdict(events[m], events[n].job)
                              \/ \E m \in DOMAIN fanned : Verdict(fanned[m], j)
                                                          /\ j # events[n].job
    /\ \A n \in DOMAIN fanned : fanned[n].type = "Dropped" => fanned[n].job \notin parked

LanesInv ==
    /\ TypeOK
    /\ ExecAgrees(exec, kind, lane, Touched)
    /\ NewJobsAgree /\ ClientsAgree /\ WorkersAgree
    /\ OpenedAgree /\ CommandsAgree /\ AnswersAgree /\ DropsAgree
-----------------------------------------------------------------------------
(* Sequences.                                                               *)

LEMMA AppendElems ==
    ASSUME NEW S, NEW q \in Seq(S), NEW e \in S
    PROVE  /\ Append(q, e) \in Seq(S)
           /\ Elems(Append(q, e)) = Elems(q) \cup {e}
           /\ Once(q) /\ e \notin Elems(q) => Once(Append(q, e))
<1>1. /\ Append(q, e) \in Seq(S) /\ Len(q) \in Nat
      /\ DOMAIN q = 1..Len(q) /\ DOMAIN Append(q, e) = 1..(Len(q) + 1)
      /\ \A n \in 1..Len(q) : Append(q, e)[n] = q[n]
      /\ Append(q, e)[Len(q) + 1] = e
  BY AppendProperties
<1> DEFINE r == Append(q, e)
<1>2. Elems(r) \subseteq Elems(q) \cup {e}
  BY <1>1 DEF Elems
<1>3. Elems(q) \cup {e} \subseteq Elems(r)
  <2>1. \A n \in DOMAIN q : n \in DOMAIN r /\ r[n] = q[n]
    BY <1>1
  <2>2. Len(q) + 1 \in DOMAIN r
    BY <1>1
  <2> QED
    BY <1>1, <2>1, <2>2 DEF Elems
<1>4. Once(q) /\ e \notin Elems(q) => Once(r)
  <2> SUFFICES ASSUME Once(q), e \notin Elems(q), NEW m \in DOMAIN r, NEW n \in DOMAIN r,
                      r[m] = r[n]
               PROVE  m = n
    BY DEF Once
  <2>1. \A i \in DOMAIN q : q[i] # e
    BY DEF Elems
  <2> QED
    BY <1>1, <2>1 DEF Once
<1> QED
  BY <1>1, <1>2, <1>3, <1>4

LEMMA TailElems ==
    ASSUME NEW S, NEW q \in Seq(S), q # <<>>
    PROVE  /\ Tail(q) \in Seq(S) /\ Head(q) \in S
           /\ Elems(q) = {Head(q)} \cup Elems(Tail(q))
           /\ Once(q) => Once(Tail(q)) /\ Head(q) \notin Elems(Tail(q))
<1>1. /\ Tail(q) \in Seq(S) /\ Head(q) \in S /\ Head(q) = q[1] /\ Len(q) \in Nat /\ Len(q) # 0
      /\ DOMAIN q = 1..Len(q) /\ DOMAIN Tail(q) = 1..(Len(q) - 1)
      /\ \A n \in 1..(Len(q) - 1) : Tail(q)[n] = q[n + 1]
  BY HeadTailProperties, EmptySeq
<1> DEFINE r == Tail(q)
<1>2. \A n \in DOMAIN r : n + 1 \in DOMAIN q /\ r[n] = q[n + 1] /\ n + 1 # 1
  BY <1>1
<1>3. \A n \in DOMAIN q : n # 1 => n - 1 \in DOMAIN r /\ r[n - 1] = q[n]
  BY <1>1
<1>4. 1 \in DOMAIN q
  BY <1>1
<1>5. Elems(q) = {Head(q)} \cup Elems(r)
  <2>1. Elems(q) \subseteq {Head(q)} \cup Elems(r)
    BY <1>1, <1>3 DEF Elems
  <2>2. {Head(q)} \cup Elems(r) \subseteq Elems(q)
    BY <1>1, <1>2, <1>4 DEF Elems
  <2> QED
    BY <2>1, <2>2
<1>6. Once(q) => Once(r)
  <2> SUFFICES ASSUME Once(q), NEW m \in DOMAIN r, NEW n \in DOMAIN r, r[m] = r[n] PROVE m = n
    BY DEF Once
  <2>1. m + 1 = n + 1
    BY <1>2 DEF Once
  <2> QED
    BY <1>1, <2>1
<1>7. Once(q) => Head(q) \notin Elems(r)
  BY <1>1, <1>2, <1>4 DEF Once, Elems
<1> QED
  BY <1>1, <1>5, <1>6, <1>7

LEMMA SeqElems ==
    ASSUME NEW S, NEW q \in Seq(S)
    PROVE  Elems(q) \subseteq S /\ \A n \in DOMAIN q : n \in Nat /\ n >= 1 /\ q[n] \in S
  BY ElementOfSeq DEF Elems

LEMMA EmptyElems == Elems(<<>>) = {} /\ Once(<<>>) /\ \A S : <<>> \in Seq(S)
  BY DEF Elems, Once

-----------------------------------------------------------------------------
(* The executor.                                                            *)

LEMMA ConstantFacts ==
    /\ NoJob \notin Job /\ SnapshotLane \in Lane /\ \A l \in Panes : l \in Lane
    /\ \A c \in Clients : <<c, 1>> \in Job /\ <<c, 2>> \in Job /\ <<c, 1>> # <<c, 2>>
    /\ \A j \in Job : Owner(j) \in Clients /\ j[2] \in 1..4 /\ j = <<Owner(j), j[2]>>
    /\ \A c \in Clients : \A n \in 1..4 :
          /\ <<c, n>> \in Job /\ Owner(<<c, n>>) = c /\ <<c, n>>[2] = n
          /\ \A d \in Clients : \A m \in 1..4 : <<c, n>> = <<d, m>> => c = d /\ n = m
    /\ {1, 2, 3, 4} = 1..4
  BY LanesAssumption DEF Job, Lane, Owner

\* Dispatching a job that nobody took gives it its free lane.
LEMMA DispatchAgrees ==
    ASSUME NEW x, NEW K, NEW L, NEW T, ExecAgrees(x, K, L, T),
           NEW j \in Job, NEW l \in Lane, L[j] = l, K[j] # "none", j \notin T,
           x.inFlight[l] = NoJob, j \notin Elems(x.channel),
           \A l2 \in Lane : j \notin Elems(x.queued[l2])
    PROVE  LET y == Dispatch(x, l, j)
           IN  /\ ExecAgrees(y, K, L, T)
               /\ y.coalesced = x.coalesced /\ y.queued = x.queued
               /\ \A l2 \in Lane : x.inFlight[l2] # NoJob => y.inFlight[l2] = x.inFlight[l2]
<1> DEFINE y == Dispatch(x, l, j)
<1>1. /\ x \in ExecRecord /\ x.channel \in Seq(Job)
      /\ x.inFlight \in [Lane -> Job \cup {NoJob}]
  BY DEF ExecAgrees, ExecRecord
<1>2. /\ Append(x.channel, j) \in Seq(Job)
      /\ Elems(Append(x.channel, j)) = Elems(x.channel) \cup {j}
      /\ Once(x.channel) => Once(Append(x.channel, j))
  BY <1>1, AppendElems
<1>3. /\ y.inFlight = [x.inFlight EXCEPT ![l] = j] /\ y.channel = Append(x.channel, j)
      /\ y.coalesced = x.coalesced /\ y.queued = x.queued
  BY <1>1 DEF Dispatch, ExecRecord
<1>4. y \in ExecRecord
  BY <1>1, <1>2 DEF Dispatch, ExecRecord
<1>5. \A l2 \in Lane : y.inFlight[l2] = IF l2 = l THEN j ELSE x.inFlight[l2]
  BY <1>1, <1>3
<1> HIDE DEF y
<1>6. \A i \in Elems(x.channel) : i # j /\ i \in Job
  BY <1>1, SeqElems
<1>7. QueuesAgree(y, K, L, T)
  BY <1>2, <1>3, <1>5 DEF ExecAgrees, QueuesAgree
<1>8. ChannelAgrees(y, K, L, T)
  <2>1. ASSUME NEW i \in Elems(x.channel) PROVE y.inFlight[L[i]] = i
    <3>1. x.inFlight[L[i]] = i
      BY DEF ExecAgrees, ChannelAgrees
    <3>2. L[i] # l
      BY <1>6, <3>1, ConstantFacts
    <3> QED
      BY <1>3, <3>1, <3>2
  <2>2. y.inFlight[L[j]] = j
    BY <1>5
  <2> QED
    BY <1>2, <1>3, <2>1, <2>2 DEF ExecAgrees, ChannelAgrees
<1>9. \A l2 \in Lane : y.inFlight[l2] # NoJob =>
                          L[y.inFlight[l2]] = l2 /\ K[y.inFlight[l2]] # "none"
  BY <1>5 DEF ExecAgrees
<1> QED
  BY <1>3, <1>4, <1>5, <1>7, <1>8, <1>9 DEF ExecAgrees, y

\* y is x with the new job j, of kind k and on lane l.
HoldsNewJob(x, y, j, k, l, K, L, T) ==
    /\ ExecAgrees(y, [K EXCEPT ![j] = k], [L EXCEPT ![j] = l], T)
    /\ \A l2 \in Lane : x.inFlight[l2] # NoJob => y.inFlight[l2] = x.inFlight[l2]
    /\ \A i \in Job : i \in T => y.coalesced[i] = x.coalesced[i]

\* A new job joins a queued snapshot, waits in its lane's queue, or takes its lane.  M is
\* what the executor takes for the kinds: they matter to it only for snapshots.
LEMMA SubmitAgrees ==
    ASSUME NEW x, NEW K \in [Job -> Kinds], NEW L \in [Job -> Lane \cup {"none"}], NEW T,
           ExecAgrees(x, K, L, T), NEW j \in Job, K[j] = "none", j \notin T,
           NEW k \in Kinds, k # "none", NEW l \in Lane, NEW M, k # "open" => M = K
    PROVE  HoldsNewJob(x, Submit(x, j, k, l, M), j, k, l, K, L, T)
<1> DEFINE y == Submit(x, j, k, l, M)
           K2 == [K EXCEPT ![j] = k]
           L2 == [L EXCEPT ![j] = l]
           leaders == CoalescingLeaders(x, l, k, M)
<1>1. /\ x \in ExecRecord /\ x.channel \in Seq(Job)
      /\ x.inFlight \in [Lane -> Job \cup {NoJob}] /\ x.coalesced \in [Job -> Seq(Job)]
      /\ x.queued \in [Lane -> Seq(Job)]
  BY DEF ExecAgrees, ExecRecord
<1>2. /\ \A l2 \in Lane : j \notin Elems(x.queued[l2]) /\ x.inFlight[l2] # j
      /\ j \notin Elems(x.channel)
      /\ \A i \in Job : j \notin Elems(x.coalesced[i])
      /\ Elems(x.coalesced[j]) = {}
  <2>1. \A l2 \in Lane : j \notin Elems(x.queued[l2])
    BY DEF ExecAgrees, QueuesAgree
  <2>2. \A l2 \in Lane : x.inFlight[l2] # j
    BY ConstantFacts DEF ExecAgrees
  <2>3. j \notin Elems(x.channel)
    BY DEF ExecAgrees, ChannelAgrees
  <2>4. \A i \in Job : j \notin Elems(x.coalesced[i])
    BY DEF ExecAgrees
  <2>5. Elems(x.coalesced[j]) = {}
    BY DEF ExecAgrees
  <2> QED
    BY <2>1, <2>2, <2>3, <2>4, <2>5
<1>3. \A i \in Job : i # j => K2[i] = K[i] /\ L2[i] = L[i]
  OBVIOUS
<1>4. K2[j] = k /\ L2[j] = l
  OBVIOUS
<1> HIDE DEF K2, L2
<1>5. ExecAgrees(x, K2, L2, T)
  <2>1. QueuesAgree(x, K2, L2, T)
    <3>1. \A l2 \in Lane : Elems(x.queued[l2]) \subseteq Job
      BY <1>1, SeqElems
    <3> QED
      BY <1>2, <1>3, <3>1 DEF ExecAgrees, QueuesAgree
  <2>2. ChannelAgrees(x, K2, L2, T)
    <3>1. Elems(x.channel) \subseteq Job
      BY <1>1, SeqElems
    <3> QED
      BY <1>2, <1>3, <3>1 DEF ExecAgrees, ChannelAgrees
  <2>3. \A l2 \in Lane : x.inFlight[l2] # NoJob =>
           L2[x.inFlight[l2]] = l2 /\ K2[x.inFlight[l2]] # "none"
    BY <1>1, <1>2, <1>3 DEF ExecAgrees
  <2>4. \A i1 \in Job : \A i2 \in Elems(x.coalesced[i1]) :
           K2[i2] \notin {"none", "open"} /\ K2[i1] \notin {"none", "open"}
    <3>1. \A i1 \in Job : Elems(x.coalesced[i1]) \subseteq Job
      BY <1>1, SeqElems
    <3> QED
      BY <1>2, <1>3, <3>1 DEF ExecAgrees
  <2> QED
    BY <1>1, <2>1, <2>2, <2>3, <2>4 DEF ExecAgrees
<1>6. CASE x.queued[l] = <<>> /\ x.inFlight[l] = NoJob
  <2>1. y = Dispatch(x, l, j)
    BY <1>6 DEF Submit
  <2>2. LET z == Dispatch(x, l, j)
        IN  /\ ExecAgrees(z, K2, L2, T) /\ z.coalesced = x.coalesced
            /\ \A l2 \in Lane : x.inFlight[l2] # NoJob => z.inFlight[l2] = x.inFlight[l2]
    BY <1>2, <1>4, <1>5, <1>6, DispatchAgrees
  <2> QED
    BY <2>1, <2>2 DEF y, K2, L2, HoldsNewJob
<1>7. CASE ~(x.queued[l] = <<>> /\ x.inFlight[l] = NoJob) /\ leaders # {}
  <2>1. PICK i \in leaders : y = Join(x, i, j)
    BY <1>7 DEF Submit
  <2>2. i \in Elems(x.queued[l]) /\ i \in Job /\ M[i] = k /\ k \in {"snapshot", "lifecycle"}
    <3>1. Elems(x.queued[l]) \subseteq Job
      BY <1>1, SeqElems
    <3> QED
      BY <2>1, <3>1 DEF CoalescingLeaders, Elems
  <2>3. i # j /\ K2[i] = k /\ i \notin T
    BY <1>2, <1>3, <2>2 DEF ExecAgrees, QueuesAgree
  <2>4. /\ Append(x.coalesced[i], j) \in Seq(Job)
        /\ Elems(Append(x.coalesced[i], j)) = Elems(x.coalesced[i]) \cup {j}
    BY <1>1, <2>2, AppendElems
  <2>5. /\ y = [x EXCEPT !.coalesced = [x.coalesced EXCEPT ![i] = Append(x.coalesced[i], j)]]
        /\ y.queued = x.queued /\ y.inFlight = x.inFlight /\ y.channel = x.channel
        /\ y.coalesced = [x.coalesced EXCEPT ![i] = Append(x.coalesced[i], j)]
    BY <1>1, <2>1 DEF Join, ExecRecord
  <2>6. y \in ExecRecord
    <3>1. [x.coalesced EXCEPT ![i] = Append(x.coalesced[i], j)] \in [Job -> Seq(Job)]
      BY <1>1, <2>2, <2>4
    <3> QED
      BY <1>1, <2>5, <3>1 DEF ExecRecord
  <2> HIDE DEF y
  <2>7. QueuesAgree(y, K2, L2, T) /\ ChannelAgrees(y, K2, L2, T)
    BY <1>5, <2>5 DEF ExecAgrees, QueuesAgree, ChannelAgrees
  <2>8. \A i1 \in Job : y.coalesced[i1] = IF i1 = i THEN Append(x.coalesced[i], j)
                                          ELSE x.coalesced[i1]
    BY <1>1, <2>2, <2>5
  <2>9. \A i1 \in Job : \A i2 \in Elems(y.coalesced[i1]) :
           K2[i2] \notin {"none", "open"} /\ K2[i1] \notin {"none", "open"}
    BY <1>4, <1>5, <2>2, <2>3, <2>4, <2>8 DEF ExecAgrees
  <2>10. ExecAgrees(y, K2, L2, T)
    BY <1>5, <2>5, <2>6, <2>7, <2>9 DEF ExecAgrees
  <2>11. /\ \A l2 \in Lane : x.inFlight[l2] # NoJob => y.inFlight[l2] = x.inFlight[l2]
         /\ \A i1 \in Job : i1 \in T => y.coalesced[i1] = x.coalesced[i1]
    BY <2>3, <2>5, <2>8
  <2> QED
    BY <2>10, <2>11 DEF y, K2, L2, HoldsNewJob
<1>8. CASE ~(x.queued[l] = <<>> /\ x.inFlight[l] = NoJob) /\ leaders = {}
  <2>1. y = [x EXCEPT !.queued[l] = Append(@, j)]
    BY <1>8 DEF Submit
  <2>2. /\ Append(x.queued[l], j) \in Seq(Job)
        /\ Elems(Append(x.queued[l], j)) = Elems(x.queued[l]) \cup {j}
        /\ Once(x.queued[l]) => Once(Append(x.queued[l], j))
    BY <1>1, <1>2, AppendElems
  <2>3. /\ y = [x EXCEPT !.queued = [x.queued EXCEPT ![l] = Append(x.queued[l], j)]]
        /\ y.queued = [x.queued EXCEPT ![l] = Append(x.queued[l], j)]
        /\ y.inFlight = x.inFlight /\ y.channel = x.channel /\ y.coalesced = x.coalesced
    BY <1>1, <2>1 DEF ExecRecord
  <2>4. y \in ExecRecord
    <3>1. [x.queued EXCEPT ![l] = Append(x.queued[l], j)] \in [Lane -> Seq(Job)]
      BY <1>1, <2>2
    <3> QED
      BY <1>1, <2>3, <3>1 DEF ExecRecord
  <2> HIDE DEF y
  <2>5. \A l2 \in Lane : y.queued[l2] = IF l2 = l THEN Append(x.queued[l], j) ELSE x.queued[l2]
    BY <1>1, <2>3
  <2>6. QueuesAgree(y, K2, L2, T)
    BY <1>2, <1>4, <1>5, <2>2, <2>3, <2>5 DEF ExecAgrees, QueuesAgree
  <2>7. ChannelAgrees(y, K2, L2, T)
    BY <1>5, <2>3 DEF ExecAgrees, ChannelAgrees
  <2>8. ExecAgrees(y, K2, L2, T)
    BY <1>5, <2>3, <2>4, <2>6, <2>7 DEF ExecAgrees
  <2> QED
    BY <2>3, <2>8 DEF y, K2, L2, HoldsNewJob
<1> QED
  BY <1>6, <1>7, <1>8

\* A job that ended frees the lane it held, for the job that waited longest, and touches
\* no other lane.
LEMMA FreeLaneAgrees ==
    ASSUME NEW x, NEW K, NEW L, NEW T, ExecAgrees(x, K, L, T), NEW j \in Job, j \in T
    PROVE  LET y == FreeLane(x, j)
           IN  /\ ExecAgrees(y, K, L, T) /\ y.coalesced = x.coalesced
               /\ \A l \in Lane : x.inFlight[l] \notin {NoJob, j} => y.inFlight[l] = x.inFlight[l]
<1> DEFINE held == {l \in Lane : x.inFlight[l] = j}
<1>1. /\ x \in ExecRecord /\ x.channel \in Seq(Job)
      /\ x.inFlight \in [Lane -> Job \cup {NoJob}] /\ x.queued \in [Lane -> Seq(Job)]
  BY DEF ExecAgrees, ExecRecord
<1>2. CASE held = {}
  BY <1>2 DEF FreeLane
<1>3. CASE held # {}
  <2> DEFINE l == CHOOSE l \in held : TRUE
             y == [x EXCEPT !.inFlight[l] = NoJob]
  <2>1. l \in Lane /\ x.inFlight[l] = j
    BY <1>3
  <2> HIDE DEF l
  <2>2. /\ y = [x EXCEPT !.inFlight = [x.inFlight EXCEPT ![l] = NoJob]] /\ y \in ExecRecord
        /\ y.queued = x.queued /\ y.channel = x.channel /\ y.coalesced = x.coalesced
        /\ y.inFlight = [x.inFlight EXCEPT ![l] = NoJob]
    BY <1>1, <2>1 DEF ExecRecord
  <2>3. \A l2 \in Lane : y.inFlight[l2] = IF l2 = l THEN NoJob ELSE x.inFlight[l2]
    BY <1>1, <2>2
  <2>4. FreeLane(x, j) = IF x.queued[l] = <<>> THEN y
                         ELSE Dispatch([y EXCEPT !.queued[l] = Tail(@)], l, Head(x.queued[l]))
    BY <1>3 DEF FreeLane, l
  <2> HIDE DEF y
  <2>5. ExecAgrees(y, K, L, T)
    <3>1. \A l2 \in Lane : \A i \in Elems(x.queued[l2]) : i # NoJob
      BY <1>1, SeqElems, ConstantFacts
    <3>2. QueuesAgree(y, K, L, T)
      BY <2>2, <2>3, <3>1 DEF ExecAgrees, QueuesAgree
    <3>3. ChannelAgrees(y, K, L, T)
      <4>1. ASSUME NEW i \in Elems(x.channel) PROVE y.inFlight[L[i]] = i
        <5>1. i \in Job /\ i # j /\ x.inFlight[L[i]] = i
          BY <1>1, SeqElems DEF ExecAgrees, ChannelAgrees
        <5>2. L[i] # l
          BY <2>1, <5>1
        <5> QED
          BY <2>2, <5>1, <5>2
      <4> QED
        BY <2>2, <4>1 DEF ExecAgrees, ChannelAgrees
    <3> QED
      BY <2>2, <2>3, <3>2, <3>3 DEF ExecAgrees
  <2>6. CASE x.queued[l] = <<>>
    BY <2>2, <2>3, <2>4, <2>5, <2>6, <2>1
  <2>7. CASE x.queued[l] # <<>>
    <3> DEFINE z == [y EXCEPT !.queued[l] = Tail(@)]
               d == Head(x.queued[l])
    <3>1. /\ Tail(x.queued[l]) \in Seq(Job) /\ d \in Job
          /\ Elems(x.queued[l]) = {d} \cup Elems(Tail(x.queued[l]))
          /\ Once(Tail(x.queued[l])) /\ d \notin Elems(Tail(x.queued[l]))
      BY <1>1, <2>1, <2>7, TailElems DEF ExecAgrees, QueuesAgree
    <3>2. /\ z.queued = [x.queued EXCEPT ![l] = Tail(x.queued[l])] /\ z \in ExecRecord
          /\ z.inFlight = y.inFlight /\ z.channel = x.channel /\ z.coalesced = x.coalesced
      <4>1. y.queued \in [Lane -> Seq(Job)] /\ y \in ExecRecord
        BY <2>2 DEF ExecRecord
      <4>2. z = [y EXCEPT !.queued = [x.queued EXCEPT ![l] = Tail(x.queued[l])]]
        BY <1>1, <2>1, <2>2, <4>1 DEF ExecRecord
      <4> QED
        BY <2>2, <3>1, <4>1, <4>2 DEF ExecRecord
    <3> HIDE DEF z, d
    <3>3. \A l2 \in Lane : z.queued[l2] = IF l2 = l THEN Tail(x.queued[l]) ELSE x.queued[l2]
      BY <1>1, <3>2
    <3>4. ExecAgrees(z, K, L, T)
      <4>1. QueuesAgree(z, K, L, T)
        BY <2>2, <2>5, <3>1, <3>2, <3>3 DEF ExecAgrees, QueuesAgree
      <4>2. ChannelAgrees(z, K, L, T)
        BY <2>2, <2>5, <3>2 DEF ExecAgrees, ChannelAgrees
      <4> QED
        BY <2>2, <2>5, <3>2, <4>1, <4>2 DEF ExecAgrees
    <3>5. L[d] = l /\ K[d] # "none" /\ d \notin T /\ d \notin Elems(z.channel)
      BY <2>1, <3>1, <3>2 DEF ExecAgrees, QueuesAgree
    <3>6. \A l2 \in Lane : d \notin Elems(z.queued[l2])
      BY <2>1, <3>1, <3>3, <3>5 DEF ExecAgrees, QueuesAgree
    <3>7. z.inFlight[l] = NoJob
      BY <2>1, <2>3, <3>2
    <3>8. LET u == Dispatch(z, l, d)
          IN  /\ ExecAgrees(u, K, L, T)
              /\ u.coalesced = z.coalesced
              /\ \A l2 \in Lane : z.inFlight[l2] # NoJob => u.inFlight[l2] = z.inFlight[l2]
      BY <2>1, <3>1, <3>4, <3>5, <3>6, <3>7, DispatchAgrees
    <3>9. FreeLane(x, j) = Dispatch(z, l, d)
      BY <2>4, <2>7 DEF z, d
    <3> QED
      BY <2>1, <2>3, <3>2, <3>8, <3>9
  <2> QED
    BY <2>6, <2>7
<1> QED
  BY <1>2, <1>3

\* What the executor does with an event of a job that is under way.
LEMMA SettleAgrees ==
    ASSUME NEW x, NEW K, NEW L, NEW T, ExecAgrees(x, K, L, T), NEW e, e.job \in Job, e.job \in T
    PROVE  LET y == Settle(x, e)
           IN  /\ ExecAgrees(y, K, L, T)
               /\ \A l \in Lane : x.inFlight[l] # NoJob /\ (Terminal(e) => x.inFlight[l] # e.job)
                                     => y.inFlight[l] = x.inFlight[l]
               /\ \A i \in Job : y.coalesced[i] = IF Terminal(e) /\ i = e.job THEN <<>>
                                                  ELSE x.coalesced[i]
<1>1. CASE ~Terminal(e)
  BY <1>1 DEF Settle
<1>2. CASE Terminal(e)
  <2> DEFINE z == [x EXCEPT !.coalesced[e.job] = <<>>]
  <2>1. x \in ExecRecord /\ x.coalesced \in [Job -> Seq(Job)]
    BY DEF ExecAgrees, ExecRecord
  <2>2. /\ z.queued = x.queued /\ z.inFlight = x.inFlight /\ z.channel = x.channel
        /\ z.coalesced = [x.coalesced EXCEPT ![e.job] = <<>>]
        /\ z \in ExecRecord
    BY <2>1, EmptyElems DEF ExecRecord
  <2> HIDE DEF z
  <2>3. \A i \in Job : z.coalesced[i] = IF i = e.job THEN <<>> ELSE x.coalesced[i]
    BY <2>1, <2>2
  <2>4. ExecAgrees(z, K, L, T)
    BY <2>2, <2>3, EmptyElems DEF ExecAgrees, QueuesAgree, ChannelAgrees
  <2>5. LET y == FreeLane(z, e.job)
        IN  /\ ExecAgrees(y, K, L, T) /\ y.coalesced = z.coalesced
            /\ \A l \in Lane : z.inFlight[l] \notin {NoJob, e.job} => y.inFlight[l] = z.inFlight[l]
    BY <2>4, FreeLaneAgrees
  <2>6. Settle(x, e) = FreeLane(z, e.job)
    BY <1>2 DEF Settle, z
  <2> QED
    BY <1>2, <2>2, <2>3, <2>5, <2>6
<1> QED
  BY <1>1, <1>2

\* A worker takes the job at the head of the channel.
LEMMA TakeAgrees ==
    ASSUME NEW x, NEW K, NEW L, NEW T, ExecAgrees(x, K, L, T), x.channel # <<>>
    PROVE  LET j == Head(x.channel)
               y == [x EXCEPT !.channel = Tail(@)]
           IN  /\ j \in Job /\ j \notin T /\ K[j] # "none" /\ x.inFlight[L[j]] = j
               /\ ExecAgrees(y, K, L, T \cup {j})
               /\ y.inFlight = x.inFlight /\ y.coalesced = x.coalesced
<1> DEFINE j == Head(x.channel)
           y == [x EXCEPT !.channel = Tail(@)]
<1>1. x \in ExecRecord /\ x.channel \in Seq(Job)
  BY DEF ExecAgrees, ExecRecord
<1>2. /\ Tail(x.channel) \in Seq(Job) /\ j \in Job
      /\ Elems(x.channel) = {j} \cup Elems(Tail(x.channel))
      /\ Once(Tail(x.channel)) /\ j \notin Elems(Tail(x.channel))
  BY <1>1, TailElems DEF ExecAgrees, ChannelAgrees
<1>3. /\ y.queued = x.queued /\ y.inFlight = x.inFlight /\ y.coalesced = x.coalesced
      /\ y.channel = Tail(x.channel) /\ y \in ExecRecord
  BY <1>1, <1>2 DEF ExecRecord
<1> HIDE DEF j, y
<1>4. j \notin T /\ K[j] # "none" /\ x.inFlight[L[j]] = j
  BY <1>2 DEF ExecAgrees, ChannelAgrees
<1>5. QueuesAgree(y, K, L, T \cup {j})
  BY <1>2, <1>3 DEF ExecAgrees, QueuesAgree
<1>6. ChannelAgrees(y, K, L, T \cup {j})
  BY <1>2, <1>3 DEF ExecAgrees, ChannelAgrees
<1>7. ExecAgrees(y, K, L, T \cup {j})
  BY <1>3, <1>5, <1>6 DEF ExecAgrees
<1> QED
  BY <1>2, <1>3, <1>4, <1>7 DEF j, y

\* Its books stay right when fewer jobs are under way.
LEMMA FewerTouched ==
    ASSUME NEW x, NEW K, NEW L, NEW T, NEW U, U \subseteq T, ExecAgrees(x, K, L, T)
    PROVE  ExecAgrees(x, K, L, U)
  BY DEF ExecAgrees, QueuesAgree, ChannelAgrees

-----------------------------------------------------------------------------
(* Workers.                                                                 *)

LEMMA EventsAppend ==
    ASSUME TypeOK, NEW e \in EventRecord, events' = Append(events, e)
    PROVE  /\ events' \in Seq(EventRecord) /\ Len(events) \in Nat
           /\ DOMAIN events = 1..Len(events) /\ DOMAIN events' = 1..(Len(events) + 1)
           /\ \A n \in 1..Len(events) : events'[n] = events[n]
           /\ events'[Len(events) + 1] = e
  BY AppendProperties DEF TypeOK

LEMMA EventFacts ==
    ASSUME TypeOK
    PROVE  /\ DOMAIN events = 1..Len(events) /\ Len(events) \in Nat
           /\ \A n \in DOMAIN events :
                 /\ events[n] \in EventRecord /\ events[n].job \in Job
                 /\ events[n].job \in Touched
<1>1. events \in Seq(EventRecord)
  BY DEF TypeOK
<1>2. /\ DOMAIN events = 1..Len(events) /\ Len(events) \in Nat
      /\ \A n \in DOMAIN events : events[n] \in EventRecord
  BY <1>1, ElementOfSeq
<1>3. \A n \in DOMAIN events : events[n].job \in Job
  BY <1>2 DEF EventRecord
<1> QED
  BY <1>2, <1>3 DEF Touched

LEMMA WorkerFacts ==
    ASSUME TypeOK, WorkersAgree, NEW w \in Workers, worker[w].at # "idle"
    PROVE  worker[w] \in WorkerRecord /\ worker[w].job \in Job /\ worker[w].job \in Touched
  BY DEF TypeOK, WorkersAgree, WorkerRecord, Touched

\* Only the daemon moves connections and requests: what was submitted, and what the
\* clients wait for, stays.
LEMMA WorkerFrame ==
    ASSUME ClientsAgree, UNCHANGED daemonVars
    PROVE  ClientsAgree'
  BY DEF ClientsAgree, ClientAgrees, daemonVars

\* A step of a worker that holds the lease of job j.  It says at most one thing of j, gives
\* the lease up or keeps it open, and writes only a command it was given.
LEMMA LeaseStep ==
    ASSUME LanesInv, UNCHANGED <<daemonVars, exec, fanned>>,
           NEW w \in Workers, worker[w].at \in {"lease", "written"},
           NEW r \in WorkerRecord,
           r = Idle \/ (r.job = worker[w].job /\ r.at \in {"lease", "written"}),
           worker' = [worker EXCEPT ![w] = r],
           NEW v \in {"open", "gone"}, lease' = [lease EXCEPT ![worker[w].job] = v],
           \/ UNCHANGED events
           \/ \E e \in EventRecord : /\ events' = Append(events, e) /\ e.job = worker[w].job
                                     /\ e.type \in {"Done", "Failed", "Dropped"}
                                     /\ e.type = "Dropped" => e.job \notin parked
                                     /\ \/ v = "gone" \/ lease[e.job] = "send"
                                        \/ worker[w].at = "written",
           v = "open" => lease[worker[w].job] \in {"open", "send"},
           r.at = "written" => v = "open" /\ lease[worker[w].job] = "send" /\ UNCHANGED events
    PROVE  LanesInv'
<1> DEFINE j == worker[w].job
<1>1. /\ TypeOK /\ ExecAgrees(exec, kind, lane, Touched) /\ NewJobsAgree /\ ClientsAgree
      /\ WorkersAgree /\ OpenedAgree /\ CommandsAgree /\ AnswersAgree /\ DropsAgree
  BY DEF LanesInv
<1>2. /\ j \in Job /\ j \in Touched /\ kind[j] = "open"
  BY <1>1, WorkerFacts DEF WorkersAgree
<1>3. UNCHANGED <<conn, method, remaining, parked, owners, kind, lane, exec, fanned>>
  BY DEF daemonVars
<1>4. /\ \A i \in Job : lease'[i] = IF i = j THEN v ELSE lease[i]
      /\ \A u \in Workers : worker'[u] = IF u = w THEN r ELSE worker[u]
      /\ lease' \in [Job -> LeaseStates] /\ worker' \in [Workers -> WorkerRecord]
  BY <1>1, <1>2 DEF TypeOK, LeaseStates
<1>5. /\ events' \in Seq(EventRecord) /\ Len(events) \in Nat
      /\ DOMAIN events = 1..Len(events) /\ DOMAIN events \subseteq DOMAIN events'
      /\ \A n \in DOMAIN events : events'[n] = events[n] /\ n \in Nat
      /\ \A n \in DOMAIN events' \ DOMAIN events :
            /\ n = Len(events) + 1 /\ events'[n].job = j
            /\ events'[n].type \in {"Done", "Failed", "Dropped"}
            /\ events'[n].type = "Dropped" => j \notin parked
            /\ v = "gone" \/ lease[j] = "send" \/ worker[w].at = "written"
            /\ r.at # "written"
  <2>1. CASE UNCHANGED events
    BY <1>1, <2>1, EventFacts DEF TypeOK
  <2>2. CASE ~UNCHANGED events
    <3>1. PICK e \in EventRecord : /\ events' = Append(events, e) /\ e.job = worker[w].job
                                   /\ e.type \in {"Done", "Failed", "Dropped"}
                                   /\ e.type = "Dropped" => e.job \notin parked
                                   /\ \/ v = "gone" \/ lease[e.job] = "send"
                                      \/ worker[w].at = "written"
      BY <2>2
    <3> QED
      BY <1>1, <2>2, <3>1, EventsAppend
  <2> QED
    BY <2>1, <2>2
<1>6. \A u \in Workers : u # w => worker[u].job # j
  BY <1>1, <1>2, ConstantFacts DEF WorkersAgree
<1>7. Elems(exec.coalesced[j]) = {}
  BY <1>1, <1>2 DEF ExecAgrees
<1> HIDE DEF j
<1>8. Touched' \subseteq Touched
  <2> SUFFICES ASSUME NEW i \in Touched' PROVE i \in Touched
    OBVIOUS
  <2>1. i \in Job /\ (\/ lease'[i] # "none"
                      \/ \E u \in Workers : worker'[u].job = i
                      \/ \E n \in DOMAIN events' : events'[n].job = i)
    BY DEF Touched
  <2>2. CASE lease'[i] # "none"
    BY <1>2, <1>4, <2>1, <2>2 DEF Touched
  <2>3. ASSUME NEW u \in Workers, worker'[u].job = i PROVE i \in Touched
    <3>1. i = worker[u].job \/ i = j
      BY <1>4, <2>1, <2>3, ConstantFacts DEF Idle, j
    <3> QED
      BY <1>2, <2>1, <3>1 DEF Touched
  <2>4. ASSUME NEW n \in DOMAIN events', events'[n].job = i PROVE i \in Touched
    BY <1>2, <1>5, <2>1, <2>4 DEF Touched
  <2> QED
    BY <2>1, <2>2, <2>3, <2>4
<1>9. TypeOK'
  BY <1>1, <1>3, <1>4, <1>5 DEF TypeOK
<1>10. ExecAgrees(exec, kind, lane, Touched')
  BY <1>1, <1>8, FewerTouched
<1>11. NewJobsAgree'
  BY <1>1, <1>3, <1>8 DEF NewJobsAgree
<1>12. WorkersAgree'
  <2>1. ASSUME NEW u \in Workers, u # w, worker[u].at # "idle"
        PROVE  worker'[u] = worker[u] /\ lease'[worker[u].job] = lease[worker[u].job]
    BY <1>1, <1>4, <1>6, <2>1, WorkerFacts
  <2>2. r.job = j \/ r = Idle
    BY DEF j
  <2>3. /\ r.at = "idle" <=> r.job = NoJob
        /\ r.at \in {"lease", "written"} => kind[r.job] = "open"
        /\ r.at = "written" => lease'[r.job] = "open"
        /\ r.at # "request"
    BY <1>2, <1>4, ConstantFacts DEF Idle, j
  <2>4. \A w1, w2 \in Workers :
           w1 # w2 /\ worker'[w1].job = worker'[w2].job => worker'[w1].job = NoJob
    BY <1>1, <1>4, <1>6, <2>2 DEF WorkersAgree, Idle
  <2>5. \A u \in Workers : u # w /\ worker[u].at = "written" => lease'[worker[u].job] = "open"
    BY <1>1, <2>1 DEF WorkersAgree
  <2> QED
    BY <1>1, <1>3, <1>4, <2>3, <2>4, <2>5 DEF WorkersAgree
<1>13. OpenedAgree'
  <2> SUFFICES ASSUME NEW n \in DOMAIN events', events'[n].type = "Opened"
               PROVE  LET i == events'[n].job
                      IN  /\ kind[i] = "open" /\ exec.inFlight[lane[i]] = i
                          /\ lease'[i] \in {"open", "gone"}
                          /\ \A m \in DOMAIN events' :
                                events'[m].job = i => n <= m /\ (lease'[i] = "open" => m = n)
    BY <1>3 DEF OpenedAgree
  <2> DEFINE i == events[n].job
  <2>1. n \in DOMAIN events /\ events'[n] = events[n] /\ i \in Job
    BY <1>1, <1>5, EventFacts
  <2>2. /\ kind[i] = "open" /\ exec.inFlight[lane[i]] = i /\ lease[i] \in {"open", "gone"}
        /\ \A m \in DOMAIN events : events[m].job = i => n <= m /\ (lease[i] = "open" => m = n)
    BY <1>1, <2>1 DEF OpenedAgree
  <2>3. i = j => /\ lease[j] # "send" /\ worker[w].at # "written"
                 /\ lease'[i] = v
    BY <1>1, <1>2, <1>4, <2>1, <2>2 DEF CommandsAgree, Written, j
  <2>4. i # j => lease'[i] = lease[i]
    BY <1>4, <2>1
  <2>5. lease'[i] \in {"open", "gone"}
    BY <2>2, <2>3, <2>4
  <2>6. i = j /\ lease'[i] = "open" => lease[i] = "open" /\ DOMAIN events' \subseteq DOMAIN events
    <3>1. i = j /\ v = "open" => lease[j] = "open"
      BY <2>3 DEF j
    <3>2. i = j /\ v = "open" => DOMAIN events' \subseteq DOMAIN events
      BY <1>5, <2>3
    <3> QED
      BY <2>3, <3>1, <3>2
  <2>7. ASSUME NEW m \in DOMAIN events', events'[m].job = i
        PROVE  n <= m /\ (lease'[i] = "open" => m = n)
    <3>1. CASE m \in DOMAIN events
      BY <1>5, <2>2, <2>4, <2>6, <2>7, <3>1
    <3>2. CASE m \notin DOMAIN events
      BY <1>5, <2>1, <2>3, <2>6, <2>7, <3>2
    <3> QED
      BY <3>1, <3>2
  <2> QED
    BY <2>1, <2>2, <2>5, <2>7
<1>14. CommandsAgree'
  <2> SUFFICES ASSUME NEW i \in Job
               PROVE  /\ lease'[i] = "send" \/ Written(i)' =>
                            /\ kind[i] = "open" /\ exec.inFlight[lane[i]] = i /\ i \in parked
                            /\ \A n \in DOMAIN events' : events'[n].job # i
                      /\ lease'[i] = "drop" => i \notin parked
    BY <1>3 DEF CommandsAgree
  <2>1. CASE i = j
    <3>1. lease'[i] = v
      BY <1>4, <2>1
    <3>2. Written(i)' => r.at = "written"
      BY <1>4, <1>6, <2>1 DEF Written
    <3>3. r.at = "written" => lease[i] = "send" /\ UNCHANGED events
      BY <2>1 DEF j
    <3> QED
      BY <1>1, <2>1, <3>1, <3>2, <3>3 DEF CommandsAgree
  <2>2. CASE i # j
    <3>1. lease'[i] = lease[i]
      BY <1>4, <2>2
    <3>2. Written(i)' => Written(i)
      BY <1>4, <2>2, ConstantFacts DEF Written, Idle, j
    <3>3. \A n \in DOMAIN events' : events'[n].job = i => n \in DOMAIN events
      BY <1>5, <2>2
    <3> QED
      BY <1>1, <1>5, <3>1, <3>2, <3>3 DEF CommandsAgree
  <2> QED
    BY <2>1, <2>2
<1>15. AnswersAgree'
  <2>1. \A n \in DOMAIN events' : kind[events'[n].job] # "open" => n \in DOMAIN events
    BY <1>2, <1>5
  <2> QED
    BY <1>1, <1>3, <1>5, <2>1 DEF AnswersAgree
<1>16. DropsAgree'
  <2> SUFFICES ASSUME NEW n \in DOMAIN events', events'[n].type = "Dropped",
                      NEW i \in {events'[n].job} \cup Elems(exec.coalesced[events'[n].job]),
                      i \in parked
               PROVE  \/ \E m \in 1..(n - 1) : Verdict(events'[m], events'[n].job)
                      \/ \E m \in DOMAIN fanned : Verdict(fanned[m], i) /\ i # events'[n].job
    BY <1>1, <1>3 DEF DropsAgree
  <2>1. n \in DOMAIN events /\ events'[n] = events[n]
    BY <1>5, <1>7
  <2>2. 1..(n - 1) \subseteq DOMAIN events
    BY <1>5, <2>1
  <2> QED
    BY <1>1, <1>5, <2>1, <2>2 DEF DropsAgree
<1> QED
  BY <1>1, <1>3, <1>9, <1>10, <1>11, <1>12, <1>13, <1>14, <1>15, <1>16, WorkerFrame
     DEF LanesInv

LEMMA LeaseStepsInv ==
    ASSUME LanesInv, NEW w \in Workers,
           \/ WriteCommand(w) \/ LoseCommand(w) \/ ReadAnswer(w) \/ DropLease(w) \/ ExpireLease(w)
    PROVE  LanesInv'
<1> DEFINE j == worker[w].job
<1>1. TypeOK /\ WorkersAgree /\ CommandsAgree
  BY DEF LanesInv
<1>2. /\ UNCHANGED <<daemonVars, exec, fanned>> /\ worker[w].at \in {"lease", "written"}
  BY DEF WriteCommand, LoseCommand, ReadAnswer, DropLease, ExpireLease
<1>3. worker[w] \in WorkerRecord /\ j \in Job /\ worker \in [Workers -> WorkerRecord]
  BY <1>1, <1>2, WorkerFacts DEF TypeOK
<1>4. Idle \in WorkerRecord
  BY DEF Idle, WorkerRecord
<1>5. \A at \in {"lease", "written"} :
         /\ [worker[w] EXCEPT !.at = at] \in WorkerRecord
         /\ [worker[w] EXCEPT !.at = at].job = j /\ [worker[w] EXCEPT !.at = at].at = at
  BY <1>3 DEF WorkerRecord
<1>6. /\ Event("Failed", j, FALSE, {}) \in EventRecord
      /\ Event("Failed", j, FALSE, {}).job = j /\ Event("Failed", j, FALSE, {}).type = "Failed"
      /\ Event("Done", j, TRUE, {}) \in EventRecord
      /\ Event("Done", j, TRUE, {}).job = j /\ Event("Done", j, TRUE, {}).type = "Done"
      /\ Event("Dropped", j, TRUE, {}) \in EventRecord
      /\ Event("Dropped", j, TRUE, {}).job = j /\ Event("Dropped", j, TRUE, {}).type = "Dropped"
  BY <1>3 DEF Event, EventRecord, EventTypes
<1>7. CASE WriteCommand(w)
  <2>1. /\ worker[w].at = "lease" /\ lease[j] = "send" /\ lease' = [lease EXCEPT ![j] = "open"]
    BY <1>7 DEF WriteCommand
  <2>2. CASE WorkerAt(w, "written") /\ UNCHANGED events
    <3> DEFINE r == [worker[w] EXCEPT !.at = "written"]
    <3>1. worker' = [worker EXCEPT ![w] = r]
      BY <1>3, <2>2 DEF WorkerAt
    <3>2. r \in WorkerRecord /\ r.job = j /\ r.at = "written"
      BY <1>5
    <3> HIDE DEF r
    <3> QED
      BY <1>2, <2>1, <2>2, <3>1, <3>2, LeaseStep
  <2>3. CASE Emit(Event("Failed", j, FALSE, {})) /\ UNCHANGED worker
    <3> DEFINE r == worker[w]
    <3>1. worker' = [worker EXCEPT ![w] = r] /\ r \in WorkerRecord /\ r.job = j /\ r.at = "lease"
      BY <1>3, <2>1, <2>3
    <3>2. events' = Append(events, Event("Failed", j, FALSE, {}))
      BY <2>3 DEF Emit
    <3> HIDE DEF r
    <3> QED
      BY <1>2, <1>6, <2>1, <3>1, <3>2, LeaseStep
  <2> QED
    BY <1>7, <2>2, <2>3 DEF WriteCommand
<1>8. CASE ReadAnswer(w)
  <2>1. worker[w].at = "written" /\ lease[j] = "open" /\ UNCHANGED lease
    BY <1>1, <1>8 DEF ReadAnswer, WorkersAgree
  <2>2. lease' = [lease EXCEPT ![j] = "open"]
    BY <1>1, <1>3, <2>1 DEF TypeOK
  <2> DEFINE r == [worker[w] EXCEPT !.at = "lease"]
  <2>3. worker' = [worker EXCEPT ![w] = r]
    BY <1>3, <1>8 DEF ReadAnswer, WorkerAt
  <2>4. r \in WorkerRecord /\ r.job = j /\ r.at = "lease"
    BY <1>5
  <2>5. \/ events' = Append(events, Event("Failed", j, FALSE, {}))
        \/ events' = Append(events, Event("Done", j, TRUE, {}))
    BY <1>8 DEF ReadAnswer, Emit
  <2> HIDE DEF r
  <2> QED
    BY <1>2, <1>6, <2>1, <2>2, <2>3, <2>4, <2>5, LeaseStep
<1>9. CASE LoseCommand(w) \/ DropLease(w) \/ ExpireLease(w)
  <2>1. /\ lease' = [lease EXCEPT ![j] = "gone"] /\ worker' = [worker EXCEPT ![w] = Idle]
    BY <1>9 DEF LoseCommand, DropLease, ExpireLease, Rest
  <2>2. \/ events' = Append(events, Event("Failed", j, FALSE, {}))
        \/ events' = Append(events, Event("Dropped", j, TRUE, {})) /\ lease[j] = "drop"
    BY <1>9 DEF LoseCommand, DropLease, ExpireLease, Emit
  <2>3. lease[j] = "drop" => j \notin parked
    BY <1>1, <1>3 DEF CommandsAgree
  <2>4. Idle.at = "idle"
    BY DEF Idle
  <2> QED
    BY <1>2, <1>4, <1>6, <2>1, <2>2, <2>3, <2>4, LeaseStep
<1> QED
  BY <1>7, <1>8, <1>9

\* A snapshot's answer covers the job and those that joined it, and is followed by the
\* end of the job.
LEMMA FinishRequestInv ==
    ASSUME LanesInv, NEW w \in Workers, FinishRequest(w)
    PROVE  LanesInv'
<1> DEFINE j == worker[w].job
           covers == worker[w].covers
<1>1. /\ TypeOK /\ ExecAgrees(exec, kind, lane, Touched) /\ NewJobsAgree /\ ClientsAgree
      /\ WorkersAgree /\ OpenedAgree /\ CommandsAgree /\ AnswersAgree /\ DropsAgree
  BY DEF LanesInv
<1>2. /\ worker[w].at = "request" /\ worker' = [worker EXCEPT ![w] = Idle]
      /\ UNCHANGED <<daemonVars, exec, lease, fanned>>
  BY DEF FinishRequest, Rest
<1>3. /\ worker[w] \in WorkerRecord /\ j \in Job /\ j \in Touched /\ covers \in SUBSET Job
      /\ kind[j] \notin {"none", "open"}
      /\ j \in covers /\ Elems(exec.coalesced[j]) \subseteq covers
  BY <1>1, <1>2, WorkerFacts DEF WorkersAgree, WorkerRecord
<1>4. PICK ok \in BOOLEAN :
         events' = events \o <<Event("Done", j, ok, covers), Event("Dropped", j, TRUE, {})>>
  BY DEF FinishRequest
<1> DEFINE done == Event("Done", j, ok, covers)
           dropped == Event("Dropped", j, TRUE, {})
<1>5. /\ done \in EventRecord /\ done.job = j /\ done.type = "Done" /\ done.covers = covers
      /\ dropped \in EventRecord /\ dropped.job = j /\ dropped.type = "Dropped"
  BY <1>3 DEF Event, EventRecord, EventTypes
<1> HIDE DEF j, covers, done, dropped
<1>6. /\ events' \in Seq(EventRecord) /\ Len(events) \in Nat /\ DOMAIN events = 1..Len(events)
      /\ DOMAIN events' = 1..(Len(events) + 2)
      /\ \A n \in DOMAIN events : events'[n] = events[n]
      /\ events'[Len(events) + 1] = done /\ events'[Len(events) + 2] = dropped
  <2>1. events' = events \o <<done, dropped>> /\ events \in Seq(EventRecord)
    BY <1>1, <1>4 DEF done, dropped, TypeOK
  <2>2. /\ <<done, dropped>> \in Seq(EventRecord) /\ Len(<<done, dropped>>) = 2
        /\ <<done, dropped>>[1] = done /\ <<done, dropped>>[2] = dropped
    BY <1>5
  <2>3. /\ events' \in Seq(EventRecord) /\ Len(events') = Len(events) + 2 /\ Len(events) \in Nat
        /\ \A n \in 1..Len(events) : events'[n] = events[n]
        /\ \A n \in 1..2 : events'[Len(events) + n] = <<done, dropped>>[n]
    BY <2>1, <2>2, ConcatProperties
  <2> QED
    BY <2>1, <2>2, <2>3
<1>7. /\ UNCHANGED <<conn, method, remaining, parked, owners, kind, lane, exec, lease, fanned>>
      /\ \A u \in Workers : worker'[u] = IF u = w THEN Idle ELSE worker[u]
  BY <1>1, <1>2 DEF daemonVars, TypeOK
<1>8. Idle \in WorkerRecord /\ Idle.job = NoJob /\ Idle.at = "idle"
  BY DEF Idle, WorkerRecord
<1>9. TypeOK'
  BY <1>1, <1>2, <1>6, <1>7, <1>8 DEF TypeOK
<1>10. Touched' \subseteq Touched
  <2> SUFFICES ASSUME NEW i \in Touched' PROVE i \in Touched
    OBVIOUS
  <2>1. i \in Job /\ (\/ lease[i] # "none"
                      \/ \E u \in Workers : worker'[u].job = i
                      \/ \E n \in DOMAIN events' : events'[n].job = i)
    BY <1>7 DEF Touched
  <2>2. ASSUME NEW u \in Workers, worker'[u].job = i PROVE i \in Touched
    BY <1>7, <1>8, <2>1, <2>2, ConstantFacts DEF Touched
  <2>3. ASSUME NEW n \in DOMAIN events', events'[n].job = i PROVE i \in Touched
    <3>1. n \in DOMAIN events \/ i = j
      BY <1>5, <1>6, <2>3
    <3> QED
      BY <1>3, <1>6, <2>1, <2>3, <3>1 DEF Touched
  <2> QED
    BY <2>1, <2>2, <2>3 DEF Touched
<1>11. ExecAgrees(exec, kind, lane, Touched')
  BY <1>1, <1>10, FewerTouched
<1>12. NewJobsAgree'
  BY <1>1, <1>7, <1>10 DEF NewJobsAgree
<1>13. WorkersAgree'
  BY <1>1, <1>7, <1>8 DEF WorkersAgree
<1>14. \A i \in Job : Written(i)' => Written(i)
  BY <1>7, <1>8 DEF Written
<1>15. \A n \in DOMAIN events' : n \notin DOMAIN events =>
          /\ events'[n].job = j /\ events'[n].type \in {"Done", "Dropped"}
          /\ events'[n].type = "Done" => events'[n].covers = covers
  <2>1. \A n \in DOMAIN events' :
           n \notin DOMAIN events => n = Len(events) + 1 \/ n = Len(events) + 2
    BY <1>6
  <2> QED
    BY <1>5, <1>6, <2>1
<1>16. OpenedAgree'
  <2>1. ASSUME NEW n \in DOMAIN events', events'[n].type = "Opened"
        PROVE  /\ n \in DOMAIN events /\ events'[n] = events[n]
               /\ \A m \in DOMAIN events' : events'[m].job = events[n].job => m \in DOMAIN events
    <3>1. n \in DOMAIN events /\ events'[n] = events[n] /\ kind[events[n].job] = "open"
      BY <1>1, <1>6, <1>15, <2>1 DEF OpenedAgree
    <3> QED
      BY <1>3, <1>15, <3>1
  <2> QED
    BY <1>1, <1>6, <1>7, <2>1 DEF OpenedAgree
<1>17. CommandsAgree'
  <2>1. \A i \in Job, n \in DOMAIN events' :
           kind[i] = "open" /\ events'[n].job = i => n \in DOMAIN events
    BY <1>3, <1>15
  <2> QED
    BY <1>1, <1>6, <1>7, <1>14, <2>1 DEF CommandsAgree
<1>18. AnswersAgree'
  BY <1>1, <1>3, <1>6, <1>7, <1>15 DEF AnswersAgree
<1>19. DropsAgree'
  <2> SUFFICES ASSUME NEW n \in DOMAIN events', events'[n].type = "Dropped",
                      NEW i \in {events'[n].job} \cup Elems(exec.coalesced[events'[n].job]),
                      i \in parked
               PROVE  \/ \E m \in 1..(n - 1) : Verdict(events'[m], events'[n].job)
                      \/ \E m \in DOMAIN fanned : Verdict(fanned[m], i) /\ i # events'[n].job
    BY <1>1, <1>7 DEF DropsAgree
  <2>1. CASE n \in DOMAIN events
    <3>1. events'[n] = events[n] /\ 1..(n - 1) \subseteq DOMAIN events
      BY <1>6, <2>1
    <3> QED
      BY <1>1, <1>6, <2>1, <3>1 DEF DropsAgree
  <2>2. CASE n \notin DOMAIN events
    <3>1. n = Len(events) + 2
      BY <1>5, <1>6, <2>2
    <3>2. Len(events) + 1 \in 1..(n - 1) /\ Verdict(events'[Len(events) + 1], events'[n].job)
      BY <1>5, <1>6, <3>1 DEF Verdict
    <3> QED
      BY <3>2
  <2> QED
    BY <2>1, <2>2
<1> QED
  BY <1>1, <1>2, <1>7, <1>9, <1>11, <1>12, <1>13, <1>16, <1>17, <1>18, <1>19, WorkerFrame
     DEF LanesInv

\* What a worker takes was submitted, holds its lane and is known to no other worker.
LEMMA TakeFacts ==
    ASSUME LanesInv, exec.channel # <<>>, exec' = [exec EXCEPT !.channel = Tail(@)],
           UNCHANGED daemonVars,
           \A i \in Touched' : i \in Touched \/ i = Head(exec.channel)
    PROVE  LET j == Head(exec.channel)
           IN  /\ j \in Job /\ j \notin Touched /\ kind[j] # "none" /\ exec.inFlight[lane[j]] = j
               /\ ExecAgrees(exec, kind, lane, Touched)' /\ NewJobsAgree'
               /\ exec'.inFlight = exec.inFlight /\ exec'.coalesced = exec.coalesced
<1> DEFINE j == Head(exec.channel)
<1>1. ExecAgrees(exec, kind, lane, Touched) /\ NewJobsAgree
  BY DEF LanesInv
<1>2. /\ j \in Job /\ j \notin Touched /\ kind[j] # "none" /\ exec.inFlight[lane[j]] = j
      /\ ExecAgrees(exec', kind, lane, Touched \cup {j})
      /\ exec'.inFlight = exec.inFlight /\ exec'.coalesced = exec.coalesced
  BY <1>1, TakeAgrees
<1>3. UNCHANGED <<kind, lane, owners>>
  BY DEF daemonVars
<1> HIDE DEF j
<1>4. Touched' \subseteq Touched \cup {j}
  BY DEF j
<1>5. ExecAgrees(exec', kind, lane, Touched')
  BY <1>2, <1>4, FewerTouched
<1>6. NewJobsAgree'
  BY <1>1, <1>2, <1>3, <1>4 DEF NewJobsAgree
<1> QED
  BY <1>2, <1>3, <1>5, <1>6 DEF j

LEMMA TakeReadInv ==
    ASSUME LanesInv, NEW w \in Workers, TakeRead(w)
    PROVE  LanesInv'
<1> DEFINE j == Head(exec.channel)
           r == [job |-> j, at |-> "request", covers |-> Submitted]
<1>1. /\ TypeOK /\ ExecAgrees(exec, kind, lane, Touched) /\ NewJobsAgree /\ ClientsAgree
      /\ WorkersAgree /\ OpenedAgree /\ CommandsAgree /\ AnswersAgree /\ DropsAgree
  BY DEF LanesInv
<1>2. /\ exec.channel # <<>> /\ exec' = [exec EXCEPT !.channel = Tail(@)]
      /\ UNCHANGED <<daemonVars, lease, events, fanned>> /\ kind[j] # "open"
      /\ worker' = [worker EXCEPT ![w] = r] /\ worker[w].at = "idle"
  BY DEF TakeRead
<1>3. /\ UNCHANGED <<conn, method, remaining, parked, owners, kind, lane, lease, events, fanned>>
      /\ \A u \in Workers : worker'[u] = IF u = w THEN r ELSE worker[u]
  BY <1>1, <1>2 DEF daemonVars, TypeOK
<1>4. \A i \in Touched' : i \in Touched \/ i = j
  <2> SUFFICES ASSUME NEW i \in Touched', i # j PROVE i \in Touched
    OBVIOUS
  <2>1. \A u \in Workers : worker'[u].job = i => worker[u].job = i
    BY <1>3
  <2> QED
    BY <1>3, <2>1 DEF Touched
<1>5. /\ j \in Job /\ j \notin Touched /\ kind[j] # "none"
      /\ ExecAgrees(exec, kind, lane, Touched)' /\ NewJobsAgree'
      /\ exec'.inFlight = exec.inFlight /\ exec'.coalesced = exec.coalesced
  BY <1>2, <1>4, TakeFacts
<1>6. r \in WorkerRecord /\ r.job = j /\ r.at = "request" /\ r.covers = Submitted
  BY <1>5 DEF WorkerRecord, Submitted
<1>7. \A u \in Workers : worker[u].job # j
  BY <1>5 DEF Touched
<1>8. j \in Submitted /\ Elems(exec.coalesced[j]) \subseteq Submitted
  <2>1. exec.coalesced[j] \in Seq(Job)
    BY <1>1, <1>5 DEF ExecAgrees, ExecRecord
  <2> QED
    BY <1>1, <1>5, <2>1, SeqElems DEF Submitted, ExecAgrees
<1> HIDE DEF j, r
<1>9. TypeOK'
  BY <1>1, <1>2, <1>3, <1>5, <1>6 DEF TypeOK, ExecAgrees
<1>10. WorkersAgree'
  BY <1>1, <1>2, <1>3, <1>5, <1>6, <1>7, <1>8, ConstantFacts DEF WorkersAgree
<1>11. \A i \in Job : Written(i)' => Written(i)
  BY <1>3, <1>6 DEF Written
<1>12. OpenedAgree' /\ CommandsAgree'
  BY <1>1, <1>3, <1>5, <1>11 DEF OpenedAgree, CommandsAgree
<1>13. AnswersAgree' /\ DropsAgree'
  BY <1>1, <1>3, <1>5 DEF AnswersAgree, DropsAgree
<1> QED
  BY <1>1, <1>2, <1>5, <1>9, <1>10, <1>12, <1>13, WorkerFrame DEF LanesInv

\* The lease is offered, or the connection failed.
LEMMA TakeOpenInv ==
    ASSUME LanesInv, NEW w \in Workers, TakeOpen(w)
    PROVE  LanesInv'
<1> DEFINE j == Head(exec.channel)
           r == [job |-> j, at |-> "lease", covers |-> {}]
<1>1. /\ TypeOK /\ ExecAgrees(exec, kind, lane, Touched) /\ NewJobsAgree /\ ClientsAgree
      /\ WorkersAgree /\ OpenedAgree /\ CommandsAgree /\ AnswersAgree /\ DropsAgree
  BY DEF LanesInv
<1>2. /\ exec.channel # <<>> /\ exec' = [exec EXCEPT !.channel = Tail(@)]
      /\ UNCHANGED <<daemonVars, fanned>> /\ kind[j] = "open" /\ worker[w].at = "idle"
      /\ \/ /\ Emit(Event("Opened", j, TRUE, {})) /\ lease' = [lease EXCEPT ![j] = "open"]
            /\ worker' = [worker EXCEPT ![w] = r]
         \/ /\ Emit(Event("Failed", j, FALSE, {})) /\ UNCHANGED <<lease, worker>>
  BY DEF TakeOpen
<1>3. j \in Job
  <2>1. exec.channel \in Seq(Job)
    BY <1>1 DEF ExecAgrees, ExecRecord
  <2> QED
    BY <1>2, <2>1, TailElems
<1>4. PICK e \in EventRecord :
         /\ events' = Append(events, e) /\ e.job = j /\ e.type \in {"Opened", "Failed"}
         /\ e.type = "Opened" => lease' = [lease EXCEPT ![j] = "open"]
                                   /\ worker' = [worker EXCEPT ![w] = r]
         /\ e.type = "Failed" => UNCHANGED <<lease, worker>>
  <2>1. /\ Event("Opened", j, TRUE, {}) \in EventRecord
        /\ Event("Failed", j, FALSE, {}) \in EventRecord
        /\ Event("Opened", j, TRUE, {}).job = j /\ Event("Opened", j, TRUE, {}).type = "Opened"
        /\ Event("Failed", j, FALSE, {}).job = j /\ Event("Failed", j, FALSE, {}).type = "Failed"
    BY <1>3 DEF Event, EventRecord, EventTypes
  <2> QED
    BY <1>2, <2>1 DEF Emit
<1>5. r \in WorkerRecord /\ r.job = j /\ r.at = "lease"
  BY <1>3 DEF WorkerRecord
<1> HIDE DEF r
<1>6. /\ UNCHANGED <<conn, method, remaining, parked, owners, kind, lane, fanned>>
      /\ \A u \in Workers : worker'[u] = IF u = w /\ e.type = "Opened" THEN r ELSE worker[u]
      /\ \A i \in Job : lease'[i] = IF i = j /\ e.type = "Opened" THEN "open" ELSE lease[i]
      /\ lease' \in [Job -> LeaseStates] /\ worker' \in [Workers -> WorkerRecord]
  <2>1. /\ lease \in [Job -> LeaseStates] /\ worker \in [Workers -> WorkerRecord]
        /\ "open" \in LeaseStates
    BY <1>1 DEF TypeOK, LeaseStates
  <2>2. UNCHANGED <<conn, method, remaining, parked, owners, kind, lane, fanned>>
    BY <1>2 DEF daemonVars
  <2> HIDE DEF j
  <2>3. CASE e.type = "Opened"
    <3>1. lease' = [lease EXCEPT ![j] = "open"] /\ worker' = [worker EXCEPT ![w] = r]
      BY <1>4, <2>3
    <3> QED
      BY <1>5, <2>1, <2>2, <2>3, <3>1
  <2>4. CASE e.type # "Opened"
    <3>1. lease' = lease /\ worker' = worker
      BY <1>4, <2>4
    <3> QED
      BY <2>1, <2>2, <2>4, <3>1
  <2> QED
    BY <2>3, <2>4
<1>7. /\ events' \in Seq(EventRecord) /\ Len(events) \in Nat
      /\ DOMAIN events = 1..Len(events) /\ DOMAIN events' = 1..(Len(events) + 1)
      /\ \A n \in 1..Len(events) : events'[n] = events[n]
      /\ events'[Len(events) + 1] = e
  BY <1>1, <1>4, EventsAppend
<1>8. \A n \in DOMAIN events' : n \in DOMAIN events \/ (n = Len(events) + 1 /\ events'[n] = e)
  BY <1>7
<1>9. \A i \in Touched' : i \in Touched \/ i = j
  <2> SUFFICES ASSUME NEW i \in Touched', i # j PROVE i \in Touched
    OBVIOUS
  <2>1. \A u \in Workers : worker'[u].job = i => worker[u].job = i
    BY <1>5, <1>6
  <2>2. \A n \in DOMAIN events' : events'[n].job = i => n \in DOMAIN events /\ events[n].job = i
    BY <1>4, <1>7, <1>8
  <2>3. i \in Job /\ lease'[i] = lease[i]
    BY <1>6 DEF Touched
  <2> QED
    BY <2>1, <2>2, <2>3 DEF Touched
<1>10. /\ j \notin Touched /\ kind[j] # "none" /\ exec.inFlight[lane[j]] = j
       /\ ExecAgrees(exec, kind, lane, Touched)' /\ NewJobsAgree'
       /\ exec'.inFlight = exec.inFlight /\ exec'.coalesced = exec.coalesced
  BY <1>2, <1>9, TakeFacts
<1>11. (\A u \in Workers : worker[u].job # j) /\ (\A n \in DOMAIN events : events[n].job # j)
       /\ lease[j] = "none"
  BY <1>3, <1>10 DEF Touched
<1> HIDE DEF j
<1>12. TypeOK'
  BY <1>1, <1>6, <1>7, <1>10 DEF TypeOK, ExecAgrees
<1>13. WorkersAgree'
  <2>1. \A u \in Workers : worker[u].at # "idle" =>
           worker[u].job \in Job /\ lease'[worker[u].job] = lease[worker[u].job]
    BY <1>1, <1>6, <1>11, WorkerFacts
  <2>2. \A w1, w2 \in Workers :
           w1 # w2 /\ worker'[w1].job = worker'[w2].job => worker'[w1].job = NoJob
    BY <1>1, <1>5, <1>6, <1>11 DEF WorkersAgree
  <2>3. /\ r.at = "idle" <=> r.job = NoJob
        /\ r.at \in {"lease", "written"} => kind[r.job] = "open"
        /\ r.at \notin {"written", "request"}
    BY <1>2, <1>3, <1>5, ConstantFacts
  <2> QED
    BY <1>1, <1>6, <1>10, <2>1, <2>2, <2>3 DEF WorkersAgree
<1>14. \A i \in Job : Written(i)' => Written(i)
  BY <1>5, <1>6 DEF Written
<1>15. OpenedAgree'
  <2> SUFFICES ASSUME NEW n \in DOMAIN events', events'[n].type = "Opened"
               PROVE  LET i == events'[n].job
                      IN  /\ kind[i] = "open" /\ exec.inFlight[lane[i]] = i
                          /\ lease'[i] \in {"open", "gone"}
                          /\ \A m \in DOMAIN events' :
                                events'[m].job = i => n <= m /\ (lease'[i] = "open" => m = n)
    BY <1>6, <1>10 DEF OpenedAgree
  <2>1. CASE n \in DOMAIN events
    <3>1. events'[n] = events[n] /\ events[n].job \in Job /\ events[n].job # j
      BY <1>1, <1>7, <1>11, <2>1, EventFacts
    <3>2. \A m \in DOMAIN events' : events'[m].job = events[n].job => m \in DOMAIN events
      BY <1>4, <1>8, <3>1
    <3>3. lease'[events[n].job] = lease[events[n].job]
      BY <1>6, <3>1
    <3> QED
      BY <1>1, <1>7, <2>1, <3>1, <3>2, <3>3 DEF OpenedAgree
  <2>2. CASE n \notin DOMAIN events
    <3>1. n = Len(events) + 1 /\ events'[n] = e /\ e.type = "Opened"
      BY <1>8, <2>2
    <3>2. \A m \in DOMAIN events' : events'[m].job = j => m = n
      BY <1>7, <1>8, <1>11, <3>1
    <3>3. n \in Nat /\ lease'[j] = "open"
      BY <1>3, <1>6, <1>7, <3>1
    <3>4. n <= n
      BY <3>3
    <3> QED
      BY <1>2, <1>4, <1>10, <3>1, <3>2, <3>3, <3>4
  <2> QED
    BY <2>1, <2>2
<1>16. CommandsAgree'
  <2>1. ~Written(j)
    BY <1>11 DEF Written
  <2>2. \A i \in Job : lease'[i] \in {"send", "drop"} => lease'[i] = lease[i]
    BY <1>6
  <2>3. \A i \in Job : i # j => \A n \in DOMAIN events' :
                                   events'[n].job = i => n \in DOMAIN events /\ events[n].job = i
    BY <1>4, <1>7, <1>8
  <2>4. \A i \in Job : i = j => lease'[i] # "send" /\ ~Written(i)'
    BY <1>6, <1>11, <1>14, <2>1
  <2> QED
    BY <1>1, <1>6, <1>10, <1>14, <2>2, <2>3, <2>4 DEF CommandsAgree
<1>17. AnswersAgree'
  BY <1>1, <1>2, <1>4, <1>6, <1>7, <1>8, <1>10 DEF AnswersAgree
<1>18. DropsAgree'
  <2>1. ASSUME NEW n \in DOMAIN events', events'[n].type = "Dropped"
        PROVE  n \in DOMAIN events /\ events'[n] = events[n] /\ 1..(n - 1) \subseteq DOMAIN events
    BY <1>4, <1>7, <1>8, <2>1
  <2>2. ASSUME NEW n \in DOMAIN events, NEW m \in 1..(n - 1)
        PROVE  m \in DOMAIN events /\ events'[m] = events[m]
    BY <1>7
  <2> QED
    BY <1>1, <1>6, <1>10, <2>1, <2>2 DEF DropsAgree
<1> QED
  BY <1>1, <1>2, <1>10, <1>12, <1>13, <1>15, <1>16, <1>17, <1>18, WorkerFrame DEF LanesInv

-----------------------------------------------------------------------------
(* The daemon submits jobs.                                                 *)

\* From x the executor's books go on to hold new jobs: what is under way is not touched.
Books(x) ==
    /\ ExecAgrees(exec', kind', lane', Touched)
    /\ \A l \in Lane : x.inFlight[l] # NoJob => exec'.inFlight[l] = x.inFlight[l]
    /\ \A i \in Job : i \in Touched => exec'.coalesced[i] = x.coalesced[i]
    /\ kind' \in [Job -> Kinds] /\ lane' \in [Job -> Lane \cup {"none"}]
    /\ \A i \in Job : /\ kind[i] # "none" => kind'[i] = kind[i] /\ lane'[i] = lane[i]
                      /\ kind'[i] # "none" => lane'[i] \in Lane

LEMMA ParkBooks ==
    ASSUME TypeOK, NewJobsAgree, NEW x, ExecAgrees(x, kind, lane, Touched),
           NEW j \in Job, kind[j] = "none", NEW k \in Kinds, k # "none", NEW l \in Lane,
           kind' = [kind EXCEPT ![j] = k], lane' = [lane EXCEPT ![j] = l],
           exec' = Submit(x, j, k, l, kind)
    PROVE  Books(x)
<1>1. kind \in [Job -> Kinds] /\ lane \in [Job -> Lane \cup {"none"}] /\ j \notin Touched
  BY DEF TypeOK, NewJobsAgree
<1>2. /\ ExecAgrees(exec', kind', lane', Touched)
      /\ \A l2 \in Lane : x.inFlight[l2] # NoJob => exec'.inFlight[l2] = x.inFlight[l2]
      /\ \A i \in Job : i \in Touched => exec'.coalesced[i] = x.coalesced[i]
  <2>1. HoldsNewJob(x, Submit(x, j, k, l, kind), j, k, l, kind, lane, Touched)
    BY <1>1, SubmitAgrees
  <2> QED
    BY <2>1 DEF HoldsNewJob
<1>3. /\ kind' \in [Job -> Kinds] /\ lane' \in [Job -> Lane \cup {"none"}]
      /\ \A i \in Job : /\ kind[i] # "none" => kind'[i] = kind[i] /\ lane'[i] = lane[i]
                        /\ kind'[i] # "none" => lane'[i] \in Lane
  BY <1>1 DEF NewJobsAgree
<1> QED
  BY <1>2, <1>3 DEF Books

ParkTwo(x, j1, j2, l1, l2) ==
    /\ kind' = [kind EXCEPT ![j1] = "open", ![j2] = "open"]
    /\ lane' = [lane EXCEPT ![j1] = l1, ![j2] = l2]
    /\ exec' = Submit(Submit(x, j1, "open", l1, kind), j2, "open", l2, kind)

LEMMA ParkTwoBooks ==
    ASSUME TypeOK, NewJobsAgree, NEW x, ExecAgrees(x, kind, lane, Touched),
           NEW j1 \in Job, NEW j2 \in Job, j1 # j2, kind[j1] = "none", kind[j2] = "none",
           NEW l1 \in Lane, NEW l2 \in Lane, ParkTwo(x, j1, j2, l1, l2)
    PROVE  Books(x)
<1> DEFINE y == Submit(x, j1, "open", l1, kind)
           K == [kind EXCEPT ![j1] = "open"]
           L == [lane EXCEPT ![j1] = l1]
<1>1. /\ kind \in [Job -> Kinds] /\ lane \in [Job -> Lane \cup {"none"}]
      /\ j1 \notin Touched /\ j2 \notin Touched /\ "open" \in Kinds
  BY DEF TypeOK, NewJobsAgree, Kinds
<1>2. /\ ExecAgrees(y, K, L, Touched)
      /\ \A l \in Lane : x.inFlight[l] # NoJob => y.inFlight[l] = x.inFlight[l]
      /\ \A i \in Job : i \in Touched => y.coalesced[i] = x.coalesced[i]
  <2>1. HoldsNewJob(x, Submit(x, j1, "open", l1, kind), j1, "open", l1, kind, lane, Touched)
    BY <1>1, SubmitAgrees
  <2> QED
    BY <2>1 DEF HoldsNewJob
<1>3. /\ K \in [Job -> Kinds] /\ L \in [Job -> Lane \cup {"none"}] /\ K[j2] = "none"
  BY <1>1
<1>4. kind' = [K EXCEPT ![j2] = "open"] /\ lane' = [L EXCEPT ![j2] = l2]
  BY <1>1 DEF ParkTwo
<1> HIDE DEF y, K, L
<1>5. exec' = Submit(y, j2, "open", l2, kind)
  BY DEF y, ParkTwo
<1>6. /\ ExecAgrees(exec', kind', lane', Touched)
      /\ \A l \in Lane : y.inFlight[l] # NoJob => exec'.inFlight[l] = y.inFlight[l]
      /\ \A i \in Job : i \in Touched => exec'.coalesced[i] = y.coalesced[i]
  <2>1. HoldsNewJob(y, Submit(y, j2, "open", l2, kind), j2, "open", l2, K, L, Touched)
    BY <1>1, <1>2, <1>3, SubmitAgrees
  <2> QED
    BY <1>4, <1>5, <2>1 DEF HoldsNewJob
<1>7. \A l \in Lane : x.inFlight[l] # NoJob => exec'.inFlight[l] = x.inFlight[l]
  BY <1>2, <1>5, <1>6
<1>8. /\ kind' \in [Job -> Kinds] /\ lane' \in [Job -> Lane \cup {"none"}]
      /\ \A i \in Job : /\ kind[i] # "none" => kind'[i] = kind[i] /\ lane'[i] = lane[i]
                        /\ kind'[i] # "none" => lane'[i] \in Lane
  BY <1>1 DEF NewJobsAgree, ParkTwo
<1> QED
  BY <1>2, <1>4, <1>5, <1>6, <1>7, <1>8 DEF Books

LEMMA StayBooks ==
    ASSUME TypeOK, NewJobsAgree, NEW x, ExecAgrees(x, kind, lane, Touched),
           UNCHANGED <<kind, lane>>, exec' = x
    PROVE  Books(x)
  BY DEF Books, TypeOK, NewJobsAgree

\* Serving a request submits jobs nobody has heard of.
LEMMA ServeFrame ==
    ASSUME LanesInv, Books(exec), UNCHANGED <<lease, worker, events, fanned>>, ClientsAgree',
           conn' \in [Clients -> {"reading", "parked", "writing", "closed"}],
           method' \in [Clients -> Methods \cup {"none"}], remaining' \in [Clients -> 0..2],
           parked \subseteq parked', owners \subseteq owners', parked' \subseteq owners',
           \A i \in owners' \ owners : i \in Job /\ kind[i] = "none" /\ kind'[i] # "none",
           \A i \in parked' \ parked : kind[i] = "none"
    PROVE  LanesInv'
<1> DEFINE N == (owners' \ owners) \cup (parked' \ parked)
<1>0. /\ \A i : i \notin N => (i \in parked' <=> i \in parked) /\ (i \in owners' <=> i \in owners)
      /\ \A i \in N : i \in Job => kind[i] = "none"
      /\ owners' \subseteq owners \cup N /\ parked \subseteq parked' /\ parked' \subseteq owners'
      /\ \A i \in owners' \ owners : i \in Job /\ kind'[i] # "none"
  OBVIOUS
<1> HIDE DEF N
<1>1. /\ TypeOK /\ ExecAgrees(exec, kind, lane, Touched) /\ NewJobsAgree
      /\ WorkersAgree /\ OpenedAgree /\ CommandsAgree /\ AnswersAgree /\ DropsAgree
  BY DEF LanesInv
<1>2. Touched' = Touched
  BY DEF Touched
<1>3. /\ ExecAgrees(exec', kind', lane', Touched)
      /\ \A l \in Lane : exec.inFlight[l] # NoJob => exec'.inFlight[l] = exec.inFlight[l]
      /\ \A i \in Job : i \in Touched => exec'.coalesced[i] = exec.coalesced[i]
      /\ kind' \in [Job -> Kinds] /\ lane' \in [Job -> Lane \cup {"none"}]
      /\ \A i \in Job : /\ kind[i] # "none" => kind'[i] = kind[i] /\ lane'[i] = lane[i]
                        /\ kind'[i] # "none" => lane'[i] \in Lane
  BY DEF Books
<1>4. \A i \in Touched : /\ i \in Job /\ kind[i] # "none" /\ kind'[i] = kind[i]
                         /\ lane'[i] = lane[i] /\ exec'.coalesced[i] = exec.coalesced[i]
                         /\ i \notin N
  BY <1>0, <1>1, <1>3 DEF NewJobsAgree, Touched
<1>5. TypeOK'
  BY <1>0, <1>1, <1>3 DEF TypeOK, ExecAgrees
<1>6. NewJobsAgree'
  BY <1>0, <1>1, <1>2, <1>3 DEF NewJobsAgree, TypeOK
<1>7. WorkersAgree'
  <2>1. \A w \in Workers : worker[w].at # "idle" => worker[w].job \in Touched
    BY <1>1, WorkerFacts
  <2> QED
    BY <1>1, <1>4, <2>1 DEF WorkersAgree
<1>8. \A n \in DOMAIN events : events[n].job \in Touched
  BY <1>1, EventFacts
<1>10. \A i \in Touched : exec.inFlight[lane[i]] = i => exec'.inFlight[lane'[i]] = i
  <2>1. \A i \in Touched : lane[i] \in Lane /\ i # NoJob
    BY <1>1, <1>4, ConstantFacts DEF NewJobsAgree
  <2> QED
    BY <1>3, <1>4, <2>1
<1>11. OpenedAgree'
  <2> SUFFICES ASSUME NEW n \in DOMAIN events, events[n].type = "Opened"
               PROVE  LET i == events[n].job
                      IN  /\ kind'[i] = "open" /\ exec'.inFlight[lane'[i]] = i
                          /\ lease[i] \in {"open", "gone"}
                          /\ \A m \in DOMAIN events :
                                events[m].job = i => n <= m /\ (lease[i] = "open" => m = n)
    BY DEF OpenedAgree
  <2>1. events[n].job \in Touched
    BY <1>8
  <2> QED
    BY <1>1, <1>4, <1>10, <2>1 DEF OpenedAgree
<1>12. \A i \in Job : lease[i] = "send" \/ Written(i) => i \in Touched
  BY DEF Touched, Written
<1>13. \A i \in Job : Written(i)' <=> Written(i)
  BY DEF Written
<1>14. CommandsAgree'
  <2>1. \A i \in Job : lease[i] = "send" \/ Written(i) =>
           kind'[i] = "open" /\ exec'.inFlight[lane'[i]] = i /\ i \in parked'
    BY <1>0, <1>1, <1>4, <1>10, <1>12 DEF CommandsAgree
  <2>2. \A i \in Job : lease[i] = "drop" => i \notin parked'
    <3>1. \A i \in Job : lease[i] = "drop" => i \in Touched
      BY DEF Touched
    <3> QED
      BY <1>0, <1>1, <1>4, <3>1 DEF CommandsAgree
  <2> QED
    BY <1>1, <1>13, <2>1, <2>2 DEF CommandsAgree
<1>9. \A n \in DOMAIN fanned : fanned[n].job \in Job
  <2>1. fanned \in Seq(EventRecord)
    BY <1>1 DEF TypeOK
  <2>2. \A n \in DOMAIN fanned : fanned[n] \in EventRecord
    BY <2>1, ElementOfSeq
  <2> QED
    BY <2>2 DEF EventRecord
<1>15. AnswersAgree'
  BY <1>1, <1>3, <1>4, <1>8, <1>9 DEF AnswersAgree
<1>16. DropsAgree'
  <2>1. \A i \in Job : \A k \in Elems(exec.coalesced[i]) : k \notin N
    <3>1. \A i \in Job : Elems(exec.coalesced[i]) \subseteq Job
      BY <1>1, SeqElems DEF ExecAgrees, ExecRecord
    <3> QED
      BY <3>1, <1>0, <1>1 DEF ExecAgrees
  <2>2. \A n \in DOMAIN events :
           \A i \in {events[n].job} \cup Elems(exec.coalesced[events[n].job]) : i \notin N
    BY <1>4, <1>8, <2>1
  <2>3. \A n \in DOMAIN events : exec'.coalesced[events[n].job] = exec.coalesced[events[n].job]
    BY <1>4, <1>8
  <2>4. \A n \in DOMAIN fanned : fanned[n].job \notin N
    BY <1>0, <1>1, <1>9 DEF AnswersAgree
  <2> QED
    BY <1>0, <1>1, <2>2, <2>3, <2>4 DEF DropsAgree
<1> QED
  BY <1>2, <1>3, <1>5, <1>6, <1>7, <1>11, <1>14, <1>15, <1>16 DEF LanesInv

\* A request of client c moves only what is c's.
LEMMA ClientsFrame ==
    ASSUME ClientsAgree, NEW c \in Clients, ClientAgrees(c)',
           \A d \in Clients : d # c =>
               /\ conn'[d] = conn[d] /\ method'[d] = method[d] /\ remaining'[d] = remaining[d]
               /\ \A n \in 1..4 : /\ kind'[<<d, n>>] = kind[<<d, n>>]
                                  /\ <<d, n>> \in parked' <=> <<d, n>> \in parked
    PROVE  ClientsAgree'
<1>1. ASSUME NEW d \in Clients, d # c PROVE ClientAgrees(d)'
  <2>1. ClientAgrees(d)
    BY DEF ClientsAgree
  <2>2. /\ conn'[d] = conn[d] /\ method'[d] = method[d] /\ remaining'[d] = remaining[d]
        /\ \A n \in 1..4 : /\ kind'[<<d, n>>] = kind[<<d, n>>]
                           /\ <<d, n>> \in parked' <=> <<d, n>> \in parked
    BY <1>1
  <2>3. /\ <<d, 1>> \in parked' <=> <<d, 1>> \in parked
        /\ <<d, 2>> \in parked' <=> <<d, 2>> \in parked
        /\ <<d, 3>> \in parked' <=> <<d, 3>> \in parked
        /\ <<d, 4>> \in parked' <=> <<d, 4>> \in parked
    BY <2>2
  <2>4. conn'[d] = "reading" => \A n \in 1..4 : kind'[<<d, n>>] = "none"
    BY <2>1, <2>2 DEF ClientAgrees
  <2>5. ASSUME method'[d] = "alias", NEW n \in 1..4, NEW m \in 1..4, <<d, n>> \in parked', n < m
        PROVE  kind'[<<d, m>>] = "none"
    BY <2>1, <2>2, <2>5 DEF ClientAgrees
  <2>6. /\ method'[d] # "alias" => <<d, 3>> \notin parked' /\ <<d, 4>> \notin parked'
        /\ method'[d] = "cancel" =>
              /\ <<d, 1>> \in parked' \/ <<d, 2>> \in parked' => remaining'[d] >= 1
              /\ <<d, 1>> \in parked' /\ <<d, 2>> \in parked' => remaining'[d] = 2
    BY <2>1, <2>2, <2>3 DEF ClientAgrees
  <2> QED
    BY <2>4, <2>5, <2>6 DEF ClientAgrees
<1> QED
  BY <1>1 DEF ClientsAgree

\* What a client that is still read has: nothing.
LEMMA ReadingFacts ==
    ASSUME LanesInv, NEW c \in Clients, conn[c] = "reading"
    PROVE  \A n \in 1..4 : kind[<<c, n>>] = "none" /\ <<c, n>> \notin parked
<1>1. ClientAgrees(c) /\ NewJobsAgree /\ parked \subseteq owners
  BY DEF LanesInv, ClientsAgree, TypeOK
<1>2. \A n \in 1..4 : <<c, n>> \in Job /\ kind[<<c, n>>] = "none"
  BY <1>1, ConstantFacts DEF ClientAgrees
<1> QED
  BY <1>1, <1>2 DEF NewJobsAgree

\* A connection that is given up, answered at once, or has its answer written.
LEMMA ConnectionInv ==
    ASSUME LanesInv, NEW c \in Clients, NEW v \in {"closed", "writing"},
           conn' = [conn EXCEPT ![c] = v],
           UNCHANGED <<method, remaining, parked, owners, kind, lane, exec,
                       lease, worker, events, fanned>>
    PROVE  LanesInv'
<1>1. TypeOK /\ ExecAgrees(exec, kind, lane, Touched) /\ NewJobsAgree /\ ClientsAgree
  BY DEF LanesInv
<1>2. /\ conn' \in [Clients -> {"reading", "parked", "writing", "closed"}]
      /\ \A d \in Clients : conn'[d] = IF d = c THEN v ELSE conn[d]
      /\ method' \in [Clients -> Methods \cup {"none"}] /\ remaining' \in [Clients -> 0..2]
  BY <1>1 DEF TypeOK
<1>3. ClientAgrees(c)'
  BY <1>1, <1>2 DEF ClientsAgree, ClientAgrees
<1>4. ClientsAgree'
  BY <1>1, <1>2, <1>3, ClientsFrame
<1>5. Books(exec)
  BY <1>1, StayBooks
<1>6. parked' = parked /\ owners' = owners /\ parked \subseteq owners
  BY <1>1 DEF TypeOK
<1> QED
  BY <1>2, <1>4, <1>5, <1>6, ServeFrame

\* A request that waits for one job.
LEMMA ServeOneInv ==
    ASSUME LanesInv, NEW c \in Clients, conn[c] = "reading", NEW m \in Methods,
           conn' = [conn EXCEPT ![c] = "parked"], method' = [method EXCEPT ![c] = m],
           NEW v \in 0..2, remaining' = [remaining EXCEPT ![c] = v], m = "cancel" => v = 1,
           NEW k \in Kinds, k # "none", NEW l \in Lane, ParkJob(<<c, 1>>, k, l),
           UNCHANGED <<lease, worker, events, fanned>>
    PROVE  LanesInv'
<1> DEFINE j == <<c, 1>>
<1>1. TypeOK /\ ExecAgrees(exec, kind, lane, Touched) /\ NewJobsAgree /\ ClientsAgree
  BY DEF LanesInv
<1>2. /\ kind' = [kind EXCEPT ![j] = k] /\ lane' = [lane EXCEPT ![j] = l]
      /\ owners' = owners \cup {j} /\ parked' = parked \cup {j}
      /\ exec' = Submit(exec, j, k, l, kind)
  BY DEF ParkJob
<1>3. /\ j \in Job /\ kind[j] = "none" /\ j \notin parked
      /\ \A n \in 1..4 : /\ <<c, n>> \in Job /\ kind[<<c, n>>] = "none"
                         /\ <<c, n>> \notin parked /\ (<<c, n>> = j => n = 1)
  BY ReadingFacts, ConstantFacts
<1>4. \A d \in Clients : d # c => \A n \in 1..4 : <<d, n>> # j /\ <<d, n>> \in Job
  BY ConstantFacts
<1> HIDE DEF j
<1>5. Books(exec)
  BY <1>1, <1>2, <1>3, ParkBooks
<1>6. /\ conn' \in [Clients -> {"reading", "parked", "writing", "closed"}]
      /\ method' \in [Clients -> Methods \cup {"none"}] /\ remaining' \in [Clients -> 0..2]
      /\ \A d \in Clients : d # c => /\ conn'[d] = conn[d] /\ method'[d] = method[d]
                                     /\ remaining'[d] = remaining[d]
      /\ conn'[c] = "parked" /\ method'[c] = m /\ remaining'[c] = v
  BY <1>1 DEF TypeOK
<1>7. \A i \in Job : i # j => kind'[i] = kind[i] /\ (i \in parked' <=> i \in parked)
  BY <1>1, <1>2 DEF TypeOK
<1>8. ClientAgrees(c)'
  <2>1. \A n \in 2..4 : kind'[<<c, n>>] = "none" /\ <<c, n>> \notin parked'
    BY <1>3, <1>7
  <2>2. <<c, 2>> \notin parked' /\ <<c, 3>> \notin parked' /\ <<c, 4>> \notin parked'
    BY <2>1
  <2>3. ASSUME NEW n \in 1..4, NEW k2 \in 1..4, <<c, n>> \in parked', n < k2
        PROVE  kind'[<<c, k2>>] = "none"
    BY <2>1, <2>3
  <2> QED
    BY <1>6, <2>2, <2>3 DEF ClientAgrees
<1>9. ClientsAgree'
  BY <1>1, <1>4, <1>6, <1>7, <1>8, ClientsFrame
<1>10. kind'[j] # "none"
  BY <1>1, <1>2, <1>3 DEF TypeOK
<1>11. parked \subseteq owners
  BY <1>1 DEF TypeOK
<1> QED
  BY <1>2, <1>3, <1>5, <1>6, <1>9, <1>10, <1>11, ServeFrame

\* A cancel that waits for two notices.
LEMMA ServeTwoInv ==
    ASSUME LanesInv, NEW c \in Clients, conn[c] = "reading", NEW m \in Methods,
           conn' = [conn EXCEPT ![c] = "parked"], method' = [method EXCEPT ![c] = m],
           remaining' = [remaining EXCEPT ![c] = 2], m = "cancel",
           NEW l1 \in Lane, NEW l2 \in Lane,
           ParkTwo(exec, <<c, 1>>, <<c, 2>>, l1, l2),
           owners' = owners \cup {<<c, 1>>, <<c, 2>>},
           parked' = parked \cup {<<c, 1>>, <<c, 2>>},
           UNCHANGED <<lease, worker, events, fanned>>
    PROVE  LanesInv'
<1> DEFINE j1 == <<c, 1>>
           j2 == <<c, 2>>
<1>1. TypeOK /\ ExecAgrees(exec, kind, lane, Touched) /\ NewJobsAgree /\ ClientsAgree
  BY DEF LanesInv
<1>2. /\ kind' = [kind EXCEPT ![j1] = "open", ![j2] = "open"]
      /\ owners' = owners \cup {j1, j2} /\ parked' = parked \cup {j1, j2}
      /\ ParkTwo(exec, j1, j2, l1, l2)
  BY DEF ParkTwo
<1>3. j1 \in Job /\ j2 \in Job /\ j1 # j2 /\ kind[j1] = "none" /\ kind[j2] = "none"
  <2>1. 1 \in 1..4 /\ 2 \in 1..4
    OBVIOUS
  <2>2. \A n \in 1..4 : kind[<<c, n>>] = "none"
    BY ReadingFacts
  <2> QED
    BY <2>1, <2>2, ConstantFacts
<1>4. \A d \in Clients : d # c =>
          \A n \in 1..4 : <<d, n>> \notin {j1, j2} /\ <<d, n>> \in Job
  BY ConstantFacts
<1>5. conn' \in [Clients -> {"reading", "parked", "writing", "closed"}]
      /\ method' \in [Clients -> Methods \cup {"none"}] /\ remaining' \in [Clients -> 0..2]
  BY <1>1 DEF TypeOK
<1>6. /\ \A d \in Clients : d # c => /\ conn'[d] = conn[d] /\ method'[d] = method[d]
                                     /\ remaining'[d] = remaining[d]
      /\ conn'[c] = "parked" /\ method'[c] = "cancel" /\ remaining'[c] = 2
  BY <1>1 DEF TypeOK
<1>7. ClientAgrees(c)'
  <2>1. <<c, 3>> \notin parked' /\ <<c, 4>> \notin parked'
    BY <1>2, ReadingFacts, ConstantFacts
  <2> QED
    BY <1>6, <2>1 DEF ClientAgrees
<1> HIDE DEF j1, j2
<1>8. Books(exec)
  BY <1>1, <1>2, <1>3, ParkTwoBooks
<1>9. \A i \in Job : i \notin {j1, j2} => kind'[i] = kind[i] /\ (i \in parked' <=> i \in parked)
  BY <1>1, <1>2 DEF TypeOK
<1>10. ClientsAgree'
  BY <1>1, <1>4, <1>6, <1>7, <1>9, ClientsFrame
<1>11. kind'[j1] # "none" /\ kind'[j2] # "none"
  BY <1>1, <1>2, <1>3 DEF TypeOK
<1>12. parked \subseteq owners
  BY <1>1 DEF TypeOK
<1> QED
  BY <1>2, <1>3, <1>5, <1>8, <1>10, <1>11, <1>12, ServeFrame

LEMMA ServeInv ==
    ASSUME LanesInv, NEW c \in Clients, NEW m \in Asks[c], Serve(c, m)
    PROVE  LanesInv'
<1>1. TypeOK /\ conn[c] = "reading" /\ UNCHANGED <<lease, worker, events, fanned>> /\ m \in Methods
  BY DEF LanesInv, Serve, Methods
<1>2. \A n \in 1..4 : <<c, n>> \in Job /\ PanesOf[<<c, n>>] \subseteq Lane
  BY LanesAssumption DEF Job, Lane
<1>3. remaining[c] \in 0..2 /\ (UNCHANGED remaining =>
                                   remaining' = [remaining EXCEPT ![c] = remaining[c]])
  BY <1>1 DEF TypeOK
<1>4. CASE ServeNow(c, m)
  BY <1>1, <1>4, ConnectionInv DEF ServeNow, Outcomes
<1>5. CASE ServeRead(c, m)
  <2>1. PICK k \in {"lifecycle", "snapshot"} : ParkJob(<<c, 1>>, k, SnapshotLane)
    BY <1>5 DEF ServeRead, ParkRead, LaneFor
  <2>2. k \in Kinds /\ k # "none" /\ SnapshotLane \in Lane /\ m # "cancel"
    BY <1>5, ConstantFacts DEF Kinds, ServeRead
  <2>3. /\ conn' = [conn EXCEPT ![c] = "parked"] /\ method' = [method EXCEPT ![c] = m]
        /\ remaining' = [remaining EXCEPT ![c] = remaining[c]]
    BY <1>3, <1>5 DEF ServeRead
  <2> QED
    BY <1>1, <1>3, <2>1, <2>2, <2>3, ServeOneInv
<1>6. CASE ServePrompt(c, m)
  <2>1. PICK pane \in Lane : ParkJob(<<c, 1>>, "open", pane)
    BY <1>2, <1>6 DEF ServePrompt, ParkPrompt, LaneFor
  <2>2. "open" \in Kinds /\ m # "cancel"
    BY <1>6 DEF Kinds, ServePrompt
  <2>3. /\ conn' = [conn EXCEPT ![c] = "parked"] /\ method' = [method EXCEPT ![c] = m]
        /\ remaining' = [remaining EXCEPT ![c] = remaining[c]]
    BY <1>3, <1>6 DEF ServePrompt
  <2> QED
    BY <1>1, <1>3, <2>1, <2>2, <2>3, ServeOneInv
<1>7. CASE ServeCancel(c, m)
  <2>1. /\ m = "cancel" /\ "open" \in Kinds
        /\ conn' = [conn EXCEPT ![c] = "parked"] /\ method' = [method EXCEPT ![c] = m]
    BY <1>7 DEF ServeCancel, Kinds
  <2>2. PICK pane \in Lane : ParkCancel(c, pane)
    BY <1>2, <1>7 DEF ServeCancel
  <2>3. CASE remaining' = [remaining EXCEPT ![c] = 1] /\ ParkPrompt(<<c, 1>>, pane)
    <3>1. ParkJob(<<c, 1>>, "open", pane)
      BY <2>3 DEF ParkPrompt, LaneFor
    <3>2. PICK v \in 0..2 : v = 1 /\ remaining' = [remaining EXCEPT ![c] = v]
      BY <2>3
    <3> QED
      BY <1>1, <2>1, <3>1, <3>2, ServeOneInv
  <2>4. CASE ~(remaining' = [remaining EXCEPT ![c] = 1] /\ ParkPrompt(<<c, 1>>, pane))
    <3>1. PICK pane2 \in Lane :
             /\ remaining' = [remaining EXCEPT ![c] = 2]
             /\ ParkTwo(exec, <<c, 1>>, <<c, 2>>, pane, pane2)
             /\ owners' = owners \cup {<<c, 1>>, <<c, 2>>}
             /\ parked' = parked \cup {<<c, 1>>, <<c, 2>>}
      BY <1>2, <2>2, <2>4 DEF ParkCancel, ParkTwo
    <3> QED
      BY <1>1, <2>1, <3>1, ServeTwoInv
  <2> QED
    BY <2>2, <2>3, <2>4
<1> QED
  BY <1>4, <1>5, <1>6, <1>7 DEF Serve

-----------------------------------------------------------------------------
(* The daemon handles an event.                                             *)

\* What handling the event e does to clients, requests and leases.
Handled(e) ==
    /\ conn' \in [Clients -> {"reading", "parked", "writing", "closed"}]
    /\ remaining' \in [Clients -> 0..2]
    /\ lease' \in [Job -> LeaseStates]
    /\ parked' \subseteq owners' /\ owners' \subseteq Job
    /\ \A i \in owners' : i \in owners \/ kind'[i] # "none"
    /\ \A i \in Job : /\ i \in parked' /\ kind[i] # "none" => i \in parked
                      /\ i \in parked /\ i # e.job => i \in parked'
    /\ e.type \in {"Done", "Failed"} => e.job \notin parked'
    /\ \A i \in Job :
          \/ lease'[i] = lease[i]
          \/ /\ i = e.job /\ lease[i] = "open"
             /\ \/ lease'[i] = "drop" /\ i \notin parked'
                \/ lease'[i] = "send" /\ i \in parked' /\ e.type = "Opened"

LEMMA LetGoFacts ==
    ASSUME TypeOK, NEW j \in Job, LetGo(j)
    PROVE  /\ lease' \in [Job -> LeaseStates]
           /\ \A i \in Job : \/ lease'[i] = lease[i]
                             \/ i = j /\ lease[i] = "open" /\ lease'[i] = "drop"
<1>1. lease \in [Job -> LeaseStates] /\ "drop" \in LeaseStates
  BY DEF TypeOK, LeaseStates
<1>2. lease' = [lease EXCEPT ![j] = IF lease[j] = "open" THEN "drop" ELSE lease[j]]
  BY DEF LetGo
<1> QED
  BY <1>1, <1>2

\* A client that is told nothing waits for no more than before.
LEMMA WaitingFacts ==
    ASSUME TypeOK, ClientsAgree, UNCHANGED <<conn, method, remaining, kind>>,
           parked' \subseteq parked
    PROVE  /\ ClientsAgree'
           /\ conn' \in [Clients -> {"reading", "parked", "writing", "closed"}]
           /\ remaining' \in [Clients -> 0..2]
<1>1. ASSUME NEW c \in Clients PROVE ClientAgrees(c)'
  <2>1. ClientAgrees(c)
    BY DEF ClientsAgree
  <2> QED
    BY <2>1 DEF ClientAgrees
<1> QED
  BY <1>1 DEF ClientsAgree, TypeOK

\* The answer to one of its jobs is the client's answer, or one notice less of a cancel.
LEMMA ConcludeFacts ==
    ASSUME TypeOK, ClientsAgree, NEW j \in Job, j \in parked, kind[j] # "none",
           Conclude(Owner(j)), parked' = parked \ {j}, UNCHANGED <<method, kind>>
    PROVE  /\ ClientsAgree'
           /\ conn' \in [Clients -> {"reading", "parked", "writing", "closed"}]
           /\ remaining' \in [Clients -> 0..2]
<1> DEFINE c == Owner(j)
<1>1. c \in Clients /\ j[2] \in 1..4 /\ j = <<c, j[2]>> /\ <<c, 1>> # <<c, 2>>
  BY ConstantFacts
<1>2. \A d \in Clients : d # c => \A n \in 1..4 : <<d, n>> # j
  BY <1>1, ConstantFacts
<1>3. ClientAgrees(c)
  BY <1>1 DEF ClientsAgree
<1>4. conn[c] # "reading"
  BY <1>1, <1>3 DEF ClientAgrees
<1>5. Conclude(c)
  OBVIOUS
<1> HIDE DEF c
<1>6. conn \in [Clients -> {"reading", "parked", "writing", "closed"}]
      /\ remaining \in [Clients -> 0..2]
  BY DEF TypeOK
<1>7. conn' = conn \/ \E r \in {"closed", "writing"} : conn' = [conn EXCEPT ![c] = r]
  BY <1>5 DEF Conclude, Outcomes
<1>8. /\ conn' \in [Clients -> {"reading", "parked", "writing", "closed"}]
      /\ conn'[c] # "reading"
      /\ \A d \in Clients : d # c => conn'[d] = conn[d]
  BY <1>1, <1>4, <1>6, <1>7
<1>9. CASE method[c] = "cancel"
  <2>1. remaining' = [remaining EXCEPT ![c] = remaining[c] - 1]
    BY <1>5, <1>9 DEF Conclude
  <2>9. j = <<c, 1>> \/ j = <<c, 2>>
    <3>1. j # <<c, 3>> /\ j # <<c, 4>>
      BY <1>3, <1>9 DEF ClientAgrees
    <3>2. j[2] = 1 \/ j[2] = 2 \/ j[2] = 3 \/ j[2] = 4
      BY <1>1
    <3> QED
      BY <1>1, <3>1, <3>2
  <2>2. remaining[c] \in 1..2 /\ (<<c, 1>> \in parked' \/ <<c, 2>> \in parked' => remaining[c] = 2)
    BY <1>1, <1>3, <1>6, <1>9, <2>9 DEF ClientAgrees
  <2>3. remaining[c] - 1 \in 0..2
    BY <2>2
  <2>4. /\ remaining' \in [Clients -> 0..2] /\ remaining'[c] = remaining[c] - 1
        /\ \A d \in Clients : d # c => remaining'[d] = remaining[d]
    BY <1>1, <1>6, <2>1, <2>3
  <2>5. ~(<<c, 1>> \in parked' /\ <<c, 2>> \in parked')
    BY <2>9
  <2>6. <<c, 1>> \in parked' \/ <<c, 2>> \in parked' => remaining'[c] >= 1
    BY <2>2, <2>4
  <2>7. ClientAgrees(c)'
    BY <1>3, <1>8, <1>9, <2>5, <2>6 DEF ClientAgrees
  <2>8. ClientsAgree'
    BY <1>1, <1>2, <1>8, <2>4, <2>7, ClientsFrame
  <2> QED
    BY <1>8, <2>4, <2>8
<1>10. CASE method[c] # "cancel"
  <2>1. remaining' = remaining
    BY <1>5, <1>10 DEF Conclude
  <2>2. ClientAgrees(c)'
    BY <1>3, <1>8, <1>10 DEF ClientAgrees
  <2>3. ClientsAgree'
    BY <1>1, <1>2, <1>8, <2>1, <2>2, ClientsFrame
  <2> QED
    BY <1>6, <1>8, <2>1, <2>3
<1> QED
  BY <1>9, <1>10

\* The verdict of a prompt.
LEMMA EndPromptFacts ==
    ASSUME TypeOK, ClientsAgree, NEW e, e.job \in Job, kind[e.job] # "none",
           EndPrompt(e.job), UNCHANGED method
    PROVE  ClientsAgree' /\ Handled(e)
<1> DEFINE j == e.job
<1>1. UNCHANGED <<kind, lane, owners>> /\ parked \subseteq owners /\ owners \subseteq Job
      /\ lease \in [Job -> LeaseStates]
  BY DEF EndPrompt, TypeOK
<1>2. CASE j \in parked
  <2>1. parked' = parked \ {j} /\ LetGo(j) /\ Conclude(Owner(j))
    BY <1>2 DEF EndPrompt
  <2>2. /\ ClientsAgree'
        /\ conn' \in [Clients -> {"reading", "parked", "writing", "closed"}]
        /\ remaining' \in [Clients -> 0..2]
    BY <1>1, <1>2, <2>1, ConcludeFacts
  <2>3. /\ lease' \in [Job -> LeaseStates]
        /\ \A i \in Job : \/ lease'[i] = lease[i]
                          \/ i = j /\ lease[i] = "open" /\ lease'[i] = "drop"
    BY <2>1, LetGoFacts
  <2> QED
    BY <1>1, <2>1, <2>2, <2>3 DEF Handled
<1>3. CASE j \notin parked
  <2>1. UNCHANGED <<parked, lease, conn, remaining>>
    BY <1>3 DEF EndPrompt
  <2>2. /\ ClientsAgree'
        /\ conn' \in [Clients -> {"reading", "parked", "writing", "closed"}]
        /\ remaining' \in [Clients -> 0..2]
    BY <1>1, <2>1, WaitingFacts
  <2> QED
    BY <1>1, <1>3, <2>1, <2>2 DEF Handled
<1> QED
  BY <1>2, <1>3

\* A lease was opened: the prompt is refused, written, given up, or nobody waits for it.
LEMMA OpenedFacts ==
    ASSUME TypeOK, ClientsAgree, NEW e, e.job \in Job, kind[e.job] # "none",
           e.type = "Opened", OnPromptOpened(e.job), UNCHANGED method
    PROVE  UNCHANGED <<kind, lane>> /\ ClientsAgree' /\ Handled(e)
<1> DEFINE j == e.job
<1>1. parked \subseteq owners /\ owners \subseteq Job /\ lease \in [Job -> LeaseStates]
  BY DEF TypeOK
<1>2. CASE j \notin parked
  <2>1. LetGo(j) /\ UNCHANGED <<conn, remaining, parked, kind, lane, owners>>
    BY <1>2 DEF OnPromptOpened
  <2>2. /\ lease' \in [Job -> LeaseStates]
        /\ \A i \in Job : \/ lease'[i] = lease[i]
                          \/ i = j /\ lease[i] = "open" /\ lease'[i] = "drop"
    BY <2>1, LetGoFacts
  <2>3. /\ ClientsAgree'
        /\ conn' \in [Clients -> {"reading", "parked", "writing", "closed"}]
        /\ remaining' \in [Clients -> 0..2]
    BY <1>1, <2>1, WaitingFacts
  <2> QED
    BY <1>1, <1>2, <2>1, <2>2, <2>3 DEF Handled
<1>3. CASE j \in parked /\ RefusePrompt(j)
  <2>1. parked' = parked \ {j} /\ LetGo(j) /\ UNCHANGED <<kind, lane, owners>>
    BY <1>3 DEF RefusePrompt
  <2>2. /\ lease' \in [Job -> LeaseStates]
        /\ \A i \in Job : \/ lease'[i] = lease[i]
                          \/ i = j /\ lease[i] = "open" /\ lease'[i] = "drop"
    BY <2>1, LetGoFacts
  <2>3. /\ ClientsAgree'
        /\ conn' \in [Clients -> {"reading", "parked", "writing", "closed"}]
        /\ remaining' \in [Clients -> 0..2]
    <3>1. CASE UNCHANGED <<conn, remaining>>
      BY <2>1, <3>1, WaitingFacts
    <3>2. CASE Conclude(Owner(j))
      BY <1>3, <2>1, <3>2, ConcludeFacts
    <3> QED
      BY <1>3, <3>1, <3>2 DEF RefusePrompt
  <2> QED
    BY <1>1, <1>3, <2>1, <2>2, <2>3 DEF Handled
<1>4. CASE /\ j \in parked /\ lease[j] = "open" /\ lease' = [lease EXCEPT ![j] = "send"]
           /\ UNCHANGED <<conn, remaining, parked, kind, lane, owners>>
  <2>1. /\ lease' \in [Job -> LeaseStates]
        /\ \A i \in Job : lease'[i] = IF i = j THEN "send" ELSE lease[i]
    BY <1>1, <1>4 DEF LeaseStates
  <2>2. /\ ClientsAgree'
        /\ conn' \in [Clients -> {"reading", "parked", "writing", "closed"}]
        /\ remaining' \in [Clients -> 0..2]
    BY <1>1, <1>4, WaitingFacts
  <2> QED
    BY <1>1, <1>4, <2>1, <2>2 DEF Handled
<1>5. CASE EndPrompt(j)
  BY <1>5, EndPromptFacts DEF EndPrompt
<1>6. CASE j \in parked /\ UNCHANGED <<conn, remaining, parked, kind, lane, owners, lease>>
  <2>1. /\ ClientsAgree'
        /\ conn' \in [Clients -> {"reading", "parked", "writing", "closed"}]
        /\ remaining' \in [Clients -> 0..2]
    BY <1>1, <1>6, WaitingFacts
  <2> QED
    BY <1>1, <1>6, <2>1 DEF Handled
<1> QED
  BY <1>2, <1>3, <1>4, <1>5, <1>6 DEF OnPromptOpened

\* The result of a read.
LEMMA ReadDoneFacts ==
    ASSUME TypeOK, ClientsAgree, NEW e, e.job \in Job, kind[e.job] # "none",
           OnReadDone(e.job), UNCHANGED method
    PROVE  ClientsAgree' /\ Handled(e)
<1> DEFINE j == e.job
<1>1. UNCHANGED <<kind, lane, owners, lease>> /\ parked \subseteq owners /\ owners \subseteq Job
      /\ lease \in [Job -> LeaseStates]
  BY DEF OnReadDone, TypeOK
<1>2. CASE j \in parked
  <2>1. parked' = parked \ {j} /\ Conclude(Owner(j))
    BY <1>2 DEF OnReadDone
  <2>2. /\ ClientsAgree'
        /\ conn' \in [Clients -> {"reading", "parked", "writing", "closed"}]
        /\ remaining' \in [Clients -> 0..2]
    BY <1>1, <1>2, <2>1, ConcludeFacts
  <2> QED
    BY <1>1, <2>1, <2>2 DEF Handled
<1>3. CASE j \notin parked
  <2>1. UNCHANGED <<parked, conn, remaining>>
    BY <1>3 DEF OnReadDone
  <2>2. /\ ClientsAgree'
        /\ conn' \in [Clients -> {"reading", "parked", "writing", "closed"}]
        /\ remaining' \in [Clients -> 0..2]
    BY <1>1, <2>1, WaitingFacts
  <2> QED
    BY <1>1, <1>3, <2>1, <2>2 DEF Handled
<1> QED
  BY <1>2, <1>3

\* An alias request submits its next job: the rename, the confirming snapshot, the prompt.
LEMMA GoOnFacts ==
    ASSUME TypeOK, ClientsAgree, NewJobsAgree,
           NEW x, ExecAgrees(x, kind, lane, Touched), NEW e, e.job \in Job, e.job \in parked,
           e.type = "Done", method[Owner(e.job)] = "alias",
           NEW n \in 1..4, e.job[2] < n, NEW k \in Kinds, k # "none", NEW l \in Lane,
           GoOn(e.job, <<Owner(e.job), n>>, k, l, x), LetGo(e.job) \/ UNCHANGED lease,
           UNCHANGED method
    PROVE  Books(x) /\ ClientsAgree' /\ Handled(e)
<1> DEFINE j == e.job
           c == Owner(j)
           next == <<c, n>>
<1>1. /\ kind' = [kind EXCEPT ![next] = k] /\ lane' = [lane EXCEPT ![next] = l]
      /\ owners' = owners \cup {next} /\ parked' = (parked \ {j}) \cup {next}
      /\ exec' = Submit(x, next, k, l, kind)
      /\ UNCHANGED <<conn, remaining>>
  BY DEF GoOn
<1>2. c \in Clients /\ next \in Job /\ j[2] \in 1..4 /\ j = <<c, j[2]>> /\ next # j
  <2>1. c \in Clients /\ j[2] \in 1..4 /\ j = <<c, j[2]>>
    BY ConstantFacts
  <2>2. next \in Job /\ next[2] = n
    BY <2>1, ConstantFacts
  <2> QED
    BY <2>1, <2>2
<1>3. ClientAgrees(c)
  BY <1>2 DEF ClientsAgree
<1>4. \A m \in 1..4 : j[2] < m => kind[<<c, m>>] = "none"
  BY <1>2, <1>3 DEF ClientAgrees
<1>5. kind[next] = "none"
  BY <1>4
<1>6. \A d \in Clients : d # c => \A m \in 1..4 : <<d, m>> \notin {j, next} /\ <<d, m>> \in Job
  <2>1. \A d \in Clients : \A m \in 1..4 : <<d, m>> \in Job /\ Owner(<<d, m>>) = d
    BY ConstantFacts
  <2>2. Owner(next) = c
    BY <1>2, ConstantFacts
  <2> QED
    BY <2>1, <2>2
<1>7. /\ conn \in [Clients -> {"reading", "parked", "writing", "closed"}]
      /\ remaining \in [Clients -> 0..2] /\ lease \in [Job -> LeaseStates]
      /\ kind \in [Job -> Kinds] /\ parked \subseteq owners /\ owners \subseteq Job
  BY DEF TypeOK
<1>8. conn[c] # "reading" /\ kind[j] # "none"
  BY <1>2, <1>3, <1>7 DEF ClientAgrees, NewJobsAgree
\* None of its other jobs is parked: a parked one is submitted, and leaves the later ones
\* unsubmitted.
<1>9. \A m \in 1..4 : <<c, m>> \in parked => <<c, m>> = j
  <2> SUFFICES ASSUME NEW m \in 1..4, <<c, m>> \in parked, m # j[2] PROVE FALSE
    BY <1>2
  <2>1. kind[<<c, m>>] # "none"
    BY <1>2, <1>7, ConstantFacts DEF NewJobsAgree
  <2>2. m < j[2] => kind[j] = "none"
    BY <1>2, <1>3 DEF ClientAgrees
  <2> QED
    BY <1>2, <1>4, <1>8, <2>1, <2>2
<1>10. \A m \in 1..4 : /\ <<c, m>> \in parked' => m = n
                       /\ n < m => kind'[<<c, m>>] = "none"
  <2> SUFFICES ASSUME NEW m \in 1..4
               PROVE  /\ <<c, m>> \in parked' => m = n
                      /\ n < m => kind'[<<c, m>>] = "none"
    OBVIOUS
  <2>1. <<c, m>> = next => m = n
    BY ConstantFacts, <1>2
  <2>2. n < m => kind[<<c, m>>] = "none" /\ <<c, m>> # next
    BY <1>2, <1>4, <2>1
  <2>3. <<c, m>> \in Job
    BY ConstantFacts, <1>2
  <2> QED
    BY <1>1, <1>7, <1>9, <2>1, <2>2, <2>3
<1> HIDE DEF c, next, j
<1>11. ClientAgrees(c)'
  <2>1. \A p, m \in 1..4 : <<c, p>> \in parked' /\ p < m => kind'[<<c, m>>] = "none"
    BY <1>10
  <2> QED
    BY <1>1, <1>8, <2>1 DEF ClientAgrees, c, j
<1>12. \A i \in Job : i \notin {j, next} => kind'[i] = kind[i] /\ (i \in parked' <=> i \in parked)
  BY <1>1, <1>7
<1>13. ClientsAgree'
  BY <1>1, <1>2, <1>6, <1>11, <1>12, ClientsFrame
<1>14. Books(x)
  BY <1>1, <1>2, <1>5, ParkBooks
<1>15. kind'[next] # "none"
  BY <1>1, <1>2, <1>7
<1>16. /\ lease' \in [Job -> LeaseStates]
       /\ \A i \in Job : \/ lease'[i] = lease[i]
                         \/ i = j /\ lease[i] = "open" /\ lease'[i] = "drop"
  BY <1>2, <1>7, LetGoFacts DEF j
<1>17. j \notin parked'
  BY <1>1, <1>2
<1>18. Handled(e)
  BY <1>1, <1>2, <1>5, <1>7, <1>15, <1>16, <1>17 DEF Handled, j
<1> QED
  BY <1>13, <1>14, <1>18

\* What an alias request does with the answer of its snapshot or its rename.
LEMMA BoundFacts ==
    ASSUME TypeOK, ClientsAgree, NewJobsAgree,
           NEW x, ExecAgrees(x, kind, lane, Touched), NEW e, e.job \in Job, e.job \in parked,
           e.type = "Done", UNCHANGED method,
           \/ Adopts(e.job) /\ OnAliasFound(e.job, x)
           \/ Renames(e.job) /\ OnAdoptRenamed(e.job, x)
           \/ Binds(e.job) /\ OnAliasBound(e.job, x)
    PROVE  Books(x) /\ ClientsAgree' /\ Handled(e)
<1> DEFINE j == e.job
           c == Owner(j)
<1>1. \A m \in 1..4 : PanesOf[<<c, m>>] \subseteq Lane
  <2>1. c \in Clients
    BY ConstantFacts
  <2> QED
    BY <2>1, LanesAssumption DEF Lane
<1>2. "open" \in Kinds /\ "snapshot" \in Kinds /\ SnapshotLane \in Lane
  BY ConstantFacts DEF Kinds
<1>3. PICK n \in 1..4, k \in {"open", "snapshot"}, l \in Lane :
         /\ method[c] = "alias" /\ j[2] < n /\ GoOn(j, <<c, n>>, k, l, x)
         /\ LetGo(j) \/ UNCHANGED lease
  <2>1. CASE Adopts(j) /\ OnAliasFound(j, x)
    BY <1>1, <2>1 DEF Adopts, OnAliasFound
  <2>2. CASE Renames(j) /\ OnAdoptRenamed(j, x)
    BY <1>2, <2>2 DEF Renames, OnAdoptRenamed
  <2>3. CASE Binds(j) /\ OnAliasBound(j, x)
    BY <1>1, <2>3 DEF Binds, OnAliasBound
  <2> QED
    BY <2>1, <2>2, <2>3
<1>4. k \in Kinds /\ k # "none"
  BY <1>2
<1> QED
  BY <1>3, <1>4, GoOnFacts

LEMMA HandleFacts ==
    ASSUME LanesInv, NEW x, ExecAgrees(x, kind, lane, Touched),
           NEW e \in EventRecord, kind[e.job] # "none", e.type = "Dropped" => e.job \notin parked,
           Handle(e, x), UNCHANGED method
    PROVE  Books(x) /\ ClientsAgree' /\ Handled(e)
<1> DEFINE j == e.job
<1>1. /\ TypeOK /\ NewJobsAgree /\ ClientsAgree
      /\ j \in Job /\ e.type \in {"Opened", "Done", "Failed", "Dropped"}
  BY DEF LanesInv, EventRecord, EventTypes
<1>2. parked \subseteq owners /\ owners \subseteq Job /\ lease \in [Job -> LeaseStates]
  BY <1>1 DEF TypeOK
<1>3. CASE /\ j \notin owners /\ exec' = x
           /\ IF e.type = "Opened" THEN LetGo(j) ELSE UNCHANGED lease
           /\ UNCHANGED <<conn, remaining, parked, owners, kind, lane>>
  <2>1. Books(x)
    BY <1>1, <1>3, StayBooks
  <2>2. /\ lease' \in [Job -> LeaseStates]
        /\ \A i \in Job : \/ lease'[i] = lease[i]
                          \/ i = j /\ lease[i] = "open" /\ lease'[i] = "drop"
    BY <1>1, <1>2, <1>3, LetGoFacts
  <2>3. /\ ClientsAgree'
        /\ conn' \in [Clients -> {"reading", "parked", "writing", "closed"}]
        /\ remaining' \in [Clients -> 0..2]
    BY <1>1, <1>3, WaitingFacts
  <2>4. Handled(e)
    BY <1>2, <1>3, <2>2, <2>3 DEF Handled
  <2> QED
    BY <2>1, <2>3, <2>4
<1>4. CASE j \in owners /\ e.type = "Opened" /\ exec' = x /\ OnPromptOpened(j)
  <2>1. UNCHANGED <<kind, lane>> /\ ClientsAgree' /\ Handled(e)
    BY <1>1, <1>4, OpenedFacts
  <2> QED
    BY <1>1, <1>4, <2>1, StayBooks
<1>5. CASE j \in owners /\ exec' = x /\ EndPrompt(j)
  <2>1. ClientsAgree' /\ Handled(e) /\ UNCHANGED <<kind, lane>>
    BY <1>1, <1>5, EndPromptFacts DEF EndPrompt
  <2> QED
    BY <1>1, <1>5, <2>1, StayBooks
<1>6. CASE j \in owners /\ exec' = x /\ OnReadDone(j)
  <2>1. ClientsAgree' /\ Handled(e) /\ UNCHANGED <<kind, lane>>
    BY <1>1, <1>6, ReadDoneFacts DEF OnReadDone
  <2> QED
    BY <1>1, <1>6, <2>1, StayBooks
<1>7. CASE /\ j \in parked /\ e.type = "Done" /\ e.ok
           /\ \/ Adopts(j) /\ OnAliasFound(j, x)
              \/ Renames(j) /\ OnAdoptRenamed(j, x)
              \/ Binds(j) /\ OnAliasBound(j, x)
  BY <1>1, <1>7, BoundFacts
<1>8. CASE /\ j \in owners /\ e.type = "Dropped" /\ exec' = x /\ owners' = owners \ {j}
           /\ UNCHANGED <<conn, remaining, parked, kind, lane, lease>>
  <2>1. Books(x)
    BY <1>1, <1>8, StayBooks
  <2>2. /\ ClientsAgree'
        /\ conn' \in [Clients -> {"reading", "parked", "writing", "closed"}]
        /\ remaining' \in [Clients -> 0..2]
    BY <1>1, <1>8, WaitingFacts
  <2>3. Handled(e)
    BY <1>2, <1>8, <2>2 DEF Handled
  <2> QED
    BY <2>1, <2>2, <2>3
<1> QED
  BY <1>3, <1>4, <1>5, <1>6, <1>7, <1>8 DEF Handle

\* The invariant after an event, but for what is said of the events copied for jobs that
\* share a request.  The first d events are taken.
LEMMA HandleInv ==
    ASSUME LanesInv, NEW x, ExecAgrees(x, kind, lane, Touched),
           NEW e \in EventRecord, kind[e.job] # "none", e.type = "Dropped" => e.job \notin parked,
           Handle(e, x), UNCHANGED <<method, worker>>,
           fanned' \in Seq(EventRecord), events' \in Seq(EventRecord),
           NEW d \in 0..1,
           \A n \in DOMAIN events' : n + d \in DOMAIN events /\ events'[n] = events[n + d],
           \A n \in DOMAIN events : n > d /\ events[n].type = "Opened" => events[n].job # e.job,
           e.type = "Opened" => /\ kind[e.job] = "open" /\ exec.inFlight[lane[e.job]] = e.job
                                /\ \A n \in DOMAIN events : n > d /\ lease[e.job] = "open"
                                                               => events[n].job # e.job,
           ~Written(e.job), lease[e.job] # "send",
           \A l \in Lane : exec.inFlight[l] # NoJob /\ (Terminal(e) => exec.inFlight[l] # e.job)
                              => x.inFlight[l] = exec.inFlight[l],
           \A i \in Job : Elems(x.coalesced[i]) \subseteq Elems(exec.coalesced[i])
    PROVE  /\ TypeOK' /\ ExecAgrees(exec, kind, lane, Touched)' /\ NewJobsAgree' /\ ClientsAgree'
           /\ WorkersAgree' /\ OpenedAgree' /\ CommandsAgree'
           /\ Books(x) /\ Handled(e)
           /\ \A i \in Touched : /\ kind'[i] = kind[i]
                                 /\ Elems(exec'.coalesced[i]) \subseteq Elems(x.coalesced[i])
           /\ \A i \in Job : kind[i] # "none" /\ i \in parked' => i \in parked
           /\ \A n \in DOMAIN events' :
                 events'[n].type = "Done" /\ kind'[events'[n].job] # "open" =>
                    /\ events'[n].job \in events'[n].covers
                    /\ Elems(exec'.coalesced[events'[n].job]) \subseteq events'[n].covers
<1>1. /\ TypeOK /\ ExecAgrees(exec, kind, lane, Touched) /\ NewJobsAgree
      /\ WorkersAgree /\ OpenedAgree /\ CommandsAgree /\ AnswersAgree
  BY DEF LanesInv
<1>2. Books(x) /\ ClientsAgree' /\ Handled(e)
  BY HandleFacts
<1>3. /\ ExecAgrees(exec', kind', lane', Touched)
      /\ \A l \in Lane : x.inFlight[l] # NoJob => exec'.inFlight[l] = x.inFlight[l]
      /\ \A i \in Job : i \in Touched => exec'.coalesced[i] = x.coalesced[i]
      /\ kind' \in [Job -> Kinds] /\ lane' \in [Job -> Lane \cup {"none"}]
      /\ \A i \in Job : /\ kind[i] # "none" => kind'[i] = kind[i] /\ lane'[i] = lane[i]
                        /\ kind'[i] # "none" => lane'[i] \in Lane
  BY <1>2 DEF Books
<1>4. /\ conn' \in [Clients -> {"reading", "parked", "writing", "closed"}]
      /\ remaining' \in [Clients -> 0..2] /\ lease' \in [Job -> LeaseStates]
      /\ parked' \subseteq owners' /\ owners' \subseteq Job
      /\ \A i \in owners' : i \in owners \/ kind'[i] # "none"
  BY <1>2 DEF Handled
<1>5. \A i \in Job : /\ i \in parked' /\ kind[i] # "none" => i \in parked
                     /\ i \in parked /\ i # e.job => i \in parked'
  BY <1>2 DEF Handled
<1>6. \A i \in Job :
         \/ lease'[i] = lease[i]
         \/ /\ i = e.job /\ lease[i] = "open"
            /\ \/ lease'[i] = "drop" /\ i \notin parked'
               \/ lease'[i] = "send" /\ i \in parked' /\ e.type = "Opened"
  BY <1>2 DEF Handled
<1>7. Touched' \subseteq Touched
  <2> SUFFICES ASSUME NEW i \in Touched' PROVE i \in Touched
    OBVIOUS
  <2>1. i \in Job /\ (\/ lease'[i] # "none"
                      \/ \E u \in Workers : worker[u].job = i
                      \/ \E n \in DOMAIN events' : events'[n].job = i)
    BY DEF Touched
  <2>2. lease'[i] # "none" => lease[i] # "none"
    BY <1>6, <2>1
  <2> QED
    BY <2>1, <2>2 DEF Touched
<1>8. TypeOK'
  BY <1>1, <1>3, <1>4 DEF TypeOK, ExecAgrees
<1>9. ExecAgrees(exec', kind', lane', Touched')
  BY <1>3, <1>7, FewerTouched
<1>10. NewJobsAgree'
  BY <1>1, <1>3, <1>4, <1>7 DEF NewJobsAgree
<1>11. \A i \in Touched : /\ i \in Job /\ i # NoJob /\ kind[i] # "none" /\ kind'[i] = kind[i]
                          /\ lane'[i] = lane[i] /\ lane[i] \in Lane
                          /\ exec'.coalesced[i] = x.coalesced[i]
  BY <1>1, <1>3, ConstantFacts DEF NewJobsAgree, Touched
<1>12. \A n \in DOMAIN events' : events'[n].job \in Touched
  BY <1>1, EventFacts
<1>13. \A i \in Touched : exec.inFlight[lane[i]] = i /\ (Terminal(e) => i # e.job)
                             => exec'.inFlight[lane'[i]] = i
  BY <1>3, <1>11
<1>14. e.job \in Job
  BY DEF EventRecord
<1>15. WorkersAgree'
  <2>1. \A u \in Workers : worker[u].at # "idle" => worker[u].job \in Touched
    BY <1>1, WorkerFacts
  <2>2. \A u \in Workers : worker[u].at = "written" => lease'[worker[u].job] = "open"
    <3> SUFFICES ASSUME NEW u \in Workers, worker[u].at = "written"
                 PROVE  lease'[worker[u].job] = "open"
      OBVIOUS
    <3>1. lease[worker[u].job] = "open" /\ worker[u].job \in Job /\ worker[u].job # e.job
      BY <1>1, <1>11, <2>1 DEF WorkersAgree, Written
    <3> QED
      BY <1>6, <3>1
  <2>3. \A u \in Workers : worker[u].at = "request" =>
           Elems(exec'.coalesced[worker[u].job]) \subseteq worker[u].covers
    BY <1>1, <1>11, <2>1 DEF WorkersAgree
  <2> QED
    BY <1>1, <1>11, <2>1, <2>2, <2>3 DEF WorkersAgree
<1>16. OpenedAgree'
  <2> SUFFICES ASSUME NEW n \in DOMAIN events', events'[n].type = "Opened"
               PROVE  LET i == events'[n].job
                      IN  /\ kind'[i] = "open" /\ exec'.inFlight[lane'[i]] = i
                          /\ lease'[i] \in {"open", "gone"}
                          /\ \A m \in DOMAIN events' :
                                events'[m].job = i => n <= m /\ (lease'[i] = "open" => m = n)
    BY DEF OpenedAgree
  <2> DEFINE i == events'[n].job
  <2>1. /\ n + d \in DOMAIN events /\ events[n + d] = events'[n] /\ i \in Touched
        /\ n \in Nat /\ n >= 1 /\ n + d > d
    <3>1. n \in Nat /\ n >= 1
      BY SeqElems
    <3> QED
      BY <1>12, <3>1
  <2>2. /\ kind[i] = "open" /\ exec.inFlight[lane[i]] = i /\ lease[i] \in {"open", "gone"}
        /\ \A m \in DOMAIN events : events[m].job = i =>
                                       n + d <= m /\ (lease[i] = "open" => m = n + d)
    BY <1>1, <2>1 DEF OpenedAgree
  <2>3. i # e.job
    BY <2>1
  <2>4. lease'[i] = lease[i]
    BY <1>6, <1>11, <2>1, <2>3
  <2>5. ASSUME NEW m \in DOMAIN events', events'[m].job = i
        PROVE  n <= m /\ (lease'[i] = "open" => m = n)
    <3>1. m \in Nat /\ n + d <= m + d /\ (lease[i] = "open" => m + d = n + d)
      BY <2>2, <2>5, SeqElems
    <3>2. n <= m /\ (m + d = n + d => m = n)
      BY <2>1, <3>1
    <3> QED
      BY <2>4, <3>1, <3>2
  <2> QED
    BY <1>11, <1>13, <2>1, <2>2, <2>3, <2>4, <2>5
<1>17. CommandsAgree'
  <2> SUFFICES ASSUME NEW i \in Job
               PROVE  /\ lease'[i] = "send" \/ Written(i) =>
                            /\ kind'[i] = "open" /\ exec'.inFlight[lane'[i]] = i /\ i \in parked'
                            /\ \A n \in DOMAIN events' : events'[n].job # i
                      /\ lease'[i] = "drop" => i \notin parked'
    BY DEF CommandsAgree, Written
  <2>1. lease[i] # "none" \/ Written(i) => i \in Touched
    BY DEF Touched, Written
  <2>2. ASSUME lease[i] = "send" \/ Written(i)
        PROVE  /\ kind'[i] = "open" /\ exec'.inFlight[lane'[i]] = i /\ i \in parked'
               /\ \A n \in DOMAIN events' : events'[n].job # i
    <3>1. i # e.job /\ i \in Touched
      BY <2>1, <2>2
    <3>2. /\ kind[i] = "open" /\ exec.inFlight[lane[i]] = i /\ i \in parked
          /\ \A n \in DOMAIN events : events[n].job # i
      BY <1>1, <2>2 DEF CommandsAgree
    <3> QED
      BY <1>5, <1>11, <1>13, <3>1, <3>2
  <2>3. ASSUME lease'[i] = "send", lease[i] # "send"
        PROVE  /\ kind'[i] = "open" /\ exec'.inFlight[lane'[i]] = i /\ i \in parked'
               /\ \A n \in DOMAIN events' : events'[n].job # i
    <3>1. i = e.job /\ lease[i] = "open" /\ i \in parked' /\ e.type = "Opened" /\ i \in Touched
      BY <1>6, <2>1, <2>3
    <3>2. ~Terminal(e)
      BY <3>1 DEF Terminal
    <3>3. ASSUME NEW n \in DOMAIN events' PROVE events'[n].job # i
      <4>1. n \in Nat /\ n >= 1
        BY SeqElems
      <4>2. n + d > d
        BY <4>1
      <4> QED
        BY <3>1, <4>2
    <3> QED
      BY <1>11, <1>13, <3>1, <3>2, <3>3
  <2>4. lease'[i] = "drop" => i \notin parked'
    <3>1. lease[i] = "drop" => i \notin parked /\ kind[i] # "none"
      BY <1>1, <1>11, <2>1 DEF CommandsAgree
    <3> QED
      BY <1>5, <1>6, <3>1
  <2> QED
    BY <2>2, <2>3, <2>4
<1>18. ASSUME NEW n \in DOMAIN events',
              events'[n].type = "Done", kind'[events'[n].job] # "open"
       PROVE  /\ events'[n].job \in events'[n].covers
              /\ Elems(exec'.coalesced[events'[n].job]) \subseteq events'[n].covers
  <2>1. events'[n].job \in Touched /\ kind[events'[n].job] # "open"
    BY <1>11, <1>12, <1>18
  <2>2. /\ events'[n].job \in events'[n].covers
        /\ Elems(exec.coalesced[events'[n].job]) \subseteq events'[n].covers
    BY <1>1, <1>18, <2>1 DEF AnswersAgree
  <2> QED
    BY <1>11, <2>1, <2>2
<1> QED
  BY <1>2, <1>5, <1>8, <1>9, <1>10, <1>11, <1>15, <1>16, <1>17, <1>18

LEMMA FannedFacts ==
    ASSUME TypeOK, NEW q \in Seq(EventRecord), q # <<>>
    PROVE  /\ Head(q) = q[1] /\ 1 \in DOMAIN q /\ Head(q) \in EventRecord
           /\ Tail(q) \in Seq(EventRecord)
           /\ \A n \in DOMAIN Tail(q) : /\ n \in Nat /\ n >= 1 /\ n + 1 \in DOMAIN q
                                        /\ Tail(q)[n] = q[n + 1]
           /\ \A n \in DOMAIN q : n = 1 \/ n - 1 \in DOMAIN Tail(q)
  BY HeadTailProperties, EmptySeq

\* A copied event.
LEMMA HandleFannedInv ==
    ASSUME LanesInv, HandleFanned
    PROVE  LanesInv'
<1> DEFINE e == Head(fanned)
<1>1. /\ TypeOK /\ ExecAgrees(exec, kind, lane, Touched) /\ NewJobsAgree
      /\ WorkersAgree /\ OpenedAgree /\ CommandsAgree /\ AnswersAgree /\ DropsAgree
  BY DEF LanesInv
<1>2. /\ fanned # <<>> /\ fanned' = Tail(fanned) /\ Handle(e, exec)
      /\ UNCHANGED <<method, worker, events>>
  BY DEF HandleFanned
<1>3. fanned \in Seq(EventRecord) /\ events \in Seq(EventRecord)
  BY <1>1 DEF TypeOK
<1>4. /\ e = fanned[1] /\ 1 \in DOMAIN fanned /\ e \in EventRecord
      /\ fanned' \in Seq(EventRecord)
      /\ \A n \in DOMAIN fanned' : n + 1 \in DOMAIN fanned /\ fanned'[n] = fanned[n + 1]
      /\ \A n \in DOMAIN fanned : n = 1 \/ (n - 1 \in DOMAIN fanned' /\ fanned'[n - 1] = fanned[n])
  <2>1. /\ e = fanned[1] /\ 1 \in DOMAIN fanned /\ e \in EventRecord
        /\ fanned' \in Seq(EventRecord)
        /\ \A n \in DOMAIN fanned' : /\ n \in Nat /\ n + 1 \in DOMAIN fanned
                                     /\ fanned'[n] = fanned[n + 1]
        /\ \A n \in DOMAIN fanned : n = 1 \/ n - 1 \in DOMAIN fanned'
    BY <1>1, <1>2, <1>3, FannedFacts
  <2>2. \A n \in DOMAIN fanned : n \in Nat /\ (n - 1) + 1 = n
    BY <1>3, SeqElems
  <2> QED
    BY <2>1, <2>2
<1>5. e.job \in Job
  BY <1>4 DEF EventRecord
<1> HIDE DEF e
<1>6. kind[e.job] \notin {"none", "open"} /\ e.type # "Opened"
  BY <1>1, <1>4 DEF AnswersAgree
<1>7. e.type = "Dropped" => e.job \notin parked
  BY <1>1, <1>4 DEF DropsAgree
<1>8. ~Written(e.job) /\ lease[e.job] # "send"
  BY <1>1, <1>5, <1>6 DEF CommandsAgree
<1>9. \A n \in DOMAIN events : events[n].type = "Opened" => events[n].job # e.job
  BY <1>1, <1>6 DEF OpenedAgree
<1>10. \A n \in DOMAIN events' : n + 0 \in DOMAIN events /\ events'[n] = events[n + 0]
  <2>1. \A n \in DOMAIN events : n \in Nat /\ n + 0 = n
    BY <1>3, SeqElems
  <2> QED
    BY <1>2, <2>1
<1>11. /\ TypeOK' /\ ExecAgrees(exec, kind, lane, Touched)' /\ NewJobsAgree' /\ ClientsAgree'
       /\ WorkersAgree' /\ OpenedAgree' /\ CommandsAgree'
       /\ Handled(e)
       /\ \A i \in Touched : /\ kind'[i] = kind[i]
                             /\ Elems(exec'.coalesced[i]) \subseteq Elems(exec.coalesced[i])
       /\ \A i \in Job : kind[i] # "none" /\ i \in parked' => i \in parked
       /\ \A n \in DOMAIN events' :
             events'[n].type = "Done" /\ kind'[events'[n].job] # "open" =>
                /\ events'[n].job \in events'[n].covers
                /\ Elems(exec'.coalesced[events'[n].job]) \subseteq events'[n].covers
       /\ Books(exec)
  <2>1. PICK d \in 0..1 : d = 0
    OBVIOUS
  <2>2. /\ \A n \in DOMAIN events' : n + d \in DOMAIN events /\ events'[n] = events[n + d]
        /\ \A n \in DOMAIN events : n > d /\ events[n].type = "Opened" => events[n].job # e.job
        /\ e.type = "Opened" => /\ kind[e.job] = "open" /\ exec.inFlight[lane[e.job]] = e.job
                                /\ \A n \in DOMAIN events : n > d /\ lease[e.job] = "open"
                                                               => events[n].job # e.job
    BY <1>6, <1>9, <1>10, <2>1
  <2>3. /\ e \in EventRecord /\ kind[e.job] # "none" /\ (e.type = "Dropped" => e.job \notin parked)
        /\ Handle(e, exec) /\ UNCHANGED <<method, worker>>
        /\ fanned' \in Seq(EventRecord) /\ events' \in Seq(EventRecord)
    BY <1>2, <1>3, <1>4, <1>6, <1>7
  <2>4. /\ ExecAgrees(exec, kind, lane, Touched)
        /\ \A l \in Lane : exec.inFlight[l] # NoJob /\ (Terminal(e) => exec.inFlight[l] # e.job)
                              => exec.inFlight[l] = exec.inFlight[l]
        /\ \A i \in Job : Elems(exec.coalesced[i]) \subseteq Elems(exec.coalesced[i])
    BY <1>1
  <2> QED
    BY <1>8, <2>2, <2>3, <2>4, HandleInv
<1>12. \A n \in DOMAIN fanned : fanned[n].job \in Job
  <2>1. \A n \in DOMAIN fanned : fanned[n] \in EventRecord
    BY <1>3, SeqElems
  <2> QED
    BY <2>1 DEF EventRecord
<1>13. \A i \in Job : kind[i] # "none" => kind'[i] = kind[i]
  BY <1>11 DEF Books
<1>14. AnswersAgree'
  <2>1. \A n \in DOMAIN fanned' :
           /\ kind'[fanned'[n].job] \notin {"none", "open"} /\ fanned'[n].type # "Opened"
           /\ fanned'[n].type = "Done" => fanned'[n].job \in fanned'[n].covers
    BY <1>1, <1>4, <1>12, <1>13 DEF AnswersAgree
  <2> QED
    BY <1>11, <2>1 DEF AnswersAgree
<1>15. DropsAgree'
  <2>1. ASSUME NEW n \in DOMAIN events', events'[n].type = "Dropped",
               NEW i \in {events'[n].job} \cup Elems(exec'.coalesced[events'[n].job]),
               i \in parked'
        PROVE  \/ \E m \in 1..(n - 1) : Verdict(events'[m], events'[n].job)
               \/ \E m \in DOMAIN fanned' : Verdict(fanned'[m], i) /\ i # events'[n].job
    <3>1. events' = events /\ events[n].job \in Touched /\ events[n].job \in Job
      BY <1>1, <1>2, <2>1, EventFacts
    <3>2. i \in {events[n].job} \cup Elems(exec.coalesced[events[n].job])
      BY <1>11, <3>1
    <3>3. i \in Job /\ i \in parked
      <4>1. i \in Job
        BY <1>11, <2>1 DEF Handled
      <4>2. kind[i] # "none"
        BY <1>1, <3>1, <3>2 DEF ExecAgrees, NewJobsAgree
      <4> QED
        BY <1>11, <2>1, <4>1, <4>2
    <3>4. \/ \E m \in 1..(n - 1) : Verdict(events[m], events[n].job)
          \/ \E m \in DOMAIN fanned : Verdict(fanned[m], i) /\ i # events[n].job
      BY <1>1, <2>1, <3>1, <3>2, <3>3 DEF DropsAgree
    <3>5. ~Verdict(e, i)
      BY <1>11, <2>1 DEF Handled, Verdict
    <3> QED
      BY <1>4, <3>1, <3>4, <3>5
  <2>2. \A n \in DOMAIN fanned' : fanned'[n].type = "Dropped" => fanned'[n].job \notin parked'
    <3>1. \A n \in DOMAIN fanned : fanned[n].type = "Dropped" =>
             fanned[n].job \notin parked /\ kind[fanned[n].job] # "none"
      BY <1>1 DEF DropsAgree, AnswersAgree
    <3> QED
      BY <1>4, <1>11, <1>12, <3>1
  <2> QED
    BY <2>1, <2>2 DEF DropsAgree
<1> QED
  BY <1>11, <1>14, <1>15 DEF LanesInv

\* A worker's event: the executor settles it first.
LEMMA HandleEventInv ==
    ASSUME LanesInv, HandleEvent
    PROVE  LanesInv'
<1> DEFINE e == Head(events)
           x == Settle(exec, e)
<1>1. /\ TypeOK /\ ExecAgrees(exec, kind, lane, Touched) /\ NewJobsAgree
      /\ WorkersAgree /\ OpenedAgree /\ CommandsAgree /\ AnswersAgree /\ DropsAgree
  BY DEF LanesInv
<1>2. /\ fanned = <<>> /\ events # <<>> /\ events' = Tail(events) /\ Handle(e, x)
      /\ fanned' = IF e.type = "Done" \/ Terminal(e) THEN FanOut(exec, e) ELSE <<>>
      /\ UNCHANGED <<method, worker>>
  BY DEF HandleEvent
<1>3. events \in Seq(EventRecord) /\ DOMAIN fanned = {}
  BY <1>1, <1>2 DEF TypeOK
<1>4. /\ e = events[1] /\ 1 \in DOMAIN events /\ e \in EventRecord
      /\ events' \in Seq(EventRecord)
      /\ \A n \in DOMAIN events' : /\ n \in Nat /\ n >= 1 /\ n + 1 \in DOMAIN events
                                   /\ events'[n] = events[n + 1]
      /\ \A n \in DOMAIN events : n \in Nat /\ n >= 1 /\ (n = 1 \/ n - 1 \in DOMAIN events')
  BY <1>1, <1>2, <1>3, FannedFacts, SeqElems
<1>5. e.job \in Job /\ e.job \in Touched /\ kind[e.job] # "none"
  BY <1>1, <1>4, EventFacts DEF NewJobsAgree
<1>6. /\ ExecAgrees(x, kind, lane, Touched)
      /\ \A l \in Lane : exec.inFlight[l] # NoJob /\ (Terminal(e) => exec.inFlight[l] # e.job)
                            => x.inFlight[l] = exec.inFlight[l]
      /\ \A i \in Job : x.coalesced[i] = IF Terminal(e) /\ i = e.job THEN <<>>
                                         ELSE exec.coalesced[i]
  BY <1>1, <1>5, SettleAgrees
<1>7. /\ exec.coalesced[e.job] \in Seq(Job)
      /\ \A i \in Elems(exec.coalesced[e.job]) :
            /\ i \in Job /\ kind[i] \notin {"none", "open"} /\ kind[e.job] # "open"
  <2>1. exec.coalesced[e.job] \in Seq(Job)
    BY <1>1, <1>5 DEF ExecAgrees, ExecRecord
  <2> QED
    BY <1>1, <1>5, <2>1, SeqElems DEF ExecAgrees
<1> HIDE DEF e, x
\* The copies.
<1>8. /\ DOMAIN fanned' \subseteq DOMAIN exec.coalesced[e.job]
      /\ fanned' \in Seq(EventRecord)
      /\ \A n \in DOMAIN fanned' :
            /\ fanned'[n].job = exec.coalesced[e.job][n] /\ fanned'[n].type = e.type
            /\ fanned'[n].covers = e.covers /\ e.type # "Opened"
      /\ e.type = "Done" \/ Terminal(e) => DOMAIN fanned' = DOMAIN exec.coalesced[e.job]
  <2>1. CASE ~(e.type = "Done" \/ Terminal(e))
    BY <1>2, <2>1
  <2>2. CASE e.type = "Done" \/ Terminal(e)
    <3>1. fanned' = [n \in DOMAIN exec.coalesced[e.job] |->
                        [e EXCEPT !.job = exec.coalesced[e.job][n]]]
      BY <1>2, <2>2 DEF FanOut
    <3>2. \A i \in Job : /\ [e EXCEPT !.job = i] \in EventRecord
                         /\ [e EXCEPT !.job = i].job = i /\ [e EXCEPT !.job = i].type = e.type
                         /\ [e EXCEPT !.job = i].covers = e.covers
      BY <1>4 DEF EventRecord
    <3>3. \A n \in DOMAIN exec.coalesced[e.job] : exec.coalesced[e.job][n] \in Job
      BY <1>7, SeqElems
    <3>4. /\ DOMAIN exec.coalesced[e.job] = 1..Len(exec.coalesced[e.job])
          /\ Len(exec.coalesced[e.job]) \in Nat
      BY <1>7
    <3>5. e.type # "Opened"
      BY <2>2 DEF Terminal
    <3>6. \A n \in DOMAIN exec.coalesced[e.job] :
             /\ fanned'[n] \in EventRecord /\ fanned'[n].job = exec.coalesced[e.job][n]
             /\ fanned'[n].type = e.type /\ fanned'[n].covers = e.covers
      BY <3>1, <3>2, <3>3
    <3>7. fanned' \in [1..Len(exec.coalesced[e.job]) -> EventRecord]
      BY <3>1, <3>4, <3>6
    <3>8. fanned' \in Seq(EventRecord)
      BY <3>4, <3>7, SeqDef
    <3> QED
      BY <3>1, <3>5, <3>6, <3>8
  <2> QED
    BY <2>1, <2>2
<1>9. \A i \in {e.job} \cup Elems(exec.coalesced[e.job]) : e.type = "Dropped" => i \notin parked
  <2>1. 1..(1 - 1) = {}
    OBVIOUS
  <2> QED
    BY <1>1, <1>3, <1>4, <2>1 DEF DropsAgree
<1>10. ~Written(e.job) /\ lease[e.job] # "send"
  BY <1>1, <1>4, <1>5 DEF CommandsAgree
<1>11. \A n \in DOMAIN events : n > 1 /\ events[n].type = "Opened" => events[n].job # e.job
  <2>1. \A n \in DOMAIN events : n > 1 => ~(n <= 1)
    BY <1>4
  <2> QED
    BY <1>1, <1>4, <2>1 DEF OpenedAgree
<1>12. e.type = "Opened" => /\ kind[e.job] = "open" /\ exec.inFlight[lane[e.job]] = e.job
                            /\ \A n \in DOMAIN events : n > 1 /\ lease[e.job] = "open"
                                                           => events[n].job # e.job
  <2>1. \A n \in DOMAIN events : n > 1 => n # 1
    BY <1>4
  <2> QED
    BY <1>1, <1>4, <2>1 DEF OpenedAgree
<1>13. \A i \in Job : Elems(x.coalesced[i]) \subseteq Elems(exec.coalesced[i])
  BY <1>6, EmptyElems
<1>14. /\ TypeOK' /\ ExecAgrees(exec, kind, lane, Touched)' /\ NewJobsAgree' /\ ClientsAgree'
       /\ WorkersAgree' /\ OpenedAgree' /\ CommandsAgree'
       /\ Books(x) /\ Handled(e)
       /\ \A i \in Touched : /\ kind'[i] = kind[i]
                             /\ Elems(exec'.coalesced[i]) \subseteq Elems(x.coalesced[i])
       /\ \A i \in Job : kind[i] # "none" /\ i \in parked' => i \in parked
       /\ \A n \in DOMAIN events' :
             events'[n].type = "Done" /\ kind'[events'[n].job] # "open" =>
                /\ events'[n].job \in events'[n].covers
                /\ Elems(exec'.coalesced[events'[n].job]) \subseteq events'[n].covers
  <2>1. PICK d \in 0..1 : d = 1
    OBVIOUS
  <2>2. /\ \A n \in DOMAIN events' : n + d \in DOMAIN events /\ events'[n] = events[n + d]
        /\ \A n \in DOMAIN events : n > d /\ events[n].type = "Opened" => events[n].job # e.job
        /\ e.type = "Opened" => /\ kind[e.job] = "open" /\ exec.inFlight[lane[e.job]] = e.job
                                /\ \A n \in DOMAIN events : n > d /\ lease[e.job] = "open"
                                                               => events[n].job # e.job
    BY <1>4, <1>11, <1>12, <2>1
  <2>3. /\ e \in EventRecord /\ kind[e.job] # "none" /\ (e.type = "Dropped" => e.job \notin parked)
        /\ Handle(e, x) /\ UNCHANGED <<method, worker>>
        /\ fanned' \in Seq(EventRecord) /\ events' \in Seq(EventRecord)
    BY <1>2, <1>4, <1>5, <1>8, <1>9
  <2>4. /\ ExecAgrees(x, kind, lane, Touched)
        /\ \A l \in Lane : exec.inFlight[l] # NoJob /\ (Terminal(e) => exec.inFlight[l] # e.job)
                              => x.inFlight[l] = exec.inFlight[l]
    BY <1>6
  <2> QED
    BY <1>10, <1>13, <2>2, <2>3, <2>4, HandleInv
<1>15. \A i \in Job : kind[i] # "none" => kind'[i] = kind[i]
  BY <1>14 DEF Books
<1>16. \A n \in DOMAIN fanned' : fanned'[n].job \in Elems(exec.coalesced[e.job])
  BY <1>8 DEF Elems
<1>17. AnswersAgree'
  <2>1. e.type = "Done" /\ kind[e.job] # "open" => Elems(exec.coalesced[e.job]) \subseteq e.covers
    BY <1>1, <1>4 DEF AnswersAgree
  <2>2. \A n \in DOMAIN fanned' :
           /\ kind'[fanned'[n].job] \notin {"none", "open"} /\ fanned'[n].type # "Opened"
           /\ fanned'[n].type = "Done" => fanned'[n].job \in fanned'[n].covers
    BY <1>7, <1>8, <1>15, <1>16, <2>1
  <2> QED
    BY <1>14, <2>2 DEF AnswersAgree
<1>18. DropsAgree'
  <2>1. ASSUME NEW n \in DOMAIN events', events'[n].type = "Dropped",
               NEW i \in {events'[n].job} \cup Elems(exec'.coalesced[events'[n].job]),
               i \in parked'
        PROVE  \/ \E m \in 1..(n - 1) : Verdict(events'[m], events'[n].job)
               \/ \E m \in DOMAIN fanned' : Verdict(fanned'[m], i) /\ i # events'[n].job
    <3> DEFINE j == events'[n].job
    <3>1. /\ n \in Nat /\ n + 1 \in DOMAIN events /\ events[n + 1] = events'[n]
          /\ j \in Touched /\ j \in Job /\ (n + 1) - 1 = n
      BY <1>1, <1>4, <2>1, EventFacts
    <3>2. i \in {j} \cup Elems(x.coalesced[j]) /\ i \in {j} \cup Elems(exec.coalesced[j])
      BY <1>13, <1>14, <2>1, <3>1
    <3>3. i \in parked
      <4>1. i \in Job
        BY <1>14, <2>1 DEF Handled
      <4>2. kind[i] # "none"
        BY <1>1, <3>1, <3>2 DEF ExecAgrees, NewJobsAgree
      <4> QED
        BY <1>14, <2>1, <4>1, <4>2
    <3> HIDE DEF j
    <3>4. PICK m \in 1..n : Verdict(events[m], j)
      <4>1. \/ \E m \in 1..((n + 1) - 1) : Verdict(events[m], j)
            \/ \E m \in DOMAIN fanned : Verdict(fanned[m], i) /\ i # j
        BY <1>1, <2>1, <3>1, <3>2, <3>3 DEF DropsAgree, j
      <4> QED
        BY <1>3, <3>1, <4>1
    <3>5. CASE m = 1
      <4>1. Verdict(e, j) /\ j = e.job
        BY <1>4, <3>4, <3>5 DEF Verdict
      <4>2. i # j
        BY <1>14, <2>1, <4>1 DEF Handled, Verdict
      <4>3. ~Terminal(e) /\ i \in Elems(exec.coalesced[e.job])
        BY <1>5, <1>6, <3>2, <4>1, <4>2, EmptyElems
      <4>4. e.type = "Done"
        BY <4>1, <4>3 DEF Verdict, Terminal
      <4>5. PICK m2 \in DOMAIN exec.coalesced[e.job] : exec.coalesced[e.job][m2] = i
        BY <4>3 DEF Elems
      <4>6. m2 \in DOMAIN fanned' /\ Verdict(fanned'[m2], i)
        BY <1>8, <4>4, <4>5 DEF Verdict
      <4> QED
        BY <4>2, <4>6 DEF j
    <3>6. CASE m # 1
      <4>1. /\ m \in Nat /\ m - 1 \in 1..(n - 1) /\ m - 1 >= 1 /\ m - 1 <= n - 1
            /\ (m - 1) + 1 = m
        BY <3>1, <3>4, <3>6
      <4>2. m - 1 \in DOMAIN events'
        <5>1. DOMAIN events' = 1..Len(events') /\ Len(events') \in Nat
          BY <1>4
        <5> QED
          BY <2>1, <4>1, <5>1
      <4>3. events'[m - 1] = events[m]
        BY <1>4, <4>1, <4>2
      <4> QED
        BY <3>4, <4>1, <4>3 DEF j
    <3> QED
      BY <3>5, <3>6
  <2>2. \A n \in DOMAIN fanned' : fanned'[n].type = "Dropped" => fanned'[n].job \notin parked'
    BY <1>7, <1>8, <1>9, <1>14, <1>16
  <2> QED
    BY <2>1, <2>2 DEF DropsAgree
<1> QED
  BY <1>14, <1>17, <1>18 DEF LanesInv

-----------------------------------------------------------------------------
(* The invariant and what follows from it.                                  *)

LEMMA InitInv == Init => LanesInv
<1> SUFFICES ASSUME Init PROVE LanesInv
  OBVIOUS
<1>1. /\ conn = [c \in Clients |-> "reading"] /\ method = [c \in Clients |-> "none"]
      /\ remaining = [c \in Clients |-> 0] /\ parked = {} /\ owners = {}
      /\ kind = [j \in Job |-> "none"] /\ lane = [j \in Job |-> "none"] /\ exec = NoWork
      /\ lease = [j \in Job |-> "none"] /\ worker = [w \in Workers |-> Idle]
      /\ events = <<>> /\ fanned = <<>>
  BY DEF Init
<1>2. /\ exec.queued = [l \in Lane |-> <<>>] /\ exec.inFlight = [l \in Lane |-> NoJob]
      /\ exec.coalesced = [j \in Job |-> <<>>] /\ exec.channel = <<>> /\ exec \in ExecRecord
  BY <1>1 DEF NoWork, ExecRecord
<1>3. Idle \in WorkerRecord /\ Idle.job = NoJob /\ Idle.at = "idle"
  BY DEF Idle, WorkerRecord
<1>4. Touched = {}
  BY <1>1, <1>3, ConstantFacts DEF Touched
<1>5. TypeOK
  BY <1>1, <1>2, <1>3 DEF TypeOK, Kinds, LeaseStates
<1>6. ExecAgrees(exec, kind, lane, Touched)
  <2>1. QueuesAgree(exec, kind, lane, Touched) /\ ChannelAgrees(exec, kind, lane, Touched)
    BY <1>2, EmptyElems DEF QueuesAgree, ChannelAgrees
  <2> QED
    BY <1>2, <2>1, EmptyElems DEF ExecAgrees
<1>7. NewJobsAgree
  BY <1>1, <1>4 DEF NewJobsAgree
<1>8. ClientsAgree
  BY <1>1, ConstantFacts DEF ClientsAgree, ClientAgrees
<1>9. WorkersAgree
  BY <1>1, <1>3 DEF WorkersAgree
<1>10. OpenedAgree /\ AnswersAgree /\ DropsAgree
  BY <1>1 DEF OpenedAgree, AnswersAgree, DropsAgree
<1>11. CommandsAgree
  BY <1>1, <1>3 DEF CommandsAgree, Written
<1> QED
  BY <1>5, <1>6, <1>7, <1>8, <1>9, <1>10, <1>11 DEF LanesInv

LEMMA StutterInv == LanesInv /\ UNCHANGED vars => LanesInv'
<1> SUFFICES ASSUME LanesInv, UNCHANGED vars PROVE LanesInv'
  OBVIOUS
<1>1. UNCHANGED <<conn, method, remaining, parked, owners, kind, lane, exec, lease, worker,
                  events, fanned>>
  BY DEF vars, daemonVars
<1>2. Touched' = Touched /\ \A j : Written(j)' <=> Written(j)
  BY <1>1 DEF Touched, Written
<1>3. TypeOK' /\ ExecAgrees(exec, kind, lane, Touched)' /\ NewJobsAgree'
  BY <1>1, <1>2 DEF LanesInv, TypeOK, NewJobsAgree
<1>4. ClientsAgree' /\ WorkersAgree' /\ OpenedAgree'
  BY <1>1 DEF LanesInv, ClientsAgree, ClientAgrees, WorkersAgree, OpenedAgree
<1>5. CommandsAgree' /\ AnswersAgree' /\ DropsAgree'
  BY <1>1, <1>2 DEF LanesInv, CommandsAgree, AnswersAgree, DropsAgree
<1> QED
  BY <1>3, <1>4, <1>5 DEF LanesInv

LEMMA NextInv == LanesInv /\ [Next]_vars => LanesInv'
<1> SUFFICES ASSUME LanesInv, [Next]_vars PROVE LanesInv'
  OBVIOUS
<1>1. ASSUME NEW c \in Clients, GiveUpReading(c) \/ AdvanceWrite(c) PROVE LanesInv'
  BY <1>1, ConnectionInv DEF GiveUpReading, AdvanceWrite, WriteEnds
<1>2. ASSUME NEW c \in Clients, NEW m \in Asks[c], Serve(c, m) PROVE LanesInv'
  BY <1>2, ServeInv
<1>3. ASSUME NEW w \in Workers, WorkerStep(w) \/ ExpireLease(w) PROVE LanesInv'
  BY <1>3, TakeReadInv, TakeOpenInv, FinishRequestInv, LeaseStepsInv DEF WorkerStep
<1>4. CASE HandleFanned
  BY <1>4, HandleFannedInv
<1>5. CASE HandleEvent
  BY <1>5, HandleEventInv
<1>6. CASE UNCHANGED vars
  BY <1>6, StutterInv
<1> QED
  BY <1>1, <1>2, <1>3, <1>4, <1>5, <1>6 DEF Next

\* The executor, its workers, their events and the daemon's requests always agree.
THEOREM LanesInvariant == Spec => []LanesInv
  BY InitInv, NextInv, PTL DEF Spec

\* Every variable keeps its type; every parked job has an owner to route its events.
THEOREM LanesTypeCorrect == Spec => []TypeOK
<1>1. LanesInv => TypeOK
  BY DEF LanesInv
<1> QED
  BY <1>1, LanesInvariant, PTL

\* However leases expire, fail and free their lanes, two workers never have a command
\* written and not answered on one pane.
THEOREM OneCommandPerLane == Spec => []LaneIsExclusive
<1>1. LanesInv => LaneIsExclusive
  <2> SUFFICES ASSUME LanesInv, NEW w1 \in Workers, NEW w2 \in Workers, w1 # w2,
                      worker[w1].at = "written", worker[w2].at = "written",
                      lane[worker[w1].job] = lane[worker[w2].job]
               PROVE  FALSE
    BY DEF LaneIsExclusive
  <2> DEFINE j1 == worker[w1].job
             j2 == worker[w2].job
  <2>1. TypeOK /\ WorkersAgree /\ CommandsAgree
    BY DEF LanesInv
  <2>2. j1 \in Job /\ j2 \in Job
    BY <2>1, WorkerFacts
  <2>3. Written(j1) /\ Written(j2)
    BY DEF Written
  <2>4. exec.inFlight[lane[j1]] = j1 /\ exec.inFlight[lane[j2]] = j2
    BY <2>1, <2>2, <2>3 DEF CommandsAgree
  <2>5. j1 = j2
    BY <2>4
  <2> QED
    BY <2>1, <2>2, <2>5, ConstantFacts DEF WorkersAgree
<1> QED
  BY <1>1, LanesInvariant, PTL

\* A snapshot that answers a job, its own or one that joined it, was asked for after the
\* job was submitted.
THEOREM SnapshotsAreFresh == Spec => []SnapshotIsFresh
<1>1. LanesInv => SnapshotIsFresh
  BY DEF LanesInv, AnswersAgree, SnapshotIsFresh
<1> QED
  BY <1>1, LanesInvariant, PTL

\* A command reaches Herdr only for a prompt that still waits for it.
THEOREM NothingWrittenLate == Spec => NoWriteAfterVerdict
<1>1. LanesInv /\ [Next]_vars =>
         [\A w \in Workers : worker[w].at # "written" /\ worker'[w].at = "written"
                                 => worker[w].job \in parked]_vars
  <2> SUFFICES ASSUME LanesInv, Next, NEW w \in Workers,
                      worker[w].at # "written", worker'[w].at = "written"
               PROVE  worker[w].job \in parked
    OBVIOUS
  <2>1. TypeOK /\ WorkersAgree /\ CommandsAgree
    BY DEF LanesInv
  <2>2. worker' # worker
    OBVIOUS
  <2>3. PICK u \in Workers : WorkerStep(u) \/ ExpireLease(u)
    BY <2>2 DEF Next, GiveUpReading, Serve, AdvanceWrite, HandleFanned, HandleEvent
  <2>4. worker[u] \in WorkerRecord /\ worker \in [Workers -> WorkerRecord]
    BY <2>1 DEF TypeOK
  <2>5. CASE WriteCommand(u)
    <3>1. lease[worker[u].job] = "send" /\ worker[u].at = "lease"
      BY <2>5 DEF WriteCommand
    <3>2. w = u
      BY <2>4, <2>5 DEF WriteCommand, WorkerAt
    <3>3. worker[u].job \in Job
      BY <2>1, <3>1, WorkerFacts
    <3> QED
      BY <2>1, <3>1, <3>2, <3>3 DEF CommandsAgree
  <2>6. CASE ReadAnswer(u)
    <3>1. worker' = [worker EXCEPT ![u] = [worker[u] EXCEPT !.at = "lease"]]
      BY <2>6 DEF ReadAnswer, WorkerAt
    <3>2. [worker[u] EXCEPT !.at = "lease"].at = "lease"
      BY <2>4 DEF WorkerRecord
    <3>3. worker'[w].at = IF w = u THEN "lease" ELSE worker[w].at
      BY <2>4, <3>1, <3>2
    <3> QED
      BY <3>3
  <2>7. \A r : worker' = [worker EXCEPT ![u] = r] => r.at = "written"
    BY <2>4
  <2>8. CASE TakeRead(u)
    <3>1. worker' = [worker EXCEPT ![u] = [job |-> Head(exec.channel), at |-> "request",
                                           covers |-> Submitted]]
      BY <2>8 DEF TakeRead
    <3> QED
      BY <2>7, <3>1
  <2>9. CASE TakeOpen(u)
    <3>1. worker' = [worker EXCEPT ![u] = [job |-> Head(exec.channel), at |-> "lease",
                                           covers |-> {}]]
      BY <2>2, <2>9 DEF TakeOpen
    <3> QED
      BY <2>7, <3>1
  <2>10. CASE FinishRequest(u) \/ LoseCommand(u) \/ DropLease(u) \/ ExpireLease(u)
    <3>1. worker' = [worker EXCEPT ![u] = Idle]
      BY <2>10 DEF FinishRequest, LoseCommand, DropLease, ExpireLease, Rest
    <3> QED
      BY <2>7, <3>1 DEF Idle
  <2> QED
    BY <2>3, <2>5, <2>6, <2>8, <2>9, <2>10 DEF WorkerStep
<1> QED
  BY <1>1, LanesInvariant, PTL DEF Spec, NoWriteAfterVerdict
============================================================================
