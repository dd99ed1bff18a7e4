---------------------------- MODULE GatesProofs ----------------------------
(***************************************************************************)
(* GatesInv is an inductive invariant of Gates.  From it follow the types,  *)
(* that a standalone clear and a renew exclude each other, that a cycle     *)
(* clears its conversation once, that a recurring policy stays armed, that  *)
(* an ask to prepare ends with its phase, and that no write that asked the  *)
(* gate is written into an open clear: for every number of clears, prompts, *)
(* cycles and crashes.                                                      *)
(*                                                                         *)
(* What the gates check when a write is parked has to hold when the write   *)
(* gets the pane, which may be much later: the invariant says what may stand *)
(* in the lane behind what.                                                 *)
(***************************************************************************)
EXTENDS Gates, SequenceTheorems, TLAPS

Pending(c) == clear[c].op = "pending"

\* The write asked the gate before it was parked.
Gated(o) == o \notin UngatedWrites

\* A clear waits in the lane while its operation is open, and no gated write waits behind it.
\* Once it was attempted it has the pane, or no gated write enters the lane until its outcome
\* is recorded.
ClearsAgree ==
    \A c \in Clears :
        /\ \A n \in DOMAIN lane : lane[n] = <<"clear", c>> =>
              /\ Pending(c) /\ clear[c].at \in {"sending", "sent"}
              /\ \A m \in DOMAIN lane : m > n => ~Gated(lane[m])
        /\ Pending(c) /\ clear[c].attempted =>
              (\A n \in DOMAIN lane : ~Gated(lane[n])) \/ (Holds(<<"clear", c>>) /\ sent)
        /\ clear[c].at \in {"none", "settling", "probe", "sending"} => ~clear[c].attempted

\* A prompt, and a renew's write, wait in the lane once, while they are parked.
PromptsAgree ==
    \A p \in Prompts : \A n \in DOMAIN lane : lane[n] = <<"prompt", p>> =>
        /\ prompt[p] \in {"parked", "firing", "sent"}
        /\ \A m \in DOMAIN lane : lane[m] = <<"prompt", p>> => m = n

RenewsAgree ==
    \A k \in Cycles : \A n \in DOMAIN lane : lane[n] = <<"renew", k>> =>
        /\ row[k].at \in {"clear_open", "inject_open"}
        /\ \A m \in DOMAIN lane : lane[m] = <<"renew", k>> => m = n

\* A delivery that was fired before a cycle came to its clear waits in front of it, and is
\* gone when the clear is written.
FiredAgree ==
    \A k \in Cycles, p \in Prompts :
        row[k].phase = "clearing" /\ prompt[p] = "firing" =>
            \A n \in DOMAIN lane : lane[n] = <<"prompt", p>> =>
                /\ row[k].writes = 0
                /\ row[k].at = "clear_open" =>
                      \A m \in DOMAIN lane : lane[m] = <<"renew", k>> => n < m

\* A clear is written only by the one attempt a cycle records, from its ready phase.
RowAgrees(k) ==
    /\ row[k].writes <= 1
    /\ row[k].step = "none" => row[k].writes = 0
    /\ row[k].phase \in {"none", "scheduled", "preparing", "timed_out", "ready"}
          => row[k].step = "none"
    /\ row[k].at = "clear_open" =>
          row[k].step # "none" /\ (row[k].writes = 0 \/ (Holds(<<"renew", k>>) /\ sent))
    /\ row[k].at = "rotation" => ~ClearInFlight /\ (row[k].phase = "clearing" \/ ~ready)
    /\ row[k].ask \in OpenAsk => row[k].phase \in {"preparing", "timed_out"}

\* Rows are used in order, and only the last one lives.
RowsInOrder ==
    \A k \in Cycles :
        /\ row[k].phase = "none" => row[k] = NewRow
        /\ row[k].phase = "none" \/ Live(k) => \A j \in Cycles : j > k => row[j].phase = "none"

PolicyAgrees ==
    policy.state = "active" =>
        policy.cycle \in Cycles /\ Live(policy.cycle) /\ row[policy.cycle].every

GatesInv ==
    /\ TypeOK
    /\ ClearExcludesRenew
    /\ ClearsAgree /\ PromptsAgree /\ RenewsAgree /\ FiredAgree
    /\ \A k \in Cycles : RowAgrees(k)
    /\ RowsInOrder /\ PolicyAgrees

----------------------------------------------------------------------------
(* The lane and the rows of one step.                                       *)

\* A write is put at the end of the lane.
LEMMA LaneParks ==
    ASSUME lane \in Seq(Owners), NEW o \in Owners, lane' = Append(lane, o)
    PROVE  /\ lane' \in Seq(Owners)
           /\ lane' # <<>>
           /\ Len(lane') = Len(lane) + 1
           /\ \A n \in DOMAIN lane : n \in DOMAIN lane' /\ lane'[n] = lane[n] /\ n < Len(lane')
           /\ Len(lane') \in DOMAIN lane' /\ lane'[Len(lane')] = o
           /\ \A n \in DOMAIN lane' : n \in DOMAIN lane \/ (n = Len(lane') /\ lane'[n] = o)
           /\ lane # <<>> => Head(lane') = Head(lane)
BY SMT

\* The write at its head leaves the lane.
LEMMA LaneReleases ==
    ASSUME lane \in Seq(Owners), lane # <<>>, lane' = Tail(lane)
    PROVE  /\ lane' \in Seq(Owners)
           /\ Len(lane') = Len(lane) - 1
           /\ \A n \in DOMAIN lane' : n + 1 \in DOMAIN lane /\ lane'[n] = lane[n + 1]
           /\ Len(lane) = 1 => lane' = <<>>
BY SMT

\* Only a prompt may go without asking.
LEMMA GatedWrites ==
    ASSUME NEW o
    PROVE  /\ \A c : o = <<"clear", c>> => Gated(o)
           /\ \A k : o = <<"renew", k>> \/ o = <<"prepare", k>> => Gated(o)
           /\ \A p : o = <<"prompt", p>> /\ p \notin Ungated => Gated(o)
BY DEF Gated, UngatedWrites

\* The head of the lane is its first write.
LEMMA LaneHead ==
    ASSUME lane \in Seq(Owners), NEW o, Holds(o)
    PROVE  /\ lane # <<>> /\ 1 \in DOMAIN lane /\ lane[1] = o /\ Len(lane) >= 1
           /\ o \in Owners
BY SMT DEF Holds

\* Only row k changes, and it stays a row.
RowMoves(k) ==
    /\ row' \in [Cycles -> RenewRow]
    /\ \A j \in Cycles : j # k => row'[j] = row[j]

LEMMA RowIsSet ==
    ASSUME TypeOK, NEW k \in Cycles, NEW r \in RenewRow, row' = [row EXCEPT ![k] = r]
    PROVE  RowMoves(k) /\ row'[k] = r
BY DEF TypeOK, RowMoves

LEMMA RowType == ASSUME TypeOK, NEW k \in Cycles PROVE row[k] \in RenewRow
BY DEF TypeOK

\* A row that lives on, or stays ended, keeps the order of the rows and the policy.
LEMMA RowKept ==
    ASSUME GatesInv, NEW k \in Cycles, RowMoves(k), policy' = policy,
           row[k].phase # "none", row'[k].phase # "none",
           Live(k)' <=> Live(k), row'[k].every = row[k].every
    PROVE  RowsInOrder' /\ PolicyAgrees'
<1>1. \A j \in Cycles : j # k => row'[j] = row[j]
  BY DEF RowMoves
<1>2. \A j \in Cycles : /\ row'[j].phase = "none" <=> row[j].phase = "none"
                        /\ Live(j)' <=> Live(j)
                        /\ row'[j].every = row[j].every
  BY <1>1 DEF Live
<1>3. \A j \in Cycles : row'[j].phase = "none" => row'[j] = NewRow
  BY <1>1 DEF GatesInv, RowsInOrder
<1>4. RowsInOrder'
  BY <1>2, <1>3 DEF GatesInv, RowsInOrder
<1>5. PolicyAgrees'
  BY <1>2 DEF GatesInv, PolicyAgrees
<1> QED  BY <1>4, <1>5

\* A row that ends takes an active policy with it.
LEMMA RowEnded ==
    ASSUME GatesInv, NEW k \in Cycles, RowMoves(k), Live(k), row'[k].phase \in Settled,
           policy'.state = "active" => policy' = policy /\ policy.cycle # k
    PROVE  RowsInOrder' /\ PolicyAgrees'
<1>1. \A j \in Cycles : j # k => row'[j] = row[j]
  BY DEF RowMoves
<1>2. row'[k].phase # "none" /\ ~Live(k)' /\ row[k].phase # "none"
  BY DEF Live, Settled
<1>3. \A j \in Cycles : row'[j].phase = "none" <=> row[j].phase = "none"
  BY <1>1, <1>2
<1>4. \A j \in Cycles : Live(j)' => Live(j)
  BY <1>1, <1>2 DEF Live
<1>5. \A j \in Cycles : row'[j].phase = "none" => row'[j] = NewRow
  BY <1>1, <1>2 DEF GatesInv, RowsInOrder
<1>6. RowsInOrder'
  BY <1>3, <1>4, <1>5 DEF GatesInv, RowsInOrder
<1>7. PolicyAgrees'
  BY <1>1 DEF GatesInv, PolicyAgrees, Live
<1> QED  BY <1>6, <1>7

\* A cycle that ends may arm the next one, in a row of its own.
LEMMA RowArmed ==
    ASSUME GatesInv, NEW k \in Cycles, k + 1 \in Cycles, NEW e \in RenewRow, NEW f \in RenewRow,
           row' = [[row EXCEPT ![k] = e] EXCEPT ![k + 1] = f],
           Live(k), e.phase \in Settled, f.phase = "scheduled", f.every,
           policy'.state = "active" => policy'.cycle = k + 1
    PROVE  /\ row' \in [Cycles -> RenewRow]
           /\ row'[k] = e /\ row'[k + 1] = f
           /\ \A j \in Cycles : j # k /\ j # k + 1 => row'[j] = row[j]
           /\ row[k + 1] = NewRow
           /\ RowsInOrder' /\ PolicyAgrees'
<1>1. k \in Nat /\ k + 1 # k /\ k + 1 > k
  BY GatesAssumption DEF Cycles
<1>2. row \in [Cycles -> RenewRow]
  BY DEF GatesInv, TypeOK
<1>3. /\ row' \in [Cycles -> RenewRow] /\ row'[k] = e /\ row'[k + 1] = f
      /\ \A j \in Cycles : j # k /\ j # k + 1 => row'[j] = row[j]
  BY <1>1, <1>2
<1>4. \A j \in Cycles : j > k => row[j].phase = "none"
  BY DEF GatesInv, RowsInOrder
<1>5. row[k + 1] = NewRow
  BY <1>1, <1>4 DEF GatesInv, RowsInOrder
<1>6. ~Live(k)' /\ row'[k].phase # "none" /\ row[k].phase # "none"
  BY <1>3 DEF Live, Settled
<1>7. Live(k + 1)' /\ row'[k + 1].phase # "none"
  BY <1>3 DEF Live, Settled
<1>8. ASSUME NEW j \in Cycles
      PROVE  /\ row'[j].phase = "none" => row'[j] = NewRow
             /\ row'[j].phase = "none" \/ Live(j)' =>
                   \A i \in Cycles : i > j => row'[i].phase = "none"
  <2>1. CASE j = k
    BY <2>1, <1>6
  <2>2. CASE j = k + 1
    <3>1. \A i \in Cycles : i > j => i # k /\ i # k + 1 /\ i > k
      BY <2>2, <1>1 DEF Cycles
    <3> QED  BY <2>2, <3>1, <1>3, <1>4, <1>7
  <2>3. CASE j # k /\ j # k + 1
    <3>1. row'[j] = row[j] /\ (Live(j)' <=> Live(j))
      BY <2>3, <1>3 DEF Live
    <3>2. row[j].phase = "none" => row[j] = NewRow
      BY DEF GatesInv, RowsInOrder
    <3>3. ASSUME row[j].phase = "none" \/ Live(j), NEW i \in Cycles, i > j
          PROVE  row'[i].phase = "none"
      <4>1. row[i].phase = "none"
        BY <3>3 DEF GatesInv, RowsInOrder
      <4>2. i # k
        BY <4>1, <1>6
      <4>3. i # k + 1
        <5>1. \A i2 \in Cycles : i2 > j => row[i2].phase = "none"
          BY <3>3 DEF GatesInv, RowsInOrder
        <5>2. ~(j < k)
          BY <5>1, <1>6 DEF Cycles
        <5> QED  BY <5>2, <2>3, <3>3, <1>1 DEF Cycles
      <4> QED  BY <4>1, <4>2, <4>3, <1>3
    <3> QED  BY <3>1, <3>2, <3>3
  <2> QED  BY <2>1, <2>2, <2>3
<1>9. RowsInOrder'
  BY <1>8 DEF RowsInOrder
<1>10. PolicyAgrees'
  BY <1>3, <1>7 DEF PolicyAgrees
<1> QED  BY <1>3, <1>5, <1>9, <1>10

\* A write of row k waits in the lane, or may be put there.
Writing == {"clear_open", "inject_open"}

\* What a step that leaves the lane alone may do to a row.
RowSafe(k) ==
    /\ row'[k].phase \in Active => row[k].phase \in Active \/ ~ClearInFlight
    /\ row'[k].at = row[k].at \/ (row[k].at \notin Writing /\ row'[k].at \notin Writing)
    /\ row'[k].phase = "clearing" => row[k].phase = "clearing"
    /\ row'[k].writes = row[k].writes
    /\ RowAgrees(k)'

LEMMA RowsSafe ==
    ASSUME GatesInv, TypeOK', RowsInOrder', PolicyAgrees',
           UNCHANGED <<ready, clear, prompt, lane, sent>>,
           \A k \in Cycles : row'[k] = row[k] \/ RowSafe(k)
    PROVE  GatesInv'
<1>1. ClearInFlight' = ClearInFlight
  BY DEF ClearInFlight
<1>2. ClearsAgree' /\ PromptsAgree'
  BY DEF GatesInv, ClearsAgree, PromptsAgree, Pending, Holds
<1>3. ClearExcludesRenew'
  BY <1>1 DEF GatesInv, ClearExcludesRenew, RowSafe
<1>4. RenewsAgree'
  BY DEF GatesInv, RenewsAgree, RowSafe, Writing
<1>5. ASSUME NEW k \in Cycles PROVE RowAgrees(k)'
  <2>1. CASE row'[k] = row[k]
    BY <2>1, <1>1 DEF GatesInv, RowAgrees, Holds
  <2> QED  BY <2>1 DEF RowSafe
<1>6. ASSUME NEW k \in Cycles, NEW p \in Prompts, row'[k].phase = "clearing", prompt'[p] = "firing",
             NEW n \in DOMAIN lane', lane'[n] = <<"prompt", p>>
      PROVE  /\ row'[k].writes = 0
             /\ row'[k].at = "clear_open" =>
                   \A m \in DOMAIN lane' : lane'[m] = <<"renew", k>> => n < m
  <2>1. row[k].phase = "clearing" /\ row'[k].writes = row[k].writes
        /\ (row'[k].at = "clear_open" => row[k].at = "clear_open")
    BY <1>6 DEF RowSafe, Writing
  <2> QED  BY <1>6, <2>1 DEF GatesInv, FiredAgree
<1>7. FiredAgree'
  BY <1>6 DEF FiredAgree
<1> QED  BY <1>2, <1>3, <1>4, <1>5, <1>7 DEF GatesInv

----------------------------------------------------------------------------
(* Requests, and what the poll loop does to a row without writing.          *)

\* Everything of the state but the rows, their policy and the recorded session.
Elsewhere == <<timing, live, ready, clearVars, promptVars, paneVars, crashes>>

LEMMA TypeKept ==
    ASSUME TypeOK, row' \in [Cycles -> RenewRow], UNCHANGED Elsewhere, recorded' \in Sessions,
           policy' \in [state : {"none", "active", "cancelled", "terminated"}, cycle : Nat]
    PROVE  TypeOK'
BY DEF TypeOK, Elsewhere, clearVars, promptVars, paneVars

LEMMA TypeParts ==
    ASSUME TypeOK
    PROVE  /\ policy \in [state : {"none", "active", "cancelled", "terminated"}, cycle : Nat]
           /\ row \in [Cycles -> RenewRow]
           /\ clear \in [Clears -> ClearRow]
           /\ live \in Sessions /\ recorded \in Sessions
           /\ lane \in Seq(Owners)
BY DEF TypeOK

\* A row moves on by itself.
LEMMA RowSettles ==
    ASSUME GatesInv, NEW k \in Cycles, RowMoves(k), UNCHANGED <<policy, Elsewhere>>,
           recorded' \in Sessions, row[k].phase # "none", row'[k].phase # "none",
           Live(k)' <=> Live(k), row'[k].every = row[k].every, RowSafe(k)
    PROVE  GatesInv'
<1>1. RowsInOrder' /\ PolicyAgrees'
  BY RowKept
<1>2. TypeOK'
  BY TypeKept, TypeParts DEF GatesInv, RowMoves
<1>3. UNCHANGED <<ready, clear, prompt, lane, sent>>
  BY DEF Elsewhere, clearVars, promptVars, paneVars
<1>4. \A j \in Cycles : row'[j] = row[j] \/ RowSafe(j)
  BY DEF RowMoves
<1> QED  BY <1>1, <1>2, <1>3, <1>4, RowsSafe

LEMMA DispatchRenewKeeps ==
    ASSUME GatesInv, NEW k \in Cycles, NEW wanted \in Policies, DispatchRenew(k, wanted)
    PROVE  GatesInv'
<1>1. /\ ready /\ ~ClearInFlight /\ row[k].phase = "none"
      /\ \A j \in Cycles : ~Live(j)
      /\ \A j \in 1..(k - 1) : row[j].phase # "none"
      /\ row' = [row EXCEPT ![k].phase = "scheduled", ![k].every = wanted.every,
                            ![k].onTimeout = wanted.onTimeout]
      /\ policy' = IF wanted.every THEN [state |-> "active", cycle |-> k] ELSE policy
      /\ UNCHANGED Elsewhere /\ recorded' = recorded
  BY DEF DispatchRenew, Renew, CreateRenew, Elsewhere, agentVars
<1>2. row[k] = NewRow
  BY <1>1 DEF GatesInv, RowsInOrder
<1>3. wanted \in [every : BOOLEAN, onTimeout : {"abort", "proceed"}]
  BY GatesAssumption
<1> DEFINE r == [[[row[k] EXCEPT !.phase = "scheduled"] EXCEPT !.every = wanted.every]
                     EXCEPT !.onTimeout = wanted.onTimeout]
<1>4. row[k] \in RenewRow
  BY TypeParts DEF GatesInv
<1>5. r \in RenewRow
  BY <1>3, <1>4 DEF RenewRow, Phase
<1>6. row' = [row EXCEPT ![k] = r]
  BY <1>1, TypeParts DEF GatesInv
<1>7. RowMoves(k) /\ row'[k] = r
  BY <1>5, <1>6, RowIsSet DEF GatesInv
<1>8. /\ r.phase = "scheduled" /\ r.every = wanted.every /\ r.at = "none" /\ r.writes = 0
      /\ r.step = "none" /\ r.ask = "none"
  BY <1>2, <1>3 DEF NewRow
<1>9. row[k].writes = 0 /\ row[k].at = "none"
  BY <1>2 DEF NewRow
<1>10. RowAgrees(k)'
  BY <1>7, <1>8 DEF RowAgrees, OpenAsk
<1>11. RowSafe(k)
  BY <1>7, <1>8, <1>9, <1>10 DEF RowSafe, Active, Writing
<1>12. TypeOK'
  <2>1. policy' \in [state : {"none", "active", "cancelled", "terminated"}, cycle : Nat]
    BY <1>1, <1>3, TypeParts DEF GatesInv, Cycles
  <2> QED  BY <1>1, <1>7, <2>1, TypeKept, TypeParts DEF GatesInv, RowMoves
<1>13. RowsInOrder'
  <2>1. \A j \in Cycles : j > k => row[j].phase = "none"
    BY <1>1 DEF GatesInv, RowsInOrder
  <2>2. \A j \in Cycles : j < k => row[j].phase # "none"
    BY <1>1 DEF Cycles
  <2>3. ASSUME NEW j \in Cycles
        PROVE  /\ row'[j].phase = "none" => row'[j] = NewRow
               /\ row'[j].phase = "none" \/ Live(j)' =>
                     \A i \in Cycles : i > j => row'[i].phase = "none"
    <3>1. CASE j = k
      BY <3>1, <2>1, <1>7, <1>8 DEF RowMoves, Cycles
    <3>2. CASE j > k
      <4>1. row'[j] = row[j] /\ (Live(j)' <=> Live(j))
        BY <3>2, <1>7 DEF RowMoves, Cycles, Live
      <4>2. \A i \in Cycles : i > j => row'[i] = row[i]
        BY <3>2, <1>7 DEF RowMoves, Cycles
      <4> QED  BY <4>1, <4>2 DEF GatesInv, RowsInOrder
    <3>3. CASE j < k
      <4>1. row'[j] = row[j] /\ ~Live(j)' /\ row[j].phase # "none"
        BY <3>3, <2>2, <1>1, <1>7 DEF RowMoves, Cycles, Live
      <4> QED  BY <4>1
    <3> QED  BY <3>1, <3>2, <3>3 DEF Cycles
  <2> QED  BY <2>3 DEF RowsInOrder
<1>14. PolicyAgrees'
  <2>1. CASE wanted.every
    <3>1. policy' = [state |-> "active", cycle |-> k]
      BY <1>1, <2>1
    <3>2. policy'.cycle = k
      BY <3>1
    <3>3. Live(k)'
      BY <1>7, <1>8 DEF Live, Settled
    <3>4. row'[k].every
      BY <1>7, <1>8, <2>1
    <3> QED  BY <3>2, <3>3, <3>4 DEF PolicyAgrees
  <2>2. CASE ~wanted.every
    <3>1. policy' = policy /\ policy.state # "active"
      BY <1>1, <2>2 DEF GatesInv, PolicyAgrees
    <3> QED  BY <3>1 DEF PolicyAgrees
  <2> QED  BY <2>1, <2>2
<1>15. UNCHANGED <<ready, clear, prompt, lane, sent>>
  BY <1>1 DEF Elsewhere, clearVars, promptVars, paneVars
<1>16. \A j \in Cycles : row'[j] = row[j] \/ RowSafe(j)
  BY <1>7, <1>11 DEF RowMoves
<1> QED  BY <1>12, <1>13, <1>14, <1>15, <1>16, RowsSafe

\* How a row may end: what it wrote stays on record, and its ask ends with it.
EndsAs(k, e) ==
    /\ e \in RenewRow /\ e.phase \in Settled /\ e.ask \notin OpenAsk
    /\ e.writes = row[k].writes /\ e.step = row[k].step
    /\ e.at = row[k].at \/ (row[k].at \notin Writing /\ e.at = "none")
    /\ e.at = "rotation" => row[k].phase # "clearing" \/ ~ready

LEMMA EndIsSafe ==
    ASSUME GatesInv, NEW k \in Cycles, NEW e, EndsAs(k, e), row'[k] = e, UNCHANGED Elsewhere
    PROVE  RowSafe(k)
<1>1. UNCHANGED <<ready, clear, lane, sent>>
  BY DEF Elsewhere, clearVars, paneVars
<1>2. ClearInFlight' = ClearInFlight /\ (Holds(<<"renew", k>>)' <=> Holds(<<"renew", k>>))
  BY <1>1 DEF ClearInFlight, Holds
<1>3. RowAgrees(k)
  BY DEF GatesInv
<1>4. e.at = "rotation" => ~ClearInFlight /\ ~ready
  BY <1>3 DEF RowAgrees, EndsAs
<1>5. e.at = "clear_open" => e.step # "none" /\ (e.writes = 0 \/ (Holds(<<"renew", k>>) /\ sent))
  BY <1>3 DEF RowAgrees, EndsAs
<1>6. e.writes <= 1 /\ (e.step = "none" => e.writes = 0)
  BY <1>3 DEF RowAgrees, EndsAs
<1>7. e.phase \notin {"none", "scheduled", "preparing", "timed_out", "ready", "clearing"}
      /\ e.phase \notin Active
  BY DEF EndsAs, Settled, Active
<1>8. RowAgrees(k)'
  BY <1>1, <1>2, <1>4, <1>5, <1>6, <1>7 DEF RowAgrees, EndsAs
<1> QED  BY <1>7, <1>8 DEF RowSafe, EndsAs, Writing

\* A row ends, and its policy is stopped or was another's.
LEMMA CycleStops ==
    ASSUME GatesInv, NEW k \in Cycles, NEW e, EndsAs(k, e), Live(k),
           row' = [row EXCEPT ![k] = e], UNCHANGED Elsewhere, recorded' \in Sessions,
           policy' \in [state : {"none", "active", "cancelled", "terminated"}, cycle : Nat],
           policy'.state = "active" => policy' = policy /\ policy.cycle # k
    PROVE  GatesInv'
<1>1. RowMoves(k) /\ row'[k] = e /\ e.phase \in Settled
  BY RowIsSet DEF GatesInv, EndsAs
<1>2. RowsInOrder' /\ PolicyAgrees'
  BY <1>1, RowEnded
<1>3. TypeOK'
  BY <1>1, TypeKept DEF GatesInv, RowMoves
<1>4. UNCHANGED <<ready, clear, prompt, lane, sent>>
  BY DEF Elsewhere, clearVars, promptVars, paneVars
<1>5. \A j \in Cycles : row'[j] = row[j] \/ RowSafe(j)
  BY <1>1, EndIsSafe DEF RowMoves
<1> QED  BY <1>2, <1>3, <1>4, <1>5, RowsSafe

\* A row ends, and a recurring policy goes on with the next.
LEMMA CycleArms ==
    ASSUME GatesInv, NEW k \in Cycles, NEW e, EndsAs(k, e), Live(k), CanArm(k),
           ArmNextRenewCycle(k, [row EXCEPT ![k] = e]),
           UNCHANGED Elsewhere, recorded' \in Sessions
    PROVE  GatesInv'
<1>1. CASE row[k].every
  <2> DEFINE f == [[[NewRow EXCEPT !.phase = "scheduled"] EXCEPT !.every = TRUE]
                       EXCEPT !.onTimeout = row[k].onTimeout]
  <2>1. policy.state = "active" /\ policy.cycle = k /\ k + 1 \in Cycles
    BY <1>1, GatesAssumption DEF CanArm, Cycles
  <2>2. /\ row' = [[row EXCEPT ![k] = e] EXCEPT ![k + 1] = f]
        /\ policy' = [policy EXCEPT !.cycle = k + 1]
    BY <1>1 DEF ArmNextRenewCycle
  <2>3. f \in RenewRow
    <3>1. row[k] \in RenewRow
      BY RowType DEF GatesInv
    <3>2. 0 \in Sessions
      BY GatesAssumption DEF Sessions
    <3>3. NewRow \in RenewRow
      BY <3>2 DEF NewRow, RenewRow, Phase
    <3> QED  BY <3>1, <3>3 DEF RenewRow, Phase
  <2>4. /\ f.phase = "scheduled" /\ f.every /\ f.at = "none" /\ f.writes = 0
        /\ f.step = "none" /\ f.ask = "none"
    BY DEF NewRow
  <2>5. /\ policy' \in [state : {"none", "active", "cancelled", "terminated"}, cycle : Nat]
        /\ policy'.cycle = k + 1
    BY <2>1, <2>2, TypeParts DEF GatesInv, Cycles
  <2>6. e \in RenewRow /\ e.phase \in Settled
    BY DEF EndsAs
  <2> HIDE DEF f
  <2>7. /\ row' \in [Cycles -> RenewRow]
        /\ row'[k] = e /\ row'[k + 1] = f
        /\ \A j \in Cycles : j # k /\ j # k + 1 => row'[j] = row[j]
        /\ row[k + 1] = NewRow
        /\ RowsInOrder' /\ PolicyAgrees'
    BY <2>1, <2>2, <2>3, <2>4, <2>5, <2>6, RowArmed
  <2>8. TypeOK'
    BY <2>5, <2>7, TypeKept DEF GatesInv
  <2>9. UNCHANGED <<ready, clear, prompt, lane, sent>>
    BY DEF Elsewhere, clearVars, promptVars, paneVars
  <2>10. RowSafe(k)
    BY <2>7, EndIsSafe
  <2>11. RowAgrees(k + 1)'
    BY <2>4, <2>7 DEF RowAgrees, OpenAsk
  <2>12. RowSafe(k + 1)
    BY <2>4, <2>7, <2>11 DEF RowSafe, NewRow, Writing, Active
  <2>13. \A j \in Cycles : row'[j] = row[j] \/ RowSafe(j)
    BY <2>7, <2>10, <2>12
  <2> QED  BY <2>7, <2>8, <2>9, <2>13, RowsSafe
<1>2. CASE ~row[k].every
  <2>1. row' = [row EXCEPT ![k] = e] /\ policy' = policy
    BY <1>2 DEF ArmNextRenewCycle
  <2>2. policy.state = "active" => policy.cycle # k
    BY <1>2 DEF GatesInv, PolicyAgrees
  <2> QED  BY <2>1, <2>2, CycleStops, TypeParts DEF GatesInv
<1> QED  BY <1>1, <1>2

\* The row as each ending leaves it.
LEMMA EndKeeps ==
    ASSUME GatesInv, NEW k \in Cycles, NEW phase \in {"aborted", "terminated"},
           row[k].at = "rotation" => row[k].phase # "clearing" \/ ~ready
    PROVE  EndsAs(k, End(row[k], phase))
<1> DEFINE r == row[k]
<1> DEFINE a == IF r.ask \in OpenAsk THEN "cancelled" ELSE r.ask
<1>1. r \in RenewRow
  BY RowType DEF GatesInv
<1>2. a \in {"none", "stray"} \cup OpenAsk \cup {"resolved", "cancelled"} /\ a \notin OpenAsk
  BY <1>1 DEF RenewRow, OpenAsk
<1>3. End(r, phase) = [[r EXCEPT !.ask = a] EXCEPT !.phase = phase]
  BY <1>1 DEF End, CancelUnansweredPrepare, RenewRow
<1> HIDE DEF a
<1>4. [[r EXCEPT !.ask = a] EXCEPT !.phase = phase] \in RenewRow
  BY <1>1, <1>2 DEF RenewRow, Phase, Settled
<1>5. /\ End(r, phase).phase = phase /\ End(r, phase).ask = a /\ End(r, phase).writes = r.writes
      /\ End(r, phase).step = r.step /\ End(r, phase).at = r.at
  BY <1>1, <1>3 DEF RenewRow
<1> QED  BY <1>2, <1>3, <1>4, <1>5 DEF EndsAs, Settled

LEMMA ProofEnds ==
    ASSUME GatesInv, NEW k \in Cycles, NEW phase \in {"done", "terminated"},
           row[k].phase = "injected", row[k].at \notin Writing
    PROVE  EndsAs(k, [[row[k] EXCEPT !.phase = phase] EXCEPT !.at = "none"])
<1> DEFINE r == row[k]
           e == [[r EXCEPT !.phase = phase] EXCEPT !.at = "none"]
<1>1. r \in RenewRow
  BY RowType DEF GatesInv
<1>2. r.ask \notin OpenAsk
  BY DEF GatesInv, RowAgrees
<1>3. e \in RenewRow
  BY <1>1 DEF RenewRow, Phase, Settled
<1>4. e.phase = phase /\ e.at = "none" /\ e.ask = r.ask /\ e.writes = r.writes /\ e.step = r.step
  BY <1>1 DEF RenewRow
<1> QED  BY <1>2, <1>3, <1>4 DEF EndsAs, Settled

LEMMA CancelRenewKeeps ==
    ASSUME GatesInv, NEW k \in Cycles, CancelRenew(k)
    PROVE  GatesInv'
<1>1. /\ Live(k) /\ row[k].phase # "clearing"
      /\ row' = [row EXCEPT ![k] = End(@, "terminated")]
      /\ StopPolicy(k, "cancelled")
      /\ UNCHANGED Elsewhere /\ recorded' = recorded
  BY DEF CancelRenew, CancelRenewRow, CancelRenewRefusal, Elsewhere, agentVars
<1>2. EndsAs(k, End(row[k], "terminated"))
  BY <1>1, EndKeeps
<1>3. row' = [row EXCEPT ![k] = End(row[k], "terminated")]
  BY <1>1
<1>4. /\ policy' \in [state : {"none", "active", "cancelled", "terminated"}, cycle : Nat]
      /\ policy'.state = "active" => policy' = policy /\ policy.cycle # k
  BY <1>1, TypeParts DEF StopPolicy, GatesInv, PolicyAgrees
<1> QED  BY <1>1, <1>2, <1>3, <1>4, CycleStops, TypeParts DEF GatesInv

LEMMA TerminateEndedRenewsKeeps ==
    ASSUME GatesInv, NEW k \in Cycles, TerminateEndedRenews(k)
    PROVE  GatesInv'
<1>1. /\ Live(k) /\ ~ready
      /\ row' = [row EXCEPT ![k] = End(@, "terminated")]
      /\ StopPolicy(k, "terminated")
      /\ UNCHANGED Elsewhere /\ recorded' = recorded
  BY DEF TerminateEndedRenews, TerminableRenews, TerminateRenewAnnounced, Elsewhere, agentVars
<1>2. EndsAs(k, End(row[k], "terminated"))
  BY <1>1, EndKeeps
<1>3. row' = [row EXCEPT ![k] = End(row[k], "terminated")]
  BY <1>1
<1>4. /\ policy' \in [state : {"none", "active", "cancelled", "terminated"}, cycle : Nat]
      /\ policy'.state = "active" => policy' = policy /\ policy.cycle # k
  BY <1>1, TypeParts DEF StopPolicy, GatesInv, PolicyAgrees
<1> QED  BY <1>1, <1>2, <1>3, <1>4, CycleStops, TypeParts DEF GatesInv

\* A row is parked for a read, or set aside.
LEMMA RowIsParked ==
    ASSUME GatesInv, NEW k \in Cycles, row[k].at \notin Writing, row[k].phase # "none",
           NEW r \in RenewRow, r.at \notin Writing,
           r.phase = row[k].phase, r.every = row[k].every, r.writes = row[k].writes,
           r.step = row[k].step, r.ask = row[k].ask,
           r.at = "rotation" => r.phase = "clearing" /\ ~ClearInFlight,
           row' = [row EXCEPT ![k] = r],
           UNCHANGED <<policy, Elsewhere>>, recorded' \in Sessions
    PROVE  GatesInv'
<1>1. RowMoves(k) /\ row'[k] = r
  BY RowIsSet DEF GatesInv
<1>2. ClearInFlight' = ClearInFlight
  BY DEF ClearInFlight, Elsewhere, clearVars
<1>3. RowAgrees(k)'
  BY <1>1, <1>2 DEF GatesInv, RowAgrees, Writing
<1>4. RowSafe(k)
  BY <1>1, <1>3 DEF RowSafe
<1>5. Live(k)' <=> Live(k)
  BY <1>1 DEF Live
<1> QED  BY <1>1, <1>4, <1>5, RowSettles

LEMMA RowIsParkedOnly ==
    ASSUME GatesInv, NEW k \in Cycles, row[k].at \notin Writing, row[k].phase # "none",
           NEW a \in {"none", "probe", "rotation", "confirm"},
           a = "rotation" => row[k].phase = "clearing" /\ ~ClearInFlight,
           row' = [row EXCEPT ![k].at = a],
           UNCHANGED <<policy, Elsewhere>>, recorded' \in Sessions
    PROVE  GatesInv'
<1> DEFINE r == [row[k] EXCEPT !.at = a]
<1>1. row[k] \in RenewRow
  BY RowType DEF GatesInv
<1>2. r \in RenewRow
  BY <1>1 DEF RenewRow
<1>3. /\ r.phase = row[k].phase /\ r.every = row[k].every /\ r.writes = row[k].writes
      /\ r.step = row[k].step /\ r.ask = row[k].ask /\ r.at = a
  BY <1>1 DEF RenewRow
<1>4. row' = [row EXCEPT ![k] = r]
  OBVIOUS
<1> HIDE DEF r
<1>5. r.at \notin Writing
  BY <1>3 DEF Writing
<1> QED  BY <1>2, <1>3, <1>4, <1>5, RowIsParked

LEMMA ParkDueRenewKeeps ==
    ASSUME GatesInv, NEW k \in Cycles, ParkDueRenew(k)
    PROVE  GatesInv'
<1>1. /\ ~ClearInFlight /\ row[k].at = "none" /\ row[k].phase # "none"
      /\ row' = [row EXCEPT ![k].at = ParkedState(k)]
      /\ UNCHANGED <<policy, Elsewhere>> /\ recorded' = recorded
  BY DEF ParkDueRenew, ActionableRenew, RenewClearReadyToProbe, Elsewhere, agentVars
<1>2. /\ ParkedState(k) \in {"none", "probe", "rotation", "confirm"}
      /\ ParkedState(k) = "rotation" => row[k].phase = "clearing"
  BY DEF ParkedState
<1> QED  BY <1>1, <1>2, RowIsParkedOnly, TypeParts DEF GatesInv, Writing

LEMMA CompleteProvenRenewKeeps ==
    ASSUME GatesInv, NEW k \in Cycles, CompleteProvenRenew(k)
    PROVE  GatesInv'
<1> DEFINE e == [[row[k] EXCEPT !.phase = "done"] EXCEPT !.at = "none"]
<1>1. /\ row[k].phase = "injected" /\ row[k].at = "none" /\ CanArm(k)
      /\ ArmNextRenewCycle(k, [row EXCEPT ![k].phase = "done", ![k].at = "none"])
      /\ UNCHANGED Elsewhere /\ recorded' = recorded
  BY DEF CompleteProvenRenew, CompleteRenew, ActionableRenew, Elsewhere, agentVars
<1>2. [row EXCEPT ![k].phase = "done", ![k].at = "none"] = [row EXCEPT ![k] = e]
  BY TypeParts DEF GatesInv
<1>3. EndsAs(k, e)
  BY <1>1, ProofEnds DEF Writing
<1>4. Live(k)
  BY <1>1 DEF Live, Settled
<1> HIDE DEF e
<1> QED  BY <1>1, <1>2, <1>3, <1>4, CycleArms, TypeParts DEF GatesInv

LEMMA OnRenewConfirmKeeps ==
    ASSUME GatesInv, NEW k \in Cycles, OnRenewConfirm(k)
    PROVE  GatesInv'
<1>1. row[k].at = "confirm" /\ row[k].at \notin Writing /\ UNCHANGED Elsewhere
  BY DEF OnRenewConfirm, Elsewhere, Writing
<1>2. recorded' \in Sessions
  BY TypeParts
     DEF OnRenewConfirm, ApplyRenewConfirmObservation, ReplaceObservedNativeSession, GatesInv
<1>3. row[k].phase # "none"
  BY <1>1 DEF GatesInv, RowsInOrder, NewRow
<1>4. \/ CompleteRenew(k) \/ AbandonRenewProof(k)
      \/ row' = [row EXCEPT ![k].at = "none"] /\ UNCHANGED policy
  BY DEF OnRenewConfirm, ApplyRenewConfirmObservation
<1>5. ASSUME NEW phase \in {"done", "terminated"}, row[k].phase = "injected", CanArm(k),
             ArmNextRenewCycle(k, [row EXCEPT ![k].phase = phase, ![k].at = "none"])
      PROVE  GatesInv'
  <2> DEFINE e == [[row[k] EXCEPT !.phase = phase] EXCEPT !.at = "none"]
  <2>1. [row EXCEPT ![k].phase = phase, ![k].at = "none"] = [row EXCEPT ![k] = e]
    BY TypeParts DEF GatesInv
  <2>2. EndsAs(k, e)
    BY <1>1, <1>5, ProofEnds
  <2>3. Live(k)
    BY <1>5 DEF Live, Settled
  <2> HIDE DEF e
  <2> QED  BY <1>1, <1>2, <1>5, <2>1, <2>2, <2>3, CycleArms
<1>6. CASE CompleteRenew(k)
  BY <1>5, <1>6 DEF CompleteRenew
<1>7. CASE AbandonRenewProof(k)
  BY <1>5, <1>7 DEF AbandonRenewProof
<1>8. CASE row' = [row EXCEPT ![k].at = "none"] /\ UNCHANGED policy
  BY <1>1, <1>2, <1>3, <1>8, RowIsParkedOnly
<1> QED  BY <1>4, <1>6, <1>7, <1>8

\* A step within a cycle that writes nothing.
LEMMA RowGoesOn ==
    ASSUME GatesInv, NEW k \in Cycles, NEW r \in RenewRow, row' = [row EXCEPT ![k] = r],
           UNCHANGED <<policy, Elsewhere>>, recorded' = recorded,
           row[k].phase # "none", r.phase # "none",
           row[k].phase \in Settled <=> r.phase \in Settled,
           r.every = row[k].every, r.writes = row[k].writes,
           r.step = row[k].step, r.at = row[k].at,
           r.phase \in Active => row[k].phase \in Active,
           r.phase # row[k].phase =>
               /\ r.phase # "clearing" /\ row[k].at # "rotation" /\ row[k].step = "none",
           r.ask \in OpenAsk => r.phase \in {"preparing", "timed_out"}
    PROVE  GatesInv'
<1>1. RowMoves(k) /\ row'[k] = r
  BY RowIsSet DEF GatesInv
<1>2. ClearInFlight' = ClearInFlight /\ ready' = ready /\ sent' = sent
      /\ (Holds(<<"renew", k>>)' <=> Holds(<<"renew", k>>))
  BY DEF ClearInFlight, Elsewhere, clearVars, paneVars, Holds
<1>3. RowAgrees(k)
  BY DEF GatesInv
<1>4. r.at = "rotation" => ~ClearInFlight /\ (r.phase = "clearing" \/ ~ready)
  BY <1>3 DEF RowAgrees
<1>5. /\ r.writes <= 1 /\ (r.step = "none" => r.writes = 0)
      /\ r.at = "clear_open" => r.step # "none"
      /\ r.at = "clear_open" => r.writes = 0 \/ (Holds(<<"renew", k>>) /\ sent)
  BY <1>3 DEF RowAgrees
<1>6. r.phase \in {"none", "scheduled", "preparing", "timed_out", "ready"} => r.step = "none"
  BY <1>3 DEF RowAgrees
<1>7. RowAgrees(k)'
  BY <1>1, <1>2, <1>4, <1>5, <1>6 DEF RowAgrees
<1>8. RowSafe(k)
  BY <1>1, <1>7 DEF RowSafe
<1>9. Live(k)' <=> Live(k)
  BY <1>1 DEF Live
<1>10. recorded' \in Sessions
  BY TypeParts DEF GatesInv
<1> QED  BY <1>1, <1>8, <1>9, <1>10, RowSettles

LEMMA CancelAskKeeps ==
    ASSUME GatesInv, NEW k \in Cycles, CancelAsk(k)
    PROVE  GatesInv'
<1> DEFINE r == [row[k] EXCEPT !.ask = "cancelled"]
<1>1. /\ row[k].ask \in OpenAsk \cup {"stray"}
      /\ row' = [row EXCEPT ![k] = r]
      /\ UNCHANGED <<policy, Elsewhere>> /\ recorded' = recorded
  BY DEF CancelAsk, Elsewhere, agentVars
<1>2. row[k] \in RenewRow
  BY RowType DEF GatesInv
<1>3. /\ r \in RenewRow
      /\ r.phase = row[k].phase /\ r.every = row[k].every /\ r.writes = row[k].writes
      /\ r.step = row[k].step /\ r.at = row[k].at /\ r.ask = "cancelled"
  BY <1>2 DEF RenewRow
<1>4. row[k].phase # "none"
  BY <1>1 DEF GatesInv, RowsInOrder, NewRow, OpenAsk
<1> HIDE DEF r
<1> QED  BY <1>1, <1>3, <1>4, RowGoesOn DEF OpenAsk

LEMMA ApplyOccupancySnapshotKeeps ==
    ASSUME GatesInv, NEW k \in Cycles, ApplyOccupancySnapshot(k)
    PROVE  GatesInv'
<1> DEFINE r == [row[k] EXCEPT !.due = TRUE]
<1>1. /\ row[k].phase = "scheduled"
      /\ row' = [row EXCEPT ![k] = r]
      /\ UNCHANGED <<policy, Elsewhere>> /\ recorded' = recorded
  BY DEF ApplyOccupancySnapshot, AccrueRenewOccupancy, Elsewhere, agentVars
<1>2. row[k] \in RenewRow
  BY RowType DEF GatesInv
<1>3. /\ r \in RenewRow
      /\ r.phase = row[k].phase /\ r.every = row[k].every /\ r.writes = row[k].writes
      /\ r.step = row[k].step /\ r.at = row[k].at /\ r.ask = row[k].ask
  BY <1>2 DEF RenewRow
<1>4. row[k].ask \notin OpenAsk
  BY <1>1 DEF GatesInv, RowAgrees
<1> HIDE DEF r
<1> QED  BY <1>1, <1>3, <1>4, RowGoesOn

LEMMA PrepareAnsweredKeeps ==
    ASSUME GatesInv, NEW k \in Cycles, PrepareAnswered(k)
    PROVE  GatesInv'
<1> DEFINE r == [row[k] EXCEPT !.ask = "resolved"]
<1>1. /\ row[k].ask = "told"
      /\ row' = [row EXCEPT ![k] = r]
      /\ UNCHANGED <<policy, Elsewhere>> /\ recorded' = recorded
  BY DEF PrepareAnswered, Elsewhere, agentVars
<1>2. row[k] \in RenewRow
  BY RowType DEF GatesInv
<1>3. /\ r \in RenewRow
      /\ r.phase = row[k].phase /\ r.every = row[k].every /\ r.writes = row[k].writes
      /\ r.step = row[k].step /\ r.at = row[k].at /\ r.ask = "resolved"
  BY <1>2 DEF RenewRow
<1>4. row[k].phase # "none"
  BY <1>1 DEF GatesInv, RowsInOrder, NewRow
<1> HIDE DEF r
<1> QED  BY <1>1, <1>3, <1>4, RowGoesOn DEF OpenAsk

\* A cycle is made ready: the ask it opened ends first.
LEMMA ReadyRow ==
    ASSUME GatesInv, NEW k \in Cycles
    PROVE  LET r == MarkRenewReady(row[k])
           IN  /\ r \in RenewRow /\ r.phase = "ready" /\ r.ask \notin OpenAsk
               /\ r.every = row[k].every /\ r.writes = row[k].writes
               /\ r.step = row[k].step /\ r.at = row[k].at
<1> DEFINE a == IF row[k].ask \in OpenAsk THEN "cancelled" ELSE row[k].ask
<1>1. row[k] \in RenewRow
  BY RowType DEF GatesInv
<1>2. a \in {"none", "stray"} \cup OpenAsk \cup {"resolved", "cancelled"} /\ a \notin OpenAsk
  BY <1>1 DEF RenewRow, OpenAsk
<1>3. MarkRenewReady(row[k]) = [[row[k] EXCEPT !.ask = a] EXCEPT !.phase = "ready"]
  BY <1>1 DEF MarkRenewReady, CancelUnansweredPrepare, RenewRow
<1> HIDE DEF a
<1> DEFINE r == [[row[k] EXCEPT !.ask = a] EXCEPT !.phase = "ready"]
<1>4. r \in RenewRow
  BY <1>1, <1>2 DEF RenewRow, Phase, Active
<1>5. /\ r.phase = "ready" /\ r.ask = a /\ r.every = row[k].every /\ r.writes = row[k].writes
      /\ r.step = row[k].step /\ r.at = row[k].at
  BY <1>1 DEF RenewRow
<1> QED  BY <1>2, <1>3, <1>4, <1>5

LEMMA RenewSettlePrepareKeeps ==
    ASSUME GatesInv, NEW k \in Cycles, RenewSettlePrepare(k)
    PROVE  GatesInv'
<1>1. /\ row[k].phase = "preparing" /\ row[k].at = "none"
      /\ row' = [row EXCEPT ![k] = IF @.ask = "resolved" THEN MarkRenewReady(@)
                                   ELSE MarkRenewTimedOut(@)]
      /\ UNCHANGED <<policy, Elsewhere>> /\ recorded' = recorded
  BY DEF RenewSettlePrepare, ActionableRenew, Elsewhere, agentVars
<1>2. row[k] \in RenewRow
  BY RowType DEF GatesInv
<1>3. row[k].step = "none"
  BY <1>1 DEF GatesInv, RowAgrees
<1>4. CASE row[k].ask = "resolved"
  <2> DEFINE r == MarkRenewReady(row[k])
  <2>1. row' = [row EXCEPT ![k] = r]
    BY <1>1, <1>4
  <2>2. /\ r \in RenewRow /\ r.phase = "ready" /\ r.ask \notin OpenAsk
        /\ r.every = row[k].every /\ r.writes = row[k].writes
        /\ r.step = row[k].step /\ r.at = row[k].at
    BY ReadyRow
  <2> HIDE DEF r
  <2> QED  BY <1>1, <1>3, <2>1, <2>2, RowGoesOn DEF Active, Settled
<1>5. CASE row[k].ask # "resolved"
  <2> DEFINE r == [row[k] EXCEPT !.phase = "timed_out"]
  <2>1. row' = [row EXCEPT ![k] = r]
    BY <1>1, <1>5 DEF MarkRenewTimedOut
  <2>2. /\ r \in RenewRow /\ r.phase = "timed_out"
        /\ r.every = row[k].every /\ r.writes = row[k].writes
        /\ r.step = row[k].step /\ r.at = row[k].at
    BY <1>2 DEF RenewRow, Phase, Active
  <2> HIDE DEF r
  <2> QED  BY <1>1, <1>3, <2>1, <2>2, RowGoesOn DEF Active, Settled
<1> QED  BY <1>4, <1>5

LEMMA RenewApplyTimeoutKeeps ==
    ASSUME GatesInv, NEW k \in Cycles, RenewApplyTimeout(k)
    PROVE  GatesInv'
<1>1. /\ row[k].phase = "timed_out" /\ row[k].at = "none"
      /\ UNCHANGED Elsewhere /\ recorded' = recorded
      /\ \/ AbortRenew(k)
         \/ row' = [row EXCEPT ![k] = MarkRenewReady(@)] /\ UNCHANGED policy
  BY DEF RenewApplyTimeout, ActionableRenew, Elsewhere, agentVars
<1>2. row[k].step = "none"
  BY <1>1 DEF GatesInv, RowAgrees
<1>3. CASE AbortRenew(k)
  <2> DEFINE e == End(row[k], "aborted")
  <2>1. EndsAs(k, e)
    BY <1>1, EndKeeps
  <2>2. CanArm(k) /\ ArmNextRenewCycle(k, [row EXCEPT ![k] = e])
    BY <1>3 DEF AbortRenew
  <2>3. Live(k)
    BY <1>1 DEF Live, Settled
  <2> HIDE DEF e
  <2> QED  BY <1>1, <2>1, <2>2, <2>3, CycleArms, TypeParts DEF GatesInv
<1>4. CASE row' = [row EXCEPT ![k] = MarkRenewReady(@)] /\ UNCHANGED policy
  <2> DEFINE r == MarkRenewReady(row[k])
  <2>1. row' = [row EXCEPT ![k] = r]
    BY <1>4
  <2>2. /\ r \in RenewRow /\ r.phase = "ready" /\ r.ask \notin OpenAsk
        /\ r.every = row[k].every /\ r.writes = row[k].writes
        /\ r.step = row[k].step /\ r.at = row[k].at
    BY ReadyRow
  <2> HIDE DEF r
  <2> QED  BY <1>1, <1>2, <1>4, <2>1, <2>2, RowGoesOn DEF Active, Settled
<1> QED  BY <1>1, <1>3, <1>4

LEMMA ClockRunsKeeps ==
    ASSUME GatesInv, NEW k \in Cycles, ClockRuns(k)
    PROVE  GatesInv'
<1> DEFINE r == [row[k] EXCEPT !.clock = @ + 1]
<1>1. /\ row[k].phase \in {"clearing", "injected"} /\ row[k].clock < 2
      /\ row' = [row EXCEPT ![k] = r]
      /\ UNCHANGED <<policy, Elsewhere>> /\ recorded' = recorded
  BY DEF ClockRuns, Elsewhere, agentVars
<1>2. row[k] \in RenewRow
  BY RowType DEF GatesInv
<1>3. row[k].clock + 1 \in 0..2
  BY <1>1, <1>2 DEF RenewRow
<1>4. /\ r \in RenewRow
      /\ r.phase = row[k].phase /\ r.every = row[k].every /\ r.writes = row[k].writes
      /\ r.step = row[k].step /\ r.at = row[k].at /\ r.ask = row[k].ask
  BY <1>2, <1>3 DEF RenewRow
<1>5. row[k].ask \notin OpenAsk
  BY <1>1 DEF GatesInv, RowAgrees
<1> HIDE DEF r
<1> QED  BY <1>1, <1>4, <1>5, RowGoesOn

----------------------------------------------------------------------------
(* What the lane's order gives, for each way the lane changes.              *)

\* An agreement of one row survives a step that leaves the row alone.
LEMMA RowStays ==
    ASSUME GatesInv, NEW k \in Cycles, row'[k] = row[k], ready' => ready,
           row[k].at = "rotation" => ~ClearInFlight',
           row[k].at = "clear_open" /\ row[k].writes # 0 => Holds(<<"renew", k>>)' /\ sent'
    PROVE  RowAgrees(k)'
BY DEF GatesInv, RowAgrees

LEMMA RenewVarsStay ==
    ASSUME GatesInv, UNCHANGED renewVars
    PROVE  RowsInOrder' /\ PolicyAgrees'
<1>1. row' = row /\ policy' = policy
  BY DEF renewVars
<1> QED  BY <1>1 DEF GatesInv, RowsInOrder, PolicyAgrees, Live

\* A clear's row may change in these ways while its write is not in the lane.
ClearSafe(c) ==
    /\ clear[c].at \notin {"sending", "sent"}
    /\ Pending(c)' => Pending(c)
    /\ clear'[c].attempted = clear[c].attempted
    /\ clear'[c].at \in {"none", "settling", "probe", "sending"} => ~clear[c].attempted

\* A step that leaves the lane and the rows alone.
LEMMA LaneRests ==
    ASSUME GatesInv, TypeOK', UNCHANGED renewVars, UNCHANGED paneVars, ready' => ready,
           \A p \in Prompts :
                 \/ prompt'[p] = prompt[p]
                 \/ prompt[p] \in {"none", "collected"} /\ prompt'[p] # "firing",
           \A c \in Clears : clear'[c] = clear[c] \/ ClearSafe(c)
    PROVE  GatesInv'
<1>1. row' = row /\ policy' = policy /\ lane' = lane /\ sent' = sent
  BY DEF renewVars, paneVars
<1>2. \A c \in Clears : Pending(c)' => Pending(c)
  BY DEF ClearSafe, Pending
<1>3. ClearInFlight' => ClearInFlight
  BY <1>2 DEF ClearInFlight, Pending
<1>4. ClearsAgree'
  <2> SUFFICES ASSUME NEW c \in Clears
               PROVE  /\ \A n \in DOMAIN lane : lane[n] = <<"clear", c>> =>
                             /\ Pending(c)' /\ clear'[c].at \in {"sending", "sent"}
                             /\ \A m \in DOMAIN lane : m > n => ~Gated(lane[m])
                      /\ Pending(c)' /\ clear'[c].attempted =>
                             \/ \A n \in DOMAIN lane : ~Gated(lane[n])
                             \/ Holds(<<"clear", c>>) /\ sent
                      /\ clear'[c].at \in {"none", "settling", "probe", "sending"} =>
                             ~clear'[c].attempted
    BY <1>1 DEF ClearsAgree, Holds, Gated
  <2>1. CASE clear'[c] = clear[c]
    BY <2>1 DEF GatesInv, ClearsAgree, Pending
  <2>2. CASE ClearSafe(c)
    BY <2>2 DEF GatesInv, ClearsAgree, ClearSafe
  <2> QED  BY <2>1, <2>2
<1>5. PromptsAgree' /\ RenewsAgree'
  BY <1>1 DEF GatesInv, PromptsAgree, RenewsAgree
<1>6. FiredAgree'
  BY <1>1 DEF GatesInv, FiredAgree
<1>7. ASSUME NEW k \in Cycles PROVE RowAgrees(k)'
  <2>1. row[k].at = "rotation" => ~ClearInFlight'
    BY <1>3 DEF GatesInv, RowAgrees
  <2>2. row[k].at = "clear_open" /\ row[k].writes # 0 => Holds(<<"renew", k>>)' /\ sent'
    BY <1>1 DEF GatesInv, RowAgrees, Holds
  <2> QED  BY <1>1, <2>1, <2>2, RowStays
<1>8. ClearExcludesRenew'
  BY <1>1, <1>3 DEF GatesInv, ClearExcludesRenew
<1> QED  BY <1>4, <1>5, <1>6, <1>7, <1>8, RenewVarsStay DEF GatesInv

\* A write is parked, and no clear is in flight if it is a gated one.
LEMMA WriteParks ==
    ASSUME GatesInv, NEW o \in Owners, Gated(o) => ~ClearInFlight, Park(o),
           \A c \in Clears : IF o = <<"clear", c>>
                             THEN Pending(c)' /\ clear'[c].at = "sending" /\ ~clear'[c].attempted
                             ELSE clear'[c] = clear[c],
           \A p \in Prompts : IF o = <<"prompt", p>>
                              THEN /\ prompt[p] \in {"none", "collected", "queued"}
                                   /\ \/ prompt'[p] = "parked"
                                      \/ /\ prompt'[p] = "firing"
                                         /\ \A k \in Cycles : row'[k].phase # "clearing"
                              ELSE prompt'[p] = prompt[p],
           \A k \in Cycles : IF o = <<"renew", k>>
                             THEN /\ row[k].at \notin Writing /\ row'[k].at \in Writing
                                  /\ row'[k].phase = "clearing" =>
                                        \/ row'[k].writes = 0
                                        \/ /\ row[k].phase = "clearing"
                                           /\ row'[k].writes = row[k].writes
                                           /\ row'[k].at # "clear_open"
                             ELSE /\ row'[k].at = row[k].at /\ row'[k].writes = row[k].writes
                                  /\ row'[k].phase = "clearing" => row[k].phase = "clearing"
    PROVE  ClearsAgree' /\ PromptsAgree' /\ RenewsAgree' /\ FiredAgree'
<1>1. /\ lane' # <<>>
      /\ Len(lane') = Len(lane) + 1
      /\ \A n \in DOMAIN lane : n \in DOMAIN lane' /\ lane'[n] = lane[n] /\ n < Len(lane')
      /\ Len(lane') \in DOMAIN lane' /\ lane'[Len(lane')] = o
      /\ \A n \in DOMAIN lane' : n \in DOMAIN lane \/ (n = Len(lane') /\ lane'[n] = o)
  BY LaneParks, TypeParts DEF GatesInv, Park
<1>2. lane # <<>> => Head(lane') = Head(lane)
  BY LaneParks, TypeParts DEF GatesInv, Park
<1>3. \A n \in DOMAIN lane' : n \in Nat /\ n <= Len(lane')
  <2>1. lane' \in Seq(Owners)
    BY LaneParks, TypeParts DEF GatesInv, Park
  <2> QED  BY <2>1
<1>4. ClearsAgree'
  <2> SUFFICES ASSUME NEW c \in Clears
               PROVE  /\ \A n \in DOMAIN lane' : lane'[n] = <<"clear", c>> =>
                             /\ Pending(c)' /\ clear'[c].at \in {"sending", "sent"}
                             /\ \A m \in DOMAIN lane' : m > n => ~Gated(lane'[m])
                      /\ Pending(c)' /\ clear'[c].attempted =>
                             \/ \A n \in DOMAIN lane' : ~Gated(lane'[n])
                             \/ Holds(<<"clear", c>>)' /\ sent'
                      /\ clear'[c].at \in {"none", "settling", "probe", "sending"} =>
                             ~clear'[c].attempted
    BY DEF ClearsAgree, Gated
  <2>1. CASE Gated(o)
    <3>1. \A d \in Clears : ~Pending(d) /\ \A n \in DOMAIN lane : lane[n] # <<"clear", d>>
      BY <2>1 DEF ClearInFlight, Pending, GatesInv, ClearsAgree
    <3>2. \A n \in DOMAIN lane' : lane'[n] = <<"clear", c>> =>
              n = Len(lane') /\ o = <<"clear", c>>
      BY <1>1, <3>1
    <3>3. \A n, m \in DOMAIN lane' : n = Len(lane') => ~(m > n)
      BY <1>3
    <3>4. CASE o = <<"clear", c>>
      BY <3>2, <3>3, <3>4
    <3>5. CASE o # <<"clear", c>>
      <4>1. clear'[c] = clear[c]
        BY <3>5
      <4> QED  BY <3>1, <3>2, <3>5, <4>1 DEF GatesInv, ClearsAgree, Pending
    <3> QED  BY <3>4, <3>5
  <2>2. CASE ~Gated(o)
    <3>1. o # <<"clear", c>>
      BY <2>2, GatedWrites
    <3>2. clear'[c] = clear[c] /\ (Pending(c)' <=> Pending(c))
      BY <3>1 DEF Pending
    <3>3. ASSUME NEW n \in DOMAIN lane', lane'[n] = <<"clear", c>>
          PROVE  /\ Pending(c) /\ clear[c].at \in {"sending", "sent"}
                 /\ \A m \in DOMAIN lane' : m > n => ~Gated(lane'[m])
      <4>1. n \in DOMAIN lane /\ lane[n] = <<"clear", c>>
        BY <1>1, <3>1, <3>3
      <4>2. /\ Pending(c) /\ clear[c].at \in {"sending", "sent"}
            /\ \A m \in DOMAIN lane : m > n => ~Gated(lane[m])
        BY <4>1 DEF GatesInv, ClearsAgree
      <4> QED  BY <1>1, <2>2, <4>2
    <3>4. ASSUME Pending(c), clear[c].attempted
          PROVE  \/ \A n \in DOMAIN lane' : ~Gated(lane'[n])
                 \/ Holds(<<"clear", c>>)' /\ sent'
      <4>1. (\A n \in DOMAIN lane : ~Gated(lane[n])) \/ (Holds(<<"clear", c>>) /\ sent)
        BY <3>4 DEF GatesInv, ClearsAgree
      <4>2. CASE \A n \in DOMAIN lane : ~Gated(lane[n])
        BY <1>1, <2>2, <4>2
      <4>3. CASE Holds(<<"clear", c>>) /\ sent
        BY <1>1, <1>2, <4>3 DEF Holds, Park
      <4> QED  BY <4>1, <4>2, <4>3
    <3>5. clear[c].at \in {"none", "settling", "probe", "sending"} => ~clear[c].attempted
      BY DEF GatesInv, ClearsAgree
    <3> QED  BY <3>2, <3>3, <3>4, <3>5
  <2> QED  BY <2>1, <2>2
<1>5. PromptsAgree'
  <2> SUFFICES ASSUME NEW p \in Prompts, NEW n \in DOMAIN lane', lane'[n] = <<"prompt", p>>
               PROVE  /\ prompt'[p] \in {"parked", "firing", "sent"}
                      /\ \A m \in DOMAIN lane' : lane'[m] = <<"prompt", p>> => m = n
    BY DEF PromptsAgree
  <2>1. CASE o = <<"prompt", p>>
    <3>1. \A m \in DOMAIN lane : lane[m] # <<"prompt", p>>
      BY <2>1 DEF GatesInv, PromptsAgree
    <3> QED  BY <2>1, <3>1, <1>1
  <2>2. CASE o # <<"prompt", p>>
    <3>1. prompt'[p] = prompt[p]
      BY <2>2
    <3>2. \A m \in DOMAIN lane' : lane'[m] = <<"prompt", p>> =>
              m \in DOMAIN lane /\ lane[m] = <<"prompt", p>>
      BY <2>2, <1>1
    <3> QED  BY <3>1, <3>2 DEF GatesInv, PromptsAgree
  <2> QED  BY <2>1, <2>2
<1>6. ASSUME NEW k \in Cycles, o = <<"renew", k>>
      PROVE  \A m \in DOMAIN lane : lane[m] # <<"renew", k>>
  BY <1>6 DEF GatesInv, RenewsAgree, Writing
<1>7. RenewsAgree'
  <2> SUFFICES ASSUME NEW k \in Cycles, NEW n \in DOMAIN lane', lane'[n] = <<"renew", k>>
               PROVE  /\ row'[k].at \in {"clear_open", "inject_open"}
                      /\ \A m \in DOMAIN lane' : lane'[m] = <<"renew", k>> => m = n
    BY DEF RenewsAgree
  <2>1. CASE o = <<"renew", k>>
    BY <2>1, <1>1, <1>6 DEF Writing
  <2>2. CASE o # <<"renew", k>>
    <3>1. row'[k].at = row[k].at
      BY <2>2
    <3>2. \A m \in DOMAIN lane' : lane'[m] = <<"renew", k>> =>
              m \in DOMAIN lane /\ lane[m] = <<"renew", k>>
      BY <2>2, <1>1
    <3> QED  BY <3>1, <3>2 DEF GatesInv, RenewsAgree
  <2> QED  BY <2>1, <2>2
<1>8. FiredAgree'
  <2> SUFFICES ASSUME NEW k \in Cycles, NEW p \in Prompts,
                      row'[k].phase = "clearing", prompt'[p] = "firing",
                      NEW n \in DOMAIN lane', lane'[n] = <<"prompt", p>>
               PROVE  /\ row'[k].writes = 0
                      /\ row'[k].at = "clear_open" =>
                            \A m \in DOMAIN lane' : lane'[m] = <<"renew", k>> => n < m
    BY DEF FiredAgree
  <2>1. o # <<"prompt", p>> /\ prompt[p] = "firing"
    OBVIOUS
  <2>2. n \in DOMAIN lane /\ lane[n] = <<"prompt", p>> /\ n < Len(lane')
    BY <2>1, <1>1
  <2>3. CASE o = <<"renew", k>>
    <3>1. row'[k].writes = 0
      BY <2>1, <2>2, <2>3 DEF GatesInv, FiredAgree
    <3>2. \A m \in DOMAIN lane' : lane'[m] = <<"renew", k>> => m = Len(lane')
      BY <2>3, <1>1, <1>6
    <3> QED  BY <2>2, <3>1, <3>2
  <2>4. CASE o # <<"renew", k>>
    <3>1. row'[k].at = row[k].at /\ row'[k].writes = row[k].writes /\ row[k].phase = "clearing"
      BY <2>4
    <3>2. \A m \in DOMAIN lane' : lane'[m] = <<"renew", k>> =>
              m \in DOMAIN lane /\ lane[m] = <<"renew", k>>
      BY <2>4, <1>1
    <3> QED  BY <2>1, <2>2, <3>1, <3>2 DEF GatesInv, FiredAgree
  <2> QED  BY <2>3, <2>4
<1> QED  BY <1>4, <1>5, <1>7, <1>8

\* The head of the lane leaves it, and its owner may change.
LEMMA WriteLeaves ==
    ASSUME GatesInv, NEW o \in Owners, Holds(o), Release,
           \A c \in Clears : \/ clear'[c] = clear[c]
                             \/ /\ Pending(c)' => Pending(c)
                                /\ clear'[c].attempted = clear[c].attempted
                                /\ clear'[c].at \notin {"none", "settling", "probe", "sending"}
                                /\ o = <<"clear", c>>,
           \A p \in Prompts : \/ prompt'[p] = prompt[p]
                              \/ o = <<"prompt", p>> /\ prompt'[p] # "firing",
           \A k \in Cycles : \/ row'[k] = row[k]
                             \/ /\ o = <<"renew", k>> /\ row'[k].at # "clear_open"
                                /\ row'[k].phase = "clearing" => row[k].phase = "clearing"
                                /\ row'[k].writes = row[k].writes
    PROVE  ClearsAgree' /\ PromptsAgree' /\ RenewsAgree' /\ FiredAgree'
<1>1. /\ lane \in Seq(Owners) /\ lane # <<>> /\ lane' = Tail(lane) /\ sent' = FALSE
  BY TypeParts DEF GatesInv, Release, Holds
<1>2. /\ Len(lane') = Len(lane) - 1
      /\ \A n \in DOMAIN lane' : n + 1 \in DOMAIN lane /\ lane'[n] = lane[n + 1]
      /\ Len(lane) = 1 => lane' = <<>>
      /\ \A n \in DOMAIN lane' : n \in Nat /\ n >= 1
  <2>1. lane' \in Seq(Owners)
    BY <1>1, LaneReleases
  <2> QED  BY <1>1, <2>1, LaneReleases
<1>3. 1 \in DOMAIN lane /\ lane[1] = o
  BY <1>1, LaneHead
<1>4. ASSUME NEW c \in Clears, o = <<"clear", c>>
      PROVE  \A n \in DOMAIN lane' : ~Gated(lane'[n])
  <2>1. \A m \in DOMAIN lane : m > 1 => ~Gated(lane[m])
    BY <1>3, <1>4 DEF GatesInv, ClearsAgree
  <2>2. \A n \in DOMAIN lane' : n + 1 > 1
    BY <1>2
  <2> QED  BY <2>1, <2>2, <1>2
<1>5. ClearsAgree'
  <2> SUFFICES ASSUME NEW c \in Clears
               PROVE  /\ \A n \in DOMAIN lane' : lane'[n] = <<"clear", c>> =>
                             /\ Pending(c)' /\ clear'[c].at \in {"sending", "sent"}
                             /\ \A m \in DOMAIN lane' : m > n => ~Gated(lane'[m])
                      /\ Pending(c)' /\ clear'[c].attempted =>
                             \A n \in DOMAIN lane' : ~Gated(lane'[n])
                      /\ clear'[c].at \in {"none", "settling", "probe", "sending"} =>
                             ~clear'[c].attempted
    BY DEF ClearsAgree, Gated
  <2>1. CASE o = <<"clear", c>>
    <3>1. \A n \in DOMAIN lane' : ~Gated(lane'[n]) /\ lane'[n] # <<"clear", c>>
      BY <2>1, <1>4, GatedWrites
    <3>2. clear'[c].at \in {"none", "settling", "probe", "sending"} => ~clear'[c].attempted
      BY DEF GatesInv, ClearsAgree
    <3> QED  BY <3>1, <3>2
  <2>2. CASE o # <<"clear", c>>
    <3>1. clear'[c] = clear[c] /\ ~Holds(<<"clear", c>>)
      BY <2>2 DEF Holds
    <3>2. ASSUME NEW n \in DOMAIN lane', lane'[n] = <<"clear", c>>
          PROVE  /\ Pending(c) /\ clear[c].at \in {"sending", "sent"}
                 /\ \A m \in DOMAIN lane : m > n + 1 => ~Gated(lane[m])
      <4>1. n + 1 \in DOMAIN lane /\ lane[n + 1] = <<"clear", c>>
        BY <3>2, <1>2
      <4> QED  BY <4>1 DEF GatesInv, ClearsAgree
    <3>3. \A n, m \in DOMAIN lane' : m > n => m + 1 > n + 1
      BY <1>2
    <3>4. ASSUME Pending(c), clear[c].attempted
          PROVE  \A n \in DOMAIN lane' : ~Gated(lane'[n])
      <4>1. \A n \in DOMAIN lane : ~Gated(lane[n])
        BY <3>1, <3>4 DEF GatesInv, ClearsAgree
      <4> QED  BY <4>1, <1>2
    <3>5. Pending(c)' <=> Pending(c)
      BY <3>1 DEF Pending
    <3>6. ASSUME NEW n \in DOMAIN lane', lane'[n] = <<"clear", c>>
          PROVE  \A m \in DOMAIN lane' : m > n => ~Gated(lane'[m])
      BY <3>2, <3>3, <3>6, <1>2
    <3>7. clear[c].at \in {"none", "settling", "probe", "sending"} => ~clear[c].attempted
      BY DEF GatesInv, ClearsAgree
    <3> QED  BY <3>1, <3>2, <3>4, <3>5, <3>6, <3>7
  <2> QED  BY <2>1, <2>2
<1>6. \A q : \A n \in DOMAIN lane' : lane'[n] = q => n + 1 \in DOMAIN lane /\ lane[n + 1] = q
  BY <1>2
<1>7. \A n, m \in DOMAIN lane' : /\ n + 1 = m + 1 => n = m
                                 /\ n + 1 < m + 1 => n < m
                                 /\ n + 1 # 1
  BY <1>2
<1>8. PromptsAgree'
  <2> SUFFICES ASSUME NEW p \in Prompts, NEW n \in DOMAIN lane', lane'[n] = <<"prompt", p>>
               PROVE  /\ prompt'[p] \in {"parked", "firing", "sent"}
                      /\ \A m \in DOMAIN lane' : lane'[m] = <<"prompt", p>> => m = n
    BY DEF PromptsAgree
  <2>1. n + 1 \in DOMAIN lane /\ lane[n + 1] = <<"prompt", p>>
    BY <1>6
  <2>2. prompt[p] \in {"parked", "firing", "sent"}
        /\ \A m \in DOMAIN lane : lane[m] = <<"prompt", p>> => m = n + 1
    BY <2>1 DEF GatesInv, PromptsAgree
  <2>3. o # <<"prompt", p>>
    BY <2>2, <1>3, <1>7
  <2>4. \A m \in DOMAIN lane' : lane'[m] = <<"prompt", p>> => m = n
    BY <2>2, <1>6, <1>7
  <2> QED  BY <2>2, <2>3, <2>4
<1>9. RenewsAgree'
  <2> SUFFICES ASSUME NEW k \in Cycles, NEW n \in DOMAIN lane', lane'[n] = <<"renew", k>>
               PROVE  /\ row'[k].at \in {"clear_open", "inject_open"}
                      /\ \A m \in DOMAIN lane' : lane'[m] = <<"renew", k>> => m = n
    BY DEF RenewsAgree
  <2>1. n + 1 \in DOMAIN lane /\ lane[n + 1] = <<"renew", k>>
    BY <1>6
  <2>2. row[k].at \in {"clear_open", "inject_open"}
        /\ \A m \in DOMAIN lane : lane[m] = <<"renew", k>> => m = n + 1
    BY <2>1 DEF GatesInv, RenewsAgree
  <2>3. o # <<"renew", k>>
    BY <2>2, <1>3, <1>7
  <2>4. \A m \in DOMAIN lane' : lane'[m] = <<"renew", k>> => m = n
    BY <2>2, <1>6, <1>7
  <2> QED  BY <2>2, <2>3, <2>4
<1>10. FiredAgree'
  <2> SUFFICES ASSUME NEW k \in Cycles, NEW p \in Prompts,
                      row'[k].phase = "clearing", prompt'[p] = "firing",
                      NEW n \in DOMAIN lane', lane'[n] = <<"prompt", p>>
               PROVE  /\ row'[k].writes = 0
                      /\ row'[k].at = "clear_open" =>
                            \A m \in DOMAIN lane' : lane'[m] = <<"renew", k>> => n < m
    BY DEF FiredAgree
  <2>1. n + 1 \in DOMAIN lane /\ lane[n + 1] = <<"prompt", p>>
    BY <1>6
  <2>2. prompt[p] = "firing" /\ row[k].phase = "clearing" /\ row'[k].writes = row[k].writes
        /\ (row'[k].at = "clear_open" => row'[k] = row[k])
    OBVIOUS
  <2>3. /\ row[k].writes = 0
        /\ row[k].at = "clear_open" =>
              \A m \in DOMAIN lane : lane[m] = <<"renew", k>> => n + 1 < m
    BY <2>1, <2>2 DEF GatesInv, FiredAgree
  <2>4. ASSUME row'[k].at = "clear_open", NEW m \in DOMAIN lane', lane'[m] = <<"renew", k>>
        PROVE  n < m
    BY <2>2, <2>3, <2>4, <1>6, <1>7
  <2> QED  BY <2>2, <2>3, <2>4
<1> QED  BY <1>5, <1>8, <1>9, <1>10

\* The head of the lane is written: if it is gated, no clear was that waits for its outcome.
LEMMA WriteOpens ==
    ASSUME GatesInv, NEW o \in Owners, Holds(o), ~sent
    PROVE  /\ Gated(o) => \A c \in Clears : ~(Pending(c) /\ clear[c].attempted)
           /\ \A k \in Cycles : row[k].at = "clear_open" => row[k].writes = 0
<1>1. 1 \in DOMAIN lane /\ lane[1] = o
  BY LaneHead, TypeParts DEF GatesInv
<1> QED  BY <1>1 DEF GatesInv, ClearsAgree, RowAgrees

LEMMA WriteOpensAgree ==
    ASSUME GatesInv, NEW o \in Owners, Holds(o), ~sent, sent' = TRUE, lane' = lane,
           \A c \in Clears : \/ clear'[c] = clear[c]
                             \/ /\ o = <<"clear", c>> /\ clear'[c].at = "sent"
                                /\ Pending(c)' = Pending(c),
           \A p \in Prompts : \/ prompt'[p] = prompt[p]
                              \/ o = <<"prompt", p>> /\ prompt'[p] = "sent",
           \A k \in Cycles :
               /\ row'[k].at = row[k].at /\ row'[k].phase = row[k].phase
               /\ \/ row'[k].writes = row[k].writes
                  \/ o = <<"renew", k>> /\ row[k].at = "clear_open"
    PROVE  ClearsAgree' /\ PromptsAgree' /\ RenewsAgree' /\ FiredAgree'
<1>1. 1 \in DOMAIN lane /\ lane[1] = o
  BY LaneHead, TypeParts DEF GatesInv
<1>2. \A q : Holds(q)' <=> Holds(q)
  BY DEF Holds
<1>3. ClearsAgree'
  <2> SUFFICES ASSUME NEW c \in Clears
               PROVE  /\ \A n \in DOMAIN lane : lane[n] = <<"clear", c>> =>
                             /\ Pending(c)' /\ clear'[c].at \in {"sending", "sent"}
                             /\ \A m \in DOMAIN lane : m > n => ~Gated(lane[m])
                      /\ Pending(c)' /\ clear'[c].attempted =>
                             \/ \A n \in DOMAIN lane : ~Gated(lane[n])
                             \/ Holds(<<"clear", c>>)
                      /\ clear'[c].at \in {"none", "settling", "probe", "sending"} =>
                             ~clear'[c].attempted
    BY <1>2 DEF ClearsAgree, Holds, Gated
  <2>1. CASE clear'[c] = clear[c]
    BY <2>1 DEF GatesInv, ClearsAgree, Pending
  <2>2. CASE o = <<"clear", c>> /\ clear'[c].at = "sent" /\ Pending(c)' = Pending(c)
    BY <2>2 DEF GatesInv, ClearsAgree
  <2> QED  BY <2>1, <2>2
<1>4. PromptsAgree'
  <2> SUFFICES ASSUME NEW p \in Prompts, NEW n \in DOMAIN lane, lane[n] = <<"prompt", p>>
               PROVE  /\ prompt'[p] \in {"parked", "firing", "sent"}
                      /\ \A m \in DOMAIN lane : lane[m] = <<"prompt", p>> => m = n
    BY DEF PromptsAgree
  <2> QED  BY DEF GatesInv, PromptsAgree
<1>5. RenewsAgree'
  BY DEF GatesInv, RenewsAgree
<1>6. FiredAgree'
  <2> SUFFICES ASSUME NEW k \in Cycles, NEW p \in Prompts,
                      row'[k].phase = "clearing", prompt'[p] = "firing",
                      NEW n \in DOMAIN lane, lane[n] = <<"prompt", p>>
               PROVE  /\ row'[k].writes = 0
                      /\ row'[k].at = "clear_open" =>
                            \A m \in DOMAIN lane : lane[m] = <<"renew", k>> => n < m
    BY DEF FiredAgree
  <2>1. prompt[p] = "firing" /\ row[k].phase = "clearing"
    OBVIOUS
  <2>2. /\ row[k].writes = 0
        /\ row[k].at = "clear_open" => \A m \in DOMAIN lane : lane[m] = <<"renew", k>> => n < m
    BY <2>1 DEF GatesInv, FiredAgree
  <2>3. ~(o = <<"renew", k>> /\ row[k].at = "clear_open")
    <3> SUFFICES ASSUME o = <<"renew", k>>, row[k].at = "clear_open" PROVE FALSE
      OBVIOUS
    <3>1. n < 1
      BY <2>2, <1>1
    <3>2. n >= 1
      BY TypeParts DEF GatesInv
    <3>3. n \in Nat
      BY TypeParts DEF GatesInv
    <3> QED  BY <3>1, <3>2, <3>3
  <2> QED  BY <2>2, <2>3
<1> QED  BY <1>3, <1>4, <1>5, <1>6

----------------------------------------------------------------------------
(* Prompts.                                                                 *)

\* A step of prompt p that leaves clears and rows alone.
LEMMA PromptFrame ==
    ASSUME GatesInv, UNCHANGED <<agentVars, clearVars, renewVars, crashes>>
    PROVE  /\ RowsInOrder' /\ PolicyAgrees' /\ ClearExcludesRenew'
           /\ ClearInFlight' = ClearInFlight
           /\ row' = row /\ policy' = policy /\ clear' = clear /\ ready' = ready
<1>1. row' = row /\ policy' = policy /\ clear' = clear /\ ready' = ready
  BY DEF agentVars, clearVars, renewVars
<1>2. ClearInFlight' = ClearInFlight
  BY <1>1 DEF ClearInFlight
<1>3. ClearExcludesRenew'
  BY <1>1, <1>2 DEF GatesInv, ClearExcludesRenew
<1> QED  BY <1>1, <1>2, <1>3, RenewVarsStay DEF renewVars

LEMMA PromptType ==
    ASSUME TypeOK, UNCHANGED <<agentVars, clearVars, renewVars, crashes>>,
           prompt' \in
               [Prompts -> {"none", "collected", "queued", "parked", "firing", "sent", "done"}],
           due' \in [Prompts -> {"later", "gap", "now"}],
           lane' \in Seq(Owners), sent' \in BOOLEAN
    PROVE  TypeOK'
BY DEF TypeOK, agentVars, clearVars, renewVars

LEMMA PromptMoves ==
    ASSUME TypeOK, NEW p \in Prompts,
           NEW s \in {"none", "collected", "queued", "parked", "firing", "sent", "done"},
           prompt' = [prompt EXCEPT ![p] = s]
    PROVE  /\ prompt' \in
                  [Prompts -> {"none", "collected", "queued", "parked", "firing", "sent", "done"}]
           /\ prompt'[p] = s /\ \A q \in Prompts : q # p => prompt'[q] = prompt[q]
BY DEF TypeOK

LEMMA DueMoves ==
    ASSUME TypeOK, NEW p \in Prompts, NEW d \in {"later", "gap", "now"},
           due' = [due EXCEPT ![p] = d]
    PROVE  due' \in [Prompts -> {"later", "gap", "now"}]
BY DEF TypeOK

LEMMA PromptParks ==
    ASSUME GatesInv, NEW p \in Prompts, NEW s \in {"parked", "firing"},
           p \in Ungated \/ ~ClearInFlight,
           prompt[p] \in {"none", "collected", "queued"}, prompt' = [prompt EXCEPT ![p] = s],
           Park(<<"prompt", p>>),
           s = "firing" => \A k \in Cycles : row[k].phase # "clearing",
           due' = due, UNCHANGED <<agentVars, clearVars, renewVars, crashes>>
    PROVE  GatesInv'
<1> DEFINE o == <<"prompt", p>>
<1>1. o \in Owners
  BY DEF Owners
<1>2. /\ prompt' \in
             [Prompts -> {"none", "collected", "queued", "parked", "firing", "sent", "done"}]
      /\ prompt'[p] = s /\ \A q \in Prompts : q # p => prompt'[q] = prompt[q]
  BY PromptMoves DEF GatesInv
<1>3. /\ RowsInOrder' /\ PolicyAgrees' /\ ClearExcludesRenew'
      /\ ClearInFlight' = ClearInFlight
      /\ row' = row /\ clear' = clear /\ ready' = ready
  BY PromptFrame
<1>4./\ lane' \in Seq(Owners) /\ sent' = sent
     /\ lane # <<>> => lane' # <<>> /\ Head(lane') = Head(lane)
  BY <1>1, LaneParks, TypeParts DEF GatesInv, Park
<1>5. TypeOK'
  <2>1. due' \in [Prompts -> {"later", "gap", "now"}] /\ sent' \in BOOLEAN
    BY <1>4 DEF GatesInv, TypeOK
  <2> QED  BY <1>2, <1>4, <2>1, PromptType DEF GatesInv
<1>6. ASSUME NEW k \in Cycles PROVE RowAgrees(k)'
  <2>1. row[k].at = "rotation" => ~ClearInFlight'
    BY <1>3 DEF GatesInv, RowAgrees
  <2>2. row[k].at = "clear_open" /\ row[k].writes # 0 => Holds(<<"renew", k>>)' /\ sent'
    BY <1>4 DEF GatesInv, RowAgrees, Holds
  <2> QED  BY <1>3, <2>1, <2>2, RowStays
<1>7. \A c \in Clears : o # <<"clear", c>>
  OBVIOUS
<1>8. \A k \in Cycles : o # <<"renew", k>>
  OBVIOUS
<1>9. \A q \in Prompts : o = <<"prompt", q>> <=> q = p
  OBVIOUS
<1>10. Park(o) /\ (Gated(o) => ~ClearInFlight)
  BY DEF Gated, UngatedWrites
<1> HIDE DEF o
<1>11. \A c \in Clears : IF o = <<"clear", c>>
                         THEN Pending(c)' /\ clear'[c].at = "sending" /\ ~clear'[c].attempted
                         ELSE clear'[c] = clear[c]
  BY <1>3, <1>7
<1>12. \A q \in Prompts : IF o = <<"prompt", q>>
                          THEN /\ prompt[q] \in {"none", "collected", "queued"}
                               /\ \/ prompt'[q] = "parked"
                                  \/ /\ prompt'[q] = "firing"
                                     /\ \A k \in Cycles : row'[k].phase # "clearing"
                          ELSE prompt'[q] = prompt[q]
  BY <1>2, <1>3, <1>9
<1>13. \A k \in Cycles : IF o = <<"renew", k>>
                         THEN /\ row[k].at \notin Writing /\ row'[k].at \in Writing
                              /\ row'[k].phase = "clearing" =>
                                    \/ row'[k].writes = 0
                                    \/ /\ row[k].phase = "clearing"
                                       /\ row'[k].writes = row[k].writes
                                       /\ row'[k].at # "clear_open"
                         ELSE /\ row'[k].at = row[k].at /\ row'[k].writes = row[k].writes
                              /\ row'[k].phase = "clearing" => row[k].phase = "clearing"
  BY <1>3, <1>8
<1>14. ClearsAgree' /\ PromptsAgree' /\ RenewsAgree' /\ FiredAgree'
  BY <1>1, <1>10, <1>11, <1>12, <1>13, WriteParks
<1> QED  BY <1>3, <1>5, <1>6, <1>14 DEF GatesInv

LEMMA RecordPromptKeeps ==
    ASSUME GatesInv, NEW p \in Prompts, RecordPrompt(p)
    PROVE  GatesInv'
<1>1. prompt[p] = "none" /\ UNCHANGED <<agentVars, clearVars, renewVars, crashes>>
  BY DEF RecordPrompt
<1>2. \/ /\ ~ClearInFlight /\ prompt' = [prompt EXCEPT ![p] = "parked"]
         /\ Park(<<"prompt", p>>) /\ due' = due
      \/ /\ prompt' = [prompt EXCEPT ![p] = "queued"] /\ UNCHANGED paneVars
         /\ \E d \in {"later", "gap", "now"} : due' = [due EXCEPT ![p] = d]
  BY DEF RecordPrompt, PromptSchedule
<1>3. CASE /\ ~ClearInFlight /\ prompt' = [prompt EXCEPT ![p] = "parked"]
           /\ Park(<<"prompt", p>>) /\ due' = due
  <2> DEFINE s == "parked"
  <2>1. s \in {"parked", "firing"} /\ s # "firing" /\ prompt' = [prompt EXCEPT ![p] = s]
    BY <1>3
  <2> HIDE DEF s
  <2> QED  BY <1>1, <1>3, <2>1, PromptParks
<1>4. CASE /\ prompt' = [prompt EXCEPT ![p] = "queued"] /\ UNCHANGED paneVars
           /\ \E d \in {"later", "gap", "now"} : due' = [due EXCEPT ![p] = d]
  <2>1. /\ prompt' \in
               [Prompts -> {"none", "collected", "queued", "parked", "firing", "sent", "done"}]
        /\ prompt'[p] = "queued" /\ \A q \in Prompts : q # p => prompt'[q] = prompt[q]
    BY <1>4, PromptMoves DEF GatesInv
  <2>2. due' \in [Prompts -> {"later", "gap", "now"}]
    BY <1>4, DueMoves DEF GatesInv
  <2>3. TypeOK'
    <3>1. lane' \in Seq(Owners) /\ sent' \in BOOLEAN
      BY <1>4 DEF GatesInv, TypeOK, paneVars
    <3> QED  BY <1>1, <2>1, <2>2, <3>1, PromptType DEF GatesInv
  <2>4. \A q \in Prompts : \/ prompt'[q] = prompt[q]
                           \/ prompt[q] \in {"none", "collected"} /\ prompt'[q] # "firing"
    BY <1>1, <2>1
  <2>5. ready' = ready /\ clear' = clear
    BY <1>1 DEF agentVars, clearVars
  <2> QED  BY <1>1, <1>4, <2>3, <2>4, <2>5, LaneRests
<1> QED  BY <1>2, <1>3, <1>4

LEMMA DueTimeArrivesKeeps ==
    ASSUME GatesInv, NEW p \in Prompts, DueTimeArrives(p)
    PROVE  GatesInv'
<1>1. /\ due' = [due EXCEPT ![p] = "now"] /\ prompt' = prompt
      /\ UNCHANGED <<agentVars, clearVars, renewVars, crashes>> /\ UNCHANGED paneVars
  BY DEF DueTimeArrives
<1>2. due' \in [Prompts -> {"later", "gap", "now"}]
  BY <1>1, DueMoves DEF GatesInv
<1>3. TypeOK'
  <2>1. lane' \in Seq(Owners) /\ sent' \in BOOLEAN
        /\ prompt' \in
               [Prompts -> {"none", "collected", "queued", "parked", "firing", "sent", "done"}]
    BY <1>1 DEF GatesInv, TypeOK, paneVars
  <2> QED  BY <1>1, <1>2, <2>1, PromptType DEF GatesInv
<1>4. ready' = ready /\ clear' = clear
  BY <1>1 DEF agentVars, clearVars
<1> QED  BY <1>1, <1>3, <1>4, LaneRests

LEMMA BeginDueDeliveryKeeps ==
    ASSUME GatesInv, NEW p \in Prompts, BeginDueDelivery(p)
    PROVE  GatesInv'
<1> DEFINE s == "firing"
<1>1. /\ prompt[p] = "queued" /\ ~ClearInFlight /\ s \in {"parked", "firing"}
      /\ \A k \in Cycles : row[k].phase # "clearing"
      /\ prompt' = [prompt EXCEPT ![p] = s] /\ due' = due
      /\ Park(<<"prompt", p>>)
      /\ UNCHANGED <<agentVars, clearVars, renewVars, crashes>>
  BY DEF BeginDueDelivery, DueDeliveries
<1> HIDE DEF s
<1> QED  BY <1>1, PromptParks

LEMMA AbsenceSweepNoticeKeeps ==
    ASSUME GatesInv, NEW p \in Prompts, AbsenceSweepNotice(p)
    PROVE  GatesInv'
<1> DEFINE s == "parked"
<1>1. /\ p \in Ungated /\ prompt[p] = "none" /\ s \in {"parked", "firing"} /\ s # "firing"
      /\ prompt' = [prompt EXCEPT ![p] = s] /\ due' = due
      /\ Park(<<"prompt", p>>)
      /\ UNCHANGED <<agentVars, clearVars, renewVars, crashes>>
  BY DEF AbsenceSweepNotice, ParkUngated, Ungated
<1> HIDE DEF s
<1> QED  BY <1>1, PromptParks

\* A reminder is collected, or put off.
LEMMA ReminderWaits ==
    ASSUME GatesInv, NEW p \in Prompts, prompt[p] \in {"none", "collected"},
           NEW s \in {"collected", "done"}, prompt' = [prompt EXCEPT ![p] = s],
           due' = due, UNCHANGED paneVars,
           UNCHANGED <<agentVars, clearVars, renewVars, crashes>>
    PROVE  GatesInv'
<1>1. s \in {"none", "collected", "queued", "parked", "firing", "sent", "done"} /\ s # "firing"
  OBVIOUS
<1>2. /\ prompt' \in
             [Prompts -> {"none", "collected", "queued", "parked", "firing", "sent", "done"}]
      /\ prompt'[p] = s /\ \A q \in Prompts : q # p => prompt'[q] = prompt[q]
  BY <1>1, PromptMoves DEF GatesInv
<1>3. TypeOK'
  <2>1. /\ due' \in [Prompts -> {"later", "gap", "now"}]
        /\ lane' \in Seq(Owners) /\ sent' \in BOOLEAN
    BY DEF GatesInv, TypeOK, paneVars
  <2> QED  BY <1>2, <2>1, PromptType DEF GatesInv
<1>4. \A q \in Prompts : \/ prompt'[q] = prompt[q]
                         \/ prompt[q] \in {"none", "collected"} /\ prompt'[q] # "firing"
  BY <1>1, <1>2
<1>5. ready' = ready /\ clear' = clear
  BY DEF agentVars, clearVars
<1> QED  BY <1>3, <1>4, <1>5, LaneRests

LEMMA CollectDueReminderKeeps ==
    ASSUME GatesInv, NEW p \in Prompts, CollectDueReminder(p)
    PROVE  GatesInv'
<1> DEFINE s == "collected"
<1>1. /\ prompt[p] = "none" /\ s \in {"collected", "done"}
      /\ prompt' = [prompt EXCEPT ![p] = s] /\ due' = due /\ UNCHANGED paneVars
      /\ UNCHANGED <<agentVars, clearVars, renewVars, crashes>>
  BY DEF CollectDueReminder
<1> HIDE DEF s
<1> QED  BY <1>1, ReminderWaits

LEMMA OnReminderSnapshotKeeps ==
    ASSUME GatesInv, NEW p \in Prompts, OnReminderSnapshot(p)
    PROVE  GatesInv'
<1>1. /\ p \in Ungated /\ prompt[p] = "collected" /\ due' = due
      /\ UNCHANGED <<agentVars, clearVars, renewVars, crashes>>
  BY DEF OnReminderSnapshot, Ungated
<1>2. CASE ParkUngated(p)
  <2> DEFINE s == "parked"
  <2>1. /\ s \in {"parked", "firing"} /\ s # "firing"
        /\ prompt' = [prompt EXCEPT ![p] = s] /\ Park(<<"prompt", p>>)
    BY <1>2 DEF ParkUngated
  <2> HIDE DEF s
  <2> QED  BY <1>1, <2>1, PromptParks
<1>3. CASE prompt' = [prompt EXCEPT ![p] = "done"] /\ UNCHANGED paneVars
  <2> DEFINE s == "done"
  <2>1. s \in {"collected", "done"} /\ prompt' = [prompt EXCEPT ![p] = s]
    BY <1>3
  <2> HIDE DEF s
  <2> QED  BY <1>1, <1>3, <2>1, ReminderWaits
<1> QED  BY <1>2, <1>3 DEF OnReminderSnapshot

LEMMA OnPromptOpenedKeeps ==
    ASSUME GatesInv, NEW p \in Prompts, OnPromptOpened(p)
    PROVE  GatesInv'
<1> DEFINE o == <<"prompt", p>>
           s == "sent"
<1>1. /\ Holds(o) /\ ~sent /\ sent' = TRUE /\ lane' = lane /\ due' = due
      /\ prompt' = [prompt EXCEPT ![p] = s]
      /\ UNCHANGED <<agentVars, clearVars, renewVars, crashes>>
  BY DEF OnPromptOpened
<1>2. o \in Owners
  BY DEF Owners
<1>3. s \in {"none", "collected", "queued", "parked", "firing", "sent", "done"} /\ s = "sent"
  OBVIOUS
<1> HIDE DEF s
<1>4. /\ prompt' \in
             [Prompts -> {"none", "collected", "queued", "parked", "firing", "sent", "done"}]
      /\ prompt'[p] = s /\ \A q \in Prompts : q # p => prompt'[q] = prompt[q]
  BY <1>1, <1>3, PromptMoves DEF GatesInv
<1>5. /\ RowsInOrder' /\ PolicyAgrees' /\ ClearExcludesRenew'
      /\ ClearInFlight' = ClearInFlight
      /\ row' = row /\ clear' = clear /\ ready' = ready
  BY <1>1, PromptFrame
<1>6. TypeOK'
  <2>1. /\ due' \in [Prompts -> {"later", "gap", "now"}] /\ sent' \in BOOLEAN
        /\ lane' \in Seq(Owners)
    BY <1>1 DEF GatesInv, TypeOK
  <2> QED  BY <1>1, <1>4, <2>1, PromptType DEF GatesInv
<1> HIDE DEF o
<1>7. ASSUME NEW k \in Cycles PROVE RowAgrees(k)'
  <2>1. row[k].at = "rotation" => ~ClearInFlight'
    BY <1>5 DEF GatesInv, RowAgrees
  <2>2. row[k].at = "clear_open" => row[k].writes = 0
    BY <1>1, <1>2, WriteOpens
  <2> QED  BY <1>5, <2>1, <2>2, RowStays
<1>8. \A q \in Prompts : prompt'[q] = prompt[q] \/ (o = <<"prompt", q>> /\ prompt'[q] = "sent")
  BY <1>3, <1>4 DEF o
<1>9. ClearsAgree' /\ PromptsAgree' /\ RenewsAgree' /\ FiredAgree'
  BY <1>1, <1>2, <1>5, <1>8, WriteOpensAgree
<1> QED  BY <1>5, <1>6, <1>7, <1>9 DEF GatesInv

\* The pane was released by another's write.
LEMMA RowsAfterRelease ==
    ASSUME GatesInv, NEW o \in Owners, Holds(o), NEW k \in Cycles, o # <<"renew", k>>,
           row'[k] = row[k], ready' = ready, ClearInFlight' => ClearInFlight
    PROVE  RowAgrees(k)'
<1>1. row[k].at = "rotation" => ~ClearInFlight'
  BY DEF GatesInv, RowAgrees
<1>2. row[k].at = "clear_open" => row[k].writes = 0
  BY DEF GatesInv, RowAgrees, Holds
<1> QED  BY <1>1, <1>2, RowStays

LEMMA PromptLeaves ==
    ASSUME GatesInv, NEW p \in Prompts, Holds(<<"prompt", p>>), Release, due' = due,
           NEW s \in {"queued", "done", "parked", "sent"}, prompt' = [prompt EXCEPT ![p] = s],
           UNCHANGED <<agentVars, clearVars, renewVars, crashes>>
    PROVE  GatesInv'
<1> DEFINE o == <<"prompt", p>>
<1>1. o \in Owners /\ Holds(o)
  BY DEF Owners
<1>2. /\ prompt' \in
             [Prompts -> {"none", "collected", "queued", "parked", "firing", "sent", "done"}]
      /\ prompt'[p] = s /\ \A q \in Prompts : q # p => prompt'[q] = prompt[q]
  BY PromptMoves DEF GatesInv
<1>3. /\ RowsInOrder' /\ PolicyAgrees' /\ ClearExcludesRenew'
      /\ ClearInFlight' = ClearInFlight
      /\ row' = row /\ clear' = clear /\ ready' = ready
  BY PromptFrame
<1>4. TypeOK'
  <2>1. lane \in Seq(Owners) /\ lane # <<>> /\ lane' = Tail(lane) /\ sent' = FALSE
    BY TypeParts DEF GatesInv, Release, Holds
  <2>2. due' \in [Prompts -> {"later", "gap", "now"}] /\ lane' \in Seq(Owners)
    BY <2>1, LaneReleases DEF GatesInv, TypeOK
  <2> QED  BY <1>2, <2>1, <2>2, PromptType DEF GatesInv
<1>5. \A k \in Cycles : o # <<"renew", k>>
  OBVIOUS
<1>6. \A q \in Prompts : prompt'[q] = prompt[q] \/ (o = <<"prompt", q>> /\ prompt'[q] # "firing")
  BY <1>2
<1> HIDE DEF o
<1>7. \A k \in Cycles : RowAgrees(k)'
  BY <1>1, <1>3, <1>5, RowsAfterRelease
<1>8. ClearsAgree' /\ PromptsAgree' /\ RenewsAgree' /\ FiredAgree'
  BY <1>1, <1>3, <1>6, WriteLeaves
<1> QED  BY <1>3, <1>4, <1>7, <1>8 DEF GatesInv

LEMMA FinishParkedPromptKeeps ==
    ASSUME GatesInv, NEW p \in Prompts, FinishParkedPrompt(p)
    PROVE  GatesInv'
<1> DEFINE s == "done"
<1>1. /\ s \in {"queued", "done", "parked", "sent"} /\ prompt' = [prompt EXCEPT ![p] = s]
      /\ Holds(<<"prompt", p>>) /\ Release /\ due' = due
      /\ UNCHANGED <<agentVars, clearVars, renewVars, crashes>>
  BY DEF FinishParkedPrompt
<1> HIDE DEF s
<1> QED  BY <1>1, PromptLeaves

LEMMA FailParkedPromptKeeps ==
    ASSUME GatesInv, NEW p \in Prompts, FailParkedPrompt(p)
    PROVE  GatesInv'
<1> DEFINE s == IF prompt[p] = "firing" THEN "queued" ELSE "done"
<1>1. /\ s \in {"queued", "done", "parked", "sent"} /\ prompt' = [prompt EXCEPT ![p] = s]
      /\ Holds(<<"prompt", p>>) /\ Release /\ due' = due
      /\ UNCHANGED <<agentVars, clearVars, renewVars, crashes>>
  BY DEF FailParkedPrompt
<1> HIDE DEF s
<1> QED  BY <1>1, PromptLeaves

----------------------------------------------------------------------------
(* The prepare prompt.                                                      *)

LEMMA EndPreparePromptKeeps ==
    ASSUME GatesInv, NEW k \in Cycles, EndPreparePrompt(k)
    PROVE  GatesInv'
<1> DEFINE o == <<"prepare", k>>
<1>1. /\ o \in Owners /\ Holds(o) /\ Release
      /\ UNCHANGED <<agentVars, clearVars, renewVars, crashes>> /\ UNCHANGED promptVars
  BY DEF EndPreparePrompt, Owners
<1>2. prompt' = prompt /\ due' = due
  BY <1>1 DEF promptVars
<1>3. /\ RowsInOrder' /\ PolicyAgrees' /\ ClearExcludesRenew'
      /\ ClearInFlight' = ClearInFlight
      /\ row' = row /\ clear' = clear /\ ready' = ready
  BY <1>1, PromptFrame
<1>4. TypeOK'
  <2>1. lane \in Seq(Owners) /\ lane # <<>> /\ lane' = Tail(lane) /\ sent' = FALSE
    BY <1>1, TypeParts DEF GatesInv, Release, Holds
  <2>2. /\ due' \in [Prompts -> {"later", "gap", "now"}] /\ lane' \in Seq(Owners)
        /\ prompt' \in
               [Prompts -> {"none", "collected", "queued", "parked", "firing", "sent", "done"}]
    BY <1>2, <2>1, LaneReleases DEF GatesInv, TypeOK
  <2> QED  BY <1>1, <2>1, <2>2, PromptType DEF GatesInv
<1>5. \A j \in Cycles : o # <<"renew", j>>
  OBVIOUS
<1> HIDE DEF o
<1>6. \A j \in Cycles : RowAgrees(j)'
  BY <1>1, <1>3, <1>5, RowsAfterRelease
<1>7. ClearsAgree' /\ PromptsAgree' /\ RenewsAgree' /\ FiredAgree'
  BY <1>1, <1>2, <1>3, WriteLeaves
<1> QED  BY <1>3, <1>4, <1>6, <1>7 DEF GatesInv

LEMMA OnPrepareOpenedKeeps ==
    ASSUME GatesInv, NEW k \in Cycles, OnPrepareOpened(k)
    PROVE  GatesInv'
<1> DEFINE o == <<"prepare", k>>
           a == IF row[k].ask = "open" THEN "told" ELSE row[k].ask
           r == [row[k] EXCEPT !.ask = a]
<1>1. /\ o \in Owners /\ Holds(o) /\ ~sent /\ sent' = TRUE /\ lane' = lane
      /\ row' = [row EXCEPT ![k].ask = IF @ = "open" THEN "told" ELSE @]
      /\ prompt' = prompt /\ due' = due /\ clear' = clear /\ ready' = ready /\ policy' = policy
      /\ UNCHANGED <<timing, live, recorded, unproven, spacing, crashes>>
  BY DEF OnPrepareOpened, Owners, agentVars, clearVars, promptVars
<1>2. row[k] \in RenewRow
  BY RowType DEF GatesInv
<1>3. a \in {"none", "stray"} \cup OpenAsk \cup {"resolved", "cancelled"}
      /\ (a \in OpenAsk => row[k].ask \in OpenAsk)
  BY <1>2 DEF RenewRow, OpenAsk
<1>4. row' = [row EXCEPT ![k] = r]
  BY <1>1
<1> HIDE DEF a
<1>5. /\ r \in RenewRow /\ r.ask = a
      /\ r.phase = row[k].phase /\ r.every = row[k].every /\ r.writes = row[k].writes
      /\ r.step = row[k].step /\ r.at = row[k].at
  BY <1>2, <1>3 DEF RenewRow
<1> HIDE DEF r
<1>6. RowMoves(k) /\ row'[k] = r
  BY <1>4, <1>5, RowIsSet DEF GatesInv
<1>7. CASE row'[k] = row[k]
  <2>1. row' = row
    BY <1>6, <1>7, TypeParts DEF GatesInv, RowMoves
  <2>2. RowsInOrder' /\ PolicyAgrees'
    BY <1>1, <2>1, RenewVarsStay DEF renewVars
  <2>3. ClearInFlight' = ClearInFlight
    BY <1>1 DEF ClearInFlight
  <2>4. ClearExcludesRenew'
    BY <2>1, <2>3 DEF GatesInv, ClearExcludesRenew
  <2>5. TypeOK'
    BY <1>1, <2>1 DEF GatesInv, TypeOK
  <2>6. ASSUME NEW j \in Cycles PROVE RowAgrees(j)'
    <3>1. row[j].at = "rotation" => ~ClearInFlight'
      BY <2>3 DEF GatesInv, RowAgrees
    <3>2. row[j].at = "clear_open" => row[j].writes = 0
      BY <1>1, WriteOpens
    <3> QED  BY <1>1, <2>1, <3>1, <3>2, RowStays
  <2> HIDE DEF o
  <2>7. ClearsAgree' /\ PromptsAgree' /\ RenewsAgree' /\ FiredAgree'
    BY <1>1, <2>1, WriteOpensAgree
  <2> QED  BY <2>2, <2>4, <2>5, <2>6, <2>7 DEF GatesInv
<1>8. CASE row'[k] # row[k]
  <2>1. row[k].ask = "open"
    <3> SUFFICES ASSUME row[k].ask # "open" PROVE FALSE
      OBVIOUS
    <3>1. [row[k] EXCEPT !.ask = row[k].ask] = row[k]
      BY <1>2 DEF RenewRow
    <3> QED  BY <3>1, <1>6, <1>8 DEF r, a
  <2>2. row[k].phase \in {"preparing", "timed_out"}
    BY <2>1 DEF GatesInv, RowAgrees, OpenAsk
  <2>3. RowsInOrder' /\ PolicyAgrees'
    <3>1. Live(k)' <=> Live(k)
      BY <1>5, <1>6 DEF Live
    <3> QED  BY <1>1, <1>5, <1>6, <2>2, <3>1, RowKept
  <2>4. ClearInFlight' = ClearInFlight
    BY <1>1 DEF ClearInFlight
  <2>5. ClearExcludesRenew'
    BY <1>5, <1>6, <2>4 DEF GatesInv, ClearExcludesRenew, RowMoves
  <2>6. TypeOK'
    BY <1>1, <1>6 DEF GatesInv, TypeOK, RowMoves
  <2>7. ASSUME NEW j \in Cycles PROVE RowAgrees(j)'
    <3>1. row[j].at = "rotation" => ~ClearInFlight'
      BY <2>4 DEF GatesInv, RowAgrees
    <3>2. row[j].at = "clear_open" => row[j].writes = 0
      BY <1>1, WriteOpens
    <3>3. CASE j # k
      <4>1. row'[j] = row[j]
        BY <3>3, <1>6 DEF RowMoves
      <4> QED  BY <1>1, <4>1, <3>1, <3>2, RowStays
    <3>4. CASE j = k
      BY <3>4, <3>1, <3>2, <1>1, <1>5, <1>6, <2>2 DEF GatesInv, RowAgrees
    <3> QED  BY <3>3, <3>4
  <2> HIDE DEF o
  <2>8. \A j \in Cycles : row'[j].at = row[j].at /\ row'[j].phase = row[j].phase
                          /\ row'[j].writes = row[j].writes
    BY <1>5, <1>6 DEF RowMoves
  <2>9. ClearsAgree' /\ PromptsAgree' /\ RenewsAgree' /\ FiredAgree'
    BY <1>1, <2>8, WriteOpensAgree
  <2> QED  BY <2>3, <2>5, <2>6, <2>7, <2>9 DEF GatesInv
<1> QED  BY <1>7, <1>8

LEMMA BeginRenewPrepareKeeps ==
    ASSUME GatesInv, NEW k \in Cycles, BeginRenewPrepare(k)
    PROVE  GatesInv'
<1> DEFINE o == <<"prepare", k>>
           r == [[row[k] EXCEPT !.phase = "preparing"] EXCEPT !.ask = "open"]
<1>1. /\ ~ClearInFlight /\ row[k].phase = "scheduled" /\ row[k].at = "none"
      /\ row' = [row EXCEPT ![k] = MarkRenewPreparing(@)] /\ o \in Owners /\ Park(o)
      /\ prompt' = prompt /\ due' = due /\ clear' = clear /\ ready' = ready /\ policy' = policy
      /\ UNCHANGED <<timing, live, recorded, unproven, spacing, crashes>>
  BY DEF BeginRenewPrepare, MayPrepare, ActionableRenew, Owners, agentVars, clearVars, promptVars
<1>2. row[k] \in RenewRow
  BY RowType DEF GatesInv
<1>3. row' = [row EXCEPT ![k] = r]
  BY <1>1 DEF MarkRenewPreparing
<1>4. /\ r \in RenewRow /\ r.ask = "open" /\ r.phase = "preparing"
      /\ r.every = row[k].every /\ r.writes = row[k].writes
      /\ r.step = row[k].step /\ r.at = row[k].at
  BY <1>2 DEF RenewRow, Phase, Active, OpenAsk
<1> HIDE DEF r
<1>5. RowMoves(k) /\ row'[k] = r
  BY <1>3, <1>4, RowIsSet DEF GatesInv
<1>6. RowsInOrder' /\ PolicyAgrees'
  <2>1. Live(k)' <=> Live(k)
    BY <1>1, <1>4, <1>5 DEF Live, Settled
  <2> QED  BY <1>1, <1>4, <1>5, <2>1, RowKept
<1>7. ~ClearInFlight'
  BY <1>1 DEF ClearInFlight
<1>8. ClearExcludesRenew'
  BY <1>7 DEF ClearExcludesRenew
<1>9./\ lane' \in Seq(Owners) /\ sent' = sent
     /\ lane # <<>> => lane' # <<>> /\ Head(lane') = Head(lane)
  BY <1>1, LaneParks, TypeParts DEF GatesInv, Park
<1>10. TypeOK'
  BY <1>1, <1>5, <1>9 DEF GatesInv, TypeOK, RowMoves
<1>11. ASSUME NEW j \in Cycles PROVE RowAgrees(j)'
  <2>1. CASE j # k
    <3>1. row'[j] = row[j]
      BY <2>1, <1>5 DEF RowMoves
    <3>2. row[j].at = "clear_open" /\ row[j].writes # 0 => Holds(<<"renew", j>>)' /\ sent'
      BY <1>9 DEF GatesInv, RowAgrees, Holds
    <3> QED  BY <1>1, <1>7, <3>1, <3>2, RowStays
  <2>2. CASE j = k
    BY <2>2, <1>1, <1>4, <1>5 DEF GatesInv, RowAgrees
  <2> QED  BY <2>1, <2>2
<1>12. \A p \in Prompts : o # <<"prompt", p>>
  OBVIOUS
<1>13. \A c \in Clears : o # <<"clear", c>>
  OBVIOUS
<1>14. \A j \in Cycles : o # <<"renew", j>>
  OBVIOUS
<1> HIDE DEF o
<1>15. \A j \in Cycles : /\ row'[j].at = row[j].at /\ row'[j].writes = row[j].writes
                         /\ row'[j].phase = "clearing" => row[j].phase = "clearing"
  BY <1>4, <1>5 DEF RowMoves
<1>16. ClearsAgree' /\ PromptsAgree' /\ RenewsAgree' /\ FiredAgree'
  BY <1>1, <1>12, <1>13, <1>14, <1>15, WriteParks
<1> QED  BY <1>6, <1>8, <1>10, <1>11, <1>16 DEF GatesInv

----------------------------------------------------------------------------
(* Clear.                                                                   *)

\* Everything a step of a clear may change besides its row.
ClearTypes ==
    /\ recorded' \in Sessions /\ unproven' \subseteq Clears /\ spacing' \in BOOLEAN
    /\ due' \in [Prompts -> {"later", "gap", "now"}]
    /\ lane' \in Seq(Owners) /\ sent' \in BOOLEAN

\* What a step of a clear leaves alone.
ClearRest == <<timing, live, ready, prompt, row, policy, crashes>>

LEMMA ClearType ==
    ASSUME TypeOK, UNCHANGED ClearRest, ClearTypes, clear' \in [Clears -> ClearRow]
    PROVE  TypeOK'
BY DEF TypeOK, ClearRest, ClearTypes

LEMMA ClearMoves ==
    ASSUME TypeOK, NEW c \in Clears, NEW r \in ClearRow, clear' = [clear EXCEPT ![c] = r]
    PROVE  /\ clear' \in [Clears -> ClearRow]
           /\ clear'[c] = r /\ \A d \in Clears : d # c => clear'[d] = clear[d]
BY DEF TypeOK

LEMMA ClearRowType == ASSUME TypeOK, NEW c \in Clears PROVE clear[c] \in ClearRow
BY DEF TypeOK

\* A clear's row as a step may leave it: what was attempted stays attempted, and no
\* operation is opened.
ClearGoesTo(c, r) ==
    /\ r \in ClearRow /\ clear' = [clear EXCEPT ![c] = r]
    /\ r.op = "pending" => Pending(c)
    /\ r.attempted = clear[c].attempted

\* A step of a clear that is not in the lane.
LEMMA ClearSteps ==
    ASSUME GatesInv, NEW c \in Clears, NEW r, ClearGoesTo(c, r),
           clear[c].at \notin {"sending", "sent"},
           r.at \in {"none", "settling", "probe", "sending"} => ~clear[c].attempted,
           UNCHANGED ClearRest, ClearTypes, UNCHANGED paneVars
    PROVE  GatesInv'
<1>1. /\ clear' \in [Clears -> ClearRow]
      /\ clear'[c] = r /\ \A d \in Clears : d # c => clear'[d] = clear[d]
  BY ClearMoves DEF GatesInv, ClearGoesTo
<1>2. TypeOK'
  BY <1>1, ClearType DEF GatesInv
<1>3. ClearSafe(c)
  BY <1>1 DEF ClearSafe, ClearGoesTo, Pending
<1>4. UNCHANGED renewVars /\ ready' = ready /\ prompt' = prompt
  BY DEF ClearRest, renewVars
<1> QED  BY <1>1, <1>2, <1>3, <1>4, LaneRests

\* A clear's write leaves the pane.
LEMMA ClearLeaves ==
    ASSUME GatesInv, NEW c \in Clears, NEW r, ClearGoesTo(c, r), r.at \in {"rotation", "answered"},
           Holds(<<"clear", c>>), Release, UNCHANGED ClearRest, ClearTypes
    PROVE  GatesInv'
<1> DEFINE o == <<"clear", c>>
<1>1. /\ clear' \in [Clears -> ClearRow]
      /\ clear'[c] = r /\ \A d \in Clears : d # c => clear'[d] = clear[d]
  BY ClearMoves DEF GatesInv, ClearGoesTo
<1>2. TypeOK'
  BY <1>1, ClearType DEF GatesInv
<1>3. UNCHANGED renewVars /\ ready' = ready /\ prompt' = prompt /\ row' = row
  BY DEF ClearRest, renewVars
<1>4. \A d \in Clears : Pending(d)' => Pending(d)
  BY <1>1 DEF ClearGoesTo, Pending
<1>5. ClearInFlight' => ClearInFlight
  BY <1>4 DEF ClearInFlight, Pending
<1>6. ClearExcludesRenew'
  BY <1>3, <1>5 DEF GatesInv, ClearExcludesRenew
<1>7. o \in Owners /\ Holds(o) /\ \A k \in Cycles : o # <<"renew", k>>
  BY DEF Owners
<1>8. \A d \in Clears : \/ clear'[d] = clear[d]
                        \/ /\ Pending(d)' => Pending(d)
                           /\ clear'[d].attempted = clear[d].attempted
                           /\ clear'[d].at \notin {"none", "settling", "probe", "sending"}
                           /\ o = <<"clear", d>>
  BY <1>1, <1>4 DEF ClearGoesTo
<1> HIDE DEF o
<1>9. \A k \in Cycles : RowAgrees(k)'
  BY <1>3, <1>5, <1>7, RowsAfterRelease
<1>10. ClearsAgree' /\ PromptsAgree' /\ RenewsAgree' /\ FiredAgree'
  BY <1>3, <1>7, <1>8, WriteLeaves
<1> QED  BY <1>2, <1>3, <1>6, <1>9, <1>10, RenewVarsStay DEF GatesInv

\* Only the place of a clear changes.
LEMMA ClearAt ==
    ASSUME TypeOK, NEW c \in Clears,
           NEW a \in {"none", "settling", "probe", "sending", "sent", "rotation", "answered"},
           clear' = [clear EXCEPT ![c].at = a]
    PROVE  ClearGoesTo(c, [clear[c] EXCEPT !.at = a]) /\ [clear[c] EXCEPT !.at = a].at = a
<1> DEFINE r == [clear[c] EXCEPT !.at = a]
<1>1. clear[c] \in ClearRow
  BY ClearRowType
<1>2. r \in ClearRow /\ r.at = a /\ r.op = clear[c].op /\ r.attempted = clear[c].attempted
  BY <1>1 DEF ClearRow
<1>3. clear' = [clear EXCEPT ![c] = r]
  OBVIOUS
<1> HIDE DEF r
<1>4. ClearGoesTo(c, r) /\ r.at = a
  BY <1>2, <1>3 DEF ClearGoesTo, Pending
<1> QED  BY <1>4 DEF r

\* The operation is closed.
LEMMA ClearCloses ==
    ASSUME TypeOK, NEW c \in Clears, NEW a \in {"rotation", "answered"},
           NEW op \in {"succeeded", "failed", "unknown"},
           clear' = [clear EXCEPT ![c].op = op, ![c].at = a]
    PROVE  /\ ClearGoesTo(c, [[clear[c] EXCEPT !.op = op] EXCEPT !.at = a])
           /\ [[clear[c] EXCEPT !.op = op] EXCEPT !.at = a].at = a
<1> DEFINE r == [[clear[c] EXCEPT !.op = op] EXCEPT !.at = a]
<1>1. clear[c] \in ClearRow
  BY ClearRowType
<1>2. r \in ClearRow /\ r.at = a /\ r.op = op /\ r.attempted = clear[c].attempted
  BY <1>1 DEF ClearRow
<1>3. clear' = [clear EXCEPT ![c] = r]
  BY TypeParts
<1> HIDE DEF r
<1>4. ClearGoesTo(c, r) /\ r.at = a
  BY <1>2, <1>3 DEF ClearGoesTo
<1> QED  BY <1>4 DEF r

LEMMA BeginClearKeeps ==
    ASSUME GatesInv, NEW c \in Clears, BeginClear(c)
    PROVE  GatesInv'
<1> DEFINE a == "settling"
<1>1. /\ clear[c].at = "none" /\ clear' = [clear EXCEPT ![c].at = a]
      /\ UNCHANGED paneVars /\ UNCHANGED ClearRest
      /\ UNCHANGED <<recorded, unproven, spacing, due>>
  BY DEF BeginClear, ClearRest, agentVars, renewVars, promptVars
<1>2. ClearTypes
  BY <1>1 DEF GatesInv, TypeOK, ClearTypes, paneVars
<1>3. a \in {"none", "settling", "probe", "sending", "sent", "rotation", "answered"}
  OBVIOUS
<1> HIDE DEF a
<1> DEFINE r == [clear[c] EXCEPT !.at = a]
<1>4. ClearGoesTo(c, r)
  BY <1>1, <1>3, ClearAt DEF GatesInv
<1> HIDE DEF r
<1>5. ~clear[c].attempted
  BY <1>1 DEF GatesInv, ClearsAgree
<1> QED  BY <1>1, <1>2, <1>4, <1>5, ClearSteps

LEMMA AdvanceAwaitingClearKeeps ==
    ASSUME GatesInv, NEW c \in Clears, AdvanceAwaitingClear(c)
    PROVE  GatesInv'
<1> DEFINE places == {"none", "settling", "probe", "sending", "sent", "rotation", "answered"}
<1>1. /\ clear[c].at = "settling"
      /\ UNCHANGED paneVars /\ UNCHANGED ClearRest
      /\ UNCHANGED <<recorded, unproven, spacing, due>>
  BY DEF AdvanceAwaitingClear, ClearRest, agentVars, renewVars, promptVars
<1>2. ClearTypes
  BY <1>1 DEF GatesInv, TypeOK, ClearTypes, paneVars
<1>3. ~clear[c].attempted
  BY <1>1 DEF GatesInv, ClearsAgree
<1>4. ASSUME NEW a \in places, clear' = [clear EXCEPT ![c].at = a] PROVE GatesInv'
  <2> DEFINE r == [clear[c] EXCEPT !.at = a]
  <2>1. ClearGoesTo(c, r)
    BY <1>4, ClearAt DEF GatesInv
  <2> HIDE DEF r
  <2> QED  BY <1>1, <1>2, <1>3, <2>1, ClearSteps
<1>5. "probe" \in places /\ "answered" \in places
  OBVIOUS
<1>6. clear' = [clear EXCEPT ![c].at = "probe"] \/ clear' = [clear EXCEPT ![c].at = "answered"]
  BY DEF AdvanceAwaitingClear, StartClearProbe, FailClear
<1> HIDE DEF places
<1> QED  BY <1>4, <1>5, <1>6

LEMMA OnClearProbeKeeps ==
    ASSUME GatesInv, NEW c \in Clears, OnClearProbe(c)
    PROVE  GatesInv'
<1>1. /\ clear[c].at = "probe" /\ UNCHANGED ClearRest
      /\ UNCHANGED <<recorded, unproven, spacing, due>>
  BY DEF OnClearProbe, ClearRest, agentVars, renewVars, promptVars
<1>2. \/ /\ ValidateClearTarget /\ Park(<<"clear", c>>)
         /\ clear' = [clear EXCEPT ![c].op = "pending", ![c].pre = live, ![c].at = "sending"]
      \/ clear' = [clear EXCEPT ![c].at = "answered"] /\ UNCHANGED paneVars
  BY DEF OnClearProbe, BeginClearAfterProbe, CreateClear, PreparedClear, FailClear
<1>3. ~clear[c].attempted
  BY <1>1 DEF GatesInv, ClearsAgree
<1>4. CASE clear' = [clear EXCEPT ![c].at = "answered"] /\ UNCHANGED paneVars
  <2> DEFINE a == "answered"
  <2>1. a \in {"none", "settling", "probe", "sending", "sent", "rotation", "answered"}
        /\ clear' = [clear EXCEPT ![c].at = a]
    BY <1>4
  <2> HIDE DEF a
  <2> DEFINE r == [clear[c] EXCEPT !.at = a]
  <2>2. ClearGoesTo(c, r)
    BY <2>1, ClearAt DEF GatesInv
  <2> HIDE DEF r
  <2>3. ClearTypes
    BY <1>1, <1>4 DEF GatesInv, TypeOK, ClearTypes, paneVars
  <2> QED  BY <1>1, <1>3, <1>4, <2>2, <2>3, ClearSteps
<1>5. CASE /\ ValidateClearTarget /\ Park(<<"clear", c>>)
           /\ clear' = [clear EXCEPT ![c].op = "pending", ![c].pre = live, ![c].at = "sending"]
  <2> DEFINE o == <<"clear", c>>
             r == [[[clear[c] EXCEPT !.op = "pending"] EXCEPT !.pre = live] EXCEPT !.at = "sending"]
  <2>1. /\ ready /\ ~ClearInFlight /\ \A k \in Cycles : row[k].phase \notin Active
    BY <1>5 DEF ValidateClearTarget
  <2>2. clear[c] \in ClearRow /\ live \in Sessions
    BY ClearRowType, TypeParts DEF GatesInv
  <2>3. /\ r \in ClearRow /\ r.op = "pending" /\ r.at = "sending"
        /\ r.attempted = clear[c].attempted
    BY <2>2 DEF ClearRow
  <2>4. clear' = [clear EXCEPT ![c] = r]
    BY <1>5, TypeParts DEF GatesInv
  <2> HIDE DEF r
  <2>5. /\ clear' \in [Clears -> ClearRow]
        /\ clear'[c] = r /\ \A d \in Clears : d # c => clear'[d] = clear[d]
    BY <2>3, <2>4, ClearMoves DEF GatesInv
  <2>6. o \in Owners /\ Park(o)
    BY <1>5 DEF Owners
  <2>7. lane' \in Seq(Owners) /\ sent' = sent
        /\ (lane # <<>> => lane' # <<>> /\ Head(lane') = Head(lane))
    BY <2>6, LaneParks, TypeParts DEF GatesInv, Park
  <2>8. TypeOK'
    <3>1. ClearTypes
      BY <1>1, <2>7 DEF GatesInv, TypeOK, ClearTypes
    <3> QED  BY <1>1, <2>5, <3>1, ClearType DEF GatesInv
  <2>9. row' = row /\ ready' = ready /\ prompt' = prompt /\ UNCHANGED renewVars
    BY <1>1 DEF ClearRest, renewVars
  <2>10. ClearExcludesRenew'
    BY <2>1, <2>9 DEF ClearExcludesRenew
  <2>11. ASSUME NEW k \in Cycles PROVE RowAgrees(k)'
    <3>1. row[k].at # "rotation"
      BY <2>1 DEF GatesInv, RowAgrees, Active
    <3>2. row[k].at = "clear_open" /\ row[k].writes # 0 => Holds(<<"renew", k>>)' /\ sent'
      BY <2>7 DEF GatesInv, RowAgrees, Holds
    <3> QED  BY <2>9, <3>1, <3>2, RowStays
  <2>12. \A d \in Clears : IF o = <<"clear", d>>
                           THEN Pending(d)' /\ clear'[d].at = "sending" /\ ~clear'[d].attempted
                           ELSE clear'[d] = clear[d]
    BY <1>3, <2>3, <2>5 DEF Pending
  <2>13. \A p \in Prompts : o # <<"prompt", p>>
    OBVIOUS
  <2>14. \A k \in Cycles : o # <<"renew", k>>
    OBVIOUS
  <2> HIDE DEF o
  <2>15. ClearsAgree' /\ PromptsAgree' /\ RenewsAgree' /\ FiredAgree'
    BY <2>1, <2>6, <2>9, <2>12, <2>13, <2>14, WriteParks
  <2> QED  BY <2>8, <2>9, <2>10, <2>11, <2>15, RenewVarsStay DEF GatesInv
<1> QED  BY <1>2, <1>4, <1>5

LEMMA OnClearOpenedKeeps ==
    ASSUME GatesInv, NEW c \in Clears, OnClearOpened(c)
    PROVE  GatesInv'
<1> DEFINE o == <<"clear", c>>
           r == [[clear[c] EXCEPT !.at = "sent"] EXCEPT !.attempted = TRUE]
<1>1. /\ o \in Owners /\ Holds(o) /\ ~sent /\ sent' = TRUE /\ lane' = lane
      /\ clear' = [clear EXCEPT ![c].at = "sent", ![c].attempted = TRUE]
      /\ UNCHANGED ClearRest /\ UNCHANGED <<recorded, unproven, spacing, due>>
  BY DEF OnClearOpened, CommitClearIntent, ClearRest, agentVars, renewVars, promptVars, Owners
<1>2. clear[c] \in ClearRow
  BY ClearRowType DEF GatesInv
<1>3. r \in ClearRow /\ r.at = "sent" /\ r.op = clear[c].op
  BY <1>2 DEF ClearRow
<1>4. clear' = [clear EXCEPT ![c] = r]
  BY <1>1, TypeParts DEF GatesInv
<1> HIDE DEF r
<1>5. /\ clear' \in [Clears -> ClearRow]
      /\ clear'[c] = r /\ \A d \in Clears : d # c => clear'[d] = clear[d]
  BY <1>3, <1>4, ClearMoves DEF GatesInv
<1>6. TypeOK'
  <2>1. ClearTypes
    BY <1>1 DEF GatesInv, TypeOK, ClearTypes
  <2> QED  BY <1>1, <1>5, <2>1, ClearType DEF GatesInv
<1>7. row' = row /\ ready' = ready /\ prompt' = prompt /\ UNCHANGED renewVars
  BY <1>1 DEF ClearRest, renewVars
<1>8. \A d \in Clears : Pending(d)' <=> Pending(d)
  BY <1>3, <1>5 DEF Pending
<1>9. ClearInFlight' = ClearInFlight
  BY <1>8 DEF ClearInFlight, Pending
<1>10. ClearExcludesRenew'
  BY <1>7, <1>9 DEF GatesInv, ClearExcludesRenew
<1>11. ASSUME NEW k \in Cycles PROVE RowAgrees(k)'
  <2>1. row[k].at = "rotation" => ~ClearInFlight'
    BY <1>9 DEF GatesInv, RowAgrees
  <2>2. row[k].at = "clear_open" => row[k].writes = 0
    BY <1>1, WriteOpens
  <2> QED  BY <1>7, <2>1, <2>2, RowStays
<1>12. \A d \in Clears : \/ clear'[d] = clear[d]
                         \/ o = <<"clear", d>> /\ clear'[d].at = "sent" /\ Pending(d)' = Pending(d)
  <2>1. Pending(c)' = Pending(c)
    BY <1>3, <1>5 DEF Pending
  <2> QED  BY <1>3, <1>5, <2>1
<1> HIDE DEF o
<1>13. ClearsAgree' /\ PromptsAgree' /\ RenewsAgree' /\ FiredAgree'
  BY <1>1, <1>7, <1>12, WriteOpensAgree
<1> QED  BY <1>6, <1>7, <1>10, <1>11, <1>13, RenewVarsStay DEF GatesInv

LEMMA PostponedType == ASSUME TypeOK PROVE Postponed \in [Prompts -> {"later", "gap", "now"}]
BY DEF TypeOK, Postponed

\* The rest of the state after an outcome was recorded.
LEMMA OutcomeTypes ==
    ASSUME GatesInv, NEW c \in Clears,
           recorded' = live \/ recorded' = recorded,
           unproven' = {} \/ unproven' = unproven \/ unproven' = unproven \cup {c},
           \/ spacing' = TRUE /\ due' = Postponed
           \/ UNCHANGED <<spacing, due>>,
           lane' \in Seq(Owners) /\ sent' \in BOOLEAN
    PROVE  ClearTypes
<1>1. due' \in [Prompts -> {"later", "gap", "now"}] /\ spacing' \in BOOLEAN
  BY PostponedType DEF GatesInv, TypeOK
<1>2. recorded' \in Sessions /\ unproven' \subseteq Clears
  BY DEF GatesInv, TypeOK
<1> QED  BY <1>1, <1>2 DEF ClearTypes

LEMMA OnClearCommandKeeps ==
    ASSUME GatesInv, NEW c \in Clears, OnClearCommand(c)
    PROVE  GatesInv'
<1>1. /\ Holds(<<"clear", c>>) /\ Release /\ ApplyClearCommandResult(c)
      /\ UNCHANGED <<timing, live, ready, prompt, row, policy, crashes>>
  BY DEF OnClearCommand, renewVars
<1>2. UNCHANGED ClearRest
  BY <1>1 DEF ClearRest
<1>3. ClearTypes
  <2>1. lane \in Seq(Owners) /\ lane # <<>> /\ lane' = Tail(lane) /\ sent' = FALSE
    BY <1>1, TypeParts DEF GatesInv, Release, Holds
  <2>2. lane' \in Seq(Owners) /\ sent' \in BOOLEAN
    BY <2>1, LaneReleases
  <2>3. /\ recorded' = live \/ recorded' = recorded
        /\ unproven' = {} \/ unproven' = unproven \/ unproven' = unproven \cup {c}
        /\ \/ spacing' = TRUE /\ due' = Postponed
           \/ UNCHANGED <<spacing, due>>
    BY <1>1 DEF ApplyClearCommandResult, FinishClear, CompleteClear, MarkRejected, MarkClearUnknown
  <2> QED  BY <2>2, <2>3, OutcomeTypes
<1> DEFINE ends == {"rotation", "answered"}
           ops == {"succeeded", "failed", "unknown"}
<1>4. ASSUME NEW op \in ops, NEW a \in ends,
             clear' = [clear EXCEPT ![c].op = op, ![c].at = a]
      PROVE  GatesInv'
  <2> DEFINE r == [[clear[c] EXCEPT !.op = op] EXCEPT !.at = a]
  <2>1. ClearGoesTo(c, r) /\ r.at = a
    BY <1>4, ClearCloses DEF GatesInv
  <2> HIDE DEF r
  <2> QED  BY <1>1, <1>2, <1>3, <2>1, ClearLeaves
<1>5. ASSUME NEW a \in ends, clear' = [clear EXCEPT ![c].at = a]
      PROVE  GatesInv'
  <2> DEFINE r == [clear[c] EXCEPT !.at = a]
  <2>1. ClearGoesTo(c, r) /\ r.at = a
    <3>1. a \in {"none", "settling", "probe", "sending", "sent", "rotation", "answered"}
      OBVIOUS
    <3> QED  BY <1>5, <3>1, ClearAt DEF GatesInv
  <2> HIDE DEF r
  <2> QED  BY <1>1, <1>2, <1>3, <2>1, ClearLeaves
<1>6. /\ "rotation" \in ends /\ "answered" \in ends
      /\ "succeeded" \in ops /\ "failed" \in ops /\ "unknown" \in ops
  OBVIOUS
<1>7. \/ clear' = [clear EXCEPT ![c].op = "succeeded", ![c].at = "answered"]
      \/ clear' = [clear EXCEPT ![c].op = "failed", ![c].at = "answered"]
      \/ clear' = [clear EXCEPT ![c].op = "unknown", ![c].at = "answered"]
      \/ clear' = [clear EXCEPT ![c].at = "rotation"]
      \/ clear' = [clear EXCEPT ![c].at = "answered"]
  BY <1>1 DEF ApplyClearCommandResult, FinishClear, CompleteClear, MarkRejected, MarkClearUnknown
<1> HIDE DEF ends, ops
<1> QED  BY <1>4, <1>5, <1>6, <1>7

LEMMA OnClearRotationKeeps ==
    ASSUME GatesInv, NEW c \in Clears, OnClearRotation(c)
    PROVE  GatesInv'
<1>1. /\ clear[c].at = "rotation" /\ ApplyClearRotationObservation(c)
      /\ UNCHANGED <<timing, live, ready, prompt, row, policy, crashes>> /\ UNCHANGED paneVars
  BY DEF OnClearRotation, RotationAsked, renewVars
<1>2. UNCHANGED ClearRest
  BY <1>1 DEF ClearRest
<1>3. ClearTypes
  <2>1. lane' \in Seq(Owners) /\ sent' \in BOOLEAN
    BY <1>1 DEF GatesInv, TypeOK, paneVars
  <2>2. /\ recorded' = live \/ recorded' = recorded
        /\ unproven' = {} \/ unproven' = unproven \/ unproven' = unproven \cup {c}
        /\ \/ spacing' = TRUE /\ due' = Postponed
           \/ UNCHANGED <<spacing, due>>
    BY <1>1 DEF ApplyClearRotationObservation, FinishClear, CompleteClear, MarkClearUnknown
  <2> QED  BY <2>1, <2>2, OutcomeTypes
<1> DEFINE ends == {"rotation", "answered"}
           ops == {"succeeded", "failed", "unknown"}
<1>4. ASSUME NEW op \in ops, NEW a \in ends,
             clear' = [clear EXCEPT ![c].op = op, ![c].at = a]
      PROVE  GatesInv'
  <2> DEFINE r == [[clear[c] EXCEPT !.op = op] EXCEPT !.at = a]
  <2>1. ClearGoesTo(c, r) /\ r.at = a
    BY <1>4, ClearCloses DEF GatesInv
  <2> HIDE DEF r
  <2> QED  BY <1>1, <1>2, <1>3, <2>1, ClearSteps
<1>5. /\ "rotation" \in ends /\ "answered" \in ends /\ "succeeded" \in ops /\ "unknown" \in ops
  OBVIOUS
<1>6. \/ clear' = [clear EXCEPT ![c].op = "succeeded", ![c].at = "answered"]
      \/ clear' = [clear EXCEPT ![c].op = "unknown", ![c].at = "rotation"]
  BY <1>1 DEF ApplyClearRotationObservation, FinishClear, CompleteClear, MarkClearUnknown
<1> HIDE DEF ends, ops
<1> QED  BY <1>4, <1>5, <1>6

LEMMA FailParkedClearKeeps ==
    ASSUME GatesInv, NEW c \in Clears, FailParkedClear(c)
    PROVE  GatesInv'
<1> DEFINE a == "answered"
           r == [clear[c] EXCEPT !.at = a]
<1>1. /\ \/ clear[c].at = "probe" /\ UNCHANGED paneVars
         \/ Holds(<<"clear", c>>) /\ Release
      /\ clear' = [clear EXCEPT ![c].at = a]
      /\ UNCHANGED ClearRest
      /\ UNCHANGED <<recorded, unproven, spacing, due>>
  BY DEF FailParkedClear, FailClear, ClearRest, agentVars, renewVars, promptVars
<1>2./\  a \in {"none", "settling", "probe", "sending", "sent", "rotation", "answered"}
     /\ a = "answered"
  OBVIOUS
<1> HIDE DEF a
<1>3. ClearGoesTo(c, r) /\ r.at = a
  BY <1>1, <1>2, ClearAt DEF GatesInv
<1> HIDE DEF r
<1>4. CASE clear[c].at = "probe" /\ UNCHANGED paneVars
  <2>1. ClearTypes
    BY <1>1, <1>4 DEF GatesInv, TypeOK, ClearTypes, paneVars
  <2>2. ~clear[c].attempted
    BY <1>4 DEF GatesInv, ClearsAgree
  <2> QED  BY <1>1, <1>3, <1>4, <2>1, <2>2, ClearSteps
<1>5. CASE Holds(<<"clear", c>>) /\ Release
  <2>1. lane \in Seq(Owners) /\ lane # <<>> /\ lane' = Tail(lane) /\ sent' = FALSE
    BY <1>5, TypeParts DEF GatesInv, Release, Holds
  <2>2. lane' \in Seq(Owners) /\ sent' \in BOOLEAN
    BY <2>1, LaneReleases
  <2>3. ClearTypes
    BY <1>1, <2>2 DEF GatesInv, TypeOK, ClearTypes
  <2> QED  BY <1>1, <1>2, <1>3, <1>5, <2>3, ClearLeaves
<1> QED  BY <1>1, <1>4, <1>5

----------------------------------------------------------------------------
(* Renew: the writes.                                                       *)

\* What a write of a renew leaves alone.
RenewRest == <<timing, live, ready, clear, unproven, spacing, prompt, due, policy, crashes>>

LEMMA RenewType ==
    ASSUME TypeOK, UNCHANGED RenewRest, row' \in [Cycles -> RenewRow], recorded' \in Sessions,
           lane' \in Seq(Owners), sent' \in BOOLEAN
    PROVE  TypeOK'
BY DEF TypeOK, RenewRest

LEMMA RenewFrame ==
    ASSUME GatesInv, NEW k \in Cycles, NEW r \in RenewRow, row' = [row EXCEPT ![k] = r],
           UNCHANGED RenewRest, row[k].phase # "none",
           r.phase = row[k].phase \/ {r.phase, row[k].phase} \subseteq Active,
           r.every = row[k].every
    PROVE  /\ RowMoves(k) /\ row'[k] = r
           /\ RowsInOrder' /\ PolicyAgrees' /\ ClearExcludesRenew'
           /\ ClearInFlight' = ClearInFlight
           /\ prompt' = prompt /\ clear' = clear /\ ready' = ready
<1>1. RowMoves(k) /\ row'[k] = r
  BY RowIsSet DEF GatesInv
<1>2. prompt' = prompt /\ clear' = clear /\ ready' = ready /\ policy' = policy
  BY DEF RenewRest
<1>3. ClearInFlight' = ClearInFlight
  BY <1>2 DEF ClearInFlight
<1>4. r.phase # "none" /\ (Live(k)' <=> Live(k))
  BY <1>1 DEF Live, Active, Settled
<1>5. RowsInOrder' /\ PolicyAgrees'
  BY <1>1, <1>2, <1>4, RowKept
<1>6. ClearExcludesRenew'
  BY <1>1, <1>3 DEF GatesInv, ClearExcludesRenew, RowMoves
<1> QED  BY <1>1, <1>2, <1>3, <1>5, <1>6

\* A renew's write leaves the pane, and the row is set aside.
LEMMA RenewLeaves ==
    ASSUME GatesInv, NEW k \in Cycles, Holds(<<"renew", k>>), Release,
           NEW r \in RenewRow, row' = [row EXCEPT ![k] = r], r.at = "none",
           \/ r.phase = row[k].phase
           \/ row[k].phase = "clearing" /\ r.phase = "injected",
           r.every = row[k].every, r.writes = row[k].writes, r.ask = row[k].ask,
           r.step = row[k].step \/ (r.step # "none" /\ row[k].step # "none"),
           UNCHANGED RenewRest, recorded' \in Sessions
    PROVE  GatesInv'
<1> DEFINE o == <<"renew", k>>
<1>1. o \in Owners /\ Holds(o) /\ \A j \in Cycles : o = <<"renew", j>> <=> j = k
  BY DEF Owners
<1>2. row[k].phase # "none"
  <2>1. 1 \in DOMAIN lane /\ lane[1] = <<"renew", k>>
    BY LaneHead, TypeParts DEF GatesInv
  <2>2. row[k].at \in {"clear_open", "inject_open"}
    BY <2>1 DEF GatesInv, RenewsAgree
  <2> QED  BY <2>2 DEF GatesInv, RowsInOrder, NewRow
<1>3. r.phase = row[k].phase \/ {r.phase, row[k].phase} \subseteq Active
  BY DEF Active
<1>4. /\ RowMoves(k) /\ row'[k] = r
      /\ RowsInOrder' /\ PolicyAgrees' /\ ClearExcludesRenew'
      /\ ClearInFlight' = ClearInFlight
      /\ prompt' = prompt /\ clear' = clear /\ ready' = ready
  BY <1>2, <1>3, RenewFrame
<1>5. TypeOK'
  <2>1. lane \in Seq(Owners) /\ lane # <<>> /\ lane' = Tail(lane) /\ sent' = FALSE
    BY TypeParts DEF GatesInv, Release, Holds
  <2>2. lane' \in Seq(Owners) /\ sent' \in BOOLEAN
    BY <2>1, LaneReleases
  <2> QED  BY <1>4, <2>2, RenewType DEF GatesInv, RowMoves
<1>6. \A j \in Cycles : \/ row'[j] = row[j]
                        \/ /\ o = <<"renew", j>> /\ row'[j].at # "clear_open"
                           /\ row'[j].phase = "clearing" => row[j].phase = "clearing"
                           /\ row'[j].writes = row[j].writes
  BY <1>1, <1>4 DEF RowMoves
<1> HIDE DEF o
<1>7. ASSUME NEW j \in Cycles PROVE RowAgrees(j)'
  <2>1. CASE j # k
    <3>1. row'[j] = row[j] /\ o # <<"renew", j>>
      BY <2>1, <1>1, <1>4 DEF RowMoves
    <3> QED  BY <1>1, <1>4, <3>1, RowsAfterRelease
  <2>2. CASE j = k
    <3>1. r.ask \in OpenAsk => r.phase \in {"preparing", "timed_out"}
      BY DEF GatesInv, RowAgrees
    <3>2. /\ r.writes <= 1 /\ (r.step = "none" => r.writes = 0)
          /\ r.phase \in {"none", "scheduled", "preparing", "timed_out", "ready"}
                => r.step = "none"
      BY DEF GatesInv, RowAgrees
    <3> QED  BY <2>2, <1>4, <3>1, <3>2 DEF RowAgrees
  <2> QED  BY <2>1, <2>2
<1>8. ClearsAgree' /\ PromptsAgree' /\ RenewsAgree' /\ FiredAgree'
  BY <1>1, <1>4, <1>6, WriteLeaves
<1> QED  BY <1>4, <1>5, <1>7, <1>8 DEF GatesInv

\* A renew's write is parked.
LEMMA RenewParks ==
    ASSUME GatesInv, NEW k \in Cycles, Park(<<"renew", k>>), ~ClearInFlight,
           NEW r \in RenewRow, row' = [row EXCEPT ![k] = r],
           row[k].at \notin Writing, r.at \in Writing, row[k].phase # "none",
           r.phase = row[k].phase \/ {r.phase, row[k].phase} \subseteq Active,
           r.every = row[k].every, r.writes = row[k].writes, r.ask = row[k].ask,
           r.ask \in OpenAsk => r.phase \in {"preparing", "timed_out"},
           r.at = "clear_open" => r.step # "none" /\ r.phase = "clearing" /\ r.writes = 0,
           r.at = "inject_open" => r.step = row[k].step /\ r.phase = row[k].phase,
           UNCHANGED RenewRest, recorded' = recorded
    PROVE  GatesInv'
<1> DEFINE o == <<"renew", k>>
<1>1. /\ o \in Owners /\ Park(o) /\ \A j \in Cycles : o = <<"renew", j>> <=> j = k
      /\ \A p \in Prompts : o # <<"prompt", p>>
      /\ \A c \in Clears : o # <<"clear", c>>
  BY DEF Owners
<1>2. /\ RowMoves(k) /\ row'[k] = r
      /\ RowsInOrder' /\ PolicyAgrees' /\ ClearExcludesRenew'
      /\ ClearInFlight' = ClearInFlight
      /\ prompt' = prompt /\ clear' = clear /\ ready' = ready
  BY RenewFrame
<1>3. lane' \in Seq(Owners) /\ sent' = sent
      /\ (lane # <<>> => lane' # <<>> /\ Head(lane') = Head(lane))
  BY <1>1, LaneParks, TypeParts DEF GatesInv, Park
<1>4. TypeOK'
  <2>1. sent' \in BOOLEAN /\ recorded' \in Sessions
    BY <1>3 DEF GatesInv, TypeOK
  <2> QED  BY <1>2, <1>3, <2>1, RenewType DEF GatesInv, RowMoves
<1>5. r.at \in {"clear_open", "inject_open"}
  BY DEF Writing
<1>6. ASSUME NEW j \in Cycles PROVE RowAgrees(j)'
  <2>1. CASE j # k
    <3>1. row'[j] = row[j]
      BY <2>1, <1>2 DEF RowMoves
    <3>2. row[j].at = "clear_open" /\ row[j].writes # 0 => Holds(<<"renew", j>>)' /\ sent'
      BY <1>3 DEF GatesInv, RowAgrees, Holds
    <3> QED  BY <1>2, <3>1, <3>2, RowStays
  <2>2. CASE j = k
    <3>1. CASE r.at = "clear_open"
      BY <2>2, <3>1, <1>2 DEF RowAgrees
    <3>2. CASE r.at = "inject_open"
      <4>1. /\ r.writes <= 1 /\ (r.step = "none" => r.writes = 0)
            /\ r.phase \in {"none", "scheduled", "preparing", "timed_out", "ready"}
                  => r.step = "none"
        BY <3>2 DEF GatesInv, RowAgrees
      <4> QED  BY <2>2, <3>2, <4>1, <1>2 DEF RowAgrees
    <3> QED  BY <3>1, <3>2, <1>5
  <2> QED  BY <2>1, <2>2
<1>7. \A j \in Cycles : IF o = <<"renew", j>>
                        THEN /\ row[j].at \notin Writing /\ row'[j].at \in Writing
                             /\ row'[j].phase = "clearing" =>
                                   \/ row'[j].writes = 0
                                   \/ /\ row[j].phase = "clearing"
                                      /\ row'[j].writes = row[j].writes
                                      /\ row'[j].at # "clear_open"
                        ELSE /\ row'[j].at = row[j].at /\ row'[j].writes = row[j].writes
                             /\ row'[j].phase = "clearing" => row[j].phase = "clearing"
  <2>1. r.phase = "clearing" =>
            r.writes = 0 \/ (row[k].phase = "clearing" /\ r.at # "clear_open")
    BY <1>5
  <2>2. ASSUME NEW j \in Cycles, j # k PROVE row'[j] = row[j]
    BY <2>2, <1>2 DEF RowMoves
  <2> HIDE DEF o
  <2> QED  BY <1>1, <1>2, <2>1, <2>2
<1> HIDE DEF o
<1>8. ClearsAgree' /\ PromptsAgree' /\ RenewsAgree' /\ FiredAgree'
  BY <1>1, <1>2, <1>7, WriteParks
<1> QED  BY <1>2, <1>4, <1>6, <1>8 DEF GatesInv

LEMMA OnRenewProbeKeeps ==
    ASSUME GatesInv, NEW k \in Cycles, OnRenewProbe(k)
    PROVE  GatesInv'
<1>1. /\ row[k].at = "probe" /\ row[k].at \notin Writing
      /\ UNCHANGED RenewRest /\ recorded' = recorded /\ UNCHANGED <<policy, crashes>>
  BY DEF OnRenewProbe, RenewRest, agentVars, clearVars, promptVars, Writing
<1>2. row[k].phase # "none"
  BY <1>1 DEF GatesInv, RowsInOrder, NewRow
<1>3. row[k] \in RenewRow /\ live \in Sessions /\ recorded \in Sessions
  BY RowType, TypeParts DEF GatesInv
<1>4. CASE row[k].phase = "ready"
  <2> DEFINE r == [[[[[row[k] EXCEPT !.phase = "clearing"] EXCEPT !.pre = live] EXCEPT !.clock = 0]
                        EXCEPT !.step = "submitted"] EXCEPT !.at = "clear_open"]
  <2>1. /\ row' = [row EXCEPT ![k] = RecordRenewClearing(@)]
        /\ Park(<<"renew", k>>)
    BY <1>4 DEF OnRenewProbe, SubmitRenewOpen
  <2>2. RecordRenewClearing(row[k]) = r
    BY <1>3 DEF RecordRenewClearing, SubmitRenewAttempt, MarkRenewClearing, PreparedClear, RenewRow
  <2>3. row' = [row EXCEPT ![k] = r]
    BY <2>1, <2>2
  <2>4. /\ r \in RenewRow /\ r.phase = "clearing" /\ r.step = "submitted" /\ r.at = "clear_open"
        /\ r.every = row[k].every /\ r.writes = row[k].writes /\ r.ask = row[k].ask
    <3> DEFINE q == [[row[k] EXCEPT !.phase = "clearing"] EXCEPT !.pre = live]
               q0 == [q EXCEPT !.clock = 0]
    <3>1. /\ q \in RenewRow /\ q.phase = "clearing"
          /\ q.every = row[k].every /\ q.writes = row[k].writes /\ q.ask = row[k].ask
      BY <1>3 DEF RenewRow, Phase, Active
    <3> HIDE DEF q
    <3>2. /\ q0 \in RenewRow /\ q0.phase = "clearing"
          /\ q0.every = row[k].every /\ q0.writes = row[k].writes /\ q0.ask = row[k].ask
      BY <3>1 DEF RenewRow
    <3>3. r = [[q0 EXCEPT !.step = "submitted"] EXCEPT !.at = "clear_open"]
      BY DEF q
    <3> HIDE DEF q0, r
    <3> QED  BY <3>2, <3>3 DEF RenewRow
  <2> HIDE DEF r
  <2>5. ~ClearInFlight
    BY <1>4 DEF GatesInv, ClearExcludesRenew, Active
  <2>6. row[k].writes = 0 /\ row[k].ask \notin OpenAsk
    BY <1>4 DEF GatesInv, RowAgrees
  <2>7. {r.phase, row[k].phase} \subseteq Active /\ r.at \in Writing
    BY <1>4, <2>4 DEF Active, Writing
  <2> QED  BY <1>1, <1>2, <2>1, <2>3, <2>4, <2>5, <2>6, <2>7, RenewParks
<1>5. CASE row[k].phase # "ready"
  <2> DEFINE a == "none"
  <2>1. /\ row' = [row EXCEPT ![k].at = a] /\ UNCHANGED Elsewhere
        /\ a \in {"none", "probe", "rotation", "confirm"} /\ a # "rotation"
    BY <1>1, <1>5 DEF OnRenewProbe, Elsewhere, agentVars, clearVars, promptVars
  <2> HIDE DEF a
  <2> QED  BY <1>1, <1>2, <1>3, <2>1, RowIsParkedOnly
<1> QED  BY <1>4, <1>5

LEMMA OnRenewRotationKeeps ==
    ASSUME GatesInv, NEW k \in Cycles, OnRenewRotation(k)
    PROVE  GatesInv'
<1>1. /\ row[k].at = "rotation" /\ row[k].at \notin Writing
      /\ UNCHANGED RenewRest /\ recorded' = recorded /\ UNCHANGED <<policy, crashes>>
  BY DEF OnRenewRotation, RenewRest, agentVars, clearVars, promptVars, Writing
<1>2. row[k].phase # "none"
  BY <1>1 DEF GatesInv, RowsInOrder, NewRow
<1>3. row[k] \in RenewRow /\ live \in Sessions /\ recorded \in Sessions
  BY RowType, TypeParts DEF GatesInv
<1>4. CASE RenewInjectDecision(k)
  <2> DEFINE r == [[row[k] EXCEPT !.at = "inject_open"] EXCEPT !.seen = live]
  <2>1. /\ row' = [row EXCEPT ![k].at = "inject_open", ![k].seen = live]
        /\ Park(<<"renew", k>>)
    BY <1>4 DEF OnRenewRotation, SubmitRenewOpen
  <2>2. row' = [row EXCEPT ![k] = r]
    BY <2>1, TypeParts DEF GatesInv
  <2>3. /\ r \in RenewRow /\ r.phase = row[k].phase /\ r.step = row[k].step /\ r.at = "inject_open"
        /\ r.every = row[k].every /\ r.writes = row[k].writes /\ r.ask = row[k].ask
    BY <1>3 DEF RenewRow
  <2> HIDE DEF r
  <2>4. ~ClearInFlight
    BY <1>1 DEF GatesInv, RowAgrees
  <2>5. r.at \in Writing /\ (r.ask \in OpenAsk => r.phase \in {"preparing", "timed_out"})
    BY <2>3 DEF GatesInv, RowAgrees, Writing
  <2> QED  BY <1>1, <1>2, <2>1, <2>2, <2>3, <2>4, <2>5, RenewParks
<1>5. CASE ~RenewInjectDecision(k)
  <2> DEFINE a == "none"
  <2>1. /\ row' = [row EXCEPT ![k].at = a] /\ UNCHANGED Elsewhere
        /\ a \in {"none", "probe", "rotation", "confirm"} /\ a # "rotation"
    BY <1>1, <1>5 DEF OnRenewRotation, Elsewhere, agentVars, clearVars, promptVars
  <2> HIDE DEF a
  <2> QED  BY <1>1, <1>2, <1>3, <2>1, RowIsParkedOnly
<1> QED  BY <1>4, <1>5

LEMMA OnRenewOpenedKeeps ==
    ASSUME GatesInv, NEW k \in Cycles, OnRenewOpened(k)
    PROVE  GatesInv'
<1> DEFINE o == <<"renew", k>>
           w == IF row[k].at = "clear_open" THEN row[k].writes + 1 ELSE row[k].writes
           r == [row[k] EXCEPT !.writes = w]
<1>1. /\ o \in Owners /\ Holds(o) /\ ~sent /\ sent' = TRUE /\ lane' = lane
      /\ row' = [row EXCEPT ![k] = r]
      /\ UNCHANGED RenewRest /\ recorded' = recorded
  BY DEF OnRenewOpened, RenewRest, agentVars, clearVars, promptVars, Owners
<1>2. row[k] \in RenewRow
  BY RowType DEF GatesInv
<1>3. \A j \in Cycles : row[j].at = "clear_open" => row[j].writes = 0
  BY <1>1, WriteOpens
<1>4. /\ w \in 0..2 /\ w <= 1
      /\ row[k].at # "clear_open" => w = row[k].writes
  <2>1. row[k].writes \in 0..2 /\ row[k].writes <= 1
    BY <1>2 DEF GatesInv, RowAgrees, RenewRow
  <2> QED  BY <1>3, <2>1
<1> HIDE DEF w
<1>5. /\ r \in RenewRow /\ r.writes = w /\ r.phase = row[k].phase /\ r.step = row[k].step
      /\ r.at = row[k].at /\ r.every = row[k].every /\ r.ask = row[k].ask
  BY <1>2, <1>4 DEF RenewRow
<1> HIDE DEF r
<1>6. row[k].phase # "none" /\ row[k].at \in {"clear_open", "inject_open"}
  <2>1. 1 \in DOMAIN lane /\ lane[1] = <<"renew", k>>
    BY <1>1, LaneHead, TypeParts DEF GatesInv
  <2>2. row[k].at \in {"clear_open", "inject_open"}
    BY <2>1 DEF GatesInv, RenewsAgree
  <2> QED  BY <2>2 DEF GatesInv, RowsInOrder, NewRow
<1>7. /\ RowMoves(k) /\ row'[k] = r
      /\ RowsInOrder' /\ PolicyAgrees' /\ ClearExcludesRenew'
      /\ ClearInFlight' = ClearInFlight
      /\ prompt' = prompt /\ clear' = clear /\ ready' = ready
  BY <1>1, <1>5, <1>6, RenewFrame
<1>8. TypeOK'
  <2>1. lane' \in Seq(Owners) /\ sent' \in BOOLEAN /\ recorded' \in Sessions
    BY <1>1 DEF GatesInv, TypeOK
  <2> QED  BY <1>1, <1>7, <2>1, RenewType DEF GatesInv, RowMoves
<1>9. Holds(o)'
  BY <1>1 DEF Holds
<1>10. ASSUME NEW j \in Cycles PROVE RowAgrees(j)'
  <2>1. CASE j # k
    <3>1. row'[j] = row[j]
      BY <2>1, <1>7 DEF RowMoves
    <3>2. row[j].at = "rotation" => ~ClearInFlight'
      BY <1>7 DEF GatesInv, RowAgrees
    <3> QED  BY <1>3, <1>7, <3>1, <3>2, RowStays
  <2>2. CASE j = k
    <3>1. /\ row[k].at = "clear_open" => row[k].step # "none"
          /\ row[k].step = "none" => row[k].writes = 0
          /\ row[k].phase \in {"none", "scheduled", "preparing", "timed_out", "ready"}
                => row[k].step = "none"
          /\ row[k].ask \in OpenAsk => row[k].phase \in {"preparing", "timed_out"}
      BY DEF GatesInv, RowAgrees
    <3>2. r.step = "none" => r.writes = 0
      BY <3>1, <1>4, <1>5
    <3> QED  BY <2>2, <3>1, <3>2, <1>1, <1>4, <1>5, <1>6, <1>7, <1>9 DEF RowAgrees
  <2> QED  BY <2>1, <2>2
<1>11. \A j \in Cycles :
          /\ row'[j].at = row[j].at /\ row'[j].phase = row[j].phase
          /\ \/ row'[j].writes = row[j].writes
             \/ o = <<"renew", j>> /\ row[j].at = "clear_open"
  BY <1>4, <1>5, <1>7 DEF RowMoves
<1> HIDE DEF o
<1>12. ClearsAgree' /\ PromptsAgree' /\ RenewsAgree' /\ FiredAgree'
  BY <1>1, <1>7, <1>11, WriteOpensAgree
<1> QED  BY <1>7, <1>8, <1>10, <1>12 DEF GatesInv

LEMMA OnRenewClearSentKeeps ==
    ASSUME GatesInv, NEW k \in Cycles, OnRenewClearSent(k)
    PROVE  GatesInv'
<1> DEFINE r == [[row[k] EXCEPT !.step = "resolved"] EXCEPT !.at = "none"]
<1>1. /\ Holds(<<"renew", k>>) /\ Release /\ row[k].at = "clear_open"
      /\ row' = [row EXCEPT ![k] = r]
      /\ UNCHANGED RenewRest /\ recorded' = recorded
  BY DEF OnRenewClearSent, ApplyRenewAttemptResult, ResolveRenewAttempt, RenewRest,
         agentVars, clearVars, promptVars
<1>2. row[k] \in RenewRow /\ recorded \in Sessions
  BY RowType, TypeParts DEF GatesInv
<1>3. /\ r \in RenewRow /\ r.at = "none" /\ r.phase = row[k].phase /\ r.step = "resolved"
      /\ r.every = row[k].every /\ r.writes = row[k].writes /\ r.ask = row[k].ask
  BY <1>2 DEF RenewRow
<1> HIDE DEF r
<1>4. row[k].step # "none"
  BY <1>1 DEF GatesInv, RowAgrees
<1> QED  BY <1>1, <1>2, <1>3, <1>4, RenewLeaves

LEMMA OnRenewInjectSentKeeps ==
    ASSUME GatesInv, NEW k \in Cycles, OnRenewInjectSent(k)
    PROVE  GatesInv'
<1>1. /\ Holds(<<"renew", k>>) /\ Release /\ ApplyRenewInjectResult(k)
      /\ UNCHANGED RenewRest
  BY DEF OnRenewInjectSent, RenewRest, clearVars, promptVars
<1>2. row[k] \in RenewRow /\ recorded \in Sessions
  BY RowType, TypeParts DEF GatesInv
<1>3. CASE /\ row[k].phase = "clearing"
           /\ row' = [row EXCEPT ![k] = [MarkRenewInjected(@) EXCEPT !.at = "none", !.seen = 0]]
           /\ ReplaceObservedNativeSession(
                  IF row[k].seen # row[k].pre THEN row[k].seen ELSE recorded)
  <2> DEFINE r == [[[row[k] EXCEPT !.phase = "injected"] EXCEPT !.at = "none"] EXCEPT !.seen = 0]
  <2>1. row' = [row EXCEPT ![k] = r]
    BY <1>3 DEF MarkRenewInjected
  <2>2. recorded' \in Sessions /\ 0 \in Sessions
    BY <1>2, <1>3, GatesAssumption DEF ReplaceObservedNativeSession, RenewRow, Sessions
  <2>3. /\ r \in RenewRow /\ r.at = "none" /\ r.phase = "injected" /\ r.step = row[k].step
        /\ r.every = row[k].every /\ r.writes = row[k].writes /\ r.ask = row[k].ask
    BY <1>2, <2>2 DEF RenewRow, Phase, Active
  <2> HIDE DEF r
  <2> QED  BY <1>1, <1>3, <2>1, <2>2, <2>3, RenewLeaves
<1>4. CASE row' = [row EXCEPT ![k].at = "none", ![k].seen = 0] /\ UNCHANGED recorded
  <2> DEFINE r == [[row[k] EXCEPT !.at = "none"] EXCEPT !.seen = 0]
  <2>1. row' = [row EXCEPT ![k] = r]
    BY <1>4, TypeParts DEF GatesInv
  <2>2. 0 \in Sessions
    BY GatesAssumption DEF Sessions
  <2>3. /\ r \in RenewRow /\ r.at = "none" /\ r.phase = row[k].phase /\ r.step = row[k].step
        /\ r.every = row[k].every /\ r.writes = row[k].writes /\ r.ask = row[k].ask
    BY <1>2, <2>2 DEF RenewRow
  <2> HIDE DEF r
  <2> QED  BY <1>1, <1>2, <1>4, <2>1, <2>3, RenewLeaves
<1> QED  BY <1>1, <1>3, <1>4 DEF ApplyRenewInjectResult

LEMMA FailParkedRenewKeeps ==
    ASSUME GatesInv, NEW k \in Cycles, FailParkedRenew(k)
    PROVE  GatesInv'
<1> DEFINE r == [[row[k] EXCEPT !.at = "none"] EXCEPT !.seen = 0]
<1>1. /\ row' = [row EXCEPT ![k].at = "none", ![k].seen = 0]
      /\ UNCHANGED RenewRest /\ recorded' = recorded /\ UNCHANGED <<policy, crashes>>
  BY DEF FailParkedRenew, RenewRest, agentVars, clearVars, promptVars
<1>2. row[k] \in RenewRow /\ recorded \in Sessions
  BY RowType, TypeParts DEF GatesInv
<1>3. row' = [row EXCEPT ![k] = r]
  BY <1>1, TypeParts DEF GatesInv
<1>4. 0 \in Sessions
  BY GatesAssumption DEF Sessions
<1>5. /\ r \in RenewRow /\ r.at = "none" /\ r.phase = row[k].phase /\ r.step = row[k].step
      /\ r.every = row[k].every /\ r.writes = row[k].writes /\ r.ask = row[k].ask
  BY <1>2, <1>4 DEF RenewRow
<1> HIDE DEF r
<1>6. CASE Holds(<<"renew", k>>) /\ Release
  BY <1>1, <1>2, <1>3, <1>5, <1>6, RenewLeaves
<1>7. CASE row[k].at \in {"probe", "rotation", "confirm"} /\ UNCHANGED paneVars
  <2>1. row[k].phase # "none"
    BY <1>7 DEF GatesInv, RowsInOrder, NewRow
  <2>2. row[k].at \notin Writing /\ r.at \notin Writing
    BY <1>5, <1>7 DEF Writing
  <2>3. UNCHANGED Elsewhere
    BY <1>1, <1>7 DEF RenewRest, Elsewhere, clearVars, promptVars
  <2> QED  BY <1>1, <1>2, <1>3, <1>5, <2>1, <2>2, <2>3, RowIsParked
<1> QED  BY <1>6, <1>7 DEF FailParkedRenew

----------------------------------------------------------------------------
(* The agent, live recovery, and a crash.                                   *)

LEMMA AgentStepsKeep ==
    ASSUME GatesInv, Rotate \/ SettleGapElapses \/ ReconcileReadyIncarnations
    PROVE  GatesInv'
<1>1. UNCHANGED renewVars /\ UNCHANGED paneVars /\ clear' = clear /\ prompt' = prompt
  BY DEF Rotate, SettleGapElapses, ReconcileReadyIncarnations, clearVars, promptVars
<1>2. ready' => ready
  BY DEF Rotate, SettleGapElapses, ReconcileReadyIncarnations, agentVars
<1>3. /\ row' = row /\ policy' = policy /\ lane' = lane /\ sent' = sent /\ due' = due
      /\ timing' = timing /\ crashes' = crashes
      /\ ready' \in BOOLEAN /\ spacing' \in BOOLEAN /\ unproven' \subseteq Clears
  BY DEF Rotate, SettleGapElapses, ReconcileReadyIncarnations, agentVars, clearVars, promptVars,
         renewVars, paneVars, GatesInv, TypeOK
<1>4. live' \in Sessions /\ recorded' \in Sessions
  <2>1. live \in Sessions /\ recorded \in Sessions
    BY TypeParts DEF GatesInv
  <2>2. live < MaxSessions => live + 1 \in Sessions
    BY <2>1, GatesAssumption DEF Sessions
  <2> QED  BY <2>1, <2>2 DEF Rotate, SettleGapElapses, ReconcileReadyIncarnations, agentVars
<1>5. TypeOK'
  BY <1>1, <1>3, <1>4 DEF GatesInv, TypeOK
<1> QED  BY <1>1, <1>2, <1>5, LaneRests

\* A row as the crash left it: the phase may have gone one step on, and nothing was written.
CrashLeaves(k, s) ==
    /\ s \in RenewRow
    /\ row[k].phase = "none" => s = row[k]
    /\ s.phase = row[k].phase \/ (row[k].phase = "ready" /\ s.phase = "clearing")
    /\ s.every = row[k].every /\ s.writes = row[k].writes /\ s.step = row[k].step
    /\ s.ask = row[k].ask \/ s.ask = "stray"

LEMMA RecoverKeeps ==
    ASSUME GatesInv, NEW r, Recover(r), \A k \in Cycles : CrashLeaves(k, r[k])
    PROVE  GatesInv'
<1>1. /\ crashes < MaxCrashes /\ crashes' = crashes + 1
      /\ row' = [k \in Cycles |-> [r[k] EXCEPT !.at = "none", !.seen = 0]]
      /\ recorded' = IF ready THEN live ELSE recorded
      /\ unproven' = (IF ready /\ live # recorded THEN {} ELSE unproven) \cup Interrupted
      /\ prompt' = [p \in Prompts |-> RecoverPrompt(p)]
      /\ clear' = [c \in Clears |-> RecoverClear(c)]
      /\ \/ spacing' = TRUE /\ due' = Postponed
         \/ UNCHANGED <<spacing, due>>
      /\ lane' = <<>> /\ sent' = FALSE
      /\ UNCHANGED <<timing, live, ready, policy>>
  BY DEF Recover
<1>2. /\ 0 \in Sessions
      /\ lane' \in Seq(Owners) /\ \A n \in DOMAIN lane' : FALSE
  <2>1. lane' = <<>>
    BY <1>1
  <2> QED  BY <2>1, GatesAssumption DEF Sessions
<1>3. ASSUME NEW k \in Cycles
      PROVE  /\ row'[k] \in RenewRow /\ row'[k].at = "none"
             /\ row[k].phase = "none" => row'[k] = NewRow
             /\ row'[k].phase = row[k].phase
                   \/ (row[k].phase = "ready" /\ row'[k].phase = "clearing")
             /\ row'[k].every = row[k].every /\ row'[k].writes = row[k].writes
             /\ row'[k].step = row[k].step
             /\ row'[k].ask = row[k].ask \/ row'[k].ask = "stray"
  <2> DEFINE s == r[k]
             t == [[s EXCEPT !.at = "none"] EXCEPT !.seen = 0]
  <2>1. row'[k] = t
    BY <1>1
  <2>2. s \in RenewRow
    BY DEF CrashLeaves
  <2>3. row[k].phase = "none" => t = NewRow
    <3>1. row[k].phase = "none" => s = NewRow
      BY DEF CrashLeaves, GatesInv, RowsInOrder
    <3>2. /\ NewRow \in RenewRow /\ NewRow.at = "none" /\ NewRow.seen = 0
      BY <1>2 DEF NewRow, RenewRow, Phase
    <3>3. [NewRow EXCEPT !.at = "none"] = NewRow
      BY <3>2 DEF RenewRow
    <3>4. [NewRow EXCEPT !.seen = 0] = NewRow
      BY <3>2 DEF RenewRow
    <3> HIDE DEF s
    <3> QED  BY <3>1, <3>3, <3>4
  <2> HIDE DEF s
  <2>4. /\ t \in RenewRow /\ t.at = "none" /\ t.phase = s.phase /\ t.every = s.every
        /\ t.writes = s.writes /\ t.step = s.step /\ t.ask = s.ask
    BY <1>2, <2>2 DEF RenewRow
  <2> HIDE DEF t
  <2>5. CrashLeaves(k, s)
    BY DEF s
  <2> QED  BY <2>1, <2>3, <2>4, <2>5 DEF CrashLeaves
<1>4. row' \in [Cycles -> RenewRow]
  BY <1>1, <1>3
<1>5. ASSUME NEW c \in Clears
      PROVE  /\ RecoverClear(c) \in ClearRow /\ RecoverClear(c).op # "pending"
             /\ RecoverClear(c).attempted = clear[c].attempted
             /\ RecoverClear(c).at \in {"none", "settling", "probe", "sending"} =>
                    clear[c].at = "none"
  <2> DEFINE op == IF clear[c].op # "pending" THEN clear[c].op
                   ELSE IF clear[c].attempted THEN "unknown" ELSE "failed"
             a == IF clear[c].at = "none" THEN "none" ELSE "answered"
             t == [[clear[c] EXCEPT !.op = op] EXCEPT !.at = a]
  <2>1. clear[c] \in ClearRow
    BY ClearRowType DEF GatesInv
  <2>2. RecoverClear(c) = t
    BY <2>1 DEF RecoverClear, ClearRow
  <2>3. /\ op \in {"none", "pending", "succeeded", "failed", "unknown"} /\ op # "pending"
        /\ a \in {"none", "answered"} /\ (a = "none" => clear[c].at = "none")
    BY <2>1 DEF ClearRow
  <2> HIDE DEF op, a
  <2>4. t \in ClearRow /\ t.op = op /\ t.at = a /\ t.attempted = clear[c].attempted
    BY <2>1, <2>3 DEF ClearRow
  <2> HIDE DEF t
  <2> QED  BY <2>2, <2>3, <2>4
<1>6. /\ clear' \in [Clears -> ClearRow]
      /\ \A c \in Clears : clear'[c] = RecoverClear(c) /\ ~Pending(c)'
  BY <1>1, <1>5 DEF Pending
<1>7. ~ClearInFlight'
  BY <1>6 DEF ClearInFlight, Pending
<1>8. TypeOK'
  <2>1. prompt' \in [Prompts -> {"none", "collected", "queued", "parked", "firing", "sent", "done"}]
    BY <1>1 DEF RecoverPrompt
  <2>2. due' \in [Prompts -> {"later", "gap", "now"}] /\ spacing' \in BOOLEAN
    BY <1>1, PostponedType DEF GatesInv, TypeOK
  <2>3. unproven' \subseteq Clears /\ recorded' \in Sessions
    BY <1>1 DEF GatesInv, TypeOK, Interrupted
  <2>4. lane' \in Seq(Owners) /\ sent' \in BOOLEAN
    BY <1>1, <1>2
  <2>5. crashes' \in 0..MaxCrashes
    <3>1. crashes \in 0..MaxCrashes /\ MaxCrashes \in Nat
      BY GatesAssumption DEF GatesInv, TypeOK
    <3>2. crashes < MaxCrashes /\ crashes' = crashes + 1
      BY <1>1
    <3> QED  BY <3>1, <3>2
  <2> QED  BY <1>1, <1>4, <1>6, <2>1, <2>2, <2>3, <2>4, <2>5 DEF GatesInv, TypeOK
<1>9. ClearExcludesRenew'
  BY <1>7 DEF ClearExcludesRenew
<1>10. ClearsAgree'
  <2>1. \A c \in Clears :
            clear'[c].at \in {"none", "settling", "probe", "sending"} => ~clear'[c].attempted
    BY <1>5, <1>6 DEF GatesInv, ClearsAgree
  <2> QED  BY <1>2, <1>6, <2>1 DEF ClearsAgree
<1>11. PromptsAgree' /\ RenewsAgree' /\ FiredAgree'
  BY <1>2 DEF PromptsAgree, RenewsAgree, FiredAgree
<1>12. ASSUME NEW k \in Cycles PROVE RowAgrees(k)'
  <2>1. /\ row[k].writes <= 1 /\ (row[k].step = "none" => row[k].writes = 0)
        /\ row[k].phase \in {"none", "scheduled", "preparing", "timed_out", "ready"}
              => row[k].step = "none"
        /\ row[k].ask \in OpenAsk => row[k].phase \in {"preparing", "timed_out"}
    BY DEF GatesInv, RowAgrees
  <2> QED  BY <1>3, <2>1 DEF RowAgrees, OpenAsk
<1>13. \A k \in Cycles : /\ row'[k].phase = "none" <=> row[k].phase = "none"
                         /\ Live(k)' <=> Live(k)
                         /\ row'[k].every = row[k].every
  BY <1>3 DEF Live, Settled
<1>14. RowsInOrder'
  BY <1>3, <1>13 DEF GatesInv, RowsInOrder
<1>15. PolicyAgrees'
  BY <1>1, <1>13 DEF GatesInv, PolicyAgrees
<1> QED  BY <1>8, <1>9, <1>10, <1>11, <1>12, <1>14, <1>15 DEF GatesInv

LEMMA CrashKeeps ==
    ASSUME GatesInv, Crash
    PROVE  GatesInv'
<1>1. \A k \in Cycles : CrashLeaves(k, row[k])
  BY RowType DEF GatesInv, CrashLeaves
<1> QED  BY <1>1, RecoverKeeps DEF Crash

LEMMA CrashInPrepareKeeps ==
    ASSUME GatesInv, NEW k \in Cycles, CrashInPrepare(k)
    PROVE  GatesInv'
<1> DEFINE r == [row EXCEPT ![k].ask = "stray"]
<1>1. row[k].phase = "scheduled" /\ Recover(r)
  BY DEF CrashInPrepare, MayPrepare
<1>2. row[k] \in RenewRow /\ row \in [Cycles -> RenewRow]
  BY RowType, TypeParts DEF GatesInv
<1>3. r[k] = [row[k] EXCEPT !.ask = "stray"] /\ \A j \in Cycles : j # k => r[j] = row[j]
  BY <1>2
<1> HIDE DEF r
<1>4. CrashLeaves(k, r[k])
  BY <1>1, <1>2, <1>3 DEF CrashLeaves, RenewRow
<1>5. \A j \in Cycles : j # k => CrashLeaves(j, r[j])
  BY <1>3, RowType DEF GatesInv, CrashLeaves
<1> QED  BY <1>1, <1>4, <1>5, RecoverKeeps

LEMMA CrashInClearingKeeps ==
    ASSUME GatesInv, NEW k \in Cycles, CrashInClearing(k)
    PROVE  GatesInv'
<1> DEFINE r == [row EXCEPT ![k] = MarkRenewClearing(@)]
           t == [[[row[k] EXCEPT !.phase = "clearing"] EXCEPT !.pre = live] EXCEPT !.clock = 0]
<1>1. row[k].phase = "ready" /\ Recover(r)
  BY DEF CrashInClearing
<1>2. row[k] \in RenewRow /\ row \in [Cycles -> RenewRow] /\ live \in Sessions
  BY RowType, TypeParts DEF GatesInv
<1>3. r[k] = t /\ \A j \in Cycles : j # k => r[j] = row[j]
  BY <1>2 DEF MarkRenewClearing, PreparedClear, RenewRow
<1> HIDE DEF r
<1>4. /\ t \in RenewRow /\ t.phase = "clearing" /\ t.every = row[k].every
      /\ t.writes = row[k].writes /\ t.step = row[k].step /\ t.ask = row[k].ask
  <2> DEFINE q == [[row[k] EXCEPT !.phase = "clearing"] EXCEPT !.pre = live]
  <2>1. /\ q \in RenewRow /\ q.phase = "clearing" /\ q.every = row[k].every
        /\ q.writes = row[k].writes /\ q.step = row[k].step /\ q.ask = row[k].ask
    BY <1>2 DEF RenewRow, Phase, Active
  <2>2. t = [q EXCEPT !.clock = 0]
    OBVIOUS
  <2> HIDE DEF q, t
  <2> QED  BY <2>1, <2>2 DEF RenewRow
<1> HIDE DEF t
<1>5. CrashLeaves(k, r[k])
  BY <1>1, <1>3, <1>4 DEF CrashLeaves
<1>6. \A j \in Cycles : j # k => CrashLeaves(j, r[j])
  BY <1>3, RowType DEF GatesInv, CrashLeaves
<1> QED  BY <1>1, <1>5, <1>6, RecoverKeeps

----------------------------------------------------------------------------
(* The theorems.                                                            *)

LEMMA GatesInit == Init => GatesInv
<1> SUFFICES ASSUME Init PROVE GatesInv
  OBVIOUS
<1>1. 0 \in Sessions /\ 0 \in 0..MaxCrashes
  BY GatesAssumption DEF Sessions
<1>2. NewClear \in ClearRow
  BY <1>1 DEF NewClear, ClearRow
<1>3. NewRow \in RenewRow
  BY <1>1 DEF NewRow, RenewRow, Phase
<1>4. lane = <<>> /\ lane \in Seq(Owners) /\ \A n \in DOMAIN lane : FALSE
  BY DEF Init
<1>5. /\ \A c \in Clears : clear[c] = NewClear
      /\ \A k \in Cycles : row[k] = NewRow
  BY DEF Init
<1>6. TypeOK
  BY <1>1, <1>2, <1>3, <1>4 DEF Init, TypeOK
<1>7. ~ClearInFlight
  BY <1>5 DEF ClearInFlight, NewClear
<1>8. ClearExcludesRenew
  BY <1>7 DEF ClearExcludesRenew
<1>9. ClearsAgree
  BY <1>4, <1>5 DEF ClearsAgree, Pending, NewClear
<1>10. PromptsAgree /\ RenewsAgree /\ FiredAgree
  BY <1>4 DEF PromptsAgree, RenewsAgree, FiredAgree
<1>11. \A k \in Cycles : RowAgrees(k)
  BY <1>5 DEF RowAgrees, NewRow, OpenAsk
<1>12. RowsInOrder
  BY <1>5 DEF RowsInOrder, NewRow
<1>13. PolicyAgrees
  BY DEF Init, PolicyAgrees
<1> QED  BY <1>6, <1>8, <1>9, <1>10, <1>11, <1>12, <1>13 DEF GatesInv

LEMMA GatesStutter == GatesInv /\ UNCHANGED vars => GatesInv'
<1> SUFFICES ASSUME GatesInv, UNCHANGED vars PROVE GatesInv'
  OBVIOUS
<1>1. /\ UNCHANGED renewVars /\ UNCHANGED paneVars
      /\ ready' = ready /\ prompt' = prompt /\ clear' = clear
  BY DEF vars, renewVars, paneVars
<1>2. TypeOK'
  BY DEF GatesInv, TypeOK, vars
<1> QED  BY <1>1, <1>2, LaneRests

LEMMA GatesNext == GatesInv /\ [Next]_vars => GatesInv'
<1> SUFFICES ASSUME GatesInv, Next PROVE GatesInv'
  BY GatesStutter
<1>1. ASSUME NEW p \in Prompts, PromptStep(p) PROVE GatesInv'
  BY <1>1, RecordPromptKeeps, DueTimeArrivesKeeps, BeginDueDeliveryKeeps, OnPromptOpenedKeeps,
     AbsenceSweepNoticeKeeps, CollectDueReminderKeeps, OnReminderSnapshotKeeps,
     FinishParkedPromptKeeps, FailParkedPromptKeeps DEF PromptStep
<1>2. ASSUME NEW c \in Clears, ClearStep(c) PROVE GatesInv'
  BY <1>2, BeginClearKeeps, AdvanceAwaitingClearKeeps, OnClearProbeKeeps, OnClearOpenedKeeps,
     OnClearCommandKeeps, OnClearRotationKeeps, FailParkedClearKeeps DEF ClearStep
<1>3. ASSUME NEW k \in Cycles, RenewStep(k) PROVE GatesInv'
  <2>1. ASSUME NEW wanted \in Policies, DispatchRenew(k, wanted) PROVE GatesInv'
    BY <2>1, DispatchRenewKeeps
  <2>2. CASE CancelRenew(k) \/ CancelAsk(k) \/ ApplyOccupancySnapshot(k) \/ TerminateEndedRenews(k)
    BY <2>2, CancelRenewKeeps, CancelAskKeeps, ApplyOccupancySnapshotKeeps,
       TerminateEndedRenewsKeeps
  <2>3. CASE BeginRenewPrepare(k) \/ OnPrepareOpened(k) \/ EndPreparePrompt(k) \/ PrepareAnswered(k)
    BY <2>3, BeginRenewPrepareKeeps, OnPrepareOpenedKeeps, EndPreparePromptKeeps,
       PrepareAnsweredKeeps
  <2>4. CASE \/ RenewSettlePrepare(k) \/ RenewApplyTimeout(k) \/ ParkDueRenew(k)
             \/ CompleteProvenRenew(k)
    BY <2>4, RenewSettlePrepareKeeps, RenewApplyTimeoutKeeps, ParkDueRenewKeeps,
       CompleteProvenRenewKeeps
  <2>5. CASE OnRenewProbe(k) \/ OnRenewOpened(k) \/ OnRenewClearSent(k) \/ OnRenewRotation(k)
    BY <2>5, OnRenewProbeKeeps, OnRenewOpenedKeeps, OnRenewClearSentKeeps, OnRenewRotationKeeps
  <2>6. CASE OnRenewInjectSent(k) \/ OnRenewConfirm(k) \/ FailParkedRenew(k) \/ ClockRuns(k)
    BY <2>6, OnRenewInjectSentKeeps, OnRenewConfirmKeeps, FailParkedRenewKeeps, ClockRunsKeeps
  <2>7. CASE CrashInPrepare(k) \/ CrashInClearing(k)
    BY <2>7, CrashInPrepareKeeps, CrashInClearingKeeps
  <2> QED  BY <1>3, <2>1, <2>2, <2>3, <2>4, <2>5, <2>6, <2>7 DEF RenewStep
<1>4. CASE Rotate \/ SettleGapElapses \/ ReconcileReadyIncarnations
  BY <1>4, AgentStepsKeep
<1>5. CASE Crash
  BY <1>5, CrashKeeps
<1> QED  BY <1>1, <1>2, <1>3, <1>4, <1>5 DEF Next

\* The gates, the rows and what waits in the lane agree in every reachable state.
THEOREM GatesInvariant == Spec => []GatesInv
BY GatesInit, GatesNext, PTL DEF Spec

\* Every variable keeps its type.
THEOREM GatesTypeCorrect == Spec => []TypeOK
<1>1. GatesInv => TypeOK
  BY DEF GatesInv
<1> QED  BY <1>1, GatesInvariant, PTL

\* A standalone clear in flight and a renew cycle in flight exclude each other.
THEOREM ClearAndRenewExclude == Spec => []ClearExcludesRenew
<1>1. GatesInv => ClearExcludesRenew
  BY DEF GatesInv
<1> QED  BY <1>1, GatesInvariant, PTL

\* A renew cycle writes its clear into the pane at most once.
THEOREM CycleClearsOnce == Spec => []OneClearPerCycle
<1>1. GatesInv => OneClearPerCycle
  BY DEF GatesInv, RowAgrees, OneClearPerCycle
<1> QED  BY <1>1, GatesInvariant, PTL

\* An active policy has exactly one unfinished row, that of its cycle.
THEOREM RecurringPolicyStaysArmed == Spec => []PolicyStaysArmed
<1>1. GatesInv => PolicyStaysArmed
  <2> SUFFICES ASSUME GatesInv PROVE PolicyStaysArmed
    OBVIOUS
  <2>1. policy.state = "active" => policy.cycle \in Cycles /\ Live(policy.cycle)
    BY DEF GatesInv, PolicyAgrees
  <2>2. ASSUME NEW j \in Cycles, NEW k \in Cycles, Live(j), Live(k) PROVE j = k
    <3>1. ~(j < k) /\ ~(k < j)
      BY <2>2 DEF GatesInv, RowsInOrder, Live, Cycles
    <3> QED  BY <3>1 DEF Cycles
  <2> QED  BY <2>1, <2>2 DEF PolicyStaysArmed
<1> QED  BY <1>1, GatesInvariant, PTL

\* The ask to prepare a row opened does not outlive the phase that waits for it.
THEOREM PrepareAskEnds == Spec => []PrepareAskEndsWithCycle
<1>1. GatesInv => PrepareAskEndsWithCycle
  BY DEF GatesInv, RowAgrees, PrepareAskEndsWithCycle
<1> QED  BY <1>1, GatesInvariant, PTL

\* The pane is written only for the head of the lane.
LEMMA WritesAreTheHeads ==
    ASSUME Next, ~sent, sent'
    PROVE  lane # <<>>
BY DEF Next, PromptStep, ClearStep, RenewStep, RecordPrompt, PromptSchedule, DueTimeArrives,
       BeginDueDelivery, AbsenceSweepNotice, CollectDueReminder, OnReminderSnapshot, ParkUngated,
       OnPromptOpened, FinishParkedPrompt, FailParkedPrompt, BeginClear,
       AdvanceAwaitingClear, OnClearProbe, BeginClearAfterProbe, OnClearOpened, OnClearCommand,
       OnClearRotation, FailParkedClear, DispatchRenew, CancelRenew, CancelAsk,
       ApplyOccupancySnapshot, TerminateEndedRenews, BeginRenewPrepare, OnPrepareOpened,
       EndPreparePrompt, PrepareAnswered, RenewSettlePrepare, RenewApplyTimeout, ParkDueRenew,
       CompleteProvenRenew, OnRenewProbe, SubmitRenewOpen, OnRenewOpened, OnRenewClearSent,
       OnRenewRotation, OnRenewInjectSent, OnRenewConfirm, FailParkedRenew, ClockRuns,
       CrashInPrepare, CrashInClearing, Rotate, SettleGapElapses, ReconcileReadyIncarnations,
       Crash, Recover, Release, Park, Holds, paneVars

\* A delivery is written only as the head of the lane.
LEMMA DeliveriesAreTheHeads ==
    ASSUME TypeOK, Next, NEW p \in Prompts, prompt[p] = "firing", prompt'[p] = "sent"
    PROVE  Holds(<<"prompt", p>>)
<1> DEFINE Kind == {"none", "collected", "queued", "parked", "firing", "sent", "done"}
<1>1. prompt \in [Prompts -> Kind]
  BY DEF TypeOK
<1>2. prompt' # prompt
  OBVIOUS
<1>3. ASSUME NEW q \in Prompts, PromptStep(q) PROVE Holds(<<"prompt", p>>)
  <2>1. \/ prompt' = [prompt EXCEPT ![q] = "queued"] \/ prompt' = [prompt EXCEPT ![q] = "parked"]
        \/ prompt' = [prompt EXCEPT ![q] = "collected"]
        \/ prompt' = [prompt EXCEPT ![q] = "firing"]
        \/ prompt' = [prompt EXCEPT ![q] = "done"]
        \/ Holds(<<"prompt", q>>) /\ prompt' = [prompt EXCEPT ![q] = "sent"]
    BY <1>2, <1>3 DEF PromptStep, RecordPrompt, PromptSchedule, DueTimeArrives, BeginDueDelivery,
           AbsenceSweepNotice, CollectDueReminder, OnReminderSnapshot, ParkUngated,
           OnPromptOpened, FinishParkedPrompt, FailParkedPrompt
  <2>2. prompt'[p] = prompt[p] \/ p = q
    BY <1>1, <2>1
  <2> QED  BY <1>1, <2>1, <2>2
<1>4. ASSUME NEW c \in Clears, ClearStep(c) PROVE prompt' = prompt
  BY <1>4 DEF ClearStep, BeginClear, AdvanceAwaitingClear, OnClearProbe, OnClearOpened,
         OnClearCommand, OnClearRotation, FailParkedClear, promptVars
<1>5. ASSUME NEW r, Recover(r) PROVE prompt'[p] # "sent"
  BY <1>5 DEF Recover, RecoverPrompt
<1>6. ASSUME NEW k \in Cycles, RenewStep(k) PROVE prompt' = prompt \/ prompt'[p] # "sent"
  BY <1>5, <1>6
     DEF RenewStep, DispatchRenew, CancelRenew, CancelAsk, ApplyOccupancySnapshot,
         TerminateEndedRenews, BeginRenewPrepare, OnPrepareOpened, EndPreparePrompt,
         PrepareAnswered, RenewSettlePrepare, RenewApplyTimeout, ParkDueRenew,
         CompleteProvenRenew, OnRenewProbe, OnRenewOpened, OnRenewClearSent, OnRenewRotation,
         OnRenewInjectSent, OnRenewConfirm, FailParkedRenew, ClockRuns, CrashInPrepare,
         CrashInClearing, promptVars
<1>7. ASSUME Rotate \/ SettleGapElapses \/ ReconcileReadyIncarnations PROVE prompt' = prompt
  BY <1>7 DEF Rotate, SettleGapElapses, ReconcileReadyIncarnations, promptVars
<1>8. ASSUME Crash PROVE prompt'[p] # "sent"
  BY <1>5, <1>8 DEF Crash
<1> QED  BY <1>2, <1>3, <1>4, <1>6, <1>7, <1>8 DEF Next

\* No write that asked the gate is written into the pane while a clear's outcome is open, and
\* no delivery the sweep fired is written between a renew's clear and its resume prompt.
THEOREM OpenClearHoldsGatedWrites == Spec => GatedWritesAwaitClear
<1>1. ASSUME GatesInv, Next
      PROVE  /\ (~sent /\ sent' /\ Head(lane) \notin UngatedWrites) => \A c \in Clears :
                 ~(clear[c].attempted /\ clear[c].op = "pending")
             /\ \A p \in Prompts : (prompt[p] = "firing" /\ prompt'[p] = "sent")
                    => \A k \in Cycles : ~(row[k].phase = "clearing" /\ row[k].writes > 0)
  <2>1. ASSUME ~sent, sent', Head(lane) \notin UngatedWrites, NEW c \in Clears
        PROVE  ~(clear[c].attempted /\ clear[c].op = "pending")
    <3>1. lane # <<>>
      BY <1>1, <2>1, WritesAreTheHeads
    <3> DEFINE o == Head(lane)
    <3>2. Holds(o) /\ Gated(o)
      BY <2>1, <3>1 DEF Holds, Gated
    <3>3. o \in Owners
      BY <1>1, <3>2, LaneHead, TypeParts DEF GatesInv
    <3> HIDE DEF o
    <3> QED  BY <1>1, <2>1, <3>2, <3>3, WriteOpens DEF Pending
  <2>2. ASSUME NEW p \in Prompts, prompt[p] = "firing", prompt'[p] = "sent",
               NEW k \in Cycles, row[k].phase = "clearing"
        PROVE  row[k].writes = 0
    <3>1. Holds(<<"prompt", p>>)
      BY <1>1, <2>2, DeliveriesAreTheHeads DEF GatesInv
    <3>2. 1 \in DOMAIN lane /\ lane[1] = <<"prompt", p>>
      BY <1>1, <3>1, LaneHead, TypeParts DEF GatesInv
    <3> QED  BY <1>1, <2>2, <3>2 DEF GatesInv, FiredAgree
  <2> QED  BY <2>1, <2>2
<1>2. GatesInv /\ [Next]_vars =>
        [/\ (~sent /\ sent' /\ Head(lane) \notin UngatedWrites) =>
                \A c \in Clears : ~(clear[c].attempted /\ clear[c].op = "pending")
         /\ \A p \in Prompts : (prompt[p] = "firing" /\ prompt'[p] = "sent")
                => \A k \in Cycles : ~(row[k].phase = "clearing" /\ row[k].writes > 0)]_vars
  BY <1>1
<1> QED  BY <1>2, GatesInvariant, PTL DEF Spec, GatedWritesAwaitClear
============================================================================
