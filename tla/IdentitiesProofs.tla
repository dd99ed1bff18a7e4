-------------------------- MODULE IdentitiesProofs --------------------------
(***************************************************************************)
(* IdentitiesInv is an inductive invariant of Identities.  From it follow   *)
(* the types, that a start launches at most one runtime, that a refused     *)
(* start left nothing, that a retired incarnation's runtime is gone, and    *)
(* what a recovery may touch: for every set of agents, names, panes and     *)
(* clients and every bound.                                                 *)
(*                                                                         *)
(* The store is a value that operators transform, so the argument has two   *)
(* levels.  Follows(d, e, F, G) says what one transaction may make of the   *)
(* rows; each operator has a lemma that it follows, and transactions in a   *)
(* row follow together.  A step then changes one request and lets the store *)
(* follow, and the invariant needs only to know which rows it failed, and   *)
(* that the runtimes of those it retired had left (Departed).               *)
(*                                                                         *)
(* Views grow old while Herdr goes on.  What makes an old view safe is that *)
(* a runtime never comes back to a seat it left (Later, StaysGone): a view  *)
(* that showed a seat empty when it was taken is right for ever.            *)
(***************************************************************************)
EXTENDS Identities, TLAPS, FiniteSetTheorems, SequenceTheorems, WellFoundedInduction

(***************************************************************************)
(* The newest of some incarnations, and the order in which recovery adds    *)
(* rows.                                                                    *)
(***************************************************************************)
Below == {ss \in Nat \X Nat : ss[1] < ss[2]}

\* Some natural numbers have a least one.
LEMMA LeastExists ==
    ASSUME NEW S \in SUBSET Nat, S # {}
    PROVE  \E m \in S : \A j \in S : m <= j
<1>1. IsWellFoundedOn(OpToRel(<, Nat), Nat)
  BY NatLessThanWellFounded
<1>2. OpToRel(<, Nat) = Below
  BY DEF OpToRel, Below
<1>3. \E x \in S : \A y \in S : ~(<<y, x>> \in OpToRel(<, Nat))
  BY <1>1, WFMin
<1>4. PICK x \in S : \A y \in S : ~(<<y, x>> \in Below)
  BY <1>2, <1>3
<1>5. ASSUME NEW y \in S PROVE x <= y
  <2>1. x \in Nat /\ y \in Nat
    OBVIOUS
  <2>2. ~(<<y, x>> \in {ss \in Nat \X Nat : ss[1] < ss[2]})
    BY <1>4 DEF Below
  <2>3. ~(y < x)
    BY <2>1, <2>2
  <2> QED  BY <2>1, <2>3
<1> QED  BY <1>5

\* A set of incarnations has a newest one.
LEMMA NewestIsLast ==
    ASSUME NEW n \in Nat, NEW S \in SUBSET (1..n), S # {}
    PROVE  Newest(S) \in S /\ \A j \in S : j <= Newest(S)
<1> DEFINE T == {n - i : i \in S}
<1>1. T \in SUBSET Nat /\ T # {}
  <2>1. \A i \in S : i \in 1..n
    OBVIOUS
  <2>2. \A i \in S : n - i \in Nat
    BY <2>1
  <2> QED  BY <2>2
<1>2. PICK m \in T : \A j \in T : m <= j
  BY <1>1, LeastExists
<1>3. PICK i \in S : m = n - i
  OBVIOUS
<1>4. ASSUME NEW j \in S PROVE j <= i
  <2>1. n - j \in T
    OBVIOUS
  <2> QED  BY <1>2, <1>3, <2>1
<1>5. \E k \in S : \A j \in S : j <= k
  BY <1>4
<1> QED  BY <1>5 DEF Newest
(***************************************************************************)
(* The contents of the store, and what a transaction may do to them.        *)
(***************************************************************************)
\* Herdr gives every pane a new terminal at once, so the panes' terminals have one age.
Age == herdr[FirstPane].term

\* The terminals and the runtimes that Herdr has brought forth, or 0: a record names no other.
Terms == {0} \cup 1..Age
Runs == {0} \cup DOMAIN launch

Row == [agent : Agents, state : States, pane : Panes, term : Terms, bound : BOOLEAN,
        kind : {"start", "adopt", "none"}, op : Open \cup {"succeeded", "failed", "unknown"},
        mine : BOOLEAN, want : Names, renaming : Names \cup {NoName}, run : Runs,
        replaces : 0..MaxIncs, first : {"none", "pending", "sent", "accepted", "unknown"}]
Store == [name : [Agents -> Names \cup {NoName}], archived : SUBSET Agents, inc : Seq(Row)]

\* An agent with an incarnation has a name.
Minted(d) == \A i \in DOMAIN d.inc : d.name[d.inc[i].agent] \in Names

\* A start that failed, and whose launch Herdr never answered with a terminal.
Refused(r) == r.state = "failed" /\ ~r.bound

Before == {"declared", "starting"}

\* What a row s may have become of a row r: its agent and its seat stay, an accepted
\* launch stays accepted, who runs in it is settled once it has left its start, and work
\* of this daemon's remains so.
Evolves(r, s) ==
    /\ s.agent = r.agent /\ s.pane = r.pane /\ s.term = r.term
    /\ r.bound => s.bound
    /\ r.state \notin Before => s.state \notin Before /\ s.run = r.run
    /\ r.mine => s.mine
    /\ s.state = "retiring" /\ ~s.mine => r.state = "retiring"

\* The store e that a transaction makes of d, where it refuses at most the rows in F
\* and completes the retirement of at most those in G.
Follows(d, e, F, G) ==
    /\ e \in Store /\ Minted(e)
    /\ Len(d.inc) <= Len(e.inc)
    /\ \A i \in DOMAIN d.inc :
          /\ Evolves(d.inc[i], e.inc[i])
          /\ Refused(e.inc[i]) => Refused(d.inc[i]) \/ i \in F
          /\ e.inc[i].state = "retired" => d.inc[i].state = "retired" \/ i \in G
    /\ \A i \in DOMAIN e.inc \ DOMAIN d.inc :
          /\ e.inc[i].mine
          /\ Refused(e.inc[i]) => i \in F
          /\ e.inc[i].state = "retired" => i \in G

\* Every row is one.
LEMMA RowTyped ==
    ASSUME NEW d \in Store, NEW i \in DOMAIN d.inc
    PROVE  d.inc[i] \in Row /\ i \in 1..Len(d.inc) /\ Len(d.inc) \in Nat
<1>1. d.inc \in Seq(Row)
  BY DEF Store
<1> QED  BY <1>1, ElementOfSeq

\* One row is replaced.
LEMMA RowChange ==
    ASSUME NEW d \in Store, Minted(d), NEW i \in DOMAIN d.inc, NEW r \in Row, NEW F, NEW G,
           Evolves(d.inc[i], r), Refused(r) => Refused(d.inc[i]) \/ i \in F,
           r.state = "retired" => d.inc[i].state = "retired" \/ i \in G
    PROVE  Follows(d, [d EXCEPT !.inc[i] = r], F, G)
<1> DEFINE s == [d.inc EXCEPT ![i] = r]
           e == [d EXCEPT !.inc = s]
<1>1. d.inc \in Seq(Row) /\ i \in 1..Len(d.inc)
  BY DEF Store
<1>2. s \in Seq(Row) /\ Len(s) = Len(d.inc) /\ DOMAIN s = DOMAIN d.inc
  BY <1>1
<1>3. s[i] = r /\ \A j \in DOMAIN d.inc : j # i => s[j] = d.inc[j]
  BY <1>1
<1> HIDE DEF s
<1>4. e \in Store /\ e.inc = s /\ e.name = d.name
  BY <1>2 DEF Store
<1>5. [d EXCEPT !.inc[i] = r] = e
  BY DEF s, Store
<1> HIDE DEF e
<1>6. r.agent = d.inc[i].agent
  BY DEF Evolves
<1>7. Minted(e)
  BY <1>2, <1>3, <1>4, <1>6 DEF Minted
<1>8. \A j \in DOMAIN d.inc : Evolves(d.inc[j], d.inc[j])
  BY DEF Evolves
<1>9. \A j \in DOMAIN d.inc :
          /\ Evolves(d.inc[j], e.inc[j])
          /\ Refused(e.inc[j]) => Refused(d.inc[j]) \/ j \in F
          /\ e.inc[j].state = "retired" => d.inc[j].state = "retired" \/ j \in G
  BY <1>3, <1>4, <1>8
<1>10. Len(d.inc) <= Len(e.inc) /\ DOMAIN e.inc \ DOMAIN d.inc = {}
  BY <1>1, <1>2, <1>4
<1> QED  BY <1>4, <1>5, <1>7, <1>9, <1>10 DEF Follows

\* A transaction that leaves the rows alone.
LEMMA NothingFollows ==
    ASSUME NEW d \in Store, Minted(d), NEW F, NEW G
    PROVE  Follows(d, d, F, G)
<1>1. Len(d.inc) <= Len(d.inc)
  BY DEF Store
<1> QED  BY <1>1 DEF Follows, Evolves

\* Two transactions, one after the other.
LEMMA FollowsTwice ==
    ASSUME NEW d \in Store, NEW e, NEW f, NEW F, NEW G, NEW H, NEW K,
           Follows(d, e, F, G), Follows(e, f, H, K)
    PROVE  Follows(d, f, F \cup H, G \cup K)
<1>1. /\ d.inc \in Seq(Row) /\ e.inc \in Seq(Row) /\ f.inc \in Seq(Row)
      /\ Len(d.inc) <= Len(e.inc) /\ Len(e.inc) <= Len(f.inc)
  BY DEF Follows, Store
<1>2. /\ Len(d.inc) <= Len(f.inc)
      /\ DOMAIN d.inc \subseteq DOMAIN e.inc /\ DOMAIN e.inc \subseteq DOMAIN f.inc
  BY <1>1
<1>3. ASSUME NEW i \in DOMAIN d.inc
      PROVE  /\ Evolves(d.inc[i], f.inc[i])
             /\ Refused(f.inc[i]) => Refused(d.inc[i]) \/ i \in F \cup H
             /\ f.inc[i].state = "retired" => d.inc[i].state = "retired" \/ i \in G \cup K
  <2>1. i \in DOMAIN e.inc
    BY <1>2
  <2>2. Evolves(d.inc[i], e.inc[i]) /\ Evolves(e.inc[i], f.inc[i])
    BY <2>1 DEF Follows
  <2>3. Evolves(d.inc[i], f.inc[i])
    BY <2>2 DEF Evolves, Before
  <2> QED  BY <2>1, <2>3 DEF Follows
<1>4. ASSUME NEW i \in DOMAIN f.inc \ DOMAIN d.inc
      PROVE  /\ f.inc[i].mine
             /\ Refused(f.inc[i]) => i \in F \cup H
             /\ f.inc[i].state = "retired" => i \in G \cup K
  <2>1. CASE i \in DOMAIN e.inc
    <3>1. e.inc[i].mine /\ Evolves(e.inc[i], f.inc[i])
      BY <2>1 DEF Follows
    <3>2. f.inc[i].mine
      BY <3>1 DEF Evolves
    <3> QED  BY <2>1, <3>2 DEF Follows
  <2>2. CASE i \notin DOMAIN e.inc
    BY <2>2 DEF Follows
  <2> QED  BY <2>1, <2>2
<1> QED  BY <1>2, <1>3, <1>4 DEF Follows

\* A new row at the end.
LEMMA InsertFollows ==
    ASSUME NEW d \in Store, Minted(d), NEW a \in Agents, NEW n \in Names, NEW r \in Row,
           r.agent = a, r.mine, r.state \in {"declared", "ready"}
    PROVE  /\ Follows(d, Insert(d, a, n, r), {}, {})
           /\ Len(Insert(d, a, n, r).inc) = Len(d.inc) + 1
           /\ Insert(d, a, n, r).inc[Len(d.inc) + 1] = r
<1> DEFINE s == Append(d.inc, r)
           m == [d.name EXCEPT ![a] = n]
           x == d.archived \ {a}
           e == [name |-> m, archived |-> x, inc |-> s]
<1>1. /\ d.inc \in Seq(Row) /\ d.name \in [Agents -> Names \cup {NoName}]
      /\ d.archived \in SUBSET Agents
  BY DEF Store
<1>2. /\ s \in Seq(Row) /\ Len(s) = Len(d.inc) + 1 /\ s[Len(d.inc) + 1] = r
      /\ \A j \in DOMAIN d.inc : s[j] = d.inc[j]
      /\ DOMAIN d.inc = 1..Len(d.inc) /\ DOMAIN s = 1..Len(s)
      /\ Len(d.inc) \in Nat
  BY <1>1
<1>3. /\ m \in [Agents -> Names \cup {NoName}] /\ m[a] = n
      /\ \A b \in Agents : b # a => m[b] = d.name[b]
      /\ x \in SUBSET Agents
  BY <1>1
<1>4. Insert(d, a, n, r) = e
  <2>1. Insert(d, a, n, r) = [d EXCEPT !.name = m, !.archived = x, !.inc = s]
    BY DEF Insert, Store
  <2> HIDE DEF s, m, x
  <2> QED  BY <2>1 DEF Store
<1> HIDE DEF s, m, x
<1>5. e \in Store /\ e.inc = s /\ e.name = m
  BY <1>2, <1>3 DEF Store
<1> HIDE DEF e
<1>6. DOMAIN s \ DOMAIN d.inc = {Len(d.inc) + 1} /\ DOMAIN d.inc \subseteq DOMAIN s
  BY <1>2
<1>7. \A j \in DOMAIN d.inc : d.inc[j].agent \in Agents
  BY RowTyped DEF Row
<1>8. Minted(e)
  <2>1. ASSUME NEW j \in DOMAIN d.inc PROVE m[s[j].agent] \in Names
    BY <1>2, <1>3, <1>7 DEF Minted
  <2>2. m[s[Len(d.inc) + 1].agent] \in Names
    BY <1>2, <1>3
  <2> QED  BY <1>5, <1>6, <2>1, <2>2 DEF Minted
<1>9. \A j \in DOMAIN d.inc :
          /\ Evolves(d.inc[j], e.inc[j])
          /\ Refused(e.inc[j]) => Refused(d.inc[j]) \/ j \in {}
          /\ e.inc[j].state = "retired" => d.inc[j].state = "retired" \/ j \in {}
  BY <1>2, <1>5 DEF Evolves
<1>10. \A j \in DOMAIN e.inc \ DOMAIN d.inc :
          e.inc[j].mine /\ ~Refused(e.inc[j]) /\ e.inc[j].state # "retired"
  BY <1>2, <1>5, <1>6 DEF Refused
<1>11. Len(d.inc) <= Len(e.inc)
  BY <1>2, <1>5
<1> QED  BY <1>2, <1>4, <1>5, <1>8, <1>9, <1>10, <1>11 DEF Follows

\* Names are given to agents, and agents archived, without a change to a row.
LEMMA RenameFollows ==
    ASSUME NEW d \in Store, Minted(d), NEW m \in [Agents -> Names \cup {NoName}],
           \A a \in Agents : m[a] = d.name[a] \/ m[a] \in Names,
           NEW x \in SUBSET Agents, NEW F, NEW G
    PROVE  Follows(d, [name |-> m, archived |-> x, inc |-> d.inc], F, G)
<1> DEFINE e == [name |-> m, archived |-> x, inc |-> d.inc]
<1>1. d.inc \in Seq(Row)
  BY DEF Store
<1>2. e \in Store /\ e.inc = d.inc /\ e.name = m
  BY <1>1 DEF Store
<1> HIDE DEF e
<1>3. \A j \in DOMAIN d.inc : d.inc[j].agent \in Agents
  BY RowTyped DEF Row
<1>4. Minted(e)
  BY <1>2, <1>3 DEF Minted
<1>5. Len(d.inc) <= Len(e.inc)
  BY <1>1, <1>2
<1>6. \A j \in DOMAIN d.inc :
          /\ Evolves(d.inc[j], e.inc[j])
          /\ Refused(e.inc[j]) => Refused(d.inc[j]) \/ j \in F
          /\ e.inc[j].state = "retired" => d.inc[j].state = "retired" \/ j \in G
  BY <1>2 DEF Evolves
<1> QED  BY <1>2, <1>4, <1>5, <1>6 DEF Follows, e

(***************************************************************************)
(* What each transaction does.                                              *)
(***************************************************************************)
\* An attempt begins.
LEMMA BeginAttemptFollows ==
    ASSUME NEW d \in Store, Minted(d), NEW i \in DOMAIN d.inc
    PROVE  Follows(d, BeginAttempt(d, i), {}, {})
<1> DEFINE o == d.inc[i]
           t == IF o.state = "declared" THEN "starting" ELSE o.state
           r == [o EXCEPT !.state = t]
<1>1. o \in Row
  BY RowTyped
<1>2. t \in States
  BY <1>1 DEF Row, States
<1>3. r \in Row
  BY <1>1, <1>2 DEF Row
<1>4. BeginAttempt(d, i) = [d EXCEPT !.inc[i] = r]
  BY DEF BeginAttempt, Store
<1>5. r.state = t /\ r.bound = o.bound /\ r.run = o.run /\ r.mine = o.mine
      /\ r.agent = o.agent /\ r.pane = o.pane /\ r.term = o.term
  BY <1>1 DEF Row
<1> HIDE DEF r
<1>6. Evolves(o, r)
  BY <1>5 DEF Evolves, Before
<1> QED  BY <1>3, <1>4, <1>5, <1>6, RowChange DEF Refused

\* Herdr accepts a launch on the intended terminal.
LEMMA AcceptSubmissionFollows ==
    ASSUME NEW d \in Store, Minted(d), NEW i \in DOMAIN d.inc
    PROVE  /\ Follows(d, AcceptStartSubmission(d, i), {}, {})
           /\ AcceptStartSubmission(d, i).inc[i].bound
<1> DEFINE o == d.inc[i]
           q == [o EXCEPT !.op = "accepted"]
           r == [q EXCEPT !.bound = TRUE]
<1>1. o \in Row
  BY RowTyped
<1>2. q \in Row /\ r \in Row
  BY <1>1 DEF Row, Open
<1>3. AcceptStartSubmission(d, i) = [d EXCEPT !.inc[i] = r]
  BY DEF AcceptStartSubmission, Store
<1>4. r.state = o.state /\ r.bound /\ r.run = o.run /\ r.mine = o.mine
      /\ r.agent = o.agent /\ r.pane = o.pane /\ r.term = o.term
  BY <1>1 DEF Row
<1> HIDE DEF r
<1>5. Evolves(o, r)
  BY <1>4 DEF Evolves
<1>6. Follows(d, [d EXCEPT !.inc[i] = r], {}, {})
  BY <1>2, <1>4, <1>5, RowChange DEF Refused
<1>7. [d EXCEPT !.inc[i] = r].inc[i] = r
  BY DEF Store
<1> QED  BY <1>3, <1>4, <1>6, <1>7

\* An open operation is settled.
LEMMA SettleFollows ==
    ASSUME NEW d \in Store, Minted(d), NEW i \in DOMAIN d.inc,
           NEW outcome \in {"failed", "unknown"}, NEW F, outcome = "failed" => i \in F
    PROVE  Follows(d, Settle(d, i, outcome), F, {})
<1> DEFINE o == d.inc[i]
           t == IF o.state = "starting" THEN outcome ELSE o.state
           q == [o EXCEPT !.op = outcome]
           r == [q EXCEPT !.state = t]
<1>1. CASE d.inc[i].op \notin Open
  BY <1>1, NothingFollows DEF Settle
<1>2. CASE d.inc[i].op \in Open
  <2>1. o \in Row
    BY RowTyped
  <2>2. t \in States
    BY <2>1 DEF Row, States
  <2>3. q \in Row /\ r \in Row
    BY <2>1, <2>2 DEF Row
  <2>4. Settle(d, i, outcome) = [d EXCEPT !.inc[i] = r]
    BY <1>2 DEF Settle, Store
  <2>5. r.state = t /\ r.bound = o.bound /\ r.run = o.run /\ r.mine = o.mine
        /\ r.agent = o.agent /\ r.pane = o.pane /\ r.term = o.term
    BY <2>1 DEF Row
  <2>6. (t = "failed" => o.state = "failed" \/ i \in F) /\ (t = "retired" => o.state = "retired")
    OBVIOUS
  <2>7. (t \in Before => o.state \in Before) /\ (t = "retiring" => o.state = "retiring")
    BY DEF Before
  <2> HIDE DEF r, t
  <2>8. Evolves(o, r)
    BY <2>5, <2>7 DEF Evolves, Before
  <2>9. Refused(r) => Refused(o) \/ i \in F
    BY <2>5, <2>6 DEF Refused
  <2> QED  BY <2>3, <2>4, <2>5, <2>6, <2>8, <2>9, RowChange
<1> QED  BY <1>1, <1>2

\* An observation proves an agent Ready, and its predecessor is superseded.
LEMMA AcceptReadyFollows ==
    ASSUME NEW d \in Store, Minted(d), NEW i \in DOMAIN d.inc, NEW o,
           o.run \in Runs, d.inc[i].state \in Before,
           NEW old, old = 0 \/ old \in DOMAIN d.inc
    PROVE  Follows(d, AcceptReady(d, i, o, old), {}, {})
<1> DEFINE b == d.inc[i]
           q == [[b EXCEPT !.state = "ready"] EXCEPT !.op = "succeeded"]
           r == [[q EXCEPT !.bound = TRUE] EXCEPT !.run = o.run]
           up == [d EXCEPT !.inc[i] = r]
           sup == [up EXCEPT !.inc[old].state = "superseded"]
<1>1. b \in Row
  BY RowTyped
<1>2. q \in Row
  BY <1>1 DEF Row, States
<1>3. r \in Row
  <2> HIDE DEF q
  <2> QED  BY <1>2 DEF Row
<1>4. r.state = "ready" /\ r.bound /\ r.mine = b.mine
      /\ r.agent = b.agent /\ r.pane = b.pane /\ r.term = b.term
  BY <1>1 DEF Row
<1>5. AcceptReady(d, i, o, old) = IF old = 0 THEN up ELSE sup
  <2> DEFINE s1 == [b EXCEPT !.state = "ready"]
             s2 == [s1 EXCEPT !.op = "succeeded"]
             s3 == [s2 EXCEPT !.bound = TRUE]
             d1 == [d EXCEPT !.inc[i] = s1]
             d2 == [d1 EXCEPT !.inc[i] = s2]
             d3 == [d2 EXCEPT !.inc[i] = s3]
  <2>1. [d EXCEPT !.inc[i].state = "ready"] = d1 /\ d1.inc[i] = s1
    BY DEF Store
  <2>2. [d1 EXCEPT !.inc[i].op = "succeeded"] = d2 /\ d2.inc[i] = s2
    BY <2>1 DEF Store
  <2>3. [d2 EXCEPT !.inc[i].bound = TRUE] = d3 /\ d3.inc[i] = s3
    BY <2>2 DEF Store
  <2>4. [d3 EXCEPT !.inc[i].run = o.run] = [d3 EXCEPT !.inc[i] = r]
    BY <2>3 DEF Store
  <2>5. [d3 EXCEPT !.inc[i] = r] = up
    <3> HIDE DEF s1, s2, s3, r
    <3> QED  BY DEF Store
  <2>6. AcceptReady(d, i, o, old)
          = LET u == [[[[d EXCEPT !.inc[i].state = "ready"] EXCEPT !.inc[i].op = "succeeded"]
                          EXCEPT !.inc[i].bound = TRUE] EXCEPT !.inc[i].run = o.run]
            IN  IF old = 0 THEN u ELSE [u EXCEPT !.inc[old].state = "superseded"]
    BY DEF AcceptReady
  <2> HIDE DEF s1, s2, s3, r, d1, d2, d3, up
  <2> QED  BY <2>1, <2>2, <2>3, <2>4, <2>5, <2>6
<1> HIDE DEF r
<1>6. Evolves(b, r)
  BY <1>4 DEF Evolves, Before
<1>7. Follows(d, up, {}, {})
  BY <1>3, <1>4, <1>6, RowChange DEF Refused
<1>8. up.inc = [d.inc EXCEPT ![i] = r]
  BY DEF Store
<1>9. old # 0 => old \in DOMAIN up.inc
  BY <1>8
<1> HIDE DEF up
<1>10. ASSUME old # 0 PROVE Follows(up, sup, {}, {})
  <2> DEFINE c == up.inc[old]
             s == [c EXCEPT !.state = "superseded"]
  <2>1. up \in Store /\ Minted(up) /\ old \in DOMAIN up.inc
    BY <1>7, <1>9, <1>10 DEF Follows
  <2>2. c \in Row
    BY <2>1, RowTyped
  <2>3. s \in Row
    BY <2>2 DEF Row, States
  <2>4. sup = [up EXCEPT !.inc[old] = s]
    BY <2>1 DEF Store
  <2>5. s.state = "superseded" /\ s.bound = c.bound /\ s.run = c.run /\ s.mine = c.mine
        /\ s.agent = c.agent /\ s.pane = c.pane /\ s.term = c.term
    BY <2>2 DEF Row
  <2> HIDE DEF s, c, sup
  <2>6. Evolves(c, s)
    BY <2>5 DEF Evolves, Before
  <2> QED  BY <2>1, <2>3, <2>4, <2>5, <2>6, RowChange DEF Refused, c
<1>11. ASSUME old # 0 PROVE Follows(d, sup, {} \cup {}, {} \cup {})
  BY <1>7, <1>10, <1>11, FollowsTwice
<1> QED  BY <1>5, <1>7, <1>11

\* A change to a row that leaves its state, its seat and its runtime alone.
LEMMA QuietChange ==
    ASSUME NEW d \in Store, Minted(d), NEW i \in DOMAIN d.inc, NEW r \in Row, NEW F, NEW G,
           r.state = d.inc[i].state, r.bound = d.inc[i].bound, r.run = d.inc[i].run,
           r.mine = d.inc[i].mine, r.agent = d.inc[i].agent, r.pane = d.inc[i].pane,
           r.term = d.inc[i].term
    PROVE  Follows(d, [d EXCEPT !.inc[i] = r], F, G)
<1>1. Evolves(d.inc[i], r)
  BY DEF Evolves
<1> QED  BY <1>1, RowChange DEF Refused

\* The intent of a rename is recorded, or taken back.
LEMMA RenamingFollows ==
    ASSUME NEW d \in Store, Minted(d), NEW i \in DOMAIN d.inc, NEW n \in Names \cup {NoName}
    PROVE  /\ Follows(d, [d EXCEPT !.inc[i].renaming = n], {}, {})
           /\ [d EXCEPT !.inc[i].renaming = n].name = d.name
           /\ DOMAIN [d EXCEPT !.inc[i].renaming = n].inc = DOMAIN d.inc
<1> DEFINE o == d.inc[i]
           r == [o EXCEPT !.renaming = n]
<1>1. o \in Row
  BY RowTyped
<1>2. r \in Row
  BY <1>1 DEF Row
<1>3. [d EXCEPT !.inc[i].renaming = n] = [d EXCEPT !.inc[i] = r]
  BY DEF Store
<1>4. r.state = o.state /\ r.bound = o.bound /\ r.run = o.run /\ r.mine = o.mine
      /\ r.agent = o.agent /\ r.pane = o.pane /\ r.term = o.term
  BY <1>1 DEF Row
<1>5. /\ [d EXCEPT !.inc[i] = r].name = d.name
      /\ DOMAIN [d EXCEPT !.inc[i] = r].inc = DOMAIN d.inc
  BY DEF Store
<1> HIDE DEF r
<1> QED  BY <1>2, <1>3, <1>4, <1>5, QuietChange

\* A rename is committed.
LEMMA CommitRenameFollows ==
    ASSUME NEW d \in Store, Minted(d), NEW i \in DOMAIN d.inc, NEW n \in Names
    PROVE  Follows(d, CommitRename(d, i, n), {}, {})
<1> DEFINE a == d.inc[i].agent
           m == [d.name EXCEPT ![a] = n]
           e == [name |-> m, archived |-> d.archived, inc |-> d.inc]
<1>1. /\ d.name \in [Agents -> Names \cup {NoName}] /\ d.archived \in SUBSET Agents
      /\ a \in Agents
  BY RowTyped DEF Store, Row
<1>2. m \in [Agents -> Names \cup {NoName}]
  BY <1>1
<1>3. \A b \in Agents : m[b] = d.name[b] \/ m[b] \in Names
  BY <1>1
<1>4. CommitRename(d, i, n) = [e EXCEPT !.inc[i].renaming = NoName]
  <2>1. [d EXCEPT !.name[a] = n] = e
    BY DEF Store
  <2> HIDE DEF e
  <2> QED  BY <2>1 DEF CommitRename
<1> HIDE DEF m
<1>5. Follows(d, e, {}, {})
  BY <1>1, <1>2, <1>3, RenameFollows
<1>6. e \in Store /\ Minted(e) /\ i \in DOMAIN e.inc
  BY <1>5 DEF Follows
<1> HIDE DEF e
<1>7. Follows(e, [e EXCEPT !.inc[i].renaming = NoName], {}, {})
  BY <1>6, RenamingFollows
<1>8. Follows(d, [e EXCEPT !.inc[i].renaming = NoName], {} \cup {}, {} \cup {})
  BY <1>5, <1>7, FollowsTwice
<1> QED  BY <1>4, <1>8

\* A first message's row is written.
LEMMA FirstFollows ==
    ASSUME NEW d \in Store, Minted(d), NEW i \in DOMAIN d.inc,
           NEW x \in {"none", "pending", "sent", "accepted", "unknown"}
    PROVE  Follows(d, [d EXCEPT !.inc[i].first = x], {}, {})
<1> DEFINE o == d.inc[i]
           r == [o EXCEPT !.first = x]
<1>1. o \in Row
  BY RowTyped
<1>2. r \in Row
  BY <1>1 DEF Row
<1>3. [d EXCEPT !.inc[i].first = x] = [d EXCEPT !.inc[i] = r]
  BY DEF Store
<1>4. r.state = o.state /\ r.bound = o.bound /\ r.run = o.run /\ r.mine = o.mine
      /\ r.agent = o.agent /\ r.pane = o.pane /\ r.term = o.term
  BY <1>1 DEF Row
<1> HIDE DEF r
<1> QED  BY <1>2, <1>3, <1>4, QuietChange

LEMMA CreateInitialFollows ==
    ASSUME NEW d \in Store, Minted(d), NEW i \in DOMAIN d.inc
    PROVE  Follows(d, BeginInitialMessage(d, i), {}, {})
<1> DEFINE x == IF d.inc[i].state = "ready" THEN "pending" ELSE d.inc[i].first
<1>1. x \in {"none", "pending", "sent", "accepted", "unknown"}
  BY RowTyped DEF Row
<1>2. BeginInitialMessage(d, i) = [d EXCEPT !.inc[i].first = x]
  BY DEF BeginInitialMessage, CreateInitialMessage, Store
<1> HIDE DEF x
<1>3. Follows(d, [d EXCEPT !.inc[i].first = x], {}, {})
  BY <1>1, FirstFollows
<1> QED  BY <1>2, <1>3

LEMMA CommitInitialFollows ==
    ASSUME NEW d \in Store, Minted(d), NEW i \in DOMAIN d.inc
    PROVE  Follows(d, CommitInitialIntent(d, i), {}, {})
BY FirstFollows DEF CommitInitialIntent

LEMMA CompleteInitialFollows ==
    ASSUME NEW d \in Store, Minted(d), NEW i \in DOMAIN d.inc, NEW ok \in BOOLEAN
    PROVE  Follows(d, CompleteInitialDelivery(d, i, ok), {}, {})
BY FirstFollows, NothingFollows DEF CompleteInitialDelivery

\* A retirement is asked for, or resumed.
LEMMA RetiringFollows ==
    ASSUME NEW d \in Store, Minted(d), NEW i \in DOMAIN d.inc,
           d.inc[i].state \in {"ready", "retiring"}
    PROVE  Follows(d, Retiring(d, i), {}, {}) /\ Retiring(d, i).inc[i].state = "retiring"
<1> DEFINE o == d.inc[i]
           q == [o EXCEPT !.state = "retiring"]
           r == [q EXCEPT !.mine = TRUE]
<1>1. CASE d.inc[i].state = "retiring"
  BY <1>1, NothingFollows DEF Retiring
<1>2. CASE d.inc[i].state = "ready"
  <2>1. o \in Row
    BY RowTyped
  <2>2. q \in Row /\ r \in Row
    BY <2>1 DEF Row, States
  <2>3. Retiring(d, i) = [d EXCEPT !.inc[i] = r]
    BY <1>2 DEF Retiring, RequestRetirement, Store
  <2>4. r.state = "retiring" /\ r.bound = o.bound /\ r.run = o.run /\ r.mine = TRUE
        /\ r.agent = o.agent /\ r.pane = o.pane /\ r.term = o.term
    BY <2>1 DEF Row
  <2> HIDE DEF r
  <2>5. Evolves(o, r)
    BY <1>2, <2>4 DEF Evolves, Before
  <2>6. Follows(d, [d EXCEPT !.inc[i] = r], {}, {})
    BY <2>2, <2>4, <2>5, RowChange DEF Refused
  <2>7. [d EXCEPT !.inc[i] = r].inc[i] = r
    BY DEF Store
  <2> QED  BY <2>3, <2>4, <2>6, <2>7
<1> QED  BY <1>1, <1>2

\* A row in some state takes a state that is neither a start's nor a retirement's.
LEMMA StateFollows ==
    ASSUME NEW d \in Store, Minted(d), NEW i \in DOMAIN d.inc, NEW t \in States, NEW G,
           t \notin Before \cup {"retiring", "failed"}, t = "retired" => i \in G
    PROVE  Follows(d, [d EXCEPT !.inc[i].state = t], {}, G)
<1> DEFINE o == d.inc[i]
           r == [o EXCEPT !.state = t]
<1>1. o \in Row
  BY RowTyped
<1>2. r \in Row
  BY <1>1 DEF Row
<1>3. [d EXCEPT !.inc[i].state = t] = [d EXCEPT !.inc[i] = r]
  BY DEF Store
<1>4. r.state = t /\ r.bound = o.bound /\ r.run = o.run /\ r.mine = o.mine
      /\ r.agent = o.agent /\ r.pane = o.pane /\ r.term = o.term
  BY <1>1 DEF Row
<1> HIDE DEF r
<1>5. Evolves(o, r)
  BY <1>4 DEF Evolves, Before
<1>6. ~Refused(r)
  BY <1>4 DEF Refused
<1> QED  BY <1>2, <1>3, <1>4, <1>5, <1>6, RowChange

\* A retirement completes on a snapshot that does not show its seat occupied.
LEMMA CompleteRetirementFollows ==
    ASSUME NEW d \in Store, Minted(d), NEW i \in DOMAIN d.inc, NEW v
    PROVE  Follows(d, CompleteRetirementIfAbsent(d, i, v), {},
                   {j \in {i} : d.inc[i].state = "retiring" /\ ~SeatLive(v, d.inc[i])})
<1> DEFINE G == {j \in {i} : d.inc[i].state = "retiring" /\ ~SeatLive(v, d.inc[i])}
<1>1. CASE SeatLive(v, d.inc[i]) \/ d.inc[i].state # "retiring"
  BY <1>1, NothingFollows DEF CompleteRetirementIfAbsent
<1>2. CASE ~(SeatLive(v, d.inc[i]) \/ d.inc[i].state # "retiring")
  <2>1. i \in G
    BY <1>2
  <2> HIDE DEF G
  <2>2. Follows(d, [d EXCEPT !.inc[i].state = "retired"], {}, G)
    BY <2>1, StateFollows DEF States, Before
  <2> QED  BY <1>2, <2>2 DEF CompleteRetirementIfAbsent, G
<1> QED  BY <1>1, <1>2

\* A name is released by the newest Ready row that holds it and is gone.
LEMMA ReleaseFollows ==
    ASSUME NEW d \in Store, Minted(d), NEW n, NEW v
    PROVE  /\ Follows(d, ReleaseAbsentAlias(d, n, v), {}, {})
           /\ ReleaseAbsentAlias(d, n, v).name = d.name
           /\ Len(ReleaseAbsentAlias(d, n, v).inc) = Len(d.inc)
<1> DEFINE gone == {i \in ReadyNamed(d, n) : ~SeatLive(v, d.inc[i])}
           g == Newest(gone)
<1>1. CASE gone = {}
  BY <1>1, NothingFollows DEF ReleaseAbsentAlias
<1>2. CASE gone # {}
  <2>1. d.inc \in Seq(Row)
    BY DEF Store
  <2>2. gone \in SUBSET (1..Len(d.inc)) /\ Len(d.inc) \in Nat
    BY <2>1 DEF ReadyNamed, In
  <2>3. g \in DOMAIN d.inc
    <3> HIDE DEF gone
    <3>1. Newest(gone) \in gone
      BY <1>2, <2>2, NewestIsLast
    <3>2. g \in 1..Len(d.inc)
      BY <2>2, <3>1
    <3>3. DOMAIN d.inc = 1..Len(d.inc)
      BY <2>1
    <3> QED  BY <3>2, <3>3
  <2>4. ReleaseAbsentAlias(d, n, v) = [d EXCEPT !.inc[g].state = "lost"]
    BY <1>2 DEF ReleaseAbsentAlias
  <2> HIDE DEF g
  <2>5. Follows(d, [d EXCEPT !.inc[g].state = "lost"], {}, {})
    BY <2>3, StateFollows DEF States, Before
  <2>6. /\ [d EXCEPT !.inc[g].state = "lost"].name = d.name
        /\ Len([d EXCEPT !.inc[g].state = "lost"].inc) = Len(d.inc)
    BY <2>1 DEF Store
  <2> QED  BY <2>4, <2>5, <2>6
<1> QED  BY <1>1, <1>2

(***************************************************************************)
(* Recovery, stage by stage.                                                *)
(***************************************************************************)
Seat == [open : BOOLEAN, term : Terms, run : Runs, name : Names \cup {NoName},
         stage : {"launching", "ready", "manual"}]
Full == [Panes -> Seat]

\* Every row is replaced by one it may become.
LEMMA RowsFollow ==
    ASSUME NEW d \in Store, Minted(d), NEW m \in [Agents -> Names \cup {NoName}],
           \A a \in Agents : m[a] = d.name[a] \/ m[a] \in Names,
           NEW x \in SUBSET Agents, NEW F, NEW G, NEW s \in [DOMAIN d.inc -> Row],
           \A i \in DOMAIN d.inc :
              /\ Evolves(d.inc[i], s[i])
              /\ Refused(s[i]) => Refused(d.inc[i]) \/ i \in F
              /\ s[i].state = "retired" => d.inc[i].state = "retired" \/ i \in G
    PROVE  /\ Follows(d, [name |-> m, archived |-> x, inc |-> s], F, G)
           /\ Len(s) = Len(d.inc)
<1> DEFINE e == [name |-> m, archived |-> x, inc |-> s]
<1>1. d.inc \in Seq(Row) /\ DOMAIN d.inc = 1..Len(d.inc) /\ Len(d.inc) \in Nat
  BY DEF Store
<1>2. s \in Seq(Row) /\ Len(s) = Len(d.inc) /\ DOMAIN s = DOMAIN d.inc
  BY <1>1
<1>3. e \in Store /\ e.inc = s /\ e.name = m
  BY <1>2 DEF Store
<1> HIDE DEF e
<1>4. \A j \in DOMAIN d.inc : d.inc[j].agent \in Agents
  BY RowTyped DEF Row
<1>5. Minted(e)
  <2>1. ASSUME NEW j \in DOMAIN d.inc PROVE m[s[j].agent] \in Names
    <3>1. s[j].agent = d.inc[j].agent
      BY DEF Evolves
    <3>2. d.name[d.inc[j].agent] \in Names
      BY DEF Minted
    <3> QED  BY <1>4, <3>1, <3>2
  <2> QED  BY <1>2, <1>3, <2>1 DEF Minted
<1>6. Len(d.inc) <= Len(e.inc) /\ DOMAIN e.inc \ DOMAIN d.inc = {}
  BY <1>1, <1>2, <1>3
<1> QED  BY <1>2, <1>3, <1>5, <1>6 DEF Follows, e

\* What settling the Ready rows does to a row, besides its pending name.
Settled(r, s) ==
    /\ s.op = r.op /\ s.mine = r.mine /\ s.agent = r.agent /\ s.run = r.run
    /\ s.bound = r.bound /\ s.pane = r.pane /\ s.term = r.term
    /\ s.state = r.state \/ (r.state = "ready" /\ s.state = "lost")

LEMMA ReconcileReadyFollows ==
    ASSUME NEW d \in Store, Minted(d), NEW v
    PROVE  /\ Follows(d, ReconcileReady(d, v), {}, {})
           /\ Len(ReconcileReady(d, v).inc) = Len(d.inc)
           /\ \A i \in DOMAIN d.inc : Settled(d.inc[i], ReconcileReady(d, v).inc[i])
<1> DEFINE renamed == {i \in In(d, {"ready"}) : /\ d.inc[i].renaming # NoName
                                                /\ ExactLive(v, d.inc[i], d.inc[i].renaming)}
           exact == {i \in In(d, {"ready"}) : ExactLive(v, d.inc[i], NameOf(d, i))}
           unnamed == {i \in In(d, {"ready"}) : UnnamedLive(v, d.inc[i])}
           absent == In(d, {"ready"}) \ (renamed \cup exact \cup unnamed)
           of(a) == {i \in renamed : d.inc[i].agent = a}
           m == [a \in Agents |-> IF of(a) = {} THEN d.name[a]
                                  ELSE d.inc[Newest(of(a))].renaming]
           t(i) == IF i \in absent THEN "lost" ELSE d.inc[i].state
           n(i) == IF i \in renamed \cup exact THEN NoName ELSE d.inc[i].renaming
           row(i) == [[d.inc[i] EXCEPT !.state = t(i)] EXCEPT !.renaming = n(i)]
           s == [i \in DOMAIN d.inc |-> row(i)]
<1>1. /\ d.inc \in Seq(Row) /\ DOMAIN d.inc = 1..Len(d.inc) /\ Len(d.inc) \in Nat
      /\ d.name \in [Agents -> Names \cup {NoName}] /\ d.archived \in SUBSET Agents
  BY DEF Store
<1>2. ReconcileReady(d, v) = [name |-> m, archived |-> d.archived, inc |-> s]
  <2>1. ReconcileReady(d, v) = [d EXCEPT !.name = m, !.inc = s]
    BY DEF ReconcileReady
  <2> HIDE DEF m, s
  <2> QED  BY <2>1 DEF Store
<1>3. \A i \in absent : i \in DOMAIN d.inc /\ d.inc[i].state = "ready"
  BY DEF In
<1>4. ASSUME NEW i \in DOMAIN d.inc
      PROVE  /\ row(i) \in Row /\ Settled(d.inc[i], row(i))
  <2>1. d.inc[i] \in Row
    BY RowTyped
  <2>2. n(i) \in Names \cup {NoName}
    BY <2>1 DEF Row
  <2>3. t(i) \in States /\ (t(i) = d.inc[i].state \/ (d.inc[i].state = "ready" /\ t(i) = "lost"))
    BY <1>3, <2>1 DEF Row, States
  <2> HIDE DEF t, n
  <2> DEFINE q == [d.inc[i] EXCEPT !.state = t(i)]
  <2>4. /\ q \in Row /\ q.state = t(i) /\ q.op = d.inc[i].op /\ q.mine = d.inc[i].mine
        /\ q.agent = d.inc[i].agent /\ q.run = d.inc[i].run /\ q.bound = d.inc[i].bound
        /\ q.pane = d.inc[i].pane /\ q.term = d.inc[i].term
    BY <2>1, <2>3 DEF Row
  <2>5. row(i) = [q EXCEPT !.renaming = n(i)]
    OBVIOUS
  <2> HIDE DEF q, row
  <2>6. /\ row(i) \in Row /\ row(i).state = q.state /\ row(i).op = q.op
        /\ row(i).mine = q.mine /\ row(i).agent = q.agent /\ row(i).run = q.run
        /\ row(i).bound = q.bound /\ row(i).pane = q.pane /\ row(i).term = q.term
    BY <2>2, <2>4, <2>5 DEF Row
  <2> QED  BY <2>3, <2>4, <2>6 DEF Settled
<1>5. ASSUME NEW a \in Agents PROVE m[a] = d.name[a] \/ m[a] \in Names
  <2>1. CASE of(a) = {}
    BY <2>1
  <2>2. CASE of(a) # {}
    <3>1. of(a) \in SUBSET (1..Len(d.inc))
      BY <1>1 DEF In
    <3>2. m[a] = d.inc[Newest(of(a))].renaming
      BY <2>2
    <3>3. \A i \in of(a) : i \in DOMAIN d.inc /\ d.inc[i].renaming # NoName
      BY DEF In
    <3> HIDE DEF of, m
    <3>4. Newest(of(a)) \in of(a)
      BY <1>1, <2>2, <3>1, NewestIsLast
    <3>5. d.inc[Newest(of(a))] \in Row /\ d.inc[Newest(of(a))].renaming # NoName
      BY <3>3, <3>4, RowTyped
    <3> QED  BY <3>2, <3>5 DEF Row
  <2> QED  BY <2>1, <2>2
<1>6. m \in [Agents -> Names \cup {NoName}]
  <2>1. \A a \in Agents : m[a] \in Names \cup {NoName}
    BY <1>1, <1>5
  <2> QED  BY <2>1
<1>7. s \in [DOMAIN d.inc -> Row] /\ \A i \in DOMAIN d.inc : Settled(d.inc[i], s[i])
  BY <1>4
<1> HIDE DEF m, s
<1>8. \A i \in DOMAIN d.inc :
          /\ Evolves(d.inc[i], s[i])
          /\ Refused(s[i]) => Refused(d.inc[i]) \/ i \in {}
          /\ s[i].state = "retired" => d.inc[i].state = "retired" \/ i \in {}
  BY <1>7 DEF Settled, Evolves, Refused, Before
<1>9. /\ Follows(d, [name |-> m, archived |-> d.archived, inc |-> s], {}, {})
      /\ Len(s) = Len(d.inc)
  <2> DEFINE x == d.archived
             none == {}
  <2>1. x \in SUBSET Agents /\ \A a \in Agents : m[a] = d.name[a] \/ m[a] \in Names
    BY <1>1, <1>5
  <2>2. s \in [DOMAIN d.inc -> Row]
    BY <1>7
  <2>3. \A i \in DOMAIN d.inc :
            /\ Evolves(d.inc[i], s[i])
            /\ Refused(s[i]) => Refused(d.inc[i]) \/ i \in none
            /\ s[i].state = "retired" => d.inc[i].state = "retired" \/ i \in none
    BY <1>8
  <2> HIDE DEF x, none
  <2>4. /\ Follows(d, [name |-> m, archived |-> x, inc |-> s], none, none)
        /\ Len(s) = Len(d.inc)
    BY <1>6, <2>1, <2>2, <2>3, RowsFollow
  <2> QED  BY <2>4 DEF x, none
<1> QED  BY <1>2, <1>7, <1>9

\* An agent that is continued does not run, and its newest row was not ended on purpose.
LEMMA ClaimsAreOfStopped ==
    ASSUME NEW d \in Store, NEW v, NEW k \in Claims(d, v)
    PROVE  /\ k \in [pane : Panes, source : DOMAIN d.inc]
           /\ d.inc[k.source].agent \notin RunningAgents(d)
           /\ d.inc[k.source].agent \notin Blocked(d)
<1> DEFINE match(p) == {i \in SessionRows(d) : /\ d.inc[i].run = v[p].run
                                               /\ v[p].name \in {NoName, NameOf(d, i)}}
<1>1. d.inc \in Seq(Row) /\ DOMAIN d.inc = 1..Len(d.inc) /\ Len(d.inc) \in Nat
  BY DEF Store
<1>2. CASE k \in SessionClaims(d, v)
  <2>1. /\ k \in [pane : Panes, source : DOMAIN d.inc]
        /\ match(k.pane) # {} /\ k.source = Newest(match(k.pane))
        /\ d.inc[k.source].agent \notin RunningAgents(d)
    BY <1>2 DEF SessionClaims
  <2>2. SessionRows(d) \in SUBSET (1..Len(d.inc))
    BY <1>1 DEF SessionRows, In
  <2>3. match(k.pane) \in SUBSET (1..Len(d.inc)) /\ match(k.pane) \subseteq SessionRows(d)
    BY <2>2
  <2>4. k.source \in SessionRows(d)
    <3> HIDE DEF match
    <3>1. Newest(match(k.pane)) \in match(k.pane)
      BY <1>1, <2>1, <2>3, NewestIsLast
    <3> QED  BY <2>1, <2>3, <3>1
  <2>5. d.inc[k.source].agent \notin Blocked(d)
    BY <2>4 DEF SessionRows
  <2> QED  BY <2>1, <2>5
<1>3. CASE k \in SeatClaims(d, v, SessionClaims(d, v))
  BY <1>3 DEF SeatClaims, In
<1> QED  BY <1>2, <1>3 DEF Claims

\* Some of finitely many values can be put in an order.
LEMMA OrderExists ==
    ASSUME NEW S, IsFiniteSet(S)
    PROVE  /\ Cardinality(S) \in Nat
           /\ \E f \in [1..Cardinality(S) -> S] : \A x, y \in DOMAIN f : x # y => f[x] # f[y]
<1>1. Cardinality(S) \in Nat /\ ExistsBijection(1..Cardinality(S), S)
  BY FS_CardinalityType
<1> QED  BY <1>1 DEF ExistsBijection, Bijection, Injection, IsInjective

LEMMA ClaimsAreFinite ==
    ASSUME NEW d \in Store, NEW C, C \subseteq [pane : Panes, source : DOMAIN d.inc]
    PROVE  IsFiniteSet(C)
<1> DEFINE P == Panes \X DOMAIN d.inc
           f == [x \in P |-> [pane |-> x[1], source |-> x[2]]]
           D == {f[x] : x \in P}
<1>1. IsFiniteSet(Panes)
  BY IdentitiesAssumption
<1>2. DOMAIN d.inc = 1..Len(d.inc) /\ Len(d.inc) \in Nat
  BY DEF Store
<1>3. IsFiniteSet(DOMAIN d.inc)
  BY <1>2, FS_Interval
<1>4. IsFiniteSet(P)
  BY <1>1, <1>3, FS_Product
<1>5. IsFiniteSet(D)
  <2>1. f \in [P -> D]
    OBVIOUS
  <2>2. f \in Surjection(P, D)
    BY <2>1 DEF Surjection
  <2> QED  BY <1>4, <2>2, FS_Surjection
<1>6. C \subseteq D
  <2>1. ASSUME NEW k \in C PROVE k \in D
    <3>1. k = [pane |-> k.pane, source |-> k.source] /\ <<k.pane, k.source>> \in P
      OBVIOUS
    <3>2. k = f[<<k.pane, k.source>>]
      BY <3>1
    <3> QED  BY <3>1, <3>2
  <2> QED  BY <2>1
<1> QED  BY <1>5, <1>6, FS_Subset

\* Ready rows are added at the end.
LEMMA RowsAdded ==
    ASSUME NEW d \in Store, Minted(d), NEW x \in SUBSET Agents, NEW t \in Seq(Row),
           Len(d.inc) <= Len(t), \A i \in DOMAIN d.inc : t[i] = d.inc[i],
           \A i \in DOMAIN t \ DOMAIN d.inc :
              d.name[t[i].agent] \in Names /\ t[i].mine /\ t[i].state = "ready"
    PROVE  Follows(d, [name |-> d.name, archived |-> x, inc |-> t], {}, {})
<1> DEFINE e == [name |-> d.name, archived |-> x, inc |-> t]
<1>1. e \in Store /\ e.inc = t /\ e.name = d.name
  BY DEF Store
<1> HIDE DEF e
<1>2. Minted(e)
  BY <1>1 DEF Minted
<1>3. \A i \in DOMAIN d.inc :
          /\ Evolves(d.inc[i], e.inc[i])
          /\ Refused(e.inc[i]) => Refused(d.inc[i]) \/ i \in {}
          /\ e.inc[i].state = "retired" => d.inc[i].state = "retired" \/ i \in {}
  BY <1>1 DEF Evolves
<1>4. \A i \in DOMAIN e.inc \ DOMAIN d.inc :
          /\ e.inc[i].mine
          /\ Refused(e.inc[i]) => i \in {}
          /\ e.inc[i].state = "retired" => i \in {}
  BY <1>1 DEF Refused
<1> QED  BY <1>1, <1>2, <1>3, <1>4 DEF Follows, e

\* The rows of the continued agents come after the others, which stay as they are.
LEMMA ContinueFollows ==
    ASSUME NEW d \in Store, Minted(d), NEW v \in Full
    PROVE  /\ Follows(d, Continue(d, v), {}, {})
           /\ \A i \in DOMAIN d.inc : Continue(d, v).inc[i] = d.inc[i]
           /\ \A i \in DOMAIN Continue(d, v).inc \ DOMAIN d.inc :
                 /\ Continue(d, v).inc[i].state = "ready"
                 /\ Continue(d, v).inc[i].op = "succeeded"
                 /\ \E k \in Claims(d, v) :
                       Continue(d, v).inc[i].agent = d.inc[k.source].agent
<1> DEFINE claims == Claims(d, v)
           agent(k) == d.inc[k.source].agent
           name(k) == d.name[agent(k)]
           contested(k) == \E l \in claims : name(l) = name(k) /\ agent(l) # agent(k)
           held(k) == \E i \in In(d, {"ready", "starting"}) :
                         /\ d.inc[i].agent # agent(k)
                         /\ \/ NameOf(d, i) = name(k)
                            \/ d.inc[i].state = "ready" /\ d.inc[i].renaming = name(k)
           granted == {k \in claims : ~contested(k) /\ ~held(k)}
           order == CHOOSE f \in [1..Cardinality(granted) -> granted] :
                       \A x, y \in DOMAIN f : x # y => f[x] # f[y]
           row(k) == [NewInc(agent(k), name(k), k.pane, v[k.pane].term) EXCEPT
                         !.state = "ready", !.kind = "none", !.op = "succeeded",
                         !.bound = TRUE, !.run = v[k.pane].run]
           n == Cardinality(granted)
           s == [j \in DOMAIN order |-> row(order[j])]
           x == d.archived \ {agent(k) : k \in granted}
           t == d.inc \o s
<1>1. d.archived \in SUBSET Agents
  BY DEF Store
<1>2. \A k \in claims : k \in [pane : Panes, source : DOMAIN d.inc]
  BY ClaimsAreOfStopped
<1>3. granted \subseteq claims /\ IsFiniteSet(granted)
  <2>1. granted \subseteq claims
    OBVIOUS
  <2> HIDE DEF granted
  <2> QED  BY <1>2, <2>1, ClaimsAreFinite
<1>4. n \in Nat /\ order \in [1..n -> granted]
  <2> HIDE DEF granted
  <2> QED  BY <1>3, OrderExists
<1>5. ASSUME NEW k \in claims
      PROVE  /\ row(k) \in Row /\ row(k).agent = agent(k) /\ row(k).mine
             /\ row(k).state = "ready" /\ row(k).op = "succeeded"
             /\ name(k) \in Names
  <2>1. k.pane \in Panes /\ k.source \in DOMAIN d.inc
    BY <1>2
  <2>2. agent(k) \in Agents /\ name(k) \in Names
    BY <2>1, RowTyped DEF Row, Minted
  <2>3. v[k.pane].term \in Terms /\ v[k.pane].run \in Runs
    BY <2>1 DEF Full, Seat
  <2>4. row(k) = [agent |-> agent(k), state |-> "ready", pane |-> k.pane,
                  term |-> v[k.pane].term, bound |-> TRUE, kind |-> "none",
                  op |-> "succeeded", mine |-> TRUE, want |-> name(k), renaming |-> NoName,
                  run |-> v[k.pane].run, replaces |-> 0, first |-> "none"]
    <3> HIDE DEF agent, name
    <3>1. row(k) = [NewInc(agent(k), name(k), k.pane, v[k.pane].term) EXCEPT
                       !.state = "ready", !.kind = "none", !.op = "succeeded",
                       !.bound = TRUE, !.run = v[k.pane].run]
      OBVIOUS
    <3> DEFINE p == k.pane
               u == v[p].term
               w == v[p].run
    <3> HIDE DEF p, u, w, row
    <3>2. row(k) = [NewInc(agent(k), name(k), p, u) EXCEPT
                       !.state = "ready", !.kind = "none", !.op = "succeeded",
                       !.bound = TRUE, !.run = w]
      BY <3>1 DEF p, u, w
    <3> QED  BY <3>2 DEF NewInc, p, u, w
  <2> HIDE DEF row, agent, name
  <2>5. row(k) \in Row
    <3>1. 0 \in 0..MaxIncs
      BY IdentitiesAssumption
    <3> QED  BY <2>1, <2>2, <2>3, <2>4, <3>1 DEF Row, States
  <2> QED  BY <2>2, <2>4, <2>5
<1>6. Continue(d, v) = [name |-> d.name, archived |-> x, inc |-> d.inc \o s]
  <2>1. Continue(d, v) = [d EXCEPT !.archived = x, !.inc = d.inc \o s]
    BY DEF Continue
  <2> HIDE DEF x, s
  <2> QED  BY <2>1 DEF Store
<1>7. \A j \in 1..n : order[j] \in claims /\ s[j] = row(order[j])
  <2> HIDE DEF granted, order, row
  <2> QED  BY <1>3, <1>4
<1>8. /\ s \in [1..n -> Row] /\ x \in SUBSET Agents
      /\ \A j \in 1..n : /\ d.name[s[j].agent] \in Names
                         /\ s[j].mine /\ s[j].state = "ready" /\ s[j].op = "succeeded"
                         /\ \E k \in claims : s[j].agent = agent(k)
  <2>1. DOMAIN s = 1..n
    <3> HIDE DEF granted, order, row
    <3> QED  BY <1>4
  <2>2. \A j \in 1..n :
           /\ s[j] \in Row /\ d.name[s[j].agent] \in Names
           /\ s[j].mine /\ s[j].state = "ready" /\ s[j].op = "succeeded"
           /\ \E k \in claims : s[j].agent = agent(k)
    <3> HIDE DEF claims, granted, order, row, s
    <3> QED  BY <1>5, <1>7
  <2>3. s = [j \in 1..n |-> s[j]]
    <3> HIDE DEF granted, order, row
    <3> QED  BY <1>4
  <2>4. s \in [1..n -> Row]
    <3> HIDE DEF s, n
    <3> QED  BY <2>2, <2>3
  <2> QED  BY <1>1, <2>2, <2>4
<1>13. n \in Nat /\ s \in [1..n -> Row] /\ x \in SUBSET Agents
  BY <1>4, <1>8
<1> HIDE DEF claims, s, x, n, agent, name, contested, held, granted, order, row
<1>12. \A j \in 1..n : /\ d.name[s[j].agent] \in Names
                      /\ s[j].mine /\ s[j].state = "ready"
  BY <1>8
<1>14. t = d.inc \o s
  OBVIOUS
<1> HIDE DEF t
<1>15. /\ d.inc \in Seq(Row) /\ DOMAIN d.inc = 1..Len(d.inc) /\ Len(d.inc) \in Nat
       /\ s \in Seq(Row) /\ Len(s) = n
  BY <1>13 DEF Store
<1>16. /\ t \in Seq(Row) /\ Len(t) = Len(d.inc) + n
       /\ \A i \in 1..(Len(d.inc) + n) :
             t[i] = IF i <= Len(d.inc) THEN d.inc[i] ELSE s[i - Len(d.inc)]
  BY <1>14, <1>15, ConcatProperties
<1>17. DOMAIN t = 1..(Len(d.inc) + n)
  BY <1>16
<1>18. \A i \in DOMAIN d.inc : t[i] = d.inc[i]
  BY <1>13, <1>15, <1>16
<1>19. ASSUME NEW i \in DOMAIN t \ DOMAIN d.inc
       PROVE  \E j \in 1..n : t[i] = s[j]
  <2>1. i \in 1..(Len(d.inc) + n) /\ ~(i <= Len(d.inc))
    BY <1>15, <1>17
  <2>2. i - Len(d.inc) \in 1..n
    BY <1>13, <1>15, <2>1
  <2>3. t[i] = s[i - Len(d.inc)]
    BY <1>16, <2>1
  <2> QED  BY <2>2, <2>3
<1>9. Follows(d, [name |-> d.name, archived |-> x, inc |-> t], {}, {})
  <2>1. \A i \in DOMAIN t \ DOMAIN d.inc :
           d.name[t[i].agent] \in Names /\ t[i].mine /\ t[i].state = "ready"
    BY <1>12, <1>19
  <2>2. Len(d.inc) <= Len(t)
    BY <1>13, <1>15, <1>16
  <2> QED  BY <1>13, <1>16, <1>18, <2>1, <2>2, RowsAdded
<1>10. Continue(d, v).inc = t
  BY <1>6, <1>14
<1>11. ASSUME NEW i \in DOMAIN Continue(d, v).inc \ DOMAIN d.inc
      PROVE  /\ Continue(d, v).inc[i].state = "ready"
             /\ Continue(d, v).inc[i].op = "succeeded"
             /\ \E k \in claims : Continue(d, v).inc[i].agent = agent(k)
  BY <1>8, <1>10, <1>19
<1> QED  BY <1>6, <1>9, <1>10, <1>11, <1>14, <1>18 DEF claims, agent

\* An unknown start whose operation is settled is lost once it is nowhere to be seen.
LEMMA SettleAbsentFollows ==
    ASSUME NEW d \in Store, Minted(d), NEW v
    PROVE  /\ Follows(d, SettleAbsentUnknown(d, v), {}, {})
           /\ Len(SettleAbsentUnknown(d, v).inc) = Len(d.inc)
           /\ \A i \in DOMAIN d.inc :
                 \/ SettleAbsentUnknown(d, v).inc[i] = d.inc[i]
                 \/ /\ d.inc[i].state = "unknown" /\ d.inc[i].op \notin Open
                    /\ SettleAbsentUnknown(d, v).inc[i] = [d.inc[i] EXCEPT !.state = "lost"]
<1> DEFINE settled(i) == /\ d.inc[i].state = "unknown" /\ d.inc[i].op \notin Open
                         /\ ~NameLive(v, NameOf(d, i))
                         /\ ~(d.inc[i].bound /\ SeatLive(v, d.inc[i]))
           row(i) == IF settled(i) THEN [d.inc[i] EXCEPT !.state = "lost"] ELSE d.inc[i]
           s == [i \in DOMAIN d.inc |-> row(i)]
<1>1. d.name \in [Agents -> Names \cup {NoName}] /\ d.archived \in SUBSET Agents
  BY DEF Store
<1>2. SettleAbsentUnknown(d, v) = [name |-> d.name, archived |-> d.archived, inc |-> s]
  <2>1. SettleAbsentUnknown(d, v) = [d EXCEPT !.inc = s]
    BY DEF SettleAbsentUnknown
  <2> HIDE DEF s
  <2> QED  BY <2>1 DEF Store
<1>3. ASSUME NEW i \in DOMAIN d.inc
      PROVE  /\ row(i) \in Row
             /\ \/ row(i) = d.inc[i]
                \/ /\ d.inc[i].state = "unknown" /\ d.inc[i].op \notin Open
                   /\ row(i) = [d.inc[i] EXCEPT !.state = "lost"]
             /\ Evolves(d.inc[i], row(i))
             /\ Refused(row(i)) => Refused(d.inc[i]) \/ i \in {}
             /\ row(i).state = "retired" => d.inc[i].state = "retired" \/ i \in {}
  <2>1. d.inc[i] \in Row
    BY RowTyped
  <2>2. CASE ~settled(i)
    BY <2>1, <2>2 DEF Evolves
  <2>3. CASE settled(i)
    <3> DEFINE r == [d.inc[i] EXCEPT !.state = "lost"]
    <3>1. r \in Row
      BY <2>1 DEF Row, States
    <3>2. /\ r.state = "lost" /\ r.bound = d.inc[i].bound /\ r.run = d.inc[i].run
          /\ r.mine = d.inc[i].mine /\ r.agent = d.inc[i].agent
          /\ r.pane = d.inc[i].pane /\ r.term = d.inc[i].term
      BY <2>1 DEF Row
    <3>3. row(i) = r
      BY <2>3
    <3> HIDE DEF r, row
    <3>4. Evolves(d.inc[i], r) /\ ~Refused(r)
      BY <2>3, <3>2 DEF Evolves, Before, Refused
    <3> QED  BY <2>3, <3>1, <3>2, <3>3, <3>4 DEF r
  <2> QED  BY <2>2, <2>3
<1> HIDE DEF row
<1>4. s \in [DOMAIN d.inc -> Row] /\ \A i \in DOMAIN d.inc : s[i] = row(i)
  BY <1>3
<1> HIDE DEF s
<1>5. \A i \in DOMAIN d.inc :
         /\ Evolves(d.inc[i], s[i])
         /\ Refused(s[i]) => Refused(d.inc[i]) \/ i \in {}
         /\ s[i].state = "retired" => d.inc[i].state = "retired" \/ i \in {}
  BY <1>3, <1>4
<1>6. /\ Follows(d, [name |-> d.name, archived |-> d.archived, inc |-> s], {}, {})
      /\ Len(s) = Len(d.inc)
  BY <1>1, <1>4, <1>5, RowsFollow
<1> QED  BY <1>2, <1>3, <1>4, <1>6

\* An open operation of an earlier daemon is completed, or its outcome is unknown.
LEMMA RecoverOperationFollows ==
    ASSUME NEW d \in Store, Minted(d), NEW i \in DOMAIN d.inc, NEW v \in Full
    PROVE  /\ Follows(d, RecoverOperation(d, v, i), {},
                      {j \in {i} : d.inc[i].state = "retiring" /\ ~SeatLive(v, d.inc[i])})
           /\ \/ RecoverOperation(d, v, i).inc[i].state
                    \in {d.inc[i].state, "retired", "unknown"}
              \/ d.inc[i].state = "starting"
<1> DEFINE e == RecoverFirst(d, i)
           o == v[d.inc[i].pane]
           G == {j \in {i} : d.inc[i].state = "retiring" /\ ~SeatLive(v, d.inc[i])}
           x == IF d.inc[i].first = "sent" THEN "unknown" ELSE d.inc[i].first
           r == [d.inc[i] EXCEPT !.first = x]
<1>1. d.inc[i] \in Row
  BY RowTyped
<1>2. r \in Row
  BY <1>1 DEF Row
<1>3. e = [d EXCEPT !.inc[i] = r]
  BY DEF RecoverFirst, Store
<1>4. /\ r.state = d.inc[i].state /\ r.bound = d.inc[i].bound /\ r.run = d.inc[i].run
      /\ r.mine = d.inc[i].mine /\ r.agent = d.inc[i].agent
      /\ r.pane = d.inc[i].pane /\ r.term = d.inc[i].term /\ r.op = d.inc[i].op
  BY <1>1 DEF Row
<1>5. e.inc[i] = r /\ i \in DOMAIN e.inc
  BY <1>3 DEF Store
<1> HIDE DEF r
<1>6. Follows(d, e, {}, {})
  BY <1>2, <1>3, <1>4, QuietChange
<1> HIDE DEF e
<1>7. e \in Store /\ Minted(e)
  BY <1>6 DEF Follows
<1>8. CASE d.inc[i].state = "retiring"
  <2> DEFINE f == CompleteRetirementIfAbsent(e, i, v)
             H == {j \in {i} : e.inc[i].state = "retiring" /\ ~SeatLive(v, e.inc[i])}
  <2>1. H = G
    BY <1>4, <1>5 DEF SeatLive, Occupied, HasTerminal
  <2>2. Follows(e, f, {}, H)
    BY <1>5, <1>7, CompleteRetirementFollows
  <2>3. f.inc[i].state \in {"retiring", "retired"}
    <3>1. f = e \/ f = [e EXCEPT !.inc[i].state = "retired"]
      BY DEF CompleteRetirementIfAbsent
    <3>2. [e EXCEPT !.inc[i].state = "retired"].inc[i].state = "retired"
      <4>1. e.inc[i] \in Row
        BY <1>5, <1>7, RowTyped
      <4> QED  BY <1>5, <1>7, <4>1 DEF Store, Row
    <3> QED  BY <1>4, <1>5, <1>8, <3>1, <3>2
  <2>4. RecoverOperation(d, v, i) = f
    BY <1>8 DEF RecoverOperation, e
  <2> HIDE DEF G, H, f
  <2>5. Follows(d, f, {} \cup {}, {} \cup G)
    BY <1>6, <2>1, <2>2, FollowsTwice
  <2>6. {} \cup {} = {} /\ {} \cup G = G
    OBVIOUS
  <2> QED  BY <1>8, <2>3, <2>4, <2>5, <2>6 DEF G
<1>9. CASE d.inc[i].state # "retiring"
  <2>1. G = {}
    BY <1>9
  <2>2. CASE d.inc[i].state = "declared" \/ d.inc[i].op \notin Open
    <3>1. RecoverOperation(d, v, i) = e
      BY <1>9, <2>2 DEF RecoverOperation, e
    <3> QED  BY <1>4, <1>5, <1>6, <2>1, <3>1
  <2>3. CASE ~(d.inc[i].state = "declared" \/ d.inc[i].op \notin Open)
    <3>1. CASE ProvesReady(d, i, d.inc[i].pane, o) /\ o.name = d.inc[i].want
      <4>1. RecoverOperation(d, v, i) = AcceptReady(e, i, o, 0)
        BY <1>9, <2>3, <3>1 DEF RecoverOperation, e
      <4>2. d.inc[i].state \in Before
        BY <1>9, <2>3, <3>1 DEF ProvesReady, Before
      <4>3. o.run \in Runs
        BY <1>1 DEF Full, Seat, Row
      <4>4. Follows(e, AcceptReady(e, i, o, 0), {}, {})
        BY <1>4, <1>5, <1>7, <4>2, <4>3, AcceptReadyFollows
      <4>5. Follows(d, AcceptReady(e, i, o, 0), {} \cup {}, {} \cup {})
        BY <1>6, <4>4, FollowsTwice
      <4>6. d.inc[i].state = "starting"
        BY <2>3, <4>2 DEF Before
      <4> QED  BY <2>1, <4>1, <4>5, <4>6
    <3>2. CASE ~(ProvesReady(d, i, d.inc[i].pane, o) /\ o.name = d.inc[i].want)
      <4>1. RecoverOperation(d, v, i) = Settle(e, i, "unknown")
        BY <1>9, <2>3, <3>2 DEF RecoverOperation, MarkUnknown, e
      <4>2. Follows(e, Settle(e, i, "unknown"), {}, {})
        BY <1>5, <1>7, SettleFollows
      <4>3. Follows(d, Settle(e, i, "unknown"), {} \cup {}, {} \cup {})
        BY <1>6, <4>2, FollowsTwice
      <4>4. Settle(e, i, "unknown").inc[i].state \in {e.inc[i].state, "unknown"}
        <5>1. e.inc[i] \in Row
          BY <1>5, <1>7, RowTyped
        <5> QED  BY <1>5, <1>7, <5>1 DEF Settle, Store, Row
      <4> QED  BY <1>4, <1>5, <2>1, <4>1, <4>3, <4>4
    <3> QED  BY <3>1, <3>2
  <2> QED  BY <2>2, <2>3
<1> QED  BY <1>8, <1>9

\* The retirements, asked for before a restart, that snapshot v lets recovery complete.
AbsentIn(d, v) == {i \in DOMAIN d.inc : /\ d.inc[i].state = "retiring" /\ ~d.inc[i].mine
                                        /\ ~SeatLive(v, d.inc[i])}

LEMMA RecoverOperationsFollow ==
    ASSUME NEW d \in Store, Minted(d), NEW v \in Full
    PROVE  /\ Follows(d, RecoverOperations(d, v), {}, AbsentIn(d, v))
           /\ Len(RecoverOperations(d, v).inc) = Len(d.inc)
           /\ \A i \in DOMAIN d.inc :
                 \/ RecoverOperations(d, v).inc[i] = d.inc[i]
                 \/ /\ ~d.inc[i].mine
                    /\ \/ RecoverOperations(d, v).inc[i].state
                             \in {d.inc[i].state, "retired", "unknown"}
                       \/ d.inc[i].state = "starting"
<1> DEFINE f(i) == RecoverOperation(d, v, i)
           row(i) == IF i \in Candidates(d) THEN f(i).inc[i] ELSE d.inc[i]
           s == [i \in DOMAIN d.inc |-> row(i)]
           G == AbsentIn(d, v)
<1>1. d.name \in [Agents -> Names \cup {NoName}] /\ d.archived \in SUBSET Agents
  BY DEF Store
<1>2. RecoverOperations(d, v) = [name |-> d.name, archived |-> d.archived, inc |-> s]
  <2>1. RecoverOperations(d, v) = [d EXCEPT !.inc = s]
    BY DEF RecoverOperations
  <2> HIDE DEF s
  <2> QED  BY <2>1 DEF Store
<1>3. ASSUME NEW i \in DOMAIN d.inc
      PROVE  /\ row(i) \in Row
             /\ \/ row(i) = d.inc[i]
                \/ /\ ~d.inc[i].mine
                   /\ \/ row(i).state \in {d.inc[i].state, "retired", "unknown"}
                      \/ d.inc[i].state = "starting"
             /\ Evolves(d.inc[i], row(i))
             /\ Refused(row(i)) => Refused(d.inc[i]) \/ i \in {}
             /\ row(i).state = "retired" => d.inc[i].state = "retired" \/ i \in G
  <2>1. d.inc[i] \in Row
    BY RowTyped
  <2>2. CASE i \notin Candidates(d)
    BY <2>1, <2>2 DEF Evolves
  <2>3. CASE i \in Candidates(d)
    <3> DEFINE H == {j \in {i} : d.inc[i].state = "retiring" /\ ~SeatLive(v, d.inc[i])}
    <3>1. /\ Follows(d, f(i), {}, H)
          /\ \/ f(i).inc[i].state \in {d.inc[i].state, "retired", "unknown"}
             \/ d.inc[i].state = "starting"
      BY RecoverOperationFollows
    <3>2. ~d.inc[i].mine
      BY <2>3 DEF Candidates
    <3>3. i \in H => i \in G
      BY <3>2 DEF AbsentIn
    <3>4. row(i) = f(i).inc[i]
      BY <2>3
    <3> HIDE DEF f, G, H, row
    <3>5. f(i) \in Store /\ i \in DOMAIN f(i).inc
      <4>1. Len(d.inc) <= Len(f(i).inc) /\ f(i) \in Store
        BY <3>1 DEF Follows
      <4> QED  BY <4>1 DEF Store
    <3>6. f(i).inc[i] \in Row
      BY <3>5, RowTyped
    <3>7. /\ Evolves(d.inc[i], f(i).inc[i])
          /\ Refused(f(i).inc[i]) => Refused(d.inc[i]) \/ i \in {}
          /\ f(i).inc[i].state = "retired" => d.inc[i].state = "retired" \/ i \in H
      BY <3>1 DEF Follows
    <3> QED  BY <3>1, <3>2, <3>3, <3>4, <3>6, <3>7
  <2> QED  BY <2>2, <2>3
<1> HIDE DEF row
<1>4. s \in [DOMAIN d.inc -> Row] /\ \A i \in DOMAIN d.inc : s[i] = row(i)
  BY <1>3
<1> HIDE DEF s, G
<1>5. \A i \in DOMAIN d.inc :
         /\ Evolves(d.inc[i], s[i])
         /\ Refused(s[i]) => Refused(d.inc[i]) \/ i \in {}
         /\ s[i].state = "retired" => d.inc[i].state = "retired" \/ i \in G
  BY <1>3, <1>4
<1>6. /\ Follows(d, [name |-> d.name, archived |-> d.archived, inc |-> s], {}, G)
      /\ Len(s) = Len(d.inc)
  BY <1>1, <1>4, <1>5, RowsFollow
<1> QED  BY <1>2, <1>3, <1>4, <1>6 DEF G

\* What a recovery adds continues an agent that does not run and did not end on purpose.
Continued(d, e) ==
    \A i \in DOMAIN e.inc \ DOMAIN d.inc :
        LET own == {j \in DOMAIN d.inc : d.inc[j].agent = e.inc[i].agent}
        IN  /\ \A j \in own : e.inc[j].state \notin {"ready", "starting"}
            /\ Newest(own) \in own
            /\ d.inc[Newest(own)].state \notin {"retiring", "retired", "superseded"}

\* The open work of this daemon is left alone.
LeftAlone(d, e) ==
    \A i \in DOMAIN d.inc :
        d.inc[i].mine /\ (d.inc[i].op \in Open \/ d.inc[i].state = "retiring")
        => /\ e.inc[i].op = d.inc[i].op
           /\ d.inc[i].state # "ready" => e.inc[i].state = d.inc[i].state

LEMMA ReconcileFollows ==
    ASSUME NEW d \in Store, Minted(d), NEW v \in Full
    PROVE  /\ Follows(d, Reconcile(d, v), {}, AbsentIn(d, v))
           /\ Continued(d, Reconcile(d, v)) /\ LeftAlone(d, Reconcile(d, v))
<1> DEFINE d1 == ReconcileReady(d, v)
           d2 == Continue(d1, v)
           d3 == SettleAbsentUnknown(d2, v)
           d4 == RecoverOperations(d3, v)
           G == AbsentIn(d, v)
           G3 == AbsentIn(d3, v)
<1>0. Reconcile(d, v) = d4
  BY DEF Reconcile
<1>1. /\ Follows(d, d1, {}, {}) /\ Len(d1.inc) = Len(d.inc)
      /\ \A i \in DOMAIN d.inc : Settled(d.inc[i], d1.inc[i])
  BY ReconcileReadyFollows
<1>2. d1 \in Store /\ Minted(d1)
  BY <1>1 DEF Follows
<1> HIDE DEF d1
<1>3. /\ Follows(d1, d2, {}, {})
      /\ \A i \in DOMAIN d1.inc : d2.inc[i] = d1.inc[i]
      /\ \A i \in DOMAIN d2.inc \ DOMAIN d1.inc :
            /\ d2.inc[i].state = "ready" /\ d2.inc[i].op = "succeeded"
            /\ \E k \in Claims(d1, v) : d2.inc[i].agent = d1.inc[k.source].agent
  BY <1>2, ContinueFollows
<1>4. d2 \in Store /\ Minted(d2)
  BY <1>3 DEF Follows
<1> HIDE DEF d2
<1>5. /\ Follows(d2, d3, {}, {}) /\ Len(d3.inc) = Len(d2.inc)
      /\ \A i \in DOMAIN d2.inc :
            \/ d3.inc[i] = d2.inc[i]
            \/ /\ d2.inc[i].state = "unknown" /\ d2.inc[i].op \notin Open
               /\ d3.inc[i] = [d2.inc[i] EXCEPT !.state = "lost"]
  BY <1>4, SettleAbsentFollows
<1>6. d3 \in Store /\ Minted(d3)
  BY <1>5 DEF Follows
<1> HIDE DEF d3
<1>7. /\ Follows(d3, d4, {}, G3) /\ Len(d4.inc) = Len(d3.inc)
      /\ \A i \in DOMAIN d3.inc :
            \/ d4.inc[i] = d3.inc[i]
            \/ /\ ~d3.inc[i].mine
               /\ \/ d4.inc[i].state \in {d3.inc[i].state, "retired", "unknown"}
                  \/ d3.inc[i].state = "starting"
  BY <1>6, RecoverOperationsFollow
<1>8. d4 \in Store
  BY <1>7 DEF Follows
<1> HIDE DEF d4
<1>9. /\ DOMAIN d1.inc = DOMAIN d.inc /\ DOMAIN d3.inc = DOMAIN d2.inc
      /\ DOMAIN d4.inc = DOMAIN d2.inc /\ DOMAIN d.inc \subseteq DOMAIN d2.inc
  <2>1. Len(d1.inc) <= Len(d2.inc)
    BY <1>3 DEF Follows
  <2> QED  BY <1>1, <1>2, <1>4, <1>5, <1>6, <1>7, <1>8, <2>1 DEF Store
<1>10. Follows(d, d3, {}, {})
  <2>1. Follows(d, d2, {} \cup {}, {} \cup {})
    BY <1>1, <1>3, FollowsTwice
  <2>2. Follows(d, d2, {}, {})
    BY <2>1
  <2>3. Follows(d, d3, {} \cup {}, {} \cup {})
    BY <1>5, <2>2, FollowsTwice
  <2> QED  BY <2>3
<1>11. G3 \subseteq G
  <2>1. ASSUME NEW i \in G3 PROVE i \in G
    <3>1. /\ i \in DOMAIN d3.inc /\ d3.inc[i].state = "retiring" /\ ~d3.inc[i].mine
          /\ ~SeatLive(v, d3.inc[i])
      BY <2>1 DEF AbsentIn
    <3>2. i \in DOMAIN d.inc
      BY <1>10, <3>1 DEF Follows
    <3>3. Evolves(d.inc[i], d3.inc[i])
      BY <1>10, <3>2 DEF Follows
    <3>4. d.inc[i].state = "retiring" /\ ~d.inc[i].mine
      BY <3>1, <3>3 DEF Evolves
    <3>5. ~SeatLive(v, d.inc[i])
      BY <3>1, <3>3 DEF Evolves, SeatLive, Occupied, HasTerminal
    <3> QED  BY <3>2, <3>4, <3>5 DEF AbsentIn
  <2> QED  BY <2>1
<1>12. Follows(d, d4, {}, G)
  <2> HIDE DEF G, G3
  <2>1. Follows(d, d4, {} \cup {}, {} \cup G3)
    BY <1>7, <1>10, FollowsTwice
  <2>2. {} \cup {} = {} /\ {} \cup G3 = G3
    OBVIOUS
  <2>3. Follows(d, d4, {}, G3)
    BY <2>1, <2>2
  <2> QED  BY <1>11, <2>3 DEF Follows
<1>13. ASSUME NEW i \in DOMAIN d.inc,
              d.inc[i].mine, d.inc[i].op \in Open \/ d.inc[i].state = "retiring"
       PROVE  /\ d4.inc[i].op = d.inc[i].op
              /\ d.inc[i].state # "ready" => d4.inc[i].state = d.inc[i].state
  <2>1. Settled(d.inc[i], d1.inc[i]) /\ d2.inc[i] = d1.inc[i]
    BY <1>1, <1>3, <1>9
  <2>2. /\ d2.inc[i].op = d.inc[i].op /\ d2.inc[i].mine
        /\ d.inc[i].state # "ready" => d2.inc[i].state = d.inc[i].state
        /\ d2.inc[i].op \in Open \/ d2.inc[i].state = "retiring"
    BY <1>13, <2>1 DEF Settled
  <2>3. d3.inc[i] = d2.inc[i]
    BY <1>5, <1>9, <2>2
  <2>4. d4.inc[i] = d3.inc[i]
    BY <1>7, <1>9, <2>2, <2>3
  <2> QED  BY <2>2, <2>3, <2>4
<1>14. ASSUME NEW i \in DOMAIN d4.inc \ DOMAIN d.inc
       PROVE  LET own == {j \in DOMAIN d.inc : d.inc[j].agent = d4.inc[i].agent}
              IN  /\ \A j \in own : d4.inc[j].state \notin {"ready", "starting"}
                  /\ Newest(own) \in own
                  /\ d.inc[Newest(own)].state \notin {"retiring", "retired", "superseded"}
  <2> DEFINE a == d4.inc[i].agent
             own == {j \in DOMAIN d.inc : d.inc[j].agent = a}
             own1 == {j \in DOMAIN d1.inc : d1.inc[j].agent = a}
  <2>1. i \in DOMAIN d2.inc \ DOMAIN d1.inc
    BY <1>9
  <2>2. d4.inc[i].agent = d2.inc[i].agent
    <3>1. Evolves(d2.inc[i], d3.inc[i]) /\ Evolves(d3.inc[i], d4.inc[i])
      BY <1>5, <1>7, <1>9, <2>1 DEF Follows
    <3> QED  BY <3>1 DEF Evolves
  <2>3. PICK k \in Claims(d1, v) : d2.inc[i].agent = d1.inc[k.source].agent
    BY <1>3, <2>1
  <2>4. /\ k.source \in DOMAIN d1.inc
        /\ d1.inc[k.source].agent \notin RunningAgents(d1)
        /\ d1.inc[k.source].agent \notin Blocked(d1)
    BY <1>2, ClaimsAreOfStopped
  <2>5. a = d1.inc[k.source].agent
    BY <2>2, <2>3
  <2> HIDE DEF a
  <2>6. a \in Agents /\ k.source \in own1
    BY <1>2, <2>4, <2>5, RowTyped DEF Row
  <2>7. own1 = own
    BY <1>1, <1>9 DEF Settled
  <2>8. d1.inc[Newest(own1)].state \in Continuable
    BY <2>4, <2>5, <2>6 DEF Blocked
  <2>9. ASSUME NEW j \in own PROVE d4.inc[j].state \notin {"ready", "starting"}
    <3>1. j \in DOMAIN d1.inc /\ d1.inc[j].agent = a
      BY <2>7
    <3>2. d1.inc[j].state \notin {"ready", "starting"}
      BY <2>4, <2>5, <3>1 DEF RunningAgents, In
    <3>3. d2.inc[j] = d1.inc[j] /\ j \in DOMAIN d2.inc
      BY <1>3, <1>9, <3>1
    <3>4. d2.inc[j] \in Row
      BY <1>4, <3>3, RowTyped
    <3>5. d3.inc[j].state \notin {"ready", "starting"}
      <4>1. CASE d3.inc[j] = d2.inc[j]
        BY <3>2, <3>3, <4>1
      <4>2. CASE d3.inc[j] = [d2.inc[j] EXCEPT !.state = "lost"]
        BY <3>4, <4>2 DEF Row
      <4> QED  BY <1>5, <3>3, <4>1, <4>2
    <3>6. \/ d4.inc[j] = d3.inc[j]
          \/ d4.inc[j].state \in {d3.inc[j].state, "retired", "unknown"}
          \/ d3.inc[j].state = "starting"
      BY <1>7, <1>9, <3>3
    <3> QED  BY <3>5, <3>6
  <2>10. /\ Newest(own) \in own
         /\ d.inc[Newest(own)].state \notin {"retiring", "retired", "superseded"}
    <3>1. own \in SUBSET (1..Len(d.inc)) /\ Len(d.inc) \in Nat
      BY DEF Store
    <3>2. Newest(own) \in own
      <4>1. own # {}
        BY <2>6, <2>7
      <4> HIDE DEF own
      <4> QED  BY <3>1, <4>1, NewestIsLast
    <3>3. Newest(own) \in DOMAIN d.inc
      BY <3>2
    <3>4. d1.inc[Newest(own)].state \in Continuable
      BY <2>7, <2>8
    <3> HIDE DEF own
    <3>5. Settled(d.inc[Newest(own)], d1.inc[Newest(own)])
      BY <1>1, <3>3
    <3> QED  BY <3>2, <3>4, <3>5 DEF Settled, Continuable
  <2> QED  BY <2>9, <2>10 DEF a
<1> QED  BY <1>0, <1>12, <1>13, <1>14 DEF Continued, LeftAlone

(***************************************************************************)
(* The inductive invariant: each request fits the store, a start that may   *)
(* still be launched has not been, and no view that a request still holds   *)
(* shows a seat empty while its runtime is there.                           *)
(***************************************************************************)
All == Clients \cup {Boot}
Methods == {"none", "start", "handoff", "adopt", "rename", "close", "recover", "continue",
            "whoami", "alias"}
Results == {"none", "ok", "busy", "rejected", "lost", "unsent"}
Partial(p) == [{p} -> Seat]
Views == {NoView} \cup Full \cup UNION {Partial(p) : p \in Panes}
Request == [method : Methods, phase : Phases, agent : Agents \cup {NoAgent},
            name : Names \cup {NoName}, pane : Panes, term : Terms, old : Nat, inc : Nat,
            was : Names \cup {NoName}, resuming : BOOLEAN, view : Views,
            kept : {NoView} \cup Full, result : Results]

\* The phases of a request that has an incarnation of its own.
Owned == {"opening", "sending", "busy", "polling", "settling", "prompting", "confirm"}

\* A request has the incarnation, the name and the snapshot that its next step uses.
Fits(d, r) ==
    /\ r \in Request
    /\ r.old <= Len(d.inc) /\ r.inc <= Len(d.inc)
    /\ r.phase \in Owned \/ r.method \in {"rename", "close"} => r.inc # 0
    /\ r.phase \in {"snapshot", "confirm"} => r.view \in {NoView} \cup Full
    /\ r.phase = "polling" => r.view \in {NoView} \cup Partial(r.pane)
    /\ r.phase = "sending" /\ r.method \in Starting /\ r.result = "ok"
          => r.view \in Partial(r.pane)
    /\ r.phase = "prompting" /\ r.result = "ok" => r.view \in Full
    /\ r.method \in Starting \cup {"rename", "alias"} => r.name \in Names
    /\ r.method = "recover" /\ r.phase \in {"opening", "sending", "confirm"}
          => r.kept \in Full /\ r.name \in Names
    /\ r.inc # 0 /\ (r.method \in Adopting \/ (r.method \in Starting /\ r.phase = "polling"))
          => d.inc[r.inc].bound

\* A request that declared the incarnation it works on.
Owner(r) == r.method \in Starting \cup Adopting /\ r.inc # 0

\* A start that may still be launched, or was refused.
Pending(r) ==
    /\ r.method \in Starting /\ r.inc # 0
    /\ \/ r.phase \in {"snapshot", "opening", "busy"}
       \/ r.phase = "sending" /\ r.result \in {"none", "busy", "rejected"}

Unlaunched(i) == \A x \in DOMAIN launch : launch[x] # i

\* The panes' terminals have one age.
Seated == Age \in Nat \ {0} /\ \A p \in Panes : herdr[p].term = Age
HerdrTyped == herdr \in Full /\ Seated

Typed ==
    /\ db \in Store /\ Minted(db) /\ Len(db.inc) <= MaxIncs
    /\ HerdrTyped
    /\ req \in [All -> Request] /\ \A c \in All : Fits(db, req[c])
    /\ used \in [world : 0..MaxWorld, faults : 0..MaxFaults, crashes : 0..MaxCrashes]

LaunchesAgree ==
    /\ launch \in Seq(0..MaxIncs) /\ Len(launch) <= MaxRuns
    /\ \A x \in DOMAIN launch : launch[x] <= Len(db.inc)
    /\ AtMostOneLaunch
    /\ \A c \in All : Pending(req[c]) => /\ Unlaunched(req[c].inc)
                                         /\ ~Refused(db.inc[req[c].inc])
    /\ \A i \in DOMAIN db.inc : Refused(db.inc[i]) => Unlaunched(i)
    /\ \A c, e \in All : c # e /\ Owner(req[c]) /\ Owner(req[e]) => req[c].inc # req[e].inc

\* The runtime of an incarnation is in its seat, and view v shows that seat taken.
Houses(s) == SeatLive(herdr, s) /\ herdr[s.pane].run = s.run
Shows(v, s) == s.pane \in DOMAIN v /\ Houses(s) => SeatLive(v, s)

\* A retirement that was asked for before a restart, which a recovery may complete.
Abandoned(s) == s.state = "retiring" /\ ~s.mine

\* No view that a request still holds, however old, shows a seat empty whose runtime is
\* there: neither a seat that recovery may find retired, nor the one a request closes.
Knows(d, r) ==
    /\ \A i \in DOMAIN d.inc : Abandoned(d.inc[i]) => /\ Shows(r.view, d.inc[i])
                                                      /\ Shows(r.kept, d.inc[i])
    /\ r.method = "close" => d.inc[r.inc].state \notin Before /\ Shows(r.view, d.inc[r.inc])

SeatsAgree == RetiredMeansGone /\ \A c \in All : Knows(db, req[c])

IdentitiesInv == Typed /\ LaunchesAgree /\ SeatsAgree

\* What fits the store fits what a transaction makes of it.
LEMMA StillFits ==
    ASSUME NEW d \in Store, NEW e, NEW F, NEW G, Follows(d, e, F, G),
           NEW r, Fits(d, r)
    PROVE  Fits(e, r)
<1>1. d.inc \in Seq(Row) /\ e.inc \in Seq(Row) /\ Len(d.inc) <= Len(e.inc)
  BY DEF Follows, Store
<1>2. Len(d.inc) \in Nat /\ Len(e.inc) \in Nat /\ DOMAIN d.inc = 1..Len(d.inc)
  BY <1>1
<1>3. r.old \in Nat /\ r.inc \in Nat
  BY DEF Fits, Request
<1>4. r.old <= Len(e.inc) /\ r.inc <= Len(e.inc)
  BY <1>1, <1>2, <1>3 DEF Fits
<1>5. r.inc # 0 => r.inc \in DOMAIN d.inc
  BY <1>2, <1>3 DEF Fits
<1>6. r.inc # 0 /\ d.inc[r.inc].bound => e.inc[r.inc].bound
  BY <1>5 DEF Follows, Evolves
<1> QED  BY <1>4, <1>6 DEF Fits

(***************************************************************************)
(* What was seen stays true of the past.                                    *)
(***************************************************************************)
\* Herdr brings forth new terminals and new runtimes, and never an old one again.
Later ==
    /\ Age <= Age' /\ Runs \subseteq Runs'
    /\ \A p \in Panes : Age' = Age /\ herdr'[p].open /\ herdr'[p].run \in Runs \ {0}
                         => herdr[p].open /\ herdr[p].run = herdr'[p].run

\* What could be recorded can be recorded later.
LEMMA TypesGrow ==
    ASSUME HerdrTyped, HerdrTyped', Later
    PROVE  /\ Store \subseteq Store' /\ Full \subseteq Full' /\ Request \subseteq Request'
           /\ \A d, r : Fits(d, r) => Fits(d, r)'
<1>1. Terms \subseteq Terms' /\ Runs \subseteq Runs'
  BY DEF Terms, Later, HerdrTyped, Seated
<1>2. Row \subseteq Row' /\ Seat \subseteq Seat'
  BY <1>1 DEF Row, Seat
<1>3. Seq(Row) \subseteq Seq(Row)'
  BY <1>2
<1>4. Store \subseteq Store'
  BY <1>3 DEF Store
<1>5. Full \subseteq Full' /\ \A p : Partial(p) \subseteq Partial(p)'
  BY <1>2 DEF Full, Partial
<1>6. Views \subseteq Views'
  BY <1>5 DEF Views
<1>7. Request \subseteq Request'
  BY <1>1, <1>5, <1>6 DEF Request
<1>8. ASSUME NEW d, NEW r, Fits(d, r) PROVE Fits(d, r)'
  BY <1>5, <1>7, <1>8 DEF Fits
<1> QED  BY <1>4, <1>5, <1>7, <1>8

\* A runtime that has left its seat does not come back to it.
LEMMA StaysGone ==
    ASSUME HerdrTyped, HerdrTyped', Later, NEW s \in Row
    PROVE  Houses(s)' => Houses(s)
<1> SUFFICES ASSUME Houses(s)' PROVE Houses(s)
  OBVIOUS
<1> DEFINE p == s.pane
<1>1. p \in Panes /\ s.term \in Terms /\ s.run \in Runs
  BY DEF Row
<1>2. /\ herdr'[p].open /\ herdr'[p].term = s.term /\ herdr'[p].run # 0
      /\ herdr'[p].run = s.run
  BY DEF Houses, SeatLive, Occupied, HasTerminal
<1>3. s.term = Age' /\ Age' = Age /\ herdr[p].term = Age
  BY <1>1, <1>2 DEF Terms, Later, HerdrTyped, Seated
<1>4. herdr[p].open /\ herdr[p].run = s.run /\ herdr[p].run # 0
  BY <1>1, <1>2, <1>3 DEF Later
<1> QED  BY <1>3, <1>4 DEF Houses, SeatLive, Occupied, HasTerminal

\* An empty view shows nothing, and what Herdr holds shows everything.
LEMMA EmptyShows == \A s : Shows(NoView, s)
<1>1. DOMAIN NoView = {}
  BY DEF NoView
<1> QED  BY <1>1 DEF Shows

LEMMA KnowsNothing ==
    ASSUME NEW d, NEW r, r.view = NoView, r.kept = NoView, r.method # "close"
    PROVE  Knows(d, r)
BY EmptyShows DEF Knows

LEMMA HerdrShows ==
    ASSUME NEW p
    PROVE  \A s : Shows(herdr, s) /\ Shows([x \in {p} |-> herdr[x]], s)
BY DEF Shows, Houses, SeatLive, Occupied, HasTerminal

\* A row keeps its seat, and whoever runs in it once it has been started.
LEMMA SameSeat ==
    ASSUME NEW x, NEW y, Evolves(x, y), x.state \notin Before, NEW v
    PROVE  (Shows(v, y) <=> Shows(v, x)) /\ (Houses(y) <=> Houses(x))
           /\ (SeatLive(v, y) <=> SeatLive(v, x))
BY DEF Evolves, Shows, Houses, SeatLive, Occupied, HasTerminal

\* What a request knows of the store it knows of what a transaction makes of it.
LEMMA StillKnows ==
    ASSUME NEW d \in Store, NEW e, NEW F, NEW G, Follows(d, e, F, G),
           NEW r, Fits(d, r), Knows(d, r)
    PROVE  Knows(e, r)
<1>1. ASSUME NEW i \in DOMAIN e.inc, Abandoned(e.inc[i])
      PROVE  Shows(r.view, e.inc[i]) /\ Shows(r.kept, e.inc[i])
  <2>1. i \in DOMAIN d.inc
    BY <1>1 DEF Follows, Abandoned
  <2>2. Evolves(d.inc[i], e.inc[i])
    BY <2>1 DEF Follows
  <2>3. Abandoned(d.inc[i]) /\ d.inc[i].state \notin Before
    BY <1>1, <2>2 DEF Evolves, Abandoned, Before
  <2>4. Shows(r.view, d.inc[i]) /\ Shows(r.kept, d.inc[i])
    BY <2>1, <2>3 DEF Knows
  <2> QED  BY <2>2, <2>3, <2>4, SameSeat
<1>2. ASSUME r.method = "close"
      PROVE  e.inc[r.inc].state \notin Before /\ Shows(r.view, e.inc[r.inc])
  <2>1. r.inc # 0 /\ r.inc \in Nat /\ r.inc <= Len(d.inc)
    BY <1>2 DEF Fits, Request
  <2>2. r.inc \in DOMAIN d.inc
    BY <2>1 DEF Store
  <2>3. Evolves(d.inc[r.inc], e.inc[r.inc])
    BY <2>2 DEF Follows
  <2>4. d.inc[r.inc].state \notin Before /\ Shows(r.view, d.inc[r.inc])
    BY <1>2 DEF Knows
  <2>5. e.inc[r.inc].state \notin Before
    BY <2>3, <2>4 DEF Evolves
  <2> QED  BY <2>3, <2>4, <2>5, SameSeat
<1> QED  BY <1>1, <1>2 DEF Knows

\* Rows whose runtime has left its seat for good, and may be recorded as retired.
Departed(G) ==
    \A i \in G : /\ i \in DOMAIN db.inc /\ db.inc[i].state = "retiring"
                 /\ ~Houses(db.inc[i])

LEMMA NoneDeparts == Departed({})
BY DEF Departed

\* Retired rows stay retired from an empty seat, and views stay true.
LEMMA SeatsKept ==
    ASSUME IdentitiesInv, HerdrTyped', Later, NEW F, NEW G, Follows(db, db', F, G),
           Departed(G), \A c \in All : Fits(db', req'[c]) /\ Knows(db', req'[c])
    PROVE  SeatsAgree'
<1>1. HerdrTyped /\ db \in Store /\ db' \in Store
  BY DEF IdentitiesInv, Typed, Follows
<1>2. \A i \in DOMAIN db'.inc : db'.inc[i] \in Row
  BY <1>1, RowTyped
<1>3. \A i \in DOMAIN db'.inc : Houses(db.inc[i])' => Houses(db'.inc[i])
  BY <1>1, <1>2, StaysGone
<1>4. RetiredMeansGone'
  <2>1. ASSUME NEW i \in DOMAIN db'.inc, db'.inc[i].state = "retired"
        PROVE  ~Houses(db'.inc[i])
    <3>1. i \in DOMAIN db.inc /\ Evolves(db.inc[i], db'.inc[i])
      BY <2>1 DEF Follows, Departed
    <3>2. db.inc[i].state = "retired" \/ i \in G
      BY <2>1, <3>1 DEF Follows
    <3>3. db.inc[i].state \notin Before /\ ~Houses(db.inc[i])
      BY <3>1, <3>2 DEF Departed, Before, IdentitiesInv, SeatsAgree, RetiredMeansGone, In, Houses
    <3> QED  BY <3>1, <3>3, SameSeat
  <2>2. ASSUME NEW i \in DOMAIN db'.inc, db'.inc[i].state = "retired"
        PROVE  ~Houses(db.inc[i])'
    BY <1>3, <2>1, <2>2
  <2> QED  BY <2>2 DEF RetiredMeansGone, In, Houses
<1>5. ASSUME NEW c \in All PROVE Knows(db, req[c])'
  <2> DEFINE r == req'[c]
  <2>1. ASSUME NEW i \in DOMAIN db'.inc, NEW v, Shows(v, db'.inc[i])
        PROVE  Shows(v, db.inc[i])'
    BY <1>3, <2>1 DEF Shows
  <2>2. Knows(db', r) /\ Fits(db', r)
    OBVIOUS
  <2>3. r.method = "close" => r.inc \in DOMAIN db'.inc
    <3>1. DOMAIN db'.inc = 1..Len(db'.inc) /\ Len(db'.inc) \in Nat
      BY <1>1 DEF Store
    <3> QED  BY <2>2, <3>1 DEF Fits, Request
  <2> QED  BY <2>1, <2>2, <2>3 DEF Knows
<1> QED  BY <1>4, <1>5 DEF SeatsAgree

\* What is as it was, and what happens to one pane, is later.
LEMMA KeepIsLater ==
    ASSUME IdentitiesInv, UNCHANGED <<herdr, launch>>
    PROVE  Later /\ HerdrTyped'
<1>1. Age' = Age /\ Runs' = Runs /\ Age \in Nat /\ herdr \in Full /\ Seated
  BY DEF Age, Runs, IdentitiesInv, Typed, HerdrTyped, Seated
<1>2. Later
  BY <1>1 DEF Later
<1>3. Full' = Full
  BY <1>1 DEF Full, Seat, Terms
<1>4. HerdrTyped'
  BY <1>1, <1>3 DEF HerdrTyped, Seated
<1> QED  BY <1>2, <1>4

LEMMA PaneIsLater ==
    ASSUME IdentitiesInv, Runs \subseteq Runs', NEW p \in Panes,
           NEW s \in [open : BOOLEAN, term : Terms, run : Runs', name : Names \cup {NoName},
                      stage : {"launching", "ready", "manual"}],
           s.term = herdr[p].term, herdr' = [herdr EXCEPT ![p] = s],
           s.open /\ s.run \in Runs \ {0} => herdr[p].open /\ herdr[p].run = s.run
    PROVE  Later /\ HerdrTyped'
<1>1. /\ Age \in Nat \ {0} /\ herdr \in Full /\ \A x \in Panes : herdr[x].term = Age
      /\ FirstPane \in Panes
  BY IdentitiesAssumption DEF IdentitiesInv, Typed, HerdrTyped, Seated
<1>2. herdr'[p] = s /\ \A x \in Panes : x # p => herdr'[x] = herdr[x]
  BY <1>1 DEF Full
<1>3. \A x \in Panes : herdr'[x].term = Age
  BY <1>1, <1>2
<1>4. Age' = Age
  BY <1>1, <1>3 DEF Age
<1>5. Terms' = Terms
  BY <1>4 DEF Terms
<1>6. s \in Seat' /\ Seat \subseteq Seat'
  BY <1>5 DEF Seat
<1>7. herdr' \in Full'
  BY <1>1, <1>6 DEF Full
<1>8. HerdrTyped'
  BY <1>1, <1>3, <1>4, <1>7 DEF HerdrTyped, Seated
<1>9. Later
  BY <1>1, <1>2, <1>4 DEF Later
<1> QED  BY <1>8, <1>9

(***************************************************************************)
(* The step of one request.                                                 *)
(***************************************************************************)
UsedTyped == used \in [world : 0..MaxWorld, faults : 0..MaxFaults, crashes : 0..MaxCrashes]

\* One request moves, and its transaction refuses at most its own start.
LEMMA StepKeeps ==
    ASSUME IdentitiesInv, NEW c \in All, NEW r, Fits(db', r), req' = [req EXCEPT ![c] = r],
           NEW F, NEW G, Follows(db, db', F, G), Len(db'.inc) <= MaxIncs,
           F = {} \/ (Pending(req[c]) /\ F = {req[c].inc} /\ ~Pending(r)),
           Owner(r) => (Owner(req[c]) /\ r.inc = req[c].inc) \/ r.inc > Len(db.inc),
           Pending(r) => \/ Pending(req[c]) /\ r.inc = req[c].inc
                         \/ r.inc > Len(db.inc) /\ ~Refused(db'.inc[r.inc]),
           Departed(G), Knows(db', r), launch' = launch, Later, HerdrTyped', UsedTyped'
    PROVE  IdentitiesInv'
<1>1. /\ db \in Store /\ db' \in Store /\ Minted(db')
      /\ db.inc \in Seq(Row) /\ db'.inc \in Seq(Row) /\ Len(db.inc) <= Len(db'.inc)
  BY DEF Follows, Store, IdentitiesInv, Typed
<1>2. /\ Len(db.inc) \in Nat /\ Len(db'.inc) \in Nat
      /\ DOMAIN db.inc = 1..Len(db.inc) /\ DOMAIN db'.inc = 1..Len(db'.inc)
  BY <1>1
<1>3. /\ req' \in [All -> Request] /\ req'[c] = r
      /\ \A e \in All : e # c => req'[e] = req[e]
  BY DEF IdentitiesInv, Typed, Fits
<1>4. \A e \in All : Fits(db', req'[e])
  <2>1. ASSUME NEW e \in All, e # c PROVE Fits(db', req'[e])
    <3>1. Fits(db, req[e])
      BY DEF IdentitiesInv, Typed
    <3>2. Fits(db', req[e])
      BY <1>1, <3>1, StillFits
    <3> QED  BY <1>3, <2>1, <3>2
  <2> QED  BY <1>3, <2>1
<1>5. Typed'
  <2>1. HerdrTyped
    BY DEF IdentitiesInv, Typed
  <2>2. db' \in Store' /\ Minted(db')
    BY <1>1, <2>1, TypesGrow
  <2>3. req' \in [All -> Request'] /\ \A e \in All : Fits(db, req[e])'
    BY <1>3, <1>4, <2>1, TypesGrow
  <2> QED  BY <2>2, <2>3 DEF Typed, UsedTyped, Minted
<1>6. \A e \in All : req[e].inc \in Nat /\ req[e].inc <= Len(db.inc)
  BY DEF IdentitiesInv, Typed, Fits, Request
<1>7. r.inc \in Nat
  BY DEF Fits, Request
<1>8. \A x \in DOMAIN launch : launch[x] \in Nat /\ launch[x] <= Len(db.inc)
  BY IdentitiesAssumption, ElementOfSeq DEF IdentitiesInv, LaunchesAgree
<1>9. \A i : Unlaunched(i)' <=> Unlaunched(i)
  BY DEF Unlaunched
<1>10. ASSUME NEW i \in DOMAIN db'.inc, Refused(db'.inc[i])
       PROVE  \/ i \in DOMAIN db.inc /\ Refused(db.inc[i])
              \/ i \in F
  BY <1>10 DEF Follows
<1>11. \A i \in DOMAIN db'.inc : Refused(db'.inc[i]) => Unlaunched(i)
  <2>1. ASSUME NEW i \in F PROVE Unlaunched(i)
    BY <2>1 DEF IdentitiesInv, LaunchesAgree
  <2> QED  BY <1>10, <2>1 DEF IdentitiesInv, LaunchesAgree
<1>12. ASSUME NEW e \in All, Pending(req'[e])
       PROVE  Unlaunched(req'[e].inc) /\ ~Refused(db'.inc[req'[e].inc])
  <2>1. CASE e = c
    <3>1. CASE Pending(req[c]) /\ r.inc = req[c].inc
      <4>1. Unlaunched(r.inc) /\ ~Refused(db.inc[r.inc]) /\ F = {}
        BY <1>3, <1>12, <2>1, <3>1 DEF IdentitiesInv, LaunchesAgree
      <4>2. r.inc \in DOMAIN db'.inc
        BY <1>1, <1>2, <1>6, <1>7, <3>1 DEF Pending
      <4>3. ~Refused(db'.inc[r.inc])
        BY <1>10, <4>1, <4>2
      <4> QED  BY <1>3, <2>1, <4>1, <4>3
    <3>2. CASE r.inc > Len(db.inc) /\ ~Refused(db'.inc[r.inc])
      <4>1. Unlaunched(r.inc)
        BY <1>2, <1>7, <1>8, <3>2 DEF Unlaunched
      <4> QED  BY <1>3, <2>1, <3>2, <4>1
    <3> QED  BY <1>3, <1>12, <2>1, <3>1, <3>2
  <2>2. CASE e # c
    <3>1. req'[e] = req[e] /\ Pending(req[e])
      BY <1>3, <1>12, <2>2
    <3>2. Unlaunched(req[e].inc) /\ ~Refused(db.inc[req[e].inc])
      BY <3>1 DEF IdentitiesInv, LaunchesAgree
    <3>3. req[e].inc \notin F
      <4>1. CASE F = {}
        BY <4>1
      <4>2. CASE Pending(req[c]) /\ F = {req[c].inc}
        <5>1. Owner(req[c]) /\ Owner(req[e])
          BY <3>1, <4>2 DEF Pending, Owner
        <5> QED  BY <2>2, <4>2, <5>1 DEF IdentitiesInv, LaunchesAgree
      <4> QED  BY <4>1, <4>2
    <3>4. req[e].inc \in DOMAIN db'.inc
      BY <1>1, <1>2, <1>6, <3>1 DEF Pending
    <3>5. ~Refused(db'.inc[req[e].inc])
      BY <1>10, <3>2, <3>3, <3>4
    <3> QED  BY <3>1, <3>2, <3>5
  <2> QED  BY <2>1, <2>2
<1>13. ASSUME NEW e \in All, e # c, Owner(req'[e]), Owner(r)
       PROVE  req'[e].inc # r.inc
  <2>1. req'[e] = req[e]
    BY <1>3, <1>13
  <2>2. CASE Owner(req[c]) /\ r.inc = req[c].inc
    BY <1>13, <2>1, <2>2 DEF IdentitiesInv, LaunchesAgree
  <2>3. CASE r.inc > Len(db.inc)
    BY <1>2, <1>6, <1>7, <2>1, <2>3
  <2> QED  BY <1>13, <2>2, <2>3
<1>14. \A e, f \in All : e # f /\ Owner(req'[e]) /\ Owner(req'[f]) => req'[e].inc # req'[f].inc
  <2>1. ASSUME NEW e \in All, NEW f \in All, e # f, e # c, f # c,
               Owner(req'[e]), Owner(req'[f])
        PROVE  req'[e].inc # req'[f].inc
    BY <1>3, <2>1 DEF IdentitiesInv, LaunchesAgree
  <2> QED  BY <1>3, <1>13, <2>1
<1>15. AtMostOneLaunch'
  BY DEF AtMostOneLaunch, IdentitiesInv, LaunchesAgree
<1>16. \A x \in DOMAIN launch : launch[x] <= Len(db'.inc)
  BY <1>1, <1>2, <1>8
<1>17. launch \in Seq(0..MaxIncs) /\ Len(launch) <= MaxRuns
  BY DEF IdentitiesInv, LaunchesAgree
<1>18. LaunchesAgree'
  BY <1>9, <1>11, <1>12, <1>14, <1>15, <1>16, <1>17 DEF LaunchesAgree
<1>19. \A e \in All : Knows(db', req'[e])
  <2>1. ASSUME NEW e \in All, e # c PROVE Knows(db', req'[e])
    <3>1. Fits(db, req[e]) /\ Knows(db, req[e])
      BY DEF IdentitiesInv, Typed, SeatsAgree
    <3>2. Knows(db', req[e])
      BY <1>1, <3>1, StillKnows
    <3> QED  BY <1>3, <2>1, <3>2
  <2> QED  BY <1>3, <2>1
<1>20. SeatsAgree'
  BY <1>4, <1>19, SeatsKept
<1> QED  BY <1>5, <1>18, <1>20 DEF IdentitiesInv

\* A request that is over, or not yet made, fits any store.
LEMMA IdleFits ==
    ASSUME NEW d \in Store, NEW phase \in {"idle", "done"}
    PROVE  Fits(d, [Idle EXCEPT !.phase = phase])
<1> DEFINE r == [Idle EXCEPT !.phase = phase]
<1>1. /\ Idle \in Request
      /\ Idle.method = "none" /\ Idle.old = 0 /\ Idle.inc = 0 /\ Idle.view = NoView
  BY IdentitiesAssumption DEF Idle, Request, Methods, Phases, Views, Results, Terms
<1>2. /\ r \in Request /\ r.phase = phase
      /\ r.method = "none" /\ r.old = 0 /\ r.inc = 0 /\ r.view = NoView
  BY <1>1 DEF Request, Phases
<1> HIDE DEF r
<1>3. Len(d.inc) \in Nat
  BY DEF Store
<1>4. Fits(d, r)
  BY <1>2, <1>3 DEF Fits, Owned, Starting, Adopting
<1> QED  BY <1>4 DEF r

\* A request is answered, with retirements that are complete.
LEMMA RetiredKeeps ==
    ASSUME IdentitiesInv, NEW c \in All, Answer(c), Keep, NEW F, NEW G,
           Follows(db, db', F, G), Len(db'.inc) <= MaxIncs, Departed(G),
           F = {} \/ (Pending(req[c]) /\ F = {req[c].inc})
    PROVE  IdentitiesInv'
<1> DEFINE r == [Idle EXCEPT !.phase = "done"]
<1>1. req' = [req EXCEPT ![c] = r]
  BY DEF Answer
<1>2. db' \in Store
  BY DEF Follows
<1>3. Fits(db', r)
  BY <1>2, IdleFits
<1>4. r.method = "none" /\ r.view = NoView /\ r.kept = NoView
  BY DEF Idle
<1> HIDE DEF r
<1>5. ~Owner(r) /\ ~Pending(r) /\ Knows(db', r)
  BY <1>4, KnowsNothing DEF Owner, Pending, Starting, Adopting
<1>6. launch' = launch /\ Later /\ HerdrTyped' /\ UsedTyped'
  BY KeepIsLater DEF Keep, IdentitiesInv, Typed, UsedTyped
<1> QED  BY <1>1, <1>3, <1>5, <1>6, StepKeeps

\* A request is answered.
LEMMA AnswerKeeps ==
    ASSUME IdentitiesInv, NEW c \in All, Answer(c), Keep, NEW F,
           Follows(db, db', F, {}), Len(db'.inc) <= MaxIncs,
           F = {} \/ (Pending(req[c]) /\ F = {req[c].inc})
    PROVE  IdentitiesInv'
BY RetiredKeeps, NoneDeparts

LEMMA AnswerAlone ==
    ASSUME IdentitiesInv, NEW c \in All, Answer(c), Keep, UNCHANGED db
    PROVE  IdentitiesInv'
<1>1. Follows(db, db, {}, {})
  BY NothingFollows DEF IdentitiesInv, Typed
<1>2. Len(db'.inc) <= MaxIncs
  BY DEF IdentitiesInv, Typed
<1> QED  BY <1>1, <1>2, AnswerKeeps

\* A request goes on with the incarnation it has.
LEMMA GotoKeeps ==
    ASSUME IdentitiesInv, NEW c \in All, NEW phase \in Owned \cup {"snapshot"},
           Goto(c, phase), Keep, Follows(db, db', {}, {}), Len(db'.inc) <= MaxIncs,
           req[c].inc # 0,
           req[c].method = "recover" => /\ req[c].phase \in {"opening", "sending", "confirm"}
                                        /\ phase # "snapshot",
           req[c].method \in Starting /\ phase = "polling" => db'.inc[req[c].inc].bound,
           req[c].method \in Starting /\ phase \in {"snapshot", "opening", "busy", "sending"}
              => Pending(req[c])
    PROVE  IdentitiesInv'
<1> DEFINE q == req[c]
           r1 == [q EXCEPT !.phase = phase]
           r2 == [r1 EXCEPT !.view = NoView]
           r == [r2 EXCEPT !.result = "none"]
<1>1. q \in Request /\ Fits(db, q)
  BY DEF IdentitiesInv, Typed
<1>2. Fits(db', q)
  BY <1>1, StillFits DEF IdentitiesInv, Typed
<1>3. r1 \in Request
  BY <1>1 DEF Request, Owned, Phases
<1>4. r2 \in Request
  <2> HIDE DEF r1
  <2> QED  BY <1>3 DEF Request, Views
<1>5. r \in Request
  <2> HIDE DEF r2
  <2> QED  BY <1>4 DEF Request, Results
<1>6. /\ r.method = q.method /\ r.phase = phase /\ r.inc = q.inc /\ r.old = q.old
      /\ r.name = q.name /\ r.pane = q.pane /\ r.kept = q.kept
      /\ r.view = NoView /\ r.result = "none"
  BY <1>1 DEF Request
<1>7. req' = [req EXCEPT ![c] = r]
  <2>1. req \in [All -> Request]
    BY DEF IdentitiesInv, Typed
  <2> QED  BY <2>1 DEF Goto
<1> HIDE DEF r
<1>8. Fits(db', r)
  BY <1>2, <1>5, <1>6 DEF Fits, Owned
<1>9. Owner(r) => Owner(q) /\ r.inc = q.inc
  BY <1>6 DEF Owner
<1>10. Pending(r) => Pending(q) /\ r.inc = q.inc
  BY <1>6 DEF Pending
<1>11. launch' = launch /\ Later /\ HerdrTyped' /\ UsedTyped'
  BY KeepIsLater DEF Keep, IdentitiesInv, Typed, UsedTyped
<1>12. Knows(db', r)
  <2>1. Knows(db', q)
    BY <1>1, StillKnows DEF IdentitiesInv, Typed, SeatsAgree
  <2> QED  BY <1>6, <2>1, EmptyShows DEF Knows
<1> QED  BY <1>7, <1>8, <1>9, <1>10, <1>11, <1>12, NoneDeparts, StepKeeps

\* The transactions that add no row.
LEMMA NoRowAdded ==
    ASSUME NEW d \in Store, NEW i \in DOMAIN d.inc, NEW x, NEW y
    PROVE  /\ DOMAIN BeginAttempt(d, i).inc = DOMAIN d.inc
           /\ DOMAIN AcceptStartSubmission(d, i).inc = DOMAIN d.inc
           /\ DOMAIN Settle(d, i, x).inc = DOMAIN d.inc
           /\ DOMAIN AcceptReady(d, i, x, y).inc = DOMAIN d.inc
           /\ DOMAIN CommitRename(d, i, x).inc = DOMAIN d.inc
           /\ DOMAIN BeginInitialMessage(d, i).inc = DOMAIN d.inc
           /\ DOMAIN CommitInitialIntent(d, i).inc = DOMAIN d.inc
           /\ DOMAIN CompleteInitialDelivery(d, i, x).inc = DOMAIN d.inc
           /\ DOMAIN Retiring(d, i).inc = DOMAIN d.inc
           /\ DOMAIN CompleteRetirementIfAbsent(d, i, x).inc = DOMAIN d.inc
<1>1. DOMAIN BeginAttempt(d, i).inc = DOMAIN d.inc
  BY DEF BeginAttempt, Store
<1>2. DOMAIN AcceptStartSubmission(d, i).inc = DOMAIN d.inc
  BY DEF AcceptStartSubmission, Store
<1>3. DOMAIN Settle(d, i, x).inc = DOMAIN d.inc
  BY DEF Settle, Store
<1>4. DOMAIN AcceptReady(d, i, x, y).inc = DOMAIN d.inc
  BY DEF AcceptReady, Store
<1>5. DOMAIN CommitRename(d, i, x).inc = DOMAIN d.inc
  BY DEF CommitRename, Store
<1>6. DOMAIN BeginInitialMessage(d, i).inc = DOMAIN d.inc
  BY DEF BeginInitialMessage, CreateInitialMessage, Store
<1>7. DOMAIN CommitInitialIntent(d, i).inc = DOMAIN d.inc
  BY DEF CommitInitialIntent, Store
<1>8. DOMAIN CompleteInitialDelivery(d, i, x).inc = DOMAIN d.inc
  BY DEF CompleteInitialDelivery, Store
<1>9. DOMAIN Retiring(d, i).inc = DOMAIN d.inc
  BY DEF Retiring, RequestRetirement, Store
<1>10. DOMAIN CompleteRetirementIfAbsent(d, i, x).inc = DOMAIN d.inc
  BY DEF CompleteRetirementIfAbsent, Store
<1> QED  BY <1>1, <1>2, <1>3, <1>4, <1>5, <1>6, <1>7, <1>8, <1>9, <1>10

\* The number of rows is within its bound after such a transaction.
LEMMA LengthKept ==
    ASSUME IdentitiesInv, NEW F, NEW G, Follows(db, db', F, G), DOMAIN db'.inc = DOMAIN db.inc
    PROVE  Len(db'.inc) <= MaxIncs
<1>1. db \in Store /\ db' \in Store /\ Len(db.inc) <= MaxIncs
  BY DEF IdentitiesInv, Typed, Follows
<1>2. Len(db'.inc) = Len(db.inc)
  BY <1>1 DEF Store
<1> QED  BY <1>1, <1>2

\* The record of a request, and the row it works on.
LEMMA RequestFits ==
    ASSUME IdentitiesInv, NEW c \in All
    PROVE  /\ db \in Store /\ Minted(db)
           /\ req[c] \in Request /\ Fits(db, req[c])
           /\ req[c].inc # 0 => req[c].inc \in DOMAIN db.inc
           /\ req[c].old # 0 => req[c].old \in DOMAIN db.inc
<1>1. /\ db \in Store /\ Minted(db) /\ Fits(db, req[c])
  BY DEF IdentitiesInv, Typed
<1>2. req[c].inc \in Nat /\ req[c].old \in Nat
  BY <1>1 DEF Fits, Request
<1>3. DOMAIN db.inc = 1..Len(db.inc) /\ Len(db.inc) \in Nat
  BY <1>1 DEF Store
<1>4. req[c].inc <= Len(db.inc) /\ req[c].old <= Len(db.inc)
  BY <1>1 DEF Fits
<1> QED  BY <1>1, <1>2, <1>3, <1>4 DEF Fits

\* A start that Herdr refused settles as failed, one whose outcome is open as unknown.
LEMMA SettledStartKeeps ==
    ASSUME IdentitiesInv, NEW c \in All, Answer(c), Keep, req[c].inc # 0,
           \/ db' = MarkRejected(db, req[c].inc) /\ Pending(req[c])
           \/ db' = MarkRejected(db, req[c].inc) /\ db.inc[req[c].inc].bound
           \/ db' = MarkUnknown(db, req[c].inc)
    PROVE  IdentitiesInv'
<1> DEFINE i == req[c].inc
<1>1. db \in Store /\ Minted(db) /\ i \in DOMAIN db.inc
  BY RequestFits
<1> HIDE DEF i
<1>2. CASE db' = MarkRejected(db, i) /\ Pending(req[c])
  <2>1. Follows(db, db', {i}, {})
    BY <1>1, <1>2, SettleFollows DEF MarkRejected
  <2>2. DOMAIN db'.inc = DOMAIN db.inc
    BY <1>1, <1>2, NoRowAdded DEF MarkRejected
  <2>3. Len(db'.inc) <= MaxIncs
    BY <2>1, <2>2, LengthKept
  <2> QED  BY <1>2, <2>1, <2>3, AnswerKeeps DEF i
<1>3. CASE db' = MarkRejected(db, i) /\ db.inc[i].bound
  <2>1. Follows(db, db', {i}, {})
    BY <1>1, <1>3, SettleFollows DEF MarkRejected
  <2>2. Evolves(db.inc[i], db'.inc[i])
    BY <1>1, <2>1 DEF Follows
  <2>3. ~Refused(db'.inc[i])
    BY <1>3, <2>2 DEF Refused, Evolves
  <2>4. Follows(db, db', {}, {})
    BY <1>1, <2>1, <2>3 DEF Follows
  <2>5. DOMAIN db'.inc = DOMAIN db.inc
    BY <1>1, <1>3, NoRowAdded DEF MarkRejected
  <2>6. Len(db'.inc) <= MaxIncs
    BY <2>4, <2>5, LengthKept
  <2> QED  BY <2>4, <2>6, AnswerKeeps
<1>4. CASE db' = MarkUnknown(db, i)
  <2>1. Follows(db, db', {}, {})
    BY <1>1, <1>4, SettleFollows DEF MarkUnknown
  <2>2. DOMAIN db'.inc = DOMAIN db.inc
    BY <1>1, <1>4, NoRowAdded DEF MarkUnknown
  <2>3. Len(db'.inc) <= MaxIncs
    BY <2>1, <2>2, LengthKept
  <2> QED  BY <2>1, <2>3, AnswerKeeps
<1> QED  BY <1>2, <1>3, <1>4 DEF i

(***************************************************************************)
(* The initial state.                                                       *)
(***************************************************************************)
\* At first one runtime has been brought forth, on the first terminals.
LEMMA FirstThings ==
    ASSUME Init
    PROVE  /\ Age = 1 /\ {0, 1} \subseteq Terms /\ {0, 1} \subseteq Runs
           /\ \A p \in Panes : herdr[p].term = 1
<1>1. \A p \in Panes : herdr[p].term = 1
  BY DEF Init, OneRunning, Shell
<1>2. Age = 1
  BY <1>1, IdentitiesAssumption DEF Age
<1>3. {0, 1} \subseteq Terms
  BY <1>2 DEF Terms
<1>4. DOMAIN launch = {1}
  BY DEF Init
<1> QED  BY <1>1, <1>2, <1>3, <1>4 DEF Runs

LEMMA FirstRowTyped ==
    ASSUME Init
    PROVE  /\ OneReady \in Store /\ Minted(OneReady) /\ Len(OneReady.inc) = 1
           /\ OneReady.inc[1].state = "ready"
<1> DEFINE r == [agent |-> FirstAgent, state |-> "ready", pane |-> FirstPane,
                 term |-> 1, bound |-> TRUE, kind |-> "start", op |-> "succeeded",
                 mine |-> TRUE, want |-> FirstName, renaming |-> NoName, run |-> 1,
                 replaces |-> 0, first |-> "none"]
           m == [a \in Agents |-> IF a = FirstAgent THEN FirstName ELSE NoName]
           e == [name |-> m, archived |-> {}, inc |-> <<r>>]
<1>1. r \in Row /\ r.agent = FirstAgent /\ r.state = "ready"
  <2>1. 1 \in Terms /\ 1 \in Runs /\ 0 \in 0..MaxIncs
    BY FirstThings, IdentitiesAssumption
  <2> QED  BY <2>1, IdentitiesAssumption DEF Row, States, Open
<1>2. m \in [Agents -> Names \cup {NoName}] /\ m[FirstAgent] \in Names
  BY IdentitiesAssumption
<1>3. OneReady = e
  BY DEF OneReady
<1> HIDE DEF r, m
<1>4. <<r>> \in Seq(Row) /\ Len(<<r>>) = 1 /\ DOMAIN <<r>> = 1..1 /\ <<r>>[1] = r
  BY <1>1
<1>5. e \in Store /\ e.inc = <<r>> /\ e.name = m
  BY <1>2, <1>4 DEF Store
<1> HIDE DEF e
<1>6. Minted(e)
  BY <1>1, <1>2, <1>4, <1>5 DEF Minted
<1> QED  BY <1>1, <1>3, <1>4, <1>5, <1>6

LEMMA FirstPanesTyped ==
    ASSUME Init
    PROVE  OneRunning \in Full
<1> DEFINE s == [[[Shell EXCEPT !.run = 1] EXCEPT !.name = FirstName] EXCEPT !.stage = "ready"]
<1>1. 0 \in Runs /\ 1 \in Runs /\ 1 \in Terms
  BY FirstThings
<1>2. Shell \in Seat
  BY <1>1 DEF Shell, Seat
<1>3. s \in Seat
  BY <1>1, <1>2, IdentitiesAssumption DEF Seat
<1>4. s = [Shell EXCEPT !.run = 1, !.name = FirstName, !.stage = "ready"]
  OBVIOUS
<1> HIDE DEF s
<1> QED  BY <1>2, <1>3, <1>4 DEF OneRunning, Full

LEMMA IdleTyped ==
    /\ Idle \in Request /\ Idle.method = "none" /\ Idle.phase = "idle"
    /\ Idle.inc = 0 /\ Idle.old = 0 /\ Idle.view = NoView /\ Idle.kept = NoView
    /\ Idle.result = "none" /\ \A d \in Store : Fits(d, Idle)
<1>1. /\ Idle \in Request /\ Idle.method = "none" /\ Idle.phase = "idle"
      /\ Idle.inc = 0 /\ Idle.old = 0 /\ Idle.view = NoView /\ Idle.kept = NoView
      /\ Idle.result = "none"
  BY IdentitiesAssumption DEF Idle, Request, Methods, Phases, Views, Results, Terms
<1>2. ASSUME NEW d \in Store PROVE Fits(d, Idle)
  <2>1. Len(d.inc) \in Nat
    BY DEF Store
  <2> QED  BY <1>1, <2>1 DEF Fits, Owned, Starting, Adopting
<1> QED  BY <1>1, <1>2

LEMMA InitHolds == Init => IdentitiesInv
<1> SUFFICES ASSUME Init PROVE IdentitiesInv
  OBVIOUS
<1>1. /\ db \in Store /\ Minted(db) /\ Len(db.inc) = 1 /\ db.inc[1].state = "ready"
      /\ HerdrTyped /\ launch = <<1>>
      /\ req = [c \in All |-> Idle]
      /\ used = [world |-> 0, faults |-> 0, crashes |-> 0]
  <2>1. HerdrTyped
    BY FirstThings, FirstPanesTyped DEF Init, HerdrTyped, Seated
  <2> QED  BY <2>1, FirstRowTyped DEF Init, All
<1>2. req \in [All -> Request] /\ \A c \in All : Fits(db, req[c]) /\ req[c].method = "none"
  BY <1>1, IdleTyped
<1>3. used \in [world : 0..MaxWorld, faults : 0..MaxFaults, crashes : 0..MaxCrashes]
  <2>1. 0 \in 0..MaxWorld /\ 0 \in 0..MaxFaults /\ 0 \in 0..MaxCrashes
    BY IdentitiesAssumption
  <2> QED  BY <1>1, <2>1
<1>4. Len(db.inc) <= MaxIncs
  BY <1>1, IdentitiesAssumption
<1>5. Typed
  BY <1>1, <1>2, <1>3, <1>4 DEF Typed
<1>6. /\ launch \in Seq(0..MaxIncs) /\ Len(launch) = 1 /\ DOMAIN launch = {1} /\ launch[1] = 1
  BY <1>1, IdentitiesAssumption
<1>7. Len(launch) <= MaxRuns /\ AtMostOneLaunch
  BY <1>6, IdentitiesAssumption DEF AtMostOneLaunch
<1>8. \A c \in All : ~Pending(req[c]) /\ ~Owner(req[c])
  BY <1>2 DEF Pending, Owner, Starting, Adopting
<1>9. \A i \in DOMAIN db.inc : ~Refused(db.inc[i])
  <2>1. DOMAIN db.inc = {1}
    BY <1>1 DEF Store
  <2> QED  BY <1>1, <2>1 DEF Refused
<1>10. \A x \in DOMAIN launch : launch[x] <= Len(db.inc)
  BY <1>1, <1>6
<1>11. SeatsAgree
  <2>1. DOMAIN db.inc = {1}
    BY <1>1 DEF Store
  <2>2. RetiredMeansGone
    BY <1>1, <2>1 DEF RetiredMeansGone, In
  <2>3. \A c \in All : Knows(db, req[c])
    <3>1. Knows(db, Idle)
      BY IdleTyped, KnowsNothing
    <3> QED  BY <1>1, <3>1
  <2> QED  BY <2>2, <2>3 DEF SeatsAgree
<1> QED  BY <1>5, <1>6, <1>7, <1>8, <1>9, <1>10, <1>11 DEF IdentitiesInv, LaunchesAgree

(***************************************************************************)
(* A client asks.                                                           *)
(***************************************************************************)
LEMMA QuestionTyped ==
    ASSUME NEW c \in Clients, NEW q \in Requests[c]
    PROVE  /\ c \in All
           /\ q.method \in {"start", "handoff", "adopt", "rename", "retire", "close", "recover",
                            "whoami", "alias"}
           /\ q.agent \in Agents \cup {NoAgent} /\ q.name \in Names \cup {NoName}
           /\ q.pane \in Panes
           /\ q.method \in {"start", "handoff", "rename", "alias"} => q.name \in Names
<1>1. q \in [method : {"start", "handoff", "adopt", "rename", "retire", "close", "recover",
                       "whoami", "alias"},
             agent : Agents \cup {NoAgent}, name : Names \cup {NoName}, pane : Panes]
  BY IdentitiesAssumption
<1>2. q.method \in {"start", "handoff", "rename", "alias"} => q.name \in Names
  BY IdentitiesAssumption
<1> QED  BY <1>1, <1>2 DEF All

LEMMA AskedTyped ==
    ASSUME IdentitiesInv, NEW c \in Clients, NEW q \in Requests[c], q.method # "retire"
    PROVE  /\ Asked(c, q) \in Request
           /\ Asked(c, q).method = q.method /\ Asked(c, q).phase = "snapshot"
           /\ Asked(c, q).name = q.name /\ Asked(c, q).view = NoView
           /\ Asked(c, q).inc = 0 /\ Asked(c, q).old = 0 /\ Asked(c, q).kept = NoView
<1> DEFINE t == herdr[q.pane].term
           r1 == [[[Idle EXCEPT !.method = q.method] EXCEPT !.phase = "snapshot"]
                    EXCEPT !.agent = q.agent]
           r2 == [[[r1 EXCEPT !.name = q.name] EXCEPT !.pane = q.pane] EXCEPT !.term = t]
<1>1. t \in Terms
  BY QuestionTyped DEF IdentitiesInv, Typed, HerdrTyped, Full, Seat
<1>2. Asked(c, q) = r2
  BY DEF Asked
<1> HIDE DEF t
<1>3. q.method \in Methods
  BY QuestionTyped DEF Methods
<1>4. /\ r1 \in Request /\ r1.method = q.method /\ r1.phase = "snapshot" /\ r1.view = NoView
      /\ r1.inc = 0 /\ r1.old = 0 /\ r1.kept = NoView
  BY <1>3, IdleTyped, QuestionTyped DEF Request, Phases
<1> HIDE DEF r1
<1>5. /\ r2 \in Request /\ r2.method = q.method /\ r2.phase = "snapshot" /\ r2.view = NoView
      /\ r2.inc = 0 /\ r2.old = 0 /\ r2.name = q.name /\ r2.kept = NoView
  BY <1>1, <1>4, QuestionTyped DEF Request
<1> QED  BY <1>2, <1>5

\* The request that a question becomes.
LEMMA QuestionKeeps ==
    ASSUME IdentitiesInv, NEW c \in Clients, NEW q \in Requests[c], NEW r \in Request,
           r.method = q.method, r.phase = "snapshot", r.name = q.name, r.view = NoView,
           r.inc \in {0} \cup DOMAIN db.inc, r.old \in {0} \cup DOMAIN db.inc,
           q.method \in {"rename", "close"} => r.inc # 0,
           q.method \in Starting \cup Adopting => r.inc = 0,
           r.kept = NoView, q.method = "close" => db'.inc[r.inc].state \notin Before,
           Park(c, r), Keep, Follows(db, db', {}, {}), Len(db'.inc) <= MaxIncs
    PROVE  IdentitiesInv'
<1>1. /\ c \in All
      /\ q.method \in Starting \cup {"rename", "alias"} => q.name \in Names
  BY QuestionTyped DEF Starting
<1>2. /\ db \in Store /\ db' \in Store /\ Len(db.inc) <= Len(db'.inc)
  BY DEF IdentitiesInv, Typed, Follows
<1>3. /\ DOMAIN db.inc = 1..Len(db.inc) /\ Len(db.inc) \in Nat /\ Len(db'.inc) \in Nat
  BY <1>2 DEF Store
<1>4. r.inc <= Len(db'.inc) /\ r.old <= Len(db'.inc)
  BY <1>2, <1>3
<1>5. Fits(db', r)
  BY <1>1, <1>4 DEF Fits, Owned, Starting, Adopting
<1>6. ~Owner(r) /\ ~Pending(r)
  BY DEF Owner, Pending, Starting, Adopting
<1>7. launch' = launch /\ Later /\ HerdrTyped' /\ UsedTyped'
  BY KeepIsLater DEF Keep, IdentitiesInv, Typed, UsedTyped
<1>8. req' = [req EXCEPT ![c] = r]
  BY DEF Park
<1>9. Knows(db', r)
  BY EmptyShows DEF Knows
<1> QED  BY <1>1, <1>5, <1>6, <1>7, <1>8, <1>9, NoneDeparts, StepKeeps

\* A question that changes nothing in the store.
LEMMA PlainQuestionKeeps ==
    ASSUME IdentitiesInv, NEW c \in Clients, NEW q \in Requests[c],
           q.method \notin {"retire", "rename", "close"},
           Park(c, Asked(c, q)), Keep, UNCHANGED db
    PROVE  IdentitiesInv'
<1> DEFINE r == Asked(c, q)
<1>1. /\ r \in Request /\ r.method = q.method /\ r.phase = "snapshot" /\ r.name = q.name
      /\ r.view = NoView /\ r.inc = 0 /\ r.old = 0 /\ r.kept = NoView
  BY AskedTyped
<1>2. Follows(db, db', {}, {}) /\ Len(db'.inc) <= MaxIncs
  BY NothingFollows DEF IdentitiesInv, Typed
<1> HIDE DEF r
<1>3. Park(c, r)
  BY DEF r
<1> QED  BY <1>1, <1>2, <1>3, QuestionKeeps

LEMMA HandoffAskedKeeps ==
    ASSUME IdentitiesInv, NEW c \in Clients, NEW q \in Requests[c], AskHandoff(c, q), Keep
    PROVE  IdentitiesInv'
<1>1. PICK i \in ReadyOf(db, q.agent) : Park(c, [Asked(c, q) EXCEPT !.old = i])
  BY DEF AskHandoff
<1> DEFINE a == Asked(c, q)
           r == [a EXCEPT !.old = i]
<1>2. q.method = "handoff" /\ UNCHANGED db
  BY DEF AskHandoff
<1>3. /\ a \in Request /\ a.method = q.method /\ a.phase = "snapshot" /\ a.name = q.name
      /\ a.view = NoView /\ a.inc = 0 /\ a.kept = NoView
  BY <1>2, AskedTyped
<1>4. i \in DOMAIN db.inc
  BY DEF ReadyOf, In
<1>5. i \in Nat
  BY <1>4 DEF IdentitiesInv, Typed, Store
<1>6. Park(c, r)
  BY <1>1
<1> HIDE DEF a
<1>7. /\ r \in Request /\ r.method = q.method /\ r.phase = "snapshot" /\ r.name = q.name
      /\ r.view = NoView /\ r.inc = 0 /\ r.old = i /\ r.kept = NoView
  BY <1>3, <1>5 DEF Request
<1> HIDE DEF r
<1>8. Follows(db, db', {}, {}) /\ Len(db'.inc) <= MaxIncs
  BY <1>2, NothingFollows DEF IdentitiesInv, Typed
<1> QED  BY <1>2, <1>4, <1>6, <1>7, <1>8, QuestionKeeps

\* A request aims at the seat of an incarnation.
LEMMA TargetTyped ==
    ASSUME IdentitiesInv, NEW r \in Request, NEW i \in DOMAIN db.inc
    PROVE  /\ Target(r, i) \in Request
           /\ Target(r, i).inc = i /\ Target(r, i).method = r.method
           /\ Target(r, i).phase = r.phase /\ Target(r, i).name = r.name
           /\ Target(r, i).view = r.view /\ Target(r, i).old = r.old
           /\ Target(r, i).kept = r.kept /\ Target(r, i).result = r.result
<1> DEFINE p == db.inc[i].pane
           t == db.inc[i].term
           s == [[[r EXCEPT !.inc = i] EXCEPT !.pane = p] EXCEPT !.term = t]
<1>1. Target(r, i) = s
  BY DEF Target
<1>2. db \in Store
  BY DEF IdentitiesInv, Typed
<1>3. p \in Panes /\ t \in Terms
  BY <1>2, RowTyped DEF Row
<1>4. i \in Nat
  BY <1>2 DEF Store
<1> HIDE DEF p, t
<1>5. /\ s \in Request /\ s.inc = i /\ s.method = r.method /\ s.phase = r.phase
      /\ s.name = r.name /\ s.view = r.view /\ s.old = r.old /\ s.kept = r.kept
      /\ s.result = r.result
  BY <1>3, <1>4 DEF Request
<1> QED  BY <1>1, <1>5

LEMMA RenameAskedKeeps ==
    ASSUME IdentitiesInv, NEW c \in Clients, NEW q \in Requests[c], AskRename(c, q), Keep
    PROVE  IdentitiesInv'
<1>1. PICK i \in ResolveReadyIncarnation(db, q.agent) :
         Park(c, [Target(Asked(c, q), i) EXCEPT !.was = db.name[q.agent]])
  BY DEF AskRename
<1> DEFINE a == Asked(c, q)
           b == Target(a, i)
           n == db.name[q.agent]
           r == [b EXCEPT !.was = n]
<1>2. q.method = "rename" /\ UNCHANGED db
  BY DEF AskRename
<1>3. /\ a \in Request /\ a.method = q.method /\ a.phase = "snapshot" /\ a.name = q.name
      /\ a.view = NoView /\ a.old = 0 /\ a.kept = NoView
  BY <1>2, AskedTyped
<1>4. i \in DOMAIN db.inc /\ db.inc[i].agent = q.agent
  BY DEF ResolveReadyIncarnation, ReadyOf, In
<1>5. n \in Names \cup {NoName}
  <2>1. q.agent \in Agents
    BY <1>4, RowTyped DEF IdentitiesInv, Typed, Row
  <2> QED  BY <2>1 DEF IdentitiesInv, Typed, Store
<1>6. Park(c, r)
  BY <1>1
<1> HIDE DEF a, n
<1>7. /\ b \in Request /\ b.method = q.method /\ b.phase = "snapshot" /\ b.name = q.name
      /\ b.view = NoView /\ b.inc = i /\ b.old = 0 /\ b.kept = NoView
  BY <1>3, <1>4, TargetTyped
<1> HIDE DEF b
<1>8. /\ r \in Request /\ r.method = q.method /\ r.phase = "snapshot" /\ r.name = q.name
      /\ r.view = NoView /\ r.inc = i /\ r.old = 0 /\ r.kept = NoView
  BY <1>5, <1>7 DEF Request
<1>9. i # 0
  BY <1>4 DEF IdentitiesInv, Typed, Store
<1> HIDE DEF r
<1>10. Follows(db, db', {}, {}) /\ Len(db'.inc) <= MaxIncs
  BY <1>2, NothingFollows DEF IdentitiesInv, Typed
<1>11. q.method \notin Starting \cup Adopting /\ q.method # "close"
  BY <1>2 DEF Starting, Adopting
<1> QED  BY <1>4, <1>6, <1>8, <1>9, <1>10, <1>11, QuestionKeeps

\* What a retirement does to the store.
LEMMA RetiringBound ==
    ASSUME IdentitiesInv, NEW a, NEW i \in RetirableBinding(db, a), db' = Retiring(db, i)
    PROVE  /\ i \in DOMAIN db.inc /\ Follows(db, db', {}, {}) /\ Len(db'.inc) <= MaxIncs
           /\ db'.inc[i].state = "retiring"
<1>1. i \in DOMAIN db.inc /\ db.inc[i].state \in {"ready", "retiring"}
  BY DEF RetirableBinding, In
<1>2. db \in Store /\ Minted(db)
  BY DEF IdentitiesInv, Typed
<1>3. Follows(db, db', {}, {}) /\ db'.inc[i].state = "retiring"
  BY <1>1, <1>2, RetiringFollows
<1>4. DOMAIN db'.inc = DOMAIN db.inc
  BY <1>1, <1>2, NoRowAdded
<1> QED  BY <1>1, <1>3, <1>4, LengthKept

LEMMA CloseAskedKeeps ==
    ASSUME IdentitiesInv, NEW c \in Clients, NEW q \in Requests[c], AskRetireClose(c, q), Keep
    PROVE  IdentitiesInv'
<1> DEFINE a == Asked(c, q)
           n == db.name[q.agent]
<1>1. PICK i \in RetirableBinding(db, q.agent) :
         /\ db' = Retiring(db, i)
         /\ \/ Answer(c)
            \/ Park(c, [Target(a, i) EXCEPT !.was = n,
                                            !.resuming = db.inc[i].state = "retiring"])
  BY DEF AskRetireClose
<1>2. q.method = "close" /\ c \in All
  BY DEF AskRetireClose, All
<1>3. /\ i \in DOMAIN db.inc /\ Follows(db, db', {}, {}) /\ Len(db'.inc) <= MaxIncs
      /\ db'.inc[i].state \notin Before
  BY <1>1, RetiringBound DEF Before
<1>4. CASE Answer(c)
  BY <1>2, <1>3, <1>4, AnswerKeeps
<1>5. CASE Park(c, [Target(a, i) EXCEPT !.was = n,
                                        !.resuming = db.inc[i].state = "retiring"])
  <2> DEFINE b == Target(a, i)
             x == db.inc[i].state = "retiring"
             r1 == [b EXCEPT !.was = n]
             r == [r1 EXCEPT !.resuming = x]
  <2>1. /\ a \in Request /\ a.method = q.method /\ a.phase = "snapshot" /\ a.name = q.name
        /\ a.view = NoView /\ a.old = 0 /\ a.kept = NoView
    BY <1>2, AskedTyped
  <2>2. n \in Names \cup {NoName}
    <3>1. q.agent \in Agents
      <4>1. db.inc[i].agent = q.agent
        BY DEF RetirableBinding, In
      <4> QED  BY <1>3, <4>1, RowTyped DEF IdentitiesInv, Typed, Row
    <3> QED  BY <3>1 DEF IdentitiesInv, Typed, Store
  <2>3. Park(c, r)
    BY <1>5
  <2>4. x \in BOOLEAN
    OBVIOUS
  <2> HIDE DEF a, n, x
  <2>5. /\ b \in Request /\ b.method = q.method /\ b.phase = "snapshot" /\ b.name = q.name
        /\ b.view = NoView /\ b.inc = i /\ b.old = 0 /\ b.kept = NoView
    BY <1>3, <2>1, TargetTyped
  <2> HIDE DEF b
  <2>6. /\ r1 \in Request /\ r1.method = q.method /\ r1.phase = "snapshot"
        /\ r1.name = q.name /\ r1.view = NoView /\ r1.inc = i /\ r1.old = 0
        /\ r1.kept = NoView
    BY <2>2, <2>5 DEF Request
  <2> HIDE DEF r1
  <2>7. /\ r \in Request /\ r.method = q.method /\ r.phase = "snapshot"
        /\ r.name = q.name /\ r.view = NoView /\ r.inc = i /\ r.old = 0
        /\ r.kept = NoView
    BY <2>4, <2>6 DEF Request
  <2>8. i # 0
    BY <1>3 DEF IdentitiesInv, Typed, Store
  <2>9. q.method \notin Starting \cup Adopting
    BY <1>2 DEF Starting, Adopting
  <2> HIDE DEF r
  <2> QED  BY <1>3, <2>3, <2>7, <2>8, <2>9, QuestionKeeps
<1> QED  BY <1>1, <1>4, <1>5

LEMMA AskKeeps ==
    ASSUME IdentitiesInv, NEW c \in Clients, Ask(c)
    PROVE  IdentitiesInv'
<1>1. PICK q \in Requests[c] :
         AskStart(c, q) \/ AskHandoff(c, q) \/ AskRename(c, q) \/ AskRetire(c, q)
            \/ AskRetireClose(c, q) \/ AskRecover(c, q)
            \/ AskWhoami(c, q) \/ AskAlias(c, q)
  BY DEF Ask
<1>2. Keep
  BY DEF Ask
<1>3. CASE AskStart(c, q) \/ AskRecover(c, q) \/ AskWhoami(c, q) \/ AskAlias(c, q)
  <2>1. /\ q.method \notin {"retire", "rename", "close"}
        /\ Park(c, Asked(c, q)) /\ UNCHANGED db
    BY <1>3 DEF AskStart, AskRecover, AskWhoami, AskAlias
  <2> QED  BY <1>2, <2>1, PlainQuestionKeeps
<1>4. CASE AskHandoff(c, q)
  BY <1>2, <1>4, HandoffAskedKeeps
<1>5. CASE AskRename(c, q)
  BY <1>2, <1>5, RenameAskedKeeps
<1>6. CASE AskRetire(c, q)
  <2>1. PICK i \in RetirableBinding(db, q.agent) : Answer(c) /\ db' = Retiring(db, i)
    BY <1>6 DEF AskRetire
  <2>2. Follows(db, db', {}, {}) /\ Len(db'.inc) <= MaxIncs
    BY <2>1, RetiringBound
  <2>3. c \in All
    BY DEF All
  <2> QED  BY <1>2, <2>1, <2>2, <2>3, AnswerKeeps
<1>7. CASE AskRetireClose(c, q)
  BY <1>2, <1>7, CloseAskedKeeps
<1> QED  BY <1>1, <1>3, <1>4, <1>5, <1>6, <1>7

(***************************************************************************)
(* A start.                                                                 *)
(***************************************************************************)
LEMMA LeaseKeeps ==
    ASSUME IdentitiesInv, NEW c \in All, NEW i \in Nat \ {0}, OpenStartLease(c, i), Keep,
           req[c].method \in Starting,
           Follows(db, db', {}, {}), i <= Len(db'.inc), Len(db'.inc) <= MaxIncs,
           \/ Pending(req[c]) /\ i = req[c].inc
           \/ i > Len(db.inc) /\ ~Refused(db'.inc[i])
    PROVE  IdentitiesInv'
<1> DEFINE q == req[c]
           r1 == [q EXCEPT !.phase = "opening"]
           r2 == [r1 EXCEPT !.view = NoView]
           r == [r2 EXCEPT !.inc = i]
<1>1. q \in Request /\ Fits(db, q)
  BY DEF IdentitiesInv, Typed
<1>2. Fits(db', q)
  BY <1>1, StillFits DEF IdentitiesInv, Typed
<1>3. r1 \in Request
  BY <1>1 DEF Request, Phases
<1>4. r2 \in Request
  <2> HIDE DEF r1
  <2> QED  BY <1>3 DEF Request, Views
<1>5. r \in Request
  <2> HIDE DEF r2
  <2> QED  BY <1>4 DEF Request
<1>6. /\ r.method = q.method /\ r.phase = "opening" /\ r.inc = i /\ r.old = q.old
      /\ r.name = q.name /\ r.view = NoView /\ r.kept = q.kept
  BY <1>1 DEF Request
<1>7. req' = [req EXCEPT ![c] = r]
  BY DEF OpenStartLease, Park
<1> HIDE DEF r
<1>8. Fits(db', r)
  BY <1>2, <1>5, <1>6 DEF Fits, Owned, Starting, Adopting
<1>9. Pending(q) => Owner(q)
  BY DEF Pending, Owner
<1>10. launch' = launch /\ Later /\ HerdrTyped' /\ UsedTyped'
  BY KeepIsLater DEF Keep, IdentitiesInv, Typed, UsedTyped
<1>11. Knows(db', r)
  <2>1. Knows(db', q)
    BY <1>1, StillKnows DEF IdentitiesInv, Typed, SeatsAgree
  <2> QED  BY <1>6, <2>1, EmptyShows DEF Knows, Starting
<1> QED  BY <1>6, <1>7, <1>8, <1>9, <1>10, <1>11, NoneDeparts, StepKeeps

\* The agent that last had a name is one, or there is none.
LEMMA HolderIsAgent ==
    ASSUME NEW d \in Store, NEW n
    PROVE  NameHolder(d, n) \in Agents \cup {NoAgent}
<1> DEFINE S == {i \in DOMAIN d.inc : NameOf(d, i) = n}
<1>1. d.inc \in Seq(Row)
  BY DEF Store
<1>2. Len(d.inc) \in Nat /\ DOMAIN d.inc = 1..Len(d.inc)
  BY <1>1
<1>3. CASE S # {}
  <2>1. S \in SUBSET (1..Len(d.inc))
    BY <1>2
  <2>2. Newest(S) \in S
    BY <1>2, <1>3, <2>1, NewestIsLast
  <2>3. d.inc[Newest(S)].agent \in Agents
    BY <2>2, RowTyped DEF Row
  <2> QED  BY <2>3 DEF NameHolder
<1>4. CASE S = {}
  BY <1>4 DEF NameHolder
<1> QED  BY <1>3, <1>4

\* The agent of a new incarnation.
LEMMA AgentForTyped ==
    ASSUME NEW d \in Store, NEW a \in Agents \cup {NoAgent}, a = NoAgent => Unminted(d) # {}
    PROVE  AgentFor(d, a) \in Agents
<1>1. Unminted(d) # {} => InsertLogicalAgent(d) \in Agents
  BY DEF InsertLogicalAgent, Unminted
<1> QED  BY <1>1 DEF AgentFor

LEMMA NewIncTyped ==
    ASSUME NEW a \in Agents, NEW n \in Names, NEW p \in Panes, NEW t \in Terms
    PROVE  /\ NewInc(a, n, p, t) \in Row /\ NewInc(a, n, p, t).agent = a
           /\ NewInc(a, n, p, t).mine /\ NewInc(a, n, p, t).state = "declared"
           /\ ~NewInc(a, n, p, t).bound
<1>1. 0 \in Runs /\ 0 \in 0..MaxIncs
  BY IdentitiesAssumption DEF Runs
<1> QED  BY <1>1 DEF NewInc, Row, States, Open

\* The incarnation that a start declares.
LEMMA DeclareStartFollows ==
    ASSUME NEW d \in Store, Minted(d), NEW a \in Agents, NEW q \in Request,
           q.name \in Names, q.old \in 0..MaxIncs
    PROVE  /\ Follows(d, DeclareStart(d, a, q), {}, {})
           /\ Len(DeclareStart(d, a, q).inc) = Len(d.inc) + 1
           /\ DeclareStart(d, a, q).inc[Len(d.inc) + 1].state = "declared"
<1> DEFINE n == q.name
           b == NewInc(a, n, q.pane, q.term)
           r == [b EXCEPT !.replaces = q.old]
<1>1. b \in Row /\ b.agent = a /\ b.mine /\ b.state = "declared"
  BY NewIncTyped DEF Request
<1>2. DeclareStart(d, a, q) = Insert(d, a, n, r)
  BY DEF DeclareStart
<1> HIDE DEF b
<1>3. r \in Row /\ r.agent = a /\ r.mine /\ r.state = "declared"
  BY <1>1 DEF Row
<1> HIDE DEF r, n
<1>4. n \in Names
  BY DEF n
<1>5. /\ Follows(d, Insert(d, a, n, r), {}, {})
      /\ Len(Insert(d, a, n, r).inc) = Len(d.inc) + 1
      /\ Insert(d, a, n, r).inc[Len(d.inc) + 1] = r
  BY <1>3, <1>4, InsertFollows
<1> QED  BY <1>2, <1>3, <1>5

LEMMA StartDeclaredKeeps ==
    ASSUME IdentitiesInv, NEW c \in Clients, At(c, Starting, "snapshot"), req[c].inc = 0,
           DeclareStartFromSnapshot(c, req[c]), Keep
    PROVE  IdentitiesInv'
<1> DEFINE q == req[c]
           holder == ContinueIdentityByName(db, q)
           a == AgentFor(db, holder)
<1>1. c \in All /\ db \in Store /\ Minted(db) /\ q \in Request /\ Fits(db, q)
  BY RequestFits DEF All
<1>2. CASE Answer(c) /\ UNCHANGED db
  BY <1>1, <1>2, AnswerAlone
<1>3. CASE /\ Len(db.inc) < MaxIncs /\ (holder = NoAgent => Unminted(db) # {})
           /\ db' = DeclareStart(db, a, q) /\ OpenStartLease(c, Len(db.inc) + 1)
  <2>1. q.name \in Names /\ q.method \in Starting
    BY <1>1 DEF At, Fits
  <2>2. Len(db.inc) \in Nat
    BY <1>1 DEF Store
  <2>3. q.old \in 0..MaxIncs
    BY <1>1, <1>3, <2>2, IdentitiesAssumption DEF Fits, Request
  <2>4. holder \in Agents \cup {NoAgent}
    BY <1>1, HolderIsAgent DEF ContinueIdentityByName, Request
  <2>5. a \in Agents
    BY <1>1, <1>3, <2>4, AgentForTyped
  <2> HIDE DEF a, holder, q
  <2>6. /\ Follows(db, db', {}, {}) /\ Len(db'.inc) = Len(db.inc) + 1
        /\ db'.inc[Len(db.inc) + 1].state = "declared"
    BY <1>1, <1>3, <2>1, <2>3, <2>5, DeclareStartFollows
  <2> DEFINE i == Len(db.inc) + 1
  <2>7. i \in Nat \ {0} /\ i <= Len(db'.inc) /\ Len(db'.inc) <= MaxIncs /\ i > Len(db.inc)
    BY <1>3, <2>2, <2>6, IdentitiesAssumption
  <2>8. ~Refused(db'.inc[i]) /\ OpenStartLease(c, i)
    BY <1>3, <2>6 DEF Refused
  <2>9. req[c].method \in Starting
    BY <2>1 DEF q
  <2> HIDE DEF i
  <2> QED  BY <1>1, <2>6, <2>7, <2>8, <2>9, LeaseKeeps
<1> QED  BY <1>2, <1>3 DEF DeclareStartFromSnapshot

LEMMA OnStartSnapshotKeeps ==
    ASSUME IdentitiesInv, NEW c \in Clients, OnStartSnapshot(c)
    PROVE  IdentitiesInv'
<1>1. At(c, Starting, "snapshot") /\ Keep /\ c \in All
  BY DEF OnStartSnapshot, All
<1>2. db \in Store /\ Minted(db) /\ req[c] \in Request /\ Fits(db, req[c])
  BY <1>1, RequestFits
<1>3. CASE req[c].inc = 0 /\ DeclareStartFromSnapshot(c, req[c])
  BY <1>1, <1>3, StartDeclaredKeeps
<1>4. req[c].inc # 0 => Pending(req[c])
  BY <1>1 DEF Pending, At
<1>5. CASE req[c].inc # 0 /\ OpenStartLease(c, req[c].inc) /\ UNCHANGED db
  <2>1. req[c].inc \in Nat \ {0} /\ req[c].inc <= Len(db'.inc)
    BY <1>2, <1>5 DEF Fits, Request
  <2>2. Follows(db, db', {}, {}) /\ Len(db'.inc) <= MaxIncs
    BY <1>5, NothingFollows DEF IdentitiesInv, Typed
  <2>3. req[c].method \in Starting
    BY <1>1 DEF At
  <2> QED  BY <1>1, <1>4, <1>5, <2>1, <2>2, <2>3, LeaseKeeps
<1>6. CASE req[c].inc # 0 /\ Answer(c) /\ db' = MarkRejected(db, req[c].inc)
  BY <1>1, <1>4, <1>6, SettledStartKeeps
<1> QED  BY <1>3, <1>5, <1>6 DEF OnStartSnapshot

\* What a start's steps have in common: the row of a request that is under way.
LEMMA UnderWay ==
    ASSUME IdentitiesInv, NEW c \in Clients \cup {Boot}, req[c].phase \in Owned
    PROVE  /\ c \in All /\ db \in Store /\ Minted(db)
           /\ req[c] \in Request /\ Fits(db, req[c])
           /\ req[c].inc # 0 /\ req[c].inc \in DOMAIN db.inc
<1>1. c \in All
  BY DEF All
<1>2. /\ db \in Store /\ Minted(db) /\ req[c] \in Request /\ Fits(db, req[c])
      /\ req[c].inc # 0 => req[c].inc \in DOMAIN db.inc
  BY <1>1, RequestFits
<1>3. req[c].inc # 0
  BY <1>2 DEF Fits
<1> QED  BY <1>1, <1>2, <1>3

\* A start goes on; where it may still be launched, it was already.
LEMMA StartGoesOn ==
    ASSUME IdentitiesInv, NEW c \in Clients, req[c].phase \in Owned, req[c].method \in Starting,
           NEW phase \in Owned \cup {"snapshot"}, Goto(c, phase), Keep,
           Follows(db, db', {}, {}), DOMAIN db'.inc = DOMAIN db.inc,
           phase = "polling" => db'.inc[req[c].inc].bound,
           phase \in {"snapshot", "opening", "busy", "sending"} => Pending(req[c])
    PROVE  IdentitiesInv'
<1>1. Len(db'.inc) <= MaxIncs
  BY LengthKept
<1>2. c \in All /\ req[c].inc # 0
  BY UnderWay
<1>3. req[c].method # "recover"
  BY DEF Starting
<1> QED  BY <1>1, <1>2, <1>3, GotoKeeps

LEMMA OnStartOpenedKeeps ==
    ASSUME IdentitiesInv, NEW c \in Clients, OnStartOpened(c)
    PROVE  IdentitiesInv'
<1> DEFINE i == req[c].inc
           phase == "sending"
<1>1. /\ req[c].phase = "opening" /\ req[c].method \in Starting
      /\ Goto(c, phase) /\ Keep /\ db' = BeginAttempt(db, i)
  BY DEF OnStartOpened, At, CommitStartIntent
<1>2. req[c].phase \in Owned /\ phase \in Owned \cup {"snapshot"} /\ phase # "polling"
  BY <1>1 DEF Owned
<1>3. db \in Store /\ Minted(db) /\ i # 0 /\ i \in DOMAIN db.inc
  BY <1>2, UnderWay
<1> HIDE DEF i, phase
<1>4. Follows(db, db', {}, {}) /\ DOMAIN db'.inc = DOMAIN db.inc
  BY <1>1, <1>3, BeginAttemptFollows, NoRowAdded
<1>5. Pending(req[c])
  BY <1>1, <1>3 DEF Pending, i
<1> QED  BY <1>1, <1>2, <1>4, <1>5, StartGoesOn

\* Herdr refuses a start, or its pane is busy.
LEMMA OnStartRefusedKeeps ==
    ASSUME IdentitiesInv, NEW c \in Clients,
           OnStartRejected(c) \/ OnStartBusy(c) \/ OnBusyElapsed(c)
    PROVE  IdentitiesInv'
<1>1. /\ req[c].phase \in {"sending", "busy"} /\ req[c].method \in Starting /\ Keep
      /\ req[c].phase = "sending" => req[c].result \in {"rejected", "busy"}
  BY DEF OnStartRejected, OnStartBusy, OnBusyElapsed, At
<1>2. req[c].phase \in Owned
  BY <1>1 DEF Owned
<1>3. db \in Store /\ Minted(db) /\ req[c].inc # 0 /\ c \in All
  BY <1>2, UnderWay
<1>4. Pending(req[c])
  BY <1>1, <1>3 DEF Pending
<1>5. CASE Answer(c) /\ db' = MarkRejected(db, req[c].inc)
  BY <1>1, <1>3, <1>4, <1>5, SettledStartKeeps
<1>6. CASE UNCHANGED db /\ (Goto(c, "busy") \/ Goto(c, "snapshot"))
  <2>1. Follows(db, db', {}, {}) /\ DOMAIN db'.inc = DOMAIN db.inc
    BY <1>3, <1>6, NothingFollows
  <2>2. PICK phase \in {"busy", "snapshot"} : Goto(c, phase)
    BY <1>6
  <2>3. phase \in Owned \cup {"snapshot"} /\ phase # "polling"
    BY DEF Owned
  <2> QED  BY <1>1, <1>2, <1>4, <2>1, <2>2, <2>3, StartGoesOn
<1> QED  BY <1>5, <1>6 DEF OnStartRejected, OnStartBusy, OnBusyElapsed

LEMMA OnStartAcceptedKeeps ==
    ASSUME IdentitiesInv, NEW c \in Clients, OnStartAccepted(c)
    PROVE  IdentitiesInv'
<1> DEFINE i == req[c].inc
           phase == "polling"
<1>1. req[c].phase = "sending" /\ req[c].method \in Starting /\ Keep
  BY DEF OnStartAccepted, At
<1>2. req[c].phase \in Owned
  BY <1>1 DEF Owned
<1>3. db \in Store /\ Minted(db) /\ i # 0 /\ i \in DOMAIN db.inc /\ c \in All
  BY <1>2, UnderWay
<1>4. \/ Goto(c, phase) /\ db' = AcceptStartSubmission(db, i)
      \/ Answer(c) /\ db' = MarkUnknown(db, i)
  BY DEF OnStartAccepted, SubmitStartReadyGet
<1>5. phase \in Owned \cup {"snapshot"} /\ phase \notin {"snapshot", "opening", "busy", "sending"}
  BY DEF Owned
<1>6. CASE Goto(c, phase) /\ db' = AcceptStartSubmission(db, i)
  <2> HIDE DEF i, phase
  <2>1. /\ Follows(db, db', {}, {}) /\ DOMAIN db'.inc = DOMAIN db.inc /\ db'.inc[i].bound
    BY <1>3, <1>6, AcceptSubmissionFollows, NoRowAdded
  <2>2. db'.inc[req[c].inc].bound
    BY <2>1 DEF i
  <2> QED  BY <1>1, <1>2, <1>5, <1>6, <2>1, <2>2, StartGoesOn
<1>7. CASE Answer(c) /\ db' = MarkUnknown(db, i)
  BY <1>1, <1>3, <1>7, SettledStartKeeps
<1> QED  BY <1>4, <1>6, <1>7

\* What a start's readiness proves: the incarnation is Ready and its first message recorded.
LEMMA StartReadyFollows ==
    ASSUME NEW d \in Store, Minted(d), NEW i \in DOMAIN d.inc, NEW p, NEW o,
           o.run \in Runs, ProvesReady(d, i, p, o), NEW old, old = 0 \/ old \in DOMAIN d.inc
    PROVE  LET e == BeginInitialMessage(AcceptReady(d, i, o, old), i)
           IN  Follows(d, e, {}, {}) /\ DOMAIN e.inc = DOMAIN d.inc
<1> DEFINE f == AcceptReady(d, i, o, old)
           e == BeginInitialMessage(f, i)
<1>1. d.inc[i].state \in Before
  BY DEF ProvesReady, Before
<1>2. Follows(d, f, {}, {}) /\ DOMAIN f.inc = DOMAIN d.inc
  BY <1>1, AcceptReadyFollows, NoRowAdded
<1> HIDE DEF f
<1>3. f \in Store /\ Minted(f) /\ i \in DOMAIN f.inc
  BY <1>2 DEF Follows
<1>4. Follows(f, e, {}, {}) /\ DOMAIN e.inc = DOMAIN f.inc
  BY <1>3, CreateInitialFollows, NoRowAdded
<1> HIDE DEF e
<1>5. Follows(d, e, {} \cup {}, {} \cup {})
  BY <1>2, <1>4, FollowsTwice
<1>6. {} \cup {} = {}
  OBVIOUS
<1>7. Follows(d, e, {}, {}) /\ DOMAIN e.inc = DOMAIN d.inc
  BY <1>2, <1>4, <1>5, <1>6
<1> QED  BY <1>7 DEF e, f

LEMMA OnStartReadyGetKeeps ==
    ASSUME IdentitiesInv, NEW c \in Clients, OnStartReadyGet(c)
    PROVE  IdentitiesInv'
<1> DEFINE i == req[c].inc
           p == req[c].pane
           o == req[c].view[p]
           old == req[c].old
<1>1. /\ req[c].phase = "polling" /\ req[c].method \in Starting /\ Keep
      /\ req[c].view # NoView /\ ApplyStartObservation(c, i, o)
  BY DEF OnStartReadyGet, At, Seen
<1>2. req[c].phase \in Owned
  BY <1>1 DEF Owned
<1>3. /\ db \in Store /\ Minted(db) /\ i # 0 /\ i \in DOMAIN db.inc /\ c \in All
      /\ req[c] \in Request /\ Fits(db, req[c])
  BY <1>2, UnderWay
<1>4. db.inc[i].bound /\ req[c].view \in Partial(p)
  BY <1>1, <1>3 DEF Fits
<1>5. o.run \in Runs
  BY <1>4 DEF Partial, Seat
<1>6. old = 0 \/ old \in DOMAIN db.inc
  BY <1>3, RequestFits
<1>7. \/ /\ ProvesReady(db, i, p, o) /\ Goto(c, "settling")
         /\ db' = BeginInitialMessage(AcceptReady(db, i, o, old), i)
      \/ Answer(c) /\ UNCHANGED db
      \/ Answer(c) /\ db' = MarkRejected(db, i)
      \/ Answer(c) /\ db' = MarkUnknown(db, i)
      \/ Goto(c, "polling") /\ UNCHANGED db
  <2> HIDE DEF i, o, old
  <2> QED  BY <1>1 DEF ApplyStartObservation, SubmitStartReadyGet, p, old, i
<1>8. CASE /\ ProvesReady(db, i, p, o) /\ Goto(c, "settling")
           /\ db' = BeginInitialMessage(AcceptReady(db, i, o, old), i)
  <2> DEFINE phase == "settling"
  <2>1. /\ phase \in Owned \cup {"snapshot"}
        /\ phase \notin {"snapshot", "opening", "busy", "sending", "polling"}
    BY DEF Owned
  <2>2. Goto(c, phase)
    BY <1>8
  <2> HIDE DEF i, p, o, old, phase
  <2>3. Follows(db, db', {}, {}) /\ DOMAIN db'.inc = DOMAIN db.inc
    BY <1>3, <1>5, <1>6, <1>8, StartReadyFollows
  <2> QED  BY <1>1, <1>2, <2>1, <2>2, <2>3, StartGoesOn
<1>9. CASE Answer(c) /\ UNCHANGED db
  BY <1>1, <1>3, <1>9, AnswerAlone
<1>10. CASE Answer(c) /\ db' = MarkRejected(db, i)
  BY <1>1, <1>3, <1>4, <1>10, SettledStartKeeps
<1>11. CASE Answer(c) /\ db' = MarkUnknown(db, i)
  BY <1>1, <1>3, <1>11, SettledStartKeeps
<1>12. CASE Goto(c, "polling") /\ UNCHANGED db
  <2> DEFINE phase == "polling"
  <2>1. /\ phase \in Owned \cup {"snapshot"}
        /\ phase \notin {"snapshot", "opening", "busy", "sending"}
    BY DEF Owned
  <2>2. Goto(c, phase)
    BY <1>12
  <2>3. db'.inc[req[c].inc].bound
    BY <1>4, <1>12
  <2> HIDE DEF phase
  <2>4. Follows(db, db', {}, {}) /\ DOMAIN db'.inc = DOMAIN db.inc
    BY <1>3, <1>12, NothingFollows
  <2> QED  BY <1>1, <1>2, <2>1, <2>2, <2>3, <2>4, StartGoesOn
<1> QED  BY <1>7, <1>8, <1>9, <1>10, <1>11, <1>12

LEMMA OnInitialOpenedKeeps ==
    ASSUME IdentitiesInv, NEW c \in Clients, OnInitialOpened(c)
    PROVE  IdentitiesInv'
<1> DEFINE i == req[c].inc
           phase == "prompting"
<1>1. /\ req[c].phase = "settling" /\ req[c].method \in Starting
      /\ Goto(c, phase) /\ Keep /\ db' = CommitInitialIntent(db, i)
  BY DEF OnInitialOpened, At
<1>2. /\ req[c].phase \in Owned /\ phase \in Owned \cup {"snapshot"}
      /\ phase \notin {"snapshot", "opening", "busy", "sending", "polling"}
  BY <1>1 DEF Owned
<1>3. db \in Store /\ Minted(db) /\ i \in DOMAIN db.inc
  BY <1>2, UnderWay
<1> HIDE DEF i, phase
<1>4. Follows(db, db', {}, {}) /\ DOMAIN db'.inc = DOMAIN db.inc
  BY <1>1, <1>3, CommitInitialFollows, NoRowAdded
<1> QED  BY <1>1, <1>2, <1>4, StartGoesOn

LEMMA OnInitialDoneKeeps ==
    ASSUME IdentitiesInv, NEW c \in Clients, OnInitialDone(c)
    PROVE  IdentitiesInv'
<1> DEFINE i == req[c].inc
           ok == req[c].result = "ok"
<1>1. /\ req[c].phase = "prompting" /\ Answer(c) /\ Keep
      /\ db' = db \/ db' = CompleteInitialDelivery(db, i, ok)
  BY DEF OnInitialDone, At
<1>2. req[c].phase \in Owned
  BY <1>1 DEF Owned
<1>3. db \in Store /\ Minted(db) /\ i \in DOMAIN db.inc /\ c \in All /\ ok \in BOOLEAN
  BY <1>2, UnderWay
<1> HIDE DEF i, ok
<1>4. Follows(db, db', {}, {}) /\ DOMAIN db'.inc = DOMAIN db.inc
  <2>1. CASE db' = db
    BY <1>3, <2>1, NothingFollows
  <2>2. CASE db' = CompleteInitialDelivery(db, i, ok)
    <3>1. ok \in BOOLEAN
      BY <1>3
    <3>2. Follows(db, CompleteInitialDelivery(db, i, ok), {}, {})
      BY <1>3, <3>1, CompleteInitialFollows
    <3>3. DOMAIN CompleteInitialDelivery(db, i, ok).inc = DOMAIN db.inc
      BY <1>3 DEF CompleteInitialDelivery, Store
    <3> QED  BY <2>2, <3>2, <3>3
  <2> QED  BY <1>1, <2>1, <2>2
<1>5. Len(db'.inc) <= MaxIncs
  BY <1>4, LengthKept
<1> QED  BY <1>1, <1>3, <1>4, <1>5, AnswerKeeps

LEMMA OnStartFailedKeeps ==
    ASSUME IdentitiesInv, NEW c \in Clients, OnStartFailed(c)
    PROVE  IdentitiesInv'
<1>1. /\ Answer(c) /\ Keep /\ c \in All
      /\ \/ req[c].phase = "polling" /\ db' = MarkUnknown(db, req[c].inc)
         \/ UNCHANGED db
  BY DEF OnStartFailed, All
<1>2. CASE req[c].phase = "polling" /\ db' = MarkUnknown(db, req[c].inc)
  <2>1. req[c].phase \in Owned
    BY <1>2 DEF Owned
  <2>2. req[c].inc # 0
    BY <2>1, UnderWay
  <2> QED  BY <1>1, <1>2, <2>2, SettledStartKeeps
<1>3. CASE UNCHANGED db
  BY <1>1, <1>3, AnswerAlone
<1> QED  BY <1>1, <1>2, <1>3

LEMMA OnStartKeeps ==
    ASSUME IdentitiesInv, NEW c \in Clients, OnStart(c)
    PROVE  IdentitiesInv'
BY OnStartSnapshotKeeps, OnStartOpenedKeeps, OnStartRefusedKeeps, OnStartAcceptedKeeps,
   OnStartReadyGetKeeps, OnInitialOpenedKeeps, OnInitialDoneKeeps, OnStartFailedKeeps
   DEF OnStart

(***************************************************************************)
(* An adoption.                                                             *)
(***************************************************************************)
\* Whom an adoption may continue, and under which name.
Choice == [agent : Agents \cup {NoAgent}, asked : Names \cup {NoName}, name : Names]

\* The agents that the seat's rows identify have a name.
LEMMA ContinuableTyped ==
    ASSUME NEW d \in Store, Minted(d), NEW p, NEW t, NEW a \in ContinuableAgent(d, p, t)
    PROVE  a = NoAgent \/ (a \in Agents /\ d.name[a] \in Names)
<1>1. \A i \in DOMAIN d.inc : d.inc[i].agent \in Agents /\ d.name[d.inc[i].agent] \in Names
  BY RowTyped DEF Row, Minted
<1>2. a = NoAgent \/ a \in {d.inc[i].agent : i \in SeatHistory(d, p, t)}
  BY DEF ContinuableAgent
<1>3. SeatHistory(d, p, t) \subseteq DOMAIN d.inc
  BY DEF SeatHistory
<1> QED  BY <1>1, <1>2, <1>3

\* If the seat's rows identify nobody, that is all they say.
LEMMA ContinuableAlone ==
    ASSUME NEW d \in Store, NEW p, NEW t, NoAgent \in ContinuableAgent(d, p, t)
    PROVE  ContinuableAgent(d, p, t) = {NoAgent}
<1>1. \A i \in DOMAIN d.inc : d.inc[i].agent \in Agents
  BY RowTyped DEF Row
<1>2. SeatHistory(d, p, t) \subseteq DOMAIN d.inc
  BY DEF SeatHistory
<1>3. NoAgent \notin {d.inc[i].agent : i \in SeatHistory(d, p, t)}
  BY <1>1, <1>2, IdentitiesAssumption
<1> QED  BY <1>3 DEF ContinuableAgent

LEMMA ClaimedTyped ==
    ASSUME NEW d \in Store, NEW v \in Full, NEW q \in Request, NEW k \in ClaimName(d, v, q)
    PROVE  k \in Choice
<1>1. q.name \in Names \cup {NoName}
  BY DEF Request
<1> DEFINE taken == {v[p].name : p \in {x \in Panes : v[x].open /\ x # q.pane}}
                      \cup {NameOf(d, i) : i \in In(d, {"ready"})}
           free == (IF q.name = NoName THEN Names ELSE {q.name}) \ taken
<1>2. PICK n \in free : k = [agent |-> IF q.name = NoName THEN NameHolder(d, n) ELSE NoAgent,
                             asked |-> q.name, name |-> n]
  BY DEF ClaimName
<1>3. n \in Names
  BY <1>1
<1>4. NameHolder(d, n) \in Agents \cup {NoAgent}
  BY HolderIsAgent
<1> HIDE DEF free
<1> QED  BY <1>1, <1>2, <1>3, <1>4 DEF Choice

LEMMA AdoptAsTyped ==
    ASSUME NEW d \in Store, NEW v \in Full, NEW q \in Request,
           NEW live \in Names \cup {NoName}, NEW k \in AdoptAs(d, v, q, live)
    PROVE  k \in Choice
<1> DEFINE asked == IF live # NoName THEN live ELSE q.name
           holder == IF asked = NoName THEN NoAgent ELSE NameHolder(d, asked)
           g == ContinueAdoptedName(d, live, q)
<1>1. q.name \in Names \cup {NoName} /\ q.agent \in Agents \cup {NoAgent}
  BY DEF Request
<1>2. asked \in Names \cup {NoName} /\ holder \in Agents \cup {NoAgent}
  BY <1>1, HolderIsAgent
<1>3. g.agent \in Agents \cup {NoAgent} /\ g.asked \in Names \cup {NoName}
  <2>1. g = IF q.agent # NoAgent \/ holder = NoAgent
            THEN [agent |-> q.agent, asked |-> q.name]
            ELSE [agent |-> holder, asked |-> asked]
    BY DEF ContinueAdoptedName
  <2> HIDE DEF g, holder, asked
  <2> QED  BY <1>1, <1>2, <2>1
<1> DEFINE named == IF g.asked = NoName THEN d.name[g.agent] ELSE g.asked
<1>4. \/ live # NoName /\ k = [agent |-> g.agent, asked |-> g.asked, name |-> live]
      \/ k \in ClaimName(d, v, q)
      \/ /\ g.agent # NoAgent
         /\ \E n \in {named} \ {NoName} : k = [agent |-> g.agent, asked |-> g.asked, name |-> n]
  BY DEF AdoptAs
<1> HIDE DEF g
<1>5. g.agent # NoAgent => named \in Names \cup {NoName}
  BY <1>3 DEF Store
<1>6. CASE live # NoName /\ k = [agent |-> g.agent, asked |-> g.asked, name |-> live]
  BY <1>3, <1>6 DEF Choice
<1>7. CASE k \in ClaimName(d, v, q)
  BY <1>7, ClaimedTyped
<1> HIDE DEF named
<1>8. CASE /\ g.agent # NoAgent
           /\ \E n \in {named} \ {NoName} : k = [agent |-> g.agent, asked |-> g.asked, name |-> n]
  BY <1>3, <1>5, <1>8 DEF Choice
<1> QED  BY <1>4, <1>6, <1>7, <1>8

LEMMA ChoicesTyped ==
    ASSUME NEW d \in Store, Minted(d), NEW v \in Full, NEW q \in Request,
           NEW k \in AdoptChoices(d, v, q)
    PROVE  k \in Choice
<1> DEFINE live == v[q.pane].name
           recorded == IF q.agent = NoAgent THEN ContinuableAgent(d, q.pane, q.term)
                       ELSE {NoAgent}
<1>1. live \in Names \cup {NoName}
  BY DEF Full, Seat, Request
<1>2. \/ k \in AdoptAs(d, v, q, live)
      \/ /\ recorded # {NoAgent}
         /\ \E a \in recorded : k = [agent |-> a, asked |-> d.name[a], name |-> d.name[a]]
  BY DEF AdoptChoices
<1>3. CASE k \in AdoptAs(d, v, q, live)
  <2> HIDE DEF live
  <2> QED  BY <1>1, <1>3, AdoptAsTyped
<1>4. ASSUME recorded # {NoAgent}, NEW a \in recorded,
             k = [agent |-> a, asked |-> d.name[a], name |-> d.name[a]]
      PROVE  k \in Choice
  <2>1. a \in ContinuableAgent(d, q.pane, q.term) /\ a # NoAgent
    BY <1>4, ContinuableAlone
  <2>2. a \in Agents /\ d.name[a] \in Names
    BY <2>1, ContinuableTyped
  <2> QED  BY <1>4, <2>2 DEF Choice
<1> QED  BY <1>2, <1>3, <1>4

\* The incarnation that an adoption declares.
LEMMA DeclareAdoptFollows ==
    ASSUME NEW d \in Store, Minted(d), NEW a \in Agents, NEW n \in Names, NEW q \in Request,
           NEW run \in Runs, NEW atOnce \in BOOLEAN
    PROVE  /\ Follows(d, DeclareAdopt(d, a, n, q, run, atOnce), {}, {})
           /\ Len(DeclareAdopt(d, a, n, q, run, atOnce).inc) = Len(d.inc) + 1
           /\ DeclareAdopt(d, a, n, q, run, atOnce).inc[Len(d.inc) + 1].bound
<1> DEFINE b == NewInc(a, n, q.pane, q.term)
           s == IF atOnce THEN "ready" ELSE "declared"
           o == IF atOnce THEN "succeeded" ELSE "pending"
           r1 == [[b EXCEPT !.kind = "adopt"] EXCEPT !.bound = TRUE]
           r2 == [[r1 EXCEPT !.run = run] EXCEPT !.state = s]
           r == [r2 EXCEPT !.op = o]
<1>1. b \in Row /\ b.agent = a /\ b.mine
  BY NewIncTyped DEF Request
<1>2. DeclareAdopt(d, a, n, q, run, atOnce) = Insert(d, a, n, r)
  BY DEF DeclareAdopt
<1> HIDE DEF b
<1>3. s \in States /\ s \in {"declared", "ready"} /\ o \in {"pending", "succeeded"}
  BY DEF States
<1> HIDE DEF s, o
<1>4. r1 \in Row /\ r1.agent = a /\ r1.mine /\ r1.bound
  BY <1>1 DEF Row
<1> HIDE DEF r1
<1>5. r2 \in Row /\ r2.agent = a /\ r2.mine /\ r2.bound /\ r2.state = s
  BY <1>3, <1>4 DEF Row
<1> HIDE DEF r2
<1>6. r \in Row /\ r.agent = a /\ r.mine /\ r.bound /\ r.state \in {"declared", "ready"}
  BY <1>3, <1>5 DEF Row, Open
<1> HIDE DEF r
<1>7. /\ Follows(d, Insert(d, a, n, r), {}, {})
      /\ Len(Insert(d, a, n, r).inc) = Len(d.inc) + 1
      /\ Insert(d, a, n, r).inc[Len(d.inc) + 1] = r
  BY <1>6, InsertFollows
<1> QED  BY <1>2, <1>6, <1>7

\* The record of an adoption that declared incarnation i and now claims a name for it.
Claiming(q, n, i) == [q EXCEPT !.phase = "opening", !.view = NoView, !.name = n, !.inc = i]

LEMMA ClaimFits ==
    ASSUME NEW d \in Store, NEW q \in Request, q.method \in Adopting, q.old <= Len(d.inc),
           NEW n \in Names, NEW i \in DOMAIN d.inc, d.inc[i].bound
    PROVE  /\ Fits(d, Claiming(q, n, i)) /\ ~Pending(Claiming(q, n, i))
           /\ Claiming(q, n, i).inc = i /\ Claiming(q, n, i).method = q.method
           /\ Claiming(q, n, i).view = NoView /\ Claiming(q, n, i).kept = q.kept
<1> DEFINE r == Claiming(q, n, i)
           r1 == [[q EXCEPT !.phase = "opening"] EXCEPT !.view = NoView]
<1>1. /\ r1 \in Request /\ r1.method = q.method /\ r1.phase = "opening" /\ r1.view = NoView
      /\ r1.old = q.old /\ r1.kept = q.kept
  BY DEF Request, Phases, Views
<1>2. i \in Nat /\ i <= Len(d.inc) /\ i # 0
  BY DEF Store
<1>3. r = [[r1 EXCEPT !.name = n] EXCEPT !.inc = i]
  BY DEF Claiming
<1> HIDE DEF r
<1> HIDE DEF r1
<1>4. /\ r \in Request /\ r.method = q.method /\ r.phase = "opening" /\ r.view = NoView
      /\ r.old = q.old /\ r.name = n /\ r.inc = i /\ r.kept = q.kept
  BY <1>1, <1>2, <1>3 DEF Request
<1>5. Fits(d, r)
  BY <1>2, <1>4 DEF Fits, Owned, Starting, Adopting
<1>6. ~Pending(r)
  BY <1>4 DEF Pending, Starting, Adopting
<1> QED  BY <1>4, <1>5, <1>6 DEF r

LEMMA AdoptionKeeps ==
    ASSUME IdentitiesInv, NEW c \in All, NEW q \in Request, q.method \in Adopting,
           q.view \in Full, q.old <= Len(db.inc), q.kept = req[c].kept,
           AdoptAfterSnapshot(c, q), Keep
    PROVE  IdentitiesInv'
<1> DEFINE o == q.view[q.pane]
           choices == AdoptChoices(db, q.view, q)
<1>1. db \in Store /\ Minted(db) /\ Len(db.inc) <= MaxIncs /\ Len(db.inc) \in Nat
  BY DEF IdentitiesInv, Typed, Store
<1>2. CASE Answer(c) /\ UNCHANGED db
  BY <1>2, AnswerAlone
<1>3. ASSUME NEW k \in choices, NEW d, d = ReleaseAbsentAlias(db, k.name, q.view),
             \/ Answer(c) /\ db' = d
             \/ /\ Len(db.inc) < MaxIncs /\ (k.agent = NoAgent => Unminted(d) # {})
                /\ db' = DeclareAdopt(d, AgentFor(d, k.agent), k.name, q, o.run,
                                      o.name = k.name)
                /\ \/ Answer(c)
                   \/ Park(c, [q EXCEPT !.phase = "opening", !.view = NoView,
                                        !.name = k.name, !.inc = Len(db.inc) + 1])
      PROVE  IdentitiesInv'
  <2> HIDE DEF choices
  <2>1. k \in Choice
    BY <1>1, ChoicesTyped DEF choices
  <2> DEFINE n == k.name
  <2>2. Follows(db, d, {}, {}) /\ Len(d.inc) = Len(db.inc)
    BY <1>1, <1>3, ReleaseFollows
  <2>3. d \in Store /\ Minted(d)
    BY <2>2 DEF Follows
  <2>4. CASE Answer(c) /\ db' = d
    BY <1>1, <2>2, <2>4, AnswerKeeps
  <2>5. CASE /\ Len(db.inc) < MaxIncs /\ (k.agent = NoAgent => Unminted(d) # {})
             /\ db' = DeclareAdopt(d, AgentFor(d, k.agent), k.name, q, o.run, o.name = k.name)
             /\ \/ Answer(c)
                \/ Park(c, [q EXCEPT !.phase = "opening", !.view = NoView,
                                     !.name = k.name, !.inc = Len(db.inc) + 1])
    <3> DEFINE a == AgentFor(d, k.agent)
               at == o.name = k.name
               i == Len(db.inc) + 1
               r == [q EXCEPT !.phase = "opening", !.view = NoView, !.name = n, !.inc = i]
    <3>1. n \in Names /\ k.agent \in Agents \cup {NoAgent}
      BY <2>1 DEF Choice
    <3>2. a \in Agents
      BY <2>3, <2>5, <3>1, AgentForTyped
    <3>3. o.run \in Runs /\ at \in BOOLEAN
      BY DEF Full, Seat, Request
    <3>4. db' = DeclareAdopt(d, a, n, q, o.run, at)
      BY <2>5
    <3>5. Answer(c) \/ Park(c, r)
      BY <2>5
    <3> HIDE DEF a, n, at
    <3>13. r = Claiming(q, n, i)
      BY DEF Claiming
    <3> HIDE DEF r
    <3>6. /\ Follows(d, db', {}, {}) /\ Len(db'.inc) = Len(d.inc) + 1
          /\ db'.inc[Len(d.inc) + 1].bound
      BY <2>3, <3>1, <3>2, <3>3, <3>4, DeclareAdoptFollows
    <3>7. Follows(db, db', {} \cup {}, {} \cup {})
      BY <1>1, <2>2, <3>6, FollowsTwice
    <3>8. {} \cup {} = {}
      OBVIOUS
    <3>9. Follows(db, db', {}, {})
      BY <3>7, <3>8
    <3>10. /\ db' \in Store /\ i \in DOMAIN db'.inc /\ db'.inc[i].bound /\ i > Len(db.inc)
           /\ Len(db'.inc) <= MaxIncs /\ q.old <= Len(db'.inc)
      <4>1. db' \in Store /\ Len(db'.inc) = i
        BY <2>2, <3>6, <3>9 DEF Follows
      <4>2. DOMAIN db'.inc = 1..Len(db'.inc) /\ i \in Nat \ {0}
        BY <1>1, <4>1 DEF Store
      <4>3. q.old \in Nat /\ MaxIncs \in Nat
        BY IdentitiesAssumption DEF Request
      <4>4. db'.inc[i].bound
        BY <2>2, <3>6
      <4>5. Len(db.inc) < MaxIncs
        BY <2>5
      <4>6. i > Len(db.inc) /\ i <= MaxIncs /\ q.old <= i
        BY <1>1, <4>3, <4>5
      <4> HIDE DEF i
      <4> QED  BY <4>1, <4>2, <4>4, <4>6
    <3>11. CASE Answer(c)
      BY <3>9, <3>10, <3>11, AnswerKeeps
    <3>12. CASE Park(c, r)
      <4> HIDE DEF i
      <4>1. /\ Fits(db', r) /\ r.inc = i /\ ~Pending(r)
            /\ r.method = q.method /\ r.view = NoView /\ r.kept = q.kept
        BY <3>1, <3>10, <3>13, ClaimFits
      <4>2. req' = [req EXCEPT ![c] = r]
        BY <3>12 DEF Park
      <4>3. launch' = launch /\ Later /\ HerdrTyped' /\ UsedTyped'
        BY KeepIsLater DEF Keep, IdentitiesInv, Typed, UsedTyped
      <4>4. Knows(db', r)
        <5>1. Fits(db, req[c]) /\ Knows(db, req[c])
          BY DEF IdentitiesInv, Typed, SeatsAgree
        <5>2. Knows(db', req[c])
          BY <1>1, <3>9, <5>1, StillKnows
        <5>3. r.method # "close"
          BY <4>1 DEF Adopting
        <5> QED  BY <4>1, <5>2, <5>3, EmptyShows DEF Knows
      <4> QED  BY <3>9, <3>10, <4>1, <4>2, <4>3, <4>4, NoneDeparts, StepKeeps
    <3> QED  BY <3>5, <3>11, <3>12
  <2> QED  BY <1>3, <2>4, <2>5
<1>4. \/ Answer(c) /\ UNCHANGED db
      \/ \E k \in choices : \E d : /\ d = ReleaseAbsentAlias(db, k.name, q.view)
             /\ \/ Answer(c) /\ db' = d
                \/ /\ Len(db.inc) < MaxIncs /\ (k.agent = NoAgent => Unminted(d) # {})
                   /\ db' = DeclareAdopt(d, AgentFor(d, k.agent), k.name, q, o.run,
                                         o.name = k.name)
                   /\ \/ Answer(c)
                      \/ Park(c, [q EXCEPT !.phase = "opening", !.view = NoView,
                                           !.name = k.name, !.inc = Len(db.inc) + 1])
  BY DEF AdoptAfterSnapshot
<1> QED  BY <1>2, <1>3, <1>4

\* A pane that asks who it is, and a name with no Ready agent, become adoptions.
LEMMA PaneIntentTyped ==
    ASSUME NEW d \in Store, Minted(d), NEW v \in Full, NEW q \in Request,
           NEW r \in PaneIntents(d, v, q)
    PROVE  /\ r \in Request /\ r.method = q.method /\ r.view = q.view /\ r.old = q.old
           /\ r.kept = q.kept
<1> DEFINE o == v[q.pane]
           t == o.term
           n(a) == IF a = NoAgent THEN NoName ELSE d.name[a]
           s(a) == [[[q EXCEPT !.term = t] EXCEPT !.agent = a] EXCEPT !.name = n(a)]
<1>1. PICK a \in ContinuableAgent(d, q.pane, t) : r = s(a)
  BY DEF PaneIntents
<1>2. a = NoAgent \/ (a \in Agents /\ d.name[a] \in Names)
  <2> HIDE DEF t
  <2> QED  BY ContinuableTyped
<1> DEFINE m == n(a)
<1>3. m \in Names \cup {NoName} /\ a \in Agents \cup {NoAgent}
  BY <1>2
<1>4. t \in Terms
  BY DEF Full, Seat, Request
<1>5. r = [[[q EXCEPT !.term = t] EXCEPT !.agent = a] EXCEPT !.name = m]
  BY <1>1
<1> HIDE DEF t, m
<1> QED  BY <1>3, <1>4, <1>5 DEF Request

LEMMA AliasIntentTyped ==
    ASSUME NEW d \in Store, Minted(d), NEW v \in Full, NEW q \in Request,
           NEW r \in AliasIntents(d, v, q)
    PROVE  /\ r \in Request /\ r.method = q.method /\ r.view = q.view /\ r.old = q.old
           /\ r.kept = q.kept
<1> DEFINE candidates == {p \in Panes : /\ v[p].open /\ v[p].run # 0 /\ v[p].name = NoName
                                          /\ v[p].stage # "launching"}
           agents(p) == {a \in ContinuableAgent(d, p, v[p].term) :
                           a # NoAgent \/ Claimants(d, q.name) = {}}
           S(p) == {[q EXCEPT !.pane = p, !.term = v[p].term, !.agent = a] : a \in agents(p)}
<1>1. r \in UNION {S(p) : p \in candidates}
  <2>1. AliasIntents(d, v, q)
          = IF Cardinality(candidates) # 1 THEN {} ELSE UNION {S(p) : p \in candidates}
    BY DEF AliasIntents
  <2> HIDE DEF S, candidates
  <2> QED  BY <2>1
<1>2. PICK p \in candidates : r \in S(p)
  <2> HIDE DEF S, candidates
  <2> QED  BY <1>1
<1> DEFINE t == v[p].term
<1>3. PICK a \in ContinuableAgent(d, p, t) : r = [q EXCEPT !.pane = p, !.term = t, !.agent = a]
  BY <1>2
<1>4. p \in Panes /\ t \in Terms
  BY DEF Full, Seat
<1> HIDE DEF t
<1>5. a \in Agents \cup {NoAgent}
  BY ContinuableTyped
<1>6. r = [[[q EXCEPT !.pane = p] EXCEPT !.term = t] EXCEPT !.agent = a]
  BY <1>3
<1> QED  BY <1>4, <1>5, <1>6 DEF Request

LEMMA AdoptSnapshotKeeps ==
    ASSUME IdentitiesInv, NEW c \in Clients,
           OnAdoptSnapshot(c) \/ FinishWhoamiSnapshot(c) \/ FinishAliasSnapshot(c)
    PROVE  IdentitiesInv'
<1> DEFINE q == req[c]
           v == req[c].view
<1>1. /\ q.method \in Adopting /\ q.phase = "snapshot" /\ v # NoView /\ Keep
  BY DEF OnAdoptSnapshot, FinishWhoamiSnapshot, FinishAliasSnapshot, At, Seen, Adopting
<1>2. c \in All /\ db \in Store /\ Minted(db) /\ q \in Request /\ Fits(db, q)
  BY RequestFits DEF All
<1>3. v \in Full /\ q.old <= Len(db.inc)
  BY <1>1, <1>2 DEF Fits
<1>4. \/ AdoptAfterSnapshot(c, q)
      \/ Answer(c) /\ UNCHANGED db
      \/ \E r \in PaneIntents(db, v, q) : AdoptAfterSnapshot(c, r)
      \/ \E r \in AliasIntents(db, v, q) : AdoptAfterSnapshot(c, r)
  BY DEF OnAdoptSnapshot, FinishWhoamiSnapshot, FinishAliasSnapshot
<1>5. q.view = v /\ q.kept = req[c].kept
  OBVIOUS
<1> HIDE DEF q, v
<1>6. CASE AdoptAfterSnapshot(c, q)
  BY <1>1, <1>2, <1>3, <1>5, <1>6, AdoptionKeeps
<1>7. CASE Answer(c) /\ UNCHANGED db
  BY <1>1, <1>2, <1>7, AnswerAlone
<1>8. ASSUME NEW r \in PaneIntents(db, v, q), AdoptAfterSnapshot(c, r) PROVE IdentitiesInv'
  <2>1. /\ r \in Request /\ r.method = q.method /\ r.view = q.view /\ r.old = q.old
        /\ r.kept = q.kept
    BY <1>2, <1>3, PaneIntentTyped
  <2>2. /\ r.method \in Adopting /\ r.view \in Full /\ r.old <= Len(db.inc)
        /\ r.kept = req[c].kept
    BY <1>1, <1>3, <1>5, <2>1
  <2> QED  BY <1>1, <1>2, <1>8, <2>1, <2>2, AdoptionKeeps
<1>9. ASSUME NEW r \in AliasIntents(db, v, q), AdoptAfterSnapshot(c, r) PROVE IdentitiesInv'
  <2>1. /\ r \in Request /\ r.method = q.method /\ r.view = q.view /\ r.old = q.old
        /\ r.kept = q.kept
    BY <1>2, <1>3, AliasIntentTyped
  <2>2. /\ r.method \in Adopting /\ r.view \in Full /\ r.old <= Len(db.inc)
        /\ r.kept = req[c].kept
    BY <1>1, <1>3, <1>5, <2>1
  <2> QED  BY <1>1, <1>2, <1>9, <2>1, <2>2, AdoptionKeeps
<1> QED  BY <1>4, <1>6, <1>7, <1>8, <1>9

\* The row of an adoption that is under way once had a seat: it is never one that was
\* refused with nothing launched.
LEMMA AdoptedIsBound ==
    ASSUME IdentitiesInv, NEW c \in Clients, req[c].method \in Adopting, req[c].phase \in Owned
    PROVE  db.inc[req[c].inc].bound
<1>1. Fits(db, req[c]) /\ req[c].inc # 0
  BY UnderWay
<1> QED  BY <1>1 DEF Fits

LEMMA OnAdoptOpenedKeeps ==
    ASSUME IdentitiesInv, NEW c \in Clients, OnAdoptOpened(c)
    PROVE  IdentitiesInv'
<1> DEFINE i == req[c].inc
           phase == "sending"
<1>1. /\ req[c].phase = "opening" /\ req[c].method \in Adopting
      /\ Goto(c, phase) /\ Keep /\ db' = BeginAttempt(db, i)
  BY DEF OnAdoptOpened, At, SubmitAdoptRenameIntent
<1>2. req[c].phase \in Owned /\ phase \in Owned \cup {"snapshot"}
  BY <1>1 DEF Owned
<1>3. db \in Store /\ Minted(db) /\ i # 0 /\ i \in DOMAIN db.inc /\ c \in All
  BY <1>2, UnderWay
<1> HIDE DEF phase
<1>4. req[c].method \notin Starting /\ req[c].method # "recover" /\ req[c].inc # 0
  BY <1>1, <1>3 DEF Starting, Adopting
<1> HIDE DEF i
<1>5. Follows(db, db', {}, {}) /\ DOMAIN db'.inc = DOMAIN db.inc
  BY <1>1, <1>3, BeginAttemptFollows, NoRowAdded
<1>6. Len(db'.inc) <= MaxIncs
  BY <1>5, LengthKept
<1> QED  BY <1>1, <1>2, <1>3, <1>4, <1>5, <1>6, GotoKeeps

LEMMA OnAdoptRenamedKeeps ==
    ASSUME IdentitiesInv, NEW c \in Clients, OnAdoptRenamed(c)
    PROVE  IdentitiesInv'
<1> DEFINE phase == "confirm"
<1>1. /\ req[c].phase = "sending" /\ req[c].method \in Adopting /\ Keep
      /\ \/ Goto(c, phase) /\ UNCHANGED db
         \/ Answer(c) /\ db' = MarkRejected(db, req[c].inc)
  BY DEF OnAdoptRenamed, At, ApplyAdoptRenameError
<1>2. req[c].phase \in Owned /\ phase \in Owned \cup {"snapshot"}
  BY <1>1 DEF Owned
<1>3. db \in Store /\ Minted(db) /\ req[c].inc # 0 /\ c \in All
  BY <1>2, UnderWay
<1>4. db.inc[req[c].inc].bound
  BY <1>1, <1>2, AdoptedIsBound
<1>5. req[c].method \notin Starting /\ req[c].method # "recover"
  BY <1>1 DEF Starting, Adopting
<1>6. CASE Goto(c, phase) /\ UNCHANGED db
  <2> HIDE DEF phase
  <2>1. Follows(db, db', {}, {}) /\ Len(db'.inc) <= MaxIncs
    BY <1>6, NothingFollows DEF IdentitiesInv, Typed
  <2> QED  BY <1>1, <1>2, <1>3, <1>5, <1>6, <2>1, GotoKeeps
<1>7. CASE Answer(c) /\ db' = MarkRejected(db, req[c].inc)
  BY <1>1, <1>3, <1>4, <1>7, SettledStartKeeps
<1> QED  BY <1>1, <1>6, <1>7

LEMMA OnAdoptConfirmKeeps ==
    ASSUME IdentitiesInv, NEW c \in Clients, OnAdoptConfirm(c)
    PROVE  IdentitiesInv'
<1> DEFINE i == req[c].inc
           o == req[c].view[req[c].pane]
<1>1. /\ req[c].phase = "confirm" /\ Answer(c) /\ Keep /\ req[c].view # NoView
      /\ \/ ProvesReady(db, i, req[c].pane, o) /\ db' = AcceptReady(db, i, o, 0)
         \/ db' = MarkUnknown(db, i)
  BY DEF OnAdoptConfirm, At, Seen, AcceptAdoptConfirm
<1>2. req[c].phase \in Owned
  BY <1>1 DEF Owned
<1>3. /\ db \in Store /\ Minted(db) /\ i # 0 /\ i \in DOMAIN db.inc /\ c \in All
      /\ req[c] \in Request /\ Fits(db, req[c])
  BY <1>2, UnderWay
<1>4. o.run \in Runs
  BY <1>1, <1>3 DEF Fits, Full, Seat, Request
<1>5. CASE ProvesReady(db, i, req[c].pane, o) /\ db' = AcceptReady(db, i, o, 0)
  <2>1. db.inc[i].state \in Before
    BY <1>5 DEF ProvesReady, Before
  <2> HIDE DEF i, o
  <2>2. Follows(db, db', {}, {}) /\ DOMAIN db'.inc = DOMAIN db.inc
    BY <1>3, <1>4, <1>5, <2>1, AcceptReadyFollows, NoRowAdded
  <2>3. Len(db'.inc) <= MaxIncs
    BY <2>2, LengthKept
  <2> QED  BY <1>1, <1>3, <2>2, <2>3, AnswerKeeps
<1>6. CASE db' = MarkUnknown(db, i)
  BY <1>1, <1>3, <1>6, SettledStartKeeps
<1> QED  BY <1>1, <1>5, <1>6

LEMMA OnAdoptFailedKeeps ==
    ASSUME IdentitiesInv, NEW c \in Clients, OnAdoptFailed(c)
    PROVE  IdentitiesInv'
<1>1. /\ req[c].method \in Adopting /\ Answer(c) /\ Keep /\ c \in All
      /\ \/ UNCHANGED db
         \/ /\ req[c].phase \in {"sending", "confirm"}
            /\ db' = MarkRejected(db, req[c].inc) \/ db' = MarkUnknown(db, req[c].inc)
  BY DEF OnAdoptFailed, ApplyAdoptRenameError, ApplyAdoptConfirmError, All
<1>2. CASE UNCHANGED db
  BY <1>1, <1>2, AnswerAlone
<1>3. CASE /\ req[c].phase \in {"sending", "confirm"}
           /\ db' = MarkRejected(db, req[c].inc) \/ db' = MarkUnknown(db, req[c].inc)
  <2>1. req[c].phase \in Owned
    BY <1>3 DEF Owned
  <2>2. req[c].inc # 0
    BY <2>1, UnderWay
  <2>3. db.inc[req[c].inc].bound
    BY <1>1, <2>1, AdoptedIsBound
  <2> QED  BY <1>1, <1>3, <2>2, <2>3, SettledStartKeeps
<1> QED  BY <1>1, <1>2, <1>3

LEMMA OnAdoptKeeps ==
    ASSUME IdentitiesInv, NEW c \in Clients, OnAdopt(c)
    PROVE  IdentitiesInv'
BY AdoptSnapshotKeeps, OnAdoptOpenedKeeps, OnAdoptRenamedKeeps, OnAdoptConfirmKeeps,
   OnAdoptFailedKeeps DEF OnAdopt

(***************************************************************************)
(* A rename, and recovery.                                                  *)
(***************************************************************************)
\* A transaction that changes names, or the record of a rename, and no incarnation's state.
Quiet(d, e) ==
    /\ Follows(d, e, {}, {}) /\ DOMAIN e.inc = DOMAIN d.inc
    /\ \A j \in DOMAIN d.inc : /\ e.inc[j].agent = d.inc[j].agent
                               /\ e.inc[j].state = d.inc[j].state
                               /\ e.inc[j].op = d.inc[j].op /\ e.inc[j].mine = d.inc[j].mine

LEMMA SameIsQuiet ==
    ASSUME NEW d \in Store, Minted(d)
    PROVE  Quiet(d, d)
BY NothingFollows DEF Quiet

LEMMA RenamingIsQuiet ==
    ASSUME NEW d \in Store, Minted(d), NEW i \in DOMAIN d.inc, NEW n \in Names \cup {NoName}
    PROVE  Quiet(d, [d EXCEPT !.inc[i].renaming = n])
<1> DEFINE e == [d EXCEPT !.inc[i].renaming = n]
<1>1. Follows(d, e, {}, {}) /\ DOMAIN e.inc = DOMAIN d.inc
  BY RenamingFollows
<1>2. ASSUME NEW j \in DOMAIN d.inc
      PROVE  /\ e.inc[j].agent = d.inc[j].agent /\ e.inc[j].state = d.inc[j].state
             /\ e.inc[j].op = d.inc[j].op /\ e.inc[j].mine = d.inc[j].mine
  <2>1. d.inc[j] \in Row
    BY RowTyped
  <2>2. e.inc = [d.inc EXCEPT ![i] = [d.inc[i] EXCEPT !.renaming = n]]
    BY DEF Store
  <2> HIDE DEF e
  <2>3. CASE j = i
    BY <2>1, <2>2, <2>3 DEF Row
  <2>4. CASE j # i
    BY <2>2, <2>4
  <2> QED  BY <2>3, <2>4
<1> QED  BY <1>1, <1>2 DEF Quiet

LEMMA CommitIsQuiet ==
    ASSUME NEW d \in Store, Minted(d), NEW i \in DOMAIN d.inc, NEW n \in Names
    PROVE  Quiet(d, CommitRename(d, i, n))
<1> DEFINE e == CommitRename(d, i, n)
<1>1. Follows(d, e, {}, {})
  BY CommitRenameFollows
<1>0. DOMAIN e.inc = DOMAIN d.inc
  BY DEF CommitRename, Store
<1>2. ASSUME NEW j \in DOMAIN d.inc
      PROVE  /\ e.inc[j].agent = d.inc[j].agent /\ e.inc[j].state = d.inc[j].state
             /\ e.inc[j].op = d.inc[j].op /\ e.inc[j].mine = d.inc[j].mine
  <2>1. d.inc[j] \in Row
    BY RowTyped
  <2>2. e.inc = [d.inc EXCEPT ![i] = [d.inc[i] EXCEPT !.renaming = NoName]]
    BY DEF Store, CommitRename
  <2> HIDE DEF e
  <2>3. CASE j = i
    BY <2>1, <2>2, <2>3 DEF Row
  <2>4. CASE j # i
    BY <2>2, <2>4
  <2> QED  BY <2>3, <2>4
<1> QED  BY <1>0, <1>1, <1>2 DEF Quiet

\* Recovery after a quiet transaction.
LEMMA QuietThenReconcile ==
    ASSUME NEW d \in Store, Minted(d), NEW e, Quiet(d, e), NEW v \in Full
    PROVE  /\ Follows(d, Reconcile(e, v), {}, AbsentIn(e, v))
           /\ Continued(d, Reconcile(e, v)) /\ LeftAlone(d, Reconcile(e, v))
<1> DEFINE f == Reconcile(e, v)
           G == AbsentIn(e, v)
<1>1. Follows(d, e, {}, {}) /\ e \in Store /\ Minted(e)
  BY DEF Quiet, Follows
<1>2. Follows(e, f, {}, G) /\ Continued(e, f) /\ LeftAlone(e, f)
  BY <1>1, ReconcileFollows
<1> HIDE DEF f, G
<1>3. Follows(d, f, {} \cup {}, {} \cup G)
  BY <1>1, <1>2, FollowsTwice
<1>4. {} \cup {} = {} /\ {} \cup G = G
  OBVIOUS
<1>5. Follows(d, f, {}, G)
  BY <1>3, <1>4
<1>6. LeftAlone(d, f)
  BY <1>2 DEF LeftAlone, Quiet
<1>7. Continued(d, f)
  <2>1. ASSUME NEW i \in DOMAIN f.inc \ DOMAIN d.inc
        PROVE  LET own == {j \in DOMAIN d.inc : d.inc[j].agent = f.inc[i].agent}
               IN  /\ \A j \in own : f.inc[j].state \notin {"ready", "starting"}
                   /\ Newest(own) \in own
                   /\ d.inc[Newest(own)].state \notin {"retiring", "retired", "superseded"}
    <3> DEFINE own == {j \in DOMAIN d.inc : d.inc[j].agent = f.inc[i].agent}
               same == {j \in DOMAIN e.inc : e.inc[j].agent = f.inc[i].agent}
    <3>1. own = same
      BY DEF Quiet
    <3>2. i \in DOMAIN f.inc \ DOMAIN e.inc
      BY DEF Quiet
    <3>3. /\ \A j \in same : f.inc[j].state \notin {"ready", "starting"}
          /\ Newest(same) \in same
          /\ e.inc[Newest(same)].state \notin {"retiring", "retired", "superseded"}
      BY <1>2, <3>2 DEF Continued
    <3>4. Newest(own) \in own /\ Newest(own) \in DOMAIN d.inc
      BY <3>1, <3>3
    <3>5. d.inc[Newest(own)].state = e.inc[Newest(same)].state
      BY <3>1, <3>4 DEF Quiet
    <3> QED  BY <3>1, <3>3, <3>4, <3>5
  <2> QED  BY <2>1 DEF Continued
<1> QED  BY <1>5, <1>6, <1>7 DEF f, G

\* What one step of a recovery or a rename does to the store.
Repairs(d, e) ==
    \/ Quiet(d, e)
    \/ \E f : Quiet(d, f) /\ \E v \in Full : e = Reconcile(f, v)

LEMMA RepairsFollow ==
    ASSUME NEW d \in Store, Minted(d), NEW e, Repairs(d, e)
    PROVE  /\ \E G : Follows(d, e, {}, G)
           /\ Continued(d, e) /\ LeftAlone(d, e)
<1>1. CASE Quiet(d, e)
  BY <1>1 DEF Quiet, Continued, LeftAlone
<1>2. CASE \E f : Quiet(d, f) /\ \E v \in Full : e = Reconcile(f, v)
  <2>1. PICK f : Quiet(d, f) /\ \E v \in Full : e = Reconcile(f, v)
    BY <1>2
  <2>2. PICK v \in Full : e = Reconcile(f, v)
    BY <2>1
  <2>3. Follows(d, e, {}, AbsentIn(f, v)) /\ Continued(d, e) /\ LeftAlone(d, e)
    BY <2>1, <2>2, QuietThenReconcile
  <2> QED  BY <2>3
<1> QED  BY <1>1, <1>2 DEF Repairs

\* Names are repaired and the request answered.
LEMMA QuietKeeps ==
    ASSUME IdentitiesInv, NEW c \in All, Answer(c), Keep, Quiet(db, db')
    PROVE  IdentitiesInv' /\ Repairs(db, db')
<1>1. Follows(db, db', {}, {}) /\ DOMAIN db'.inc = DOMAIN db.inc
  BY DEF Quiet
<1>2. Len(db'.inc) <= MaxIncs
  BY <1>1, LengthKept
<1> QED  BY <1>1, <1>2, AnswerKeeps DEF Repairs

\* The records are settled against a snapshot that the request holds, and it is answered:
\* a retirement completes only where the snapshot, however old, is right that nobody is left.
LEMMA ReconciledKeeps ==
    ASSUME IdentitiesInv, NEW c \in All, Answer(c), Keep, NEW f, Quiet(db, f),
           NEW v \in Full, v = req[c].view \/ v = req[c].kept,
           db' = Reconcile(f, v), Len(db'.inc) <= MaxIncs
    PROVE  IdentitiesInv' /\ Repairs(db, db')
<1> DEFINE G == AbsentIn(f, v)
<1>1. db \in Store /\ Minted(db) /\ Knows(db, req[c])
  BY DEF IdentitiesInv, Typed, SeatsAgree
<1>2. Follows(db, db', {}, G)
  BY <1>1, QuietThenReconcile
<1>3. ASSUME NEW i \in G
      PROVE  i \in DOMAIN db.inc /\ db.inc[i].state = "retiring" /\ ~Houses(db.inc[i])
  <2>1. /\ i \in DOMAIN f.inc /\ f.inc[i].state = "retiring" /\ ~f.inc[i].mine
        /\ ~SeatLive(v, f.inc[i])
    BY DEF AbsentIn
  <2>2. i \in DOMAIN db.inc /\ Abandoned(db.inc[i]) /\ Evolves(db.inc[i], f.inc[i])
    BY <2>1 DEF Quiet, Abandoned, Follows
  <2>3. Shows(v, db.inc[i])
    BY <1>1, <2>2 DEF Knows
  <2>4. db.inc[i].pane \in DOMAIN v
    BY <1>1, <2>2, RowTyped DEF Row, Full
  <2>5. ~SeatLive(v, db.inc[i])
    BY <2>1, <2>2 DEF Evolves, SeatLive, Occupied, HasTerminal
  <2> QED  BY <2>2, <2>3, <2>4, <2>5 DEF Shows, Abandoned
<1>4. Departed(G)
  BY <1>3 DEF Departed
<1> HIDE DEF G
<1>5. IdentitiesInv'
  BY <1>2, <1>4, RetiredKeeps
<1>6. Repairs(db, db')
  BY DEF Repairs
<1> QED  BY <1>5, <1>6

\* A new snapshot is asked for.
Fresh(method) == [Idle EXCEPT !.method = method, !.phase = "snapshot"]

LEMMA FreshFits ==
    ASSUME NEW d \in Store, NEW method \in {"recover", "continue"}
    PROVE  Fits(d, Fresh(method)) /\ ~Owner(Fresh(method)) /\ ~Pending(Fresh(method))
<1> DEFINE r == [[Idle EXCEPT !.method = method] EXCEPT !.phase = "snapshot"]
<1>1. method \in Methods /\ "snapshot" \in Phases
  BY DEF Methods, Phases
<1>2. /\ r \in Request /\ r.method = method /\ r.phase = "snapshot"
      /\ r.inc = 0 /\ r.old = 0 /\ r.view = NoView
  BY <1>1, IdleTyped DEF Request
<1>3. Fresh(method) = r
  BY DEF Fresh
<1> HIDE DEF r
<1>4. Len(d.inc) \in Nat
  BY DEF Store
<1>5. Fits(d, r)
  BY <1>2, <1>4 DEF Fits, Owned, Starting, Adopting
<1>6. ~Owner(r) /\ ~Pending(r)
  BY <1>2 DEF Owner, Pending
<1> QED  BY <1>3, <1>5, <1>6

\* A request moves on to a record that owns no incarnation.
LEMMA ParkedKeeps ==
    ASSUME IdentitiesInv, NEW c \in All, NEW r, Park(c, r), Keep,
           Follows(db, db', {}, {}), Len(db'.inc) <= MaxIncs,
           Fits(db', r), Knows(db', r), ~Owner(r)
    PROVE  IdentitiesInv'
<1>1. ~Pending(r)
  BY DEF Owner, Pending
<1>2. req' = [req EXCEPT ![c] = r]
  BY DEF Park
<1>3. launch' = launch /\ Later /\ HerdrTyped' /\ UsedTyped'
  BY KeepIsLater DEF Keep, IdentitiesInv, Typed, UsedTyped
<1> QED  BY <1>1, <1>2, <1>3, NoneDeparts, StepKeeps

LEMMA FreshKeeps ==
    ASSUME IdentitiesInv, NEW c \in All, NEW method \in {"recover", "continue"},
           Park(c, Fresh(method)), Keep, Quiet(db, db')
    PROVE  IdentitiesInv'
<1>1. Follows(db, db', {}, {}) /\ DOMAIN db'.inc = DOMAIN db.inc
  BY DEF Quiet
<1>2. db' \in Store /\ Len(db'.inc) <= MaxIncs
  BY <1>1, LengthKept DEF Follows
<1>3. Fits(db', Fresh(method)) /\ ~Owner(Fresh(method))
  BY <1>2, FreshFits
<1>4. Knows(db', Fresh(method))
  <2>1. /\ Fresh(method).view = NoView /\ Fresh(method).kept = NoView
        /\ Fresh(method).method # "close"
    BY DEF Fresh, Idle
  <2> QED  BY <2>1, KnowsNothing
<1> QED  BY <1>1, <1>2, <1>3, <1>4, ParkedKeeps

\* The answer to a rename, or to the write of a recovery.
LEMMA RenamedKeeps ==
    ASSUME IdentitiesInv, NEW c \in All, NEW d, Quiet(db, d), NEW ok \in BOOLEAN,
           Renamed(c, d, ok), Keep, req[c].method = "rename" \/ req[c].kept \in Full
    PROVE  IdentitiesInv' /\ Repairs(db, db')
<1> DEFINE v == req[c].kept
<1>2. CASE Answer(c) /\ db' = d
  BY <1>2, QuietKeeps
<1>3. CASE Park(c, Fresh("recover")) /\ db' = d
  <2> DEFINE method == "recover"
  <2>1. method \in {"recover", "continue"} /\ Park(c, Fresh(method))
    BY <1>3
  <2> HIDE DEF method
  <2>2. Repairs(db, db')
    BY <1>3 DEF Repairs
  <2> QED  BY <1>3, <2>1, <2>2, FreshKeeps
<1>4. CASE /\ Answer(c) /\ Len(Reconcile(d, v).inc) <= MaxIncs
           /\ db' = Reconcile(d, v) /\ v \in Full
  BY <1>4, ReconciledKeeps
<1> QED  BY <1>2, <1>3, <1>4 DEF Renamed, Fresh

LEMMA OnRenameSnapshotKeeps ==
    ASSUME IdentitiesInv, NEW c \in All,
           OnRenameSnapshot(c) \/ OnRenameOpened(c) \/ OnProjectionOpened(c)
    PROVE  IdentitiesInv' /\ Repairs(db, db')
<1> DEFINE i == req[c].inc
<1>1. /\ db \in Store /\ Minted(db) /\ req[c] \in Request /\ Fits(db, req[c])
      /\ i # 0 => i \in DOMAIN db.inc
  BY RequestFits
<1>2. /\ req[c].method = "rename" \/ (req[c].method = "recover" /\ req[c].phase = "opening")
      /\ Keep
  BY DEF OnRenameSnapshot, OnRenameOpened, OnProjectionOpened, At
<1>3. i # 0 /\ i \in DOMAIN db.inc
  BY <1>1, <1>2 DEF Fits, Owned
<1>4. \/ Answer(c) /\ UNCHANGED db
      \/ /\ Goto(c, "opening") \/ Goto(c, "sending")
         /\ \/ UNCHANGED db
            \/ req[c].method = "rename" /\ db' = DeclareRename(db, i, req[c].name)
  BY DEF OnRenameSnapshot, OnRenameOpened, OnProjectionOpened, CommitRenameIntent, At
<1>5. CASE Answer(c) /\ UNCHANGED db
  <2>1. Repairs(db, db')
    BY <1>1, <1>5, SameIsQuiet DEF Repairs
  <2> QED  BY <1>2, <1>5, <2>1, AnswerAlone
<1>6. CASE /\ Goto(c, "opening") \/ Goto(c, "sending")
           /\ \/ UNCHANGED db
              \/ req[c].method = "rename" /\ db' = DeclareRename(db, i, req[c].name)
  <2>1. Quiet(db, db')
    <3>1. CASE UNCHANGED db
      BY <1>1, <3>1, SameIsQuiet
    <3>2. CASE req[c].method = "rename" /\ db' = DeclareRename(db, i, req[c].name)
      <4> DEFINE n == req[c].name
      <4>1. n \in Names \cup {NoName}
        BY <1>1 DEF Request
      <4> HIDE DEF n, i
      <4>2. db' = [db EXCEPT !.inc[i].renaming = n]
        BY <3>2 DEF DeclareRename, n
      <4> QED  BY <1>1, <1>3, <4>1, <4>2, RenamingIsQuiet
    <3> QED  BY <1>6, <3>1, <3>2
  <2>2. Follows(db, db', {}, {}) /\ DOMAIN db'.inc = DOMAIN db.inc
    BY <2>1 DEF Quiet
  <2>3. Len(db'.inc) <= MaxIncs
    BY <2>2, LengthKept
  <2>4. Repairs(db, db')
    BY <2>1 DEF Repairs
  <2>5. PICK phase \in {"opening", "sending"} : Goto(c, phase)
    BY <1>6
  <2>6. phase \in Owned \cup {"snapshot"} /\ phase # "snapshot" /\ req[c].method \notin Starting
    BY <1>2 DEF Owned, Starting
  <2>7. req[c].method = "recover" => req[c].phase \in {"opening", "sending", "confirm"}
    BY <1>2
  <2>8. req[c].inc # 0
    BY <1>3
  <2> HIDE DEF i
  <2>9. IdentitiesInv'
    BY <1>2, <2>2, <2>3, <2>5, <2>6, <2>7, <2>8, GotoKeeps
  <2> QED  BY <2>4, <2>9
<1> QED  BY <1>4, <1>5, <1>6

LEMMA AbandonIsQuiet ==
    ASSUME NEW d \in Store, Minted(d), NEW i \in DOMAIN d.inc
    PROVE  Quiet(d, AbandonRename(d, i))
<1> DEFINE n == NoName
<1>1. n \in Names \cup {NoName} /\ AbandonRename(d, i) = [d EXCEPT !.inc[i].renaming = n]
  BY DEF AbandonRename
<1> HIDE DEF n
<1> QED  BY <1>1, RenamingIsQuiet

\* A rename, or the write of a recovery, that has an incarnation and, for a recovery, the
\* snapshot that it settles afterwards.
LEMMA RenameUnderWay ==
    ASSUME IdentitiesInv, NEW c \in All,
           \/ req[c].method = "rename"
           \/ req[c].method = "recover" /\ req[c].phase \in {"opening", "sending", "confirm"}
    PROVE  /\ db \in Store /\ Minted(db) /\ req[c].inc # 0 /\ req[c].inc \in DOMAIN db.inc
           /\ req[c].method = "rename" \/ req[c].kept \in Full
           /\ req[c].name \in Names /\ req[c].method \notin Starting
<1>1. /\ db \in Store /\ Minted(db) /\ Fits(db, req[c])
      /\ req[c].inc # 0 => req[c].inc \in DOMAIN db.inc
  BY RequestFits
<1>2. req[c].inc # 0
  BY <1>1 DEF Fits, Owned
<1>3. (req[c].method = "rename" \/ req[c].kept \in Full) /\ req[c].name \in Names
  BY <1>1 DEF Fits
<1>4. req[c].method \notin Starting
  BY DEF Starting
<1> QED  BY <1>1, <1>2, <1>3, <1>4

LEMMA OnRenameSentKeeps ==
    ASSUME IdentitiesInv, NEW c \in All, OnRenameSent(c)
    PROVE  IdentitiesInv' /\ Repairs(db, db')
<1> DEFINE i == req[c].inc
           d == ApplyRenameWriteError(req[c])
<1>1. /\ req[c].phase = "sending" /\ req[c].method \in {"rename", "recover"} /\ Keep
      /\ \/ Goto(c, "confirm") /\ UNCHANGED db
         \/ Renamed(c, d, FALSE)
  BY DEF OnRenameSent, At
<1>2. /\ db \in Store /\ Minted(db) /\ i # 0 /\ i \in DOMAIN db.inc
      /\ req[c].method = "rename" \/ req[c].kept \in Full
      /\ req[c].method \notin Starting
  BY <1>1, RenameUnderWay
<1>3. CASE Goto(c, "confirm") /\ UNCHANGED db
  <2> DEFINE phase == "confirm"
  <2>1. phase \in Owned \cup {"snapshot"} /\ phase # "snapshot" /\ Goto(c, phase)
    BY <1>3 DEF Owned
  <2>2. Follows(db, db', {}, {}) /\ Len(db'.inc) <= MaxIncs
    BY <1>3, NothingFollows DEF IdentitiesInv, Typed
  <2>3. Repairs(db, db')
    BY <1>2, <1>3, SameIsQuiet DEF Repairs
  <2>4. req[c].inc # 0
    BY <1>2
  <2> HIDE DEF phase, i, d
  <2>5. IdentitiesInv'
    BY <1>1, <1>2, <2>1, <2>2, <2>4, GotoKeeps
  <2> QED  BY <2>3, <2>5
<1>4. CASE Renamed(c, d, FALSE)
  <2>1. Quiet(db, d)
    BY <1>2, AbandonIsQuiet, SameIsQuiet DEF ApplyRenameWriteError
  <2> DEFINE ok == FALSE
  <2>2. ok \in BOOLEAN /\ Renamed(c, d, ok)
    BY <1>4
  <2> HIDE DEF d, ok
  <2> QED  BY <1>1, <1>2, <2>1, <2>2, RenamedKeeps
<1> QED  BY <1>1, <1>3, <1>4

LEMMA OnRenameConfirmKeeps ==
    ASSUME IdentitiesInv, NEW c \in All, OnRenameConfirm(c)
    PROVE  IdentitiesInv' /\ Repairs(db, db')
<1> DEFINE i == req[c].inc
           v == req[c].view
           d == CommitRename(db, i, req[c].name)
<1>1. /\ req[c].phase = "confirm" /\ req[c].method \in {"rename", "recover"} /\ Keep
      /\ v # NoView
      /\ \/ Renamed(c, d, TRUE)
         \/ Answer(c) /\ UNCHANGED db
         \/ /\ Answer(c) /\ Len(Reconcile(db, v).inc) <= MaxIncs
            /\ db' = Reconcile(db, v)
  BY DEF OnRenameConfirm, At, Seen
<1>2. /\ db \in Store /\ Minted(db) /\ i # 0 /\ i \in DOMAIN db.inc
      /\ req[c].method = "rename" \/ req[c].kept \in Full
      /\ req[c].name \in Names
  BY <1>1, RenameUnderWay
<1>3. v \in Full
  BY <1>1, RequestFits DEF Fits
<1>4. CASE Renamed(c, d, TRUE)
  <2>1. Quiet(db, d)
    BY <1>2, CommitIsQuiet
  <2> DEFINE ok == TRUE
  <2>2. ok \in BOOLEAN /\ Renamed(c, d, ok)
    BY <1>4
  <2> HIDE DEF d, ok
  <2> QED  BY <1>1, <1>2, <2>1, <2>2, RenamedKeeps
<1>5. CASE Answer(c) /\ UNCHANGED db
  <2>1. Repairs(db, db')
    BY <1>2, <1>5, SameIsQuiet DEF Repairs
  <2> QED  BY <1>1, <1>5, <2>1, AnswerAlone
<1>6. CASE /\ Answer(c) /\ Len(Reconcile(db, v).inc) <= MaxIncs
           /\ db' = Reconcile(db, v)
  <2>1. Quiet(db, db)
    BY <1>2, SameIsQuiet
  <2> QED  BY <1>1, <1>3, <1>6, <2>1, ReconciledKeeps
<1> QED  BY <1>1, <1>4, <1>5, <1>6

LEMMA OnRenameFailedKeeps ==
    ASSUME IdentitiesInv, NEW c \in All, OnRenameFailed(c)
    PROVE  IdentitiesInv' /\ Repairs(db, db')
<1> DEFINE i == req[c].inc
           d == IF req[c].result = "unsent" THEN AbandonRenameBeforeWrite(req[c])
                ELSE ApplyRenameWriteError(req[c])
           ok == FALSE
<1>1. /\ \/ req[c].method = "rename"
         \/ req[c].method = "recover" /\ req[c].phase \in {"opening", "sending", "confirm"}
      /\ Renamed(c, d, ok) /\ Keep /\ ok \in BOOLEAN
  BY DEF OnRenameFailed
<1>2. /\ db \in Store /\ Minted(db) /\ i # 0 /\ i \in DOMAIN db.inc
      /\ req[c].method = "rename" \/ req[c].kept \in Full
  BY <1>1, RenameUnderWay
<1>3. Quiet(db, d)
  BY <1>2, AbandonIsQuiet, SameIsQuiet DEF ApplyRenameWriteError, AbandonRenameBeforeWrite
<1> HIDE DEF d, ok
<1> QED  BY <1>1, <1>2, <1>3, RenamedKeeps

LEMMA OnRenameKeeps ==
    ASSUME IdentitiesInv, NEW c \in All, OnRename(c)
    PROVE  IdentitiesInv' /\ Repairs(db, db')
BY OnRenameSnapshotKeeps, OnRenameSentKeeps, OnRenameConfirmKeeps, OnRenameFailedKeeps
   DEF OnRename

\* The record of a recovery that writes a lost name again.
Projecting(q, i, v, n) ==
    [Target(q, i) EXCEPT !.phase = "opening", !.view = NoView, !.kept = v, !.name = n]

LEMMA ProjectionFits ==
    ASSUME IdentitiesInv, NEW q \in Request, q.method = "recover", NEW i \in DOMAIN db.inc,
           NEW v \in Full, NEW n \in Names, NEW d \in Store, Len(d.inc) = Len(db.inc),
           q.old <= Len(db.inc)
    PROVE  /\ Fits(d, Projecting(q, i, v, n)) /\ ~Owner(Projecting(q, i, v, n))
           /\ Projecting(q, i, v, n).method = "recover"
           /\ Projecting(q, i, v, n).view = NoView /\ Projecting(q, i, v, n).kept = v
<1> DEFINE r == Projecting(q, i, v, n)
           b == Target(q, i)
           r1 == [[b EXCEPT !.phase = "opening"] EXCEPT !.view = NoView]
<1>1. b \in Request /\ b.inc = i /\ b.method = "recover" /\ b.old = q.old
  BY TargetTyped
<1>2. r = [[r1 EXCEPT !.kept = v] EXCEPT !.name = n]
  BY DEF Projecting
<1> HIDE DEF b, r
<1>3. /\ r1 \in Request /\ r1.inc = i /\ r1.method = "recover" /\ r1.old = q.old
      /\ r1.phase = "opening" /\ r1.view = NoView
  BY <1>1 DEF Request, Phases, Views
<1> HIDE DEF r1
<1>4. /\ r \in Request /\ r.inc = i /\ r.method = "recover" /\ r.old = q.old
      /\ r.phase = "opening" /\ r.view = NoView /\ r.kept = v /\ r.name = n
  BY <1>2, <1>3 DEF Request
<1>5. i \in Nat /\ i # 0 /\ i <= Len(d.inc)
  BY DEF IdentitiesInv, Typed, Store
<1>6. Fits(d, r) /\ ~Owner(r)
  BY <1>4, <1>5 DEF Fits, Owned, Owner, Starting, Adopting
<1> QED  BY <1>4, <1>6 DEF r

LEMMA OnRecoverSnapshotKeeps ==
    ASSUME IdentitiesInv, NEW c \in All, OnRecoverSnapshot(c)
    PROVE  IdentitiesInv' /\ Repairs(db, db')
<1> DEFINE v == req[c].view
           todo == Unprojected(db, v)
           i == CHOOSE j \in todo : \A k \in todo : j <= k
           n == NameOf(db, i)
           r == [Target(req[c], i) EXCEPT !.phase = "opening", !.view = NoView,
                                          !.kept = v, !.name = n]
<1>1. /\ db \in Store /\ Minted(db) /\ req[c] \in Request /\ Fits(db, req[c])
  BY RequestFits
<1>2. /\ req[c].method = "recover" /\ Keep /\ v \in Full /\ req[c].old <= Len(db.inc)
  BY <1>1 DEF OnRecoverSnapshot, At, Seen, Fits
<1>3. \/ /\ Answer(c) /\ Len(Reconcile(db, v).inc) <= MaxIncs
         /\ db' = Reconcile(db, v)
      \/ Answer(c) /\ UNCHANGED db
      \/ /\ todo # {} /\ (db' = db \/ db' = DeclareRename(db, i, n))
         /\ Park(c, r)
  BY DEF OnRecoverSnapshot
<1>4. CASE Answer(c) /\ Len(Reconcile(db, v).inc) <= MaxIncs /\ db' = Reconcile(db, v)
  <2>1. Quiet(db, db)
    BY <1>1, SameIsQuiet
  <2> QED  BY <1>2, <1>4, <2>1, ReconciledKeeps
<1>5. CASE Answer(c) /\ UNCHANGED db
  <2>1. Repairs(db, db')
    BY <1>1, <1>5, SameIsQuiet DEF Repairs
  <2> QED  BY <1>2, <1>5, <2>1, AnswerAlone
<1>6. CASE todo # {} /\ (db' = db \/ db' = DeclareRename(db, i, n)) /\ Park(c, r)
  <2>1. todo \in SUBSET Nat /\ todo \subseteq DOMAIN db.inc
    BY <1>1 DEF Unprojected, In, Store
  <2>2. i \in todo
    <3>1. \E j \in todo : \A k \in todo : j <= k
      BY <1>6, <2>1, LeastExists
    <3> HIDE DEF todo
    <3> QED  BY <3>1
  <2>3. i \in DOMAIN db.inc
    BY <2>1, <2>2
  <2> HIDE DEF i
  <2>4. n \in Names
    BY <1>1, <2>3 DEF Minted, NameOf
  <2>5. Quiet(db, db')
    <3> HIDE DEF n
    <3>1. DeclareRename(db, i, n) = [db EXCEPT !.inc[i].renaming = n]
      BY DEF DeclareRename
    <3> QED  BY <1>1, <1>6, <2>3, <2>4, <3>1, RenamingIsQuiet, SameIsQuiet
  <2>6. Follows(db, db', {}, {}) /\ DOMAIN db'.inc = DOMAIN db.inc
    BY <2>5 DEF Quiet
  <2>7. db' \in Store /\ Len(db'.inc) <= MaxIncs
    BY <2>6, LengthKept DEF Follows
  <2>8. Len(db'.inc) = Len(db.inc)
    BY <1>1, <2>6, <2>7 DEF Store
  <2> HIDE DEF n, todo
  <2>12. r = Projecting(req[c], i, v, n) /\ v = req[c].view
    BY DEF Projecting
  <2> HIDE DEF r, v
  <2>9. /\ Fits(db', r) /\ ~Owner(r)
        /\ r.method = "recover" /\ r.view = NoView /\ r.kept = v
    BY <1>1, <1>2, <2>3, <2>4, <2>7, <2>8, <2>12, ProjectionFits
  <2>13. Knows(db', r)
    <3>1. Knows(db', req[c])
      BY <1>1, <2>6, StillKnows DEF IdentitiesInv, SeatsAgree
    <3> QED  BY <2>9, <2>12, <3>1, EmptyShows DEF Knows
  <2>10. IdentitiesInv'
    BY <1>2, <1>6, <2>6, <2>7, <2>9, <2>13, ParkedKeeps
  <2>11. Repairs(db, db')
    BY <2>5 DEF Repairs
  <2> QED  BY <2>10, <2>11
<1> QED  BY <1>3, <1>4, <1>5, <1>6

LEMMA OnRecoverKeeps ==
    ASSUME IdentitiesInv, NEW c \in All, OnRecover(c)
    PROVE  IdentitiesInv'
<1>1. CASE OnRecoverSnapshot(c)
  BY <1>1, OnRecoverSnapshotKeeps
<1>2. CASE OnRecoverFailed(c)
  <2>1. Answer(c) /\ UNCHANGED db /\ Keep
    BY <1>2 DEF OnRecoverFailed
  <2> QED  BY <2>1, AnswerAlone
<1> QED  BY <1>1, <1>2 DEF OnRecover

LEMMA BootContinueKeeps ==
    ASSUME IdentitiesInv, BootContinue
    PROVE  IdentitiesInv' /\ Repairs(db, db')
<1> DEFINE v == req[Boot].view
<1>1. Boot \in All /\ Keep
  BY DEF All, BootContinue
<1>2. db \in Store /\ Minted(db) /\ Fits(db, req[Boot])
  BY <1>1, RequestFits
<1>3. CASE Park(Boot, Fresh("continue")) /\ UNCHANGED db
  <2> DEFINE method == "continue"
  <2>1. Park(Boot, Fresh(method)) /\ method \in {"recover", "continue"}
    BY <1>3
  <2>2. Quiet(db, db')
    BY <1>2, <1>3, SameIsQuiet
  <2>3. Repairs(db, db')
    BY <2>2 DEF Repairs
  <2> HIDE DEF method
  <2> QED  BY <1>1, <2>1, <2>2, <2>3, FreshKeeps
<1>4. CASE /\ At(Boot, {"continue"}, "snapshot") /\ Seen(Boot) /\ Answer(Boot)
           /\ Len(Reconcile(db, v).inc) <= MaxIncs /\ db' = Reconcile(db, v)
  <2>1. v \in Full
    BY <1>2, <1>4 DEF At, Seen, Fits
  <2>2. Quiet(db, db)
    BY <1>2, SameIsQuiet
  <2> QED  BY <1>1, <1>4, <2>1, <2>2, ReconciledKeeps
<1> QED  BY <1>3, <1>4 DEF BootContinue, Fresh

(***************************************************************************)
(* A retirement that closes its pane, and the archive.                      *)
(***************************************************************************)
\* A retirement goes on without a change to the store, or is answered with its completion.
LEMMA OnRetireKeeps ==
    ASSUME IdentitiesInv, NEW c \in All, OnRetire(c)
    PROVE  IdentitiesInv'
<1> DEFINE i == req[c].inc
           v == req[c].view
<1>1. /\ db \in Store /\ Minted(db) /\ Fits(db, req[c])
      /\ i # 0 => i \in DOMAIN db.inc
  BY RequestFits
<1>2. req[c].method = "close" /\ Keep
  BY DEF OnRetire, OnRetireSnapshot, OnRetireOpened, OnRetireClosed, OnRetireConfirm,
         OnRetireFailed, At
<1>3. i # 0 /\ i \in DOMAIN db.inc /\ req[c].method \notin Starting
  BY <1>1, <1>2 DEF Fits, Starting
<1>4. \/ \E phase \in {"opening", "sending", "confirm"} : Goto(c, phase) /\ UNCHANGED db
      \/ Answer(c) /\ UNCHANGED db
      \/ /\ req[c].phase \in {"snapshot", "confirm"} /\ v # NoView
         /\ Answer(c) /\ db' = CompleteRetirementIfAbsent(db, i, v)
  BY DEF OnRetire, OnRetireSnapshot, OnRetireOpened, OnRetireClosed, OnRetireConfirm,
         OnRetireFailed, At, Seen
<1>5. ASSUME NEW phase \in {"opening", "sending", "confirm"}, Goto(c, phase), UNCHANGED db
      PROVE  IdentitiesInv'
  <2>1. Follows(db, db', {}, {}) /\ Len(db'.inc) <= MaxIncs
    BY <1>5, NothingFollows DEF IdentitiesInv, Typed
  <2>2. phase \in Owned \cup {"snapshot"}
    BY DEF Owned
  <2> QED  BY <1>2, <1>3, <1>5, <2>1, <2>2, GotoKeeps
<1>6. CASE Answer(c) /\ UNCHANGED db
  BY <1>2, <1>6, AnswerAlone
<1>7. CASE /\ req[c].phase \in {"snapshot", "confirm"} /\ v # NoView
           /\ Answer(c) /\ db' = CompleteRetirementIfAbsent(db, i, v)
  <2>4. v \in Full /\ Shows(v, db.inc[i])
    <3>1. Knows(db, req[c])
      BY DEF IdentitiesInv, SeatsAgree
    <3> QED  BY <1>1, <1>2, <1>7, <3>1 DEF Fits, Knows
  <2>5. db.inc[i].pane \in DOMAIN v
    BY <1>1, <1>3, <2>4, RowTyped DEF Row, Full
  <2> HIDE DEF i, v
  <2> DEFINE G == {j \in {i} : db.inc[i].state = "retiring" /\ ~SeatLive(v, db.inc[i])}
  <2>1. Follows(db, db', {}, G)
    BY <1>1, <1>3, <1>7, CompleteRetirementFollows
  <2>6. Departed(G)
    BY <1>3, <2>4, <2>5 DEF Departed, Shows
  <2> HIDE DEF G
  <2>2. DOMAIN db'.inc = DOMAIN db.inc
    BY <1>1, <1>3, <1>7 DEF CompleteRetirementIfAbsent, Store
  <2>3. Len(db'.inc) <= MaxIncs
    BY <2>1, <2>2, LengthKept
  <2> QED  BY <1>2, <1>7, <2>1, <2>3, <2>6, RetiredKeeps
<1> QED  BY <1>4, <1>5, <1>6, <1>7

\* A step that changes no request and refuses nothing.
LEMMA NobodyMoves ==
    ASSUME IdentitiesInv, req' = req, launch' = launch, Later, HerdrTyped', UsedTyped',
           Follows(db, db', {}, {}), Len(db'.inc) <= MaxIncs
    PROVE  IdentitiesInv'
<1>1. Boot \in All
  BY DEF All
<1> DEFINE r == req[Boot]
<1>2. req' = [req EXCEPT ![Boot] = r]
  BY DEF IdentitiesInv, Typed
<1>3. db \in Store /\ Fits(db, r) /\ Knows(db, r)
  BY <1>1, RequestFits DEF IdentitiesInv, SeatsAgree
<1>4. Fits(db', r) /\ Knows(db', r)
  BY <1>3, StillFits, StillKnows
<1>5. Owner(r) => Owner(req[Boot]) /\ r.inc = req[Boot].inc
  OBVIOUS
<1>6. Pending(r) => Pending(req[Boot]) /\ r.inc = req[Boot].inc
  OBVIOUS
<1> HIDE DEF r
<1> QED  BY <1>1, <1>2, <1>4, <1>5, <1>6, NoneDeparts, StepKeeps

LEMMA ArchiveKeeps ==
    ASSUME IdentitiesInv, ArchiveDeadIdentities
    PROVE  IdentitiesInv'
<1> DEFINE x == db.archived \cup Archivable(db)
           e == [name |-> db.name, archived |-> x, inc |-> db.inc]
           m == db.name
<1>1. db \in Store /\ Minted(db) /\ Len(db.inc) <= MaxIncs
  BY DEF IdentitiesInv, Typed
<1>2. x \in SUBSET Agents /\ m \in [Agents -> Names \cup {NoName}]
  BY <1>1 DEF Archivable, Store
<1>3. db' = e
  <2>1. db' = [db EXCEPT !.archived = x]
    BY DEF ArchiveDeadIdentities
  <2> HIDE DEF x
  <2> QED  BY <1>1, <2>1 DEF Store
<1> HIDE DEF x
<1>4. db' = [name |-> m, archived |-> x, inc |-> db.inc]
  BY <1>3
<1>5. \A a \in Agents : m[a] = db.name[a] \/ m[a] \in Names
  OBVIOUS
<1>6. Len(db'.inc) <= MaxIncs
  BY <1>1, <1>4
<1> HIDE DEF m, e
<1>7. Follows(db, db', {}, {})
  BY <1>1, <1>2, <1>4, <1>5, RenameFollows
<1>8. req' = req /\ launch' = launch /\ Later /\ HerdrTyped' /\ UsedTyped'
  BY KeepIsLater DEF ArchiveDeadIdentities, Keep, IdentitiesInv, Typed, UsedTyped
<1> QED  BY <1>6, <1>7, <1>8, NobodyMoves

(***************************************************************************)
(* Herdr, people and faults.                                                *)
(***************************************************************************)
\* The outside moves, and a request records at most what it sees.
LEMMA SeenKeeps ==
    ASSUME IdentitiesInv, NEW c \in All, NEW w \in Views, NEW x \in Results,
           req' = [req EXCEPT ![c] = [[req[c] EXCEPT !.view = w] EXCEPT !.result = x]],
           req[c].phase \in {"snapshot", "confirm"} => w \in {NoView} \cup Full,
           req[c].phase = "polling" => w \in {NoView} \cup Partial(req[c].pane),
           req[c].phase = "sending" /\ req[c].method \in Starting => x # "ok",
           req[c].phase = "prompting" /\ x = "ok" => w \in Full,
           req[c].phase = "sending" /\ x \in {"none", "busy", "rejected"}
              => req[c].result = "none",
           w = req[c].view \/ \A s : Shows(w, s),
           UNCHANGED <<db, launch>>, Later, HerdrTyped', UsedTyped'
    PROVE  IdentitiesInv'
<1> DEFINE q == req[c]
           r1 == [q EXCEPT !.view = w]
           r == [r1 EXCEPT !.result = x]
<1>1. q \in Request /\ Fits(db, q) /\ db \in Store /\ Minted(db)
  BY RequestFits
<1>2. r1 \in Request
  BY <1>1 DEF Request
<1>3. r \in Request
  <2> HIDE DEF r1
  <2> QED  BY <1>2 DEF Request
<1>4. /\ r.method = q.method /\ r.phase = q.phase /\ r.inc = q.inc /\ r.old = q.old
      /\ r.name = q.name /\ r.pane = q.pane /\ r.kept = q.kept
      /\ r.view = w /\ r.result = x
  BY <1>1 DEF Request
<1>5. req' = [req EXCEPT ![c] = r]
  OBVIOUS
<1> HIDE DEF r
<1>6. Fits(db', r)
  BY <1>1, <1>3, <1>4 DEF Fits
<1>7. Owner(r) => Owner(q) /\ r.inc = q.inc
  BY <1>4 DEF Owner
<1>8. Pending(r) => Pending(q) /\ r.inc = q.inc
  BY <1>4 DEF Pending
<1>9. Follows(db, db', {}, {}) /\ Len(db'.inc) <= MaxIncs
  BY <1>1, NothingFollows DEF IdentitiesInv, Typed
<1>10. Knows(db', r)
  <2>1. Knows(db, q)
    BY DEF IdentitiesInv, SeatsAgree
  <2> HIDE DEF q
  <2>2. \A s : Shows(q.view, s) => Shows(r.view, s)
    BY <1>4 DEF q
  <2> QED  BY <1>4, <2>1, <2>2 DEF Knows
<1> QED  BY <1>5, <1>6, <1>7, <1>8, <1>9, <1>10, NoneDeparts, StepKeeps

\* Herdr answers a write, other than with a runtime.
LEMMA SaysKeeps ==
    ASSUME IdentitiesInv, NEW c \in All, NEW x \in Results, Says(c, x),
           req[c].result = "none", req[c].phase \in {"sending", "prompting"},
           x = "ok" => req[c].phase = "sending" /\ req[c].method \notin Starting,
           UNCHANGED <<db, launch>>, Later, HerdrTyped', UsedTyped'
    PROVE  IdentitiesInv'
<1> DEFINE q == req[c]
           w == q.view
<1>1. q \in Request /\ w \in Views
  BY RequestFits DEF Request
<1>2. req \in [All -> Request]
  BY DEF IdentitiesInv, Typed
<1>3. [q EXCEPT !.view = w] = q
  BY <1>1 DEF Request
<1>4. req' = [req EXCEPT ![c] = [[q EXCEPT !.view = w] EXCEPT !.result = x]]
  BY <1>2, <1>3 DEF Says
<1>5. w = q.view
  OBVIOUS
<1> HIDE DEF w
<1> QED  BY <1>1, <1>4, <1>5, SeenKeeps

LEMMA HerdrObservesKeeps ==
    ASSUME IdentitiesInv, NEW c \in All, HerdrObserves(c)
    PROVE  IdentitiesInv'
<1> DEFINE q == req[c]
           w == IF q.phase = "polling" THEN [p \in {q.pane} |-> herdr[p]] ELSE herdr
           x == q.result
<1>1. q \in Request /\ x \in Results /\ q.phase \in {"snapshot", "confirm", "polling"}
  BY RequestFits DEF Request, HerdrObserves
<1>2. herdr \in Full /\ herdr' = herdr /\ UNCHANGED <<db, launch>> /\ UsedTyped'
  BY DEF HerdrObserves, IdentitiesInv, Typed, HerdrTyped, UsedTyped
<1>7. Later /\ HerdrTyped'
  BY <1>2, KeepIsLater
<1>8. \A s : Shows(w, s)
  BY HerdrShows
<1>3. /\ q.phase \in {"snapshot", "confirm"} => w \in Full
      /\ q.phase = "polling" => w \in Partial(q.pane)
      /\ q.pane \in Panes
  BY <1>1, <1>2 DEF Request, Full, Partial
<1>4. w \in Views
  <2> HIDE DEF w
  <2> QED  BY <1>1, <1>3 DEF Views
<1>5. req' = [req EXCEPT ![c] = [[q EXCEPT !.view = w] EXCEPT !.result = x]]
  <2>1. req \in [All -> Request]
    BY DEF IdentitiesInv, Typed
  <2>2. req' = [req EXCEPT ![c].view = w]
    BY DEF HerdrObserves
  <2> HIDE DEF w
  <2>3. [q EXCEPT !.view = w].result = x
    BY <1>1 DEF Request
  <2>4. [[q EXCEPT !.view = w] EXCEPT !.result = x] = [q EXCEPT !.view = w]
    BY <1>1 DEF Request
  <2> QED  BY <2>1, <2>2, <2>4
<1>6. q.phase # "sending" /\ q.phase # "prompting"
  BY <1>1
<1> HIDE DEF w, x
<1> QED  BY <1>1, <1>2, <1>3, <1>4, <1>5, <1>6, <1>7, <1>8, SeenKeeps

LEMMA HerdrPromptsKeeps ==
    ASSUME IdentitiesInv, NEW c \in All, HerdrPrompts(c)
    PROVE  IdentitiesInv'
<1>1. /\ req[c].phase = "prompting" /\ req[c].result = "none"
      /\ herdr \in Full /\ herdr' = herdr /\ UNCHANGED <<db, launch>> /\ UsedTyped'
  BY DEF HerdrPrompts, At, IdentitiesInv, Typed, HerdrTyped, UsedTyped
<1>4. Later /\ HerdrTyped'
  BY <1>1, KeepIsLater
<1>2. CASE Says(c, "rejected")
  <2> DEFINE x == "rejected"
  <2>1. x \in Results /\ x # "ok" /\ Says(c, x)
    BY <1>2 DEF Results
  <2> HIDE DEF x
  <2> QED  BY <1>1, <1>4, <2>1, SaysKeeps
<1>3. CASE req' = [req EXCEPT ![c].result = "ok", ![c].view = herdr]
  <2> DEFINE x == "ok"
             w == herdr
  <2>1. x \in Results /\ w \in Full /\ w \in Views
    BY <1>1 DEF Results, Views
  <2>2. req' = [req EXCEPT ![c] = [[req[c] EXCEPT !.view = w] EXCEPT !.result = x]]
    <3>1. req \in [All -> Request]
      BY DEF IdentitiesInv, Typed
    <3>2. req' = [req EXCEPT ![c] = [[req[c] EXCEPT !.result = x] EXCEPT !.view = w]]
      BY <1>3, <3>1
    <3>3. [[req[c] EXCEPT !.result = x] EXCEPT !.view = w]
             = [[req[c] EXCEPT !.view = w] EXCEPT !.result = x]
      OBVIOUS
    <3> QED  BY <3>2, <3>3
  <2>3. \A s : Shows(w, s)
    BY HerdrShows
  <2> HIDE DEF x, w
  <2> QED  BY <1>1, <1>4, <2>1, <2>2, <2>3, SeenKeeps
<1> QED  BY <1>2, <1>3 DEF HerdrPrompts

\* A seat is emptied, or named, or its runtime becomes ready: nobody new sits in it.
LEMMA SeatIsLater ==
    ASSUME IdentitiesInv, NEW p \in Panes, NEW n \in Names \cup {NoName}, UNCHANGED launch,
           NEW s \in {Closed(herdr[p]), Empty(herdr[p]), [herdr[p] EXCEPT !.name = n],
                      [herdr[p] EXCEPT !.stage = "ready"]},
           herdr' = [herdr EXCEPT ![p] = s]
    PROVE  Later /\ HerdrTyped'
<1> DEFINE o == herdr[p]
<1>1. o \in Seat /\ 0 \in Runs /\ Runs' = Runs
  BY DEF IdentitiesInv, Typed, HerdrTyped, Full, Runs
<1>2. s \in Seat /\ s.term = o.term /\ (s.open => o.open) /\ (s.run = 0 \/ s.run = o.run)
  <2>1. CASE s = Closed(o)
    BY <1>1, <2>1 DEF Closed, Seat
  <2>2. CASE s = Empty(o)
    BY <1>1, <2>2 DEF Empty, Seat
  <2>3. CASE s = [o EXCEPT !.name = n]
    BY <1>1, <2>3 DEF Seat
  <2>4. CASE s = [o EXCEPT !.stage = "ready"]
    BY <1>1, <2>4 DEF Seat
  <2> QED  BY <2>1, <2>2, <2>3, <2>4
<1> HIDE DEF o
<1>3. s.open /\ s.run \in Runs \ {0} => herdr[p].open /\ herdr[p].run = s.run
  BY <1>2 DEF o
<1>4. s \in [open : BOOLEAN, term : Terms, run : Runs', name : Names \cup {NoName},
             stage : {"launching", "ready", "manual"}]
  BY <1>1, <1>2 DEF Seat
<1>5. s.term = herdr[p].term /\ Runs \subseteq Runs'
  BY <1>1, <1>2 DEF o
<1> QED  BY <1>3, <1>4, <1>5, PaneIsLater

LEMMA HerdrRenamesKeeps ==
    ASSUME IdentitiesInv, NEW c \in All, HerdrRenames(c) \/ HerdrCloses(c)
    PROVE  IdentitiesInv'
<1> DEFINE p == req[c].pane
           o == herdr[p]
           n == req[c].name
<1>1. /\ req[c].phase = "sending" /\ req[c].result = "none"
      /\ req[c].method \in Adopting \cup {"rename", "recover", "close"}
      /\ UNCHANGED <<db, launch, used>>
      /\ \/ Says(c, "ok") /\ herdr' = [herdr EXCEPT ![p].name = n]
         \/ Says(c, "ok") /\ herdr' = [herdr EXCEPT ![p] = Closed(@)]
         \/ Says(c, "rejected") /\ UNCHANGED herdr
  BY DEF HerdrRenames, HerdrCloses, Write, At, Adopting
<1>2. /\ herdr \in Full /\ p \in Panes /\ o \in Seat /\ n \in Names \cup {NoName} /\ UsedTyped'
  BY <1>1, RequestFits DEF IdentitiesInv, Typed, HerdrTyped, UsedTyped, Full, Request
<1>3. req[c].method \notin Starting
  BY <1>1 DEF Starting, Adopting
<1> DEFINE s == [o EXCEPT !.name = n]
<1>4. ASSUME herdr' = [herdr EXCEPT ![p] = s] \/ herdr' = [herdr EXCEPT ![p] = Closed(o)]
      PROVE  Later /\ HerdrTyped'
  <2>1. PICK x \in {s, Closed(o)} : herdr' = [herdr EXCEPT ![p] = x]
    BY <1>4
  <2>2. x \in {Closed(o), Empty(o), s, [o EXCEPT !.stage = "ready"]}
    OBVIOUS
  <2>3. UNCHANGED launch
    BY <1>1
  <2> HIDE DEF n
  <2> QED  BY <1>2, <2>1, <2>2, <2>3, SeatIsLater
<1>5. ASSUME UNCHANGED herdr PROVE Later /\ HerdrTyped'
  BY <1>1, <1>5, KeepIsLater
<1>6. Later /\ HerdrTyped'
  BY <1>1, <1>4, <1>5
<1>7. PICK x \in {"ok", "rejected"} : Says(c, x)
  BY <1>1
<1>8. x \in Results
  BY DEF Results
<1> QED  BY <1>1, <1>2, <1>3, <1>6, <1>7, <1>8, SaysKeeps

LEMMA JobFailsKeeps ==
    ASSUME IdentitiesInv, NEW c \in All, JobFails(c)
    PROVE  IdentitiesInv'
<1> DEFINE q == req[c]
           x == IF q.phase = "sending" /\ q.result = "none" THEN "unsent" ELSE "lost"
           w == NoView
<1>1. x \in Results /\ x \notin {"ok", "none", "busy", "rejected"} /\ w \in Views
  BY DEF Results, Views
<1>2. req' = [req EXCEPT ![c] = [[q EXCEPT !.view = w] EXCEPT !.result = x]]
  <2>1. req \in [All -> Request]
    BY DEF IdentitiesInv, Typed
  <2>2. req' = [req EXCEPT ![c].view = w, ![c].result = x]
    BY DEF JobFails
  <2> HIDE DEF x, w
  <2> QED  BY <2>1, <2>2
<1>3. Later /\ HerdrTyped' /\ UNCHANGED <<db, launch>>
  BY KeepIsLater DEF JobFails
<1>4. UsedTyped'
  <2>1. /\ used' = [used EXCEPT !.faults = used.faults + 1] /\ used.faults < MaxFaults
        /\ used \in [world : 0..MaxWorld, faults : 0..MaxFaults, crashes : 0..MaxCrashes]
    BY DEF JobFails, IdentitiesInv, Typed
  <2>2. used.faults + 1 \in 0..MaxFaults
    BY <2>1, IdentitiesAssumption
  <2> QED  BY <2>1, <2>2 DEF UsedTyped
<1>5. w \in {NoView} \cup Full /\ w \in {NoView} \cup Partial(q.pane)
  OBVIOUS
<1>6. \A s : Shows(w, s)
  BY EmptyShows
<1> HIDE DEF x, w
<1> QED  BY <1>1, <1>2, <1>3, <1>4, <1>5, <1>6, SeenKeeps

\* A runtime is launched: by a start that may still be launched, or by a person.
LEMMA LaunchKeeps ==
    ASSUME IdentitiesInv, UNCHANGED db, NEW x \in 0..MaxIncs, launch' = Append(launch, x),
           Len(launch) < MaxRuns,
           x # 0 => x \in DOMAIN db.inc /\ Unlaunched(x) /\ ~Refused(db.inc[x]),
           \A c \in All : Pending(req'[c]) => /\ Pending(req[c]) /\ req'[c].inc = req[c].inc
                                              /\ req'[c].inc # x,
           \A c \in All : Owner(req'[c]) => Owner(req[c]) /\ req'[c].inc = req[c].inc,
           Typed', SeatsAgree'
    PROVE  IdentitiesInv'
<1>1. /\ launch \in Seq(0..MaxIncs) /\ db \in Store
      /\ Len(launch) \in Nat /\ DOMAIN launch = 1..Len(launch)
  BY DEF IdentitiesInv, LaunchesAgree, Typed
<1> DEFINE n == Len(launch) + 1
<1>2. /\ launch' \in Seq(0..MaxIncs) /\ Len(launch') = n /\ DOMAIN launch' = 1..n
      /\ launch'[n] = x /\ \A j \in DOMAIN launch : launch'[j] = launch[j]
  BY <1>1, AppendProperties
<1>3. n <= MaxRuns
  BY <1>1, IdentitiesAssumption
<1>4. \A j \in DOMAIN launch' : j \in DOMAIN launch \/ j = n
  BY <1>1, <1>2
<1> HIDE DEF n
<1>5. \A j \in DOMAIN launch' : launch'[j] <= Len(db.inc)
  <2>1. x <= Len(db.inc)
    BY <1>1 DEF Store
  <2> QED  BY <1>2, <1>4, <2>1 DEF IdentitiesInv, LaunchesAgree
<1> DEFINE Away(i) == \A j \in DOMAIN launch' : launch'[j] # i
<1>6. \A i : Unlaunched(i) /\ i # x => Away(i)
  BY <1>2, <1>4 DEF Unlaunched
<1>7. AtMostOneLaunch'
  <2>1. ASSUME NEW r \in DOMAIN launch', NEW s \in DOMAIN launch',
               launch'[r] = launch'[s], launch'[r] # 0
        PROVE  r = s
    <3>1. CASE r \in DOMAIN launch /\ s \in DOMAIN launch
      BY <1>2, <2>1, <3>1 DEF IdentitiesInv, LaunchesAgree, AtMostOneLaunch
    <3>2. CASE r = n /\ s \in DOMAIN launch
      BY <1>2, <2>1, <3>2 DEF Unlaunched
    <3>3. CASE s = n /\ r \in DOMAIN launch
      BY <1>2, <2>1, <3>3 DEF Unlaunched
    <3> QED  BY <1>4, <3>1, <3>2, <3>3
  <2> QED  BY <2>1 DEF AtMostOneLaunch
<1>8. ASSUME NEW c \in All, Pending(req'[c])
      PROVE  Away(req'[c].inc) /\ ~Refused(db'.inc[req'[c].inc])
  <2>1. Unlaunched(req[c].inc) /\ ~Refused(db.inc[req[c].inc])
    BY <1>8 DEF IdentitiesInv, LaunchesAgree
  <2>2. req'[c].inc = req[c].inc /\ req[c].inc # x
    BY <1>8
  <2> HIDE DEF Away
  <2>3. Away(req[c].inc)
    BY <1>6, <2>1, <2>2
  <2>4. db' = db
    OBVIOUS
  <2> QED  BY <2>1, <2>2, <2>3, <2>4
<1>9. ASSUME NEW i \in DOMAIN db'.inc, Refused(db'.inc[i]) PROVE Away(i)
  <2>1. Unlaunched(i) /\ Refused(db.inc[i]) /\ i # 0
    BY <1>1, <1>9 DEF IdentitiesInv, LaunchesAgree, Store
  <2>2. i # x
    BY <2>1
  <2> QED  BY <1>6, <2>1, <2>2
<1>10. \A c, e \in All : c # e /\ Owner(req'[c]) /\ Owner(req'[e]) => req'[c].inc # req'[e].inc
  BY DEF IdentitiesInv, LaunchesAgree
<1>11. Len(launch') <= MaxRuns
  BY <1>2, <1>3
<1>12. LaunchesAgree'
  <2>1. \A i \in DOMAIN launch' : launch'[i] <= Len(db'.inc)
    BY <1>5
  <2> QED  BY <1>2, <1>7, <1>8, <1>9, <1>10, <1>11, <2>1 DEF LaunchesAgree, Unlaunched
<1> QED  BY <1>12 DEF IdentitiesInv

\* A runtime that nobody has seen before comes to a seat.
LEMMA RunIsLater ==
    ASSUME IdentitiesInv, NEW p \in Panes, NEW x \in 0..MaxIncs, launch' = Append(launch, x),
           NEW s \in [open : BOOLEAN, term : Terms, run : Nat, name : Names \cup {NoName},
                      stage : {"launching", "ready", "manual"}],
           s.run = Len(launch) + 1, s.term = herdr[p].term, herdr' = [herdr EXCEPT ![p] = s]
    PROVE  Later /\ HerdrTyped'
<1>1. launch \in Seq(0..MaxIncs)
  BY DEF IdentitiesInv, LaunchesAgree
<1>2. /\ Len(launch) \in Nat /\ DOMAIN launch = 1..Len(launch)
      /\ DOMAIN launch' = 1..(Len(launch) + 1)
  BY <1>1, AppendProperties
<1>3. Runs \subseteq Runs' /\ s.run \in Runs' /\ s.run \notin Runs \ {0}
  BY <1>2 DEF Runs
<1>4. s \in [open : BOOLEAN, term : Terms, run : Runs', name : Names \cup {NoName},
             stage : {"launching", "ready", "manual"}]
  BY <1>3
<1> QED  BY <1>3, <1>4, PaneIsLater

\* The store and the requests after a launch, which answers at most one request.
LEMMA StoreUnmoved ==
    ASSUME IdentitiesInv, Later, HerdrTyped', UsedTyped', UNCHANGED db, NEW c \in All, NEW r,
           req' = [req EXCEPT ![c] = r], Fits(db, r), Knows(db, r)
    PROVE  Typed' /\ SeatsAgree'
<1>1. /\ HerdrTyped /\ db \in Store /\ Minted(db) /\ Len(db.inc) <= MaxIncs
      /\ req \in [All -> Request] /\ \A e \in All : Fits(db, req[e]) /\ Knows(db, req[e])
  BY DEF IdentitiesInv, Typed, SeatsAgree
<1>2. req' \in [All -> Request] /\ \A e \in All : Fits(db, req'[e]) /\ Knows(db, req'[e])
  BY <1>1 DEF Fits
<1>3. Typed'
  <2>1. db' \in Store' /\ Minted(db') /\ Len(db'.inc) <= MaxIncs
    BY <1>1, TypesGrow
  <2>2. req' \in [All -> Request'] /\ \A e \in All : Fits(db, req[e])'
    BY <1>1, <1>2, TypesGrow
  <2> QED  BY <2>1, <2>2 DEF Typed, UsedTyped, Minted
<1>4. Follows(db, db', {}, {})
  BY <1>1, NothingFollows
<1>5. \A e \in All : Fits(db', req'[e]) /\ Knows(db', req'[e])
  BY <1>2
<1>6. SeatsAgree'
  BY <1>4, <1>5, NoneDeparts, SeatsKept
<1> QED  BY <1>3, <1>6

\* agent.start with a runtime for an answer.
LEMMA HerdrLaunchesKeeps ==
    ASSUME IdentitiesInv, NEW c \in All, Write(c, Starting), NEW p, p = req[c].pane,
           Len(launch) < MaxRuns, launch' = Append(launch, req[c].inc),
           herdr' = [herdr EXCEPT ![p].run = Len(launch) + 1, ![p].name = req[c].name,
                                  ![p].stage = "launching"],
           req' = [req EXCEPT ![c].result = "ok", ![c].view = [y \in {p} |-> herdr[y]]],
           UNCHANGED <<db, used>>
    PROVE  IdentitiesInv'
<1> DEFINE q == req[c]
           x == q.inc
           w == [y \in {p} |-> herdr[y]]
           n == Len(launch) + 1
           m == q.name
           r1 == [q EXCEPT !.result = "ok"]
           r == [r1 EXCEPT !.view = w]
           o == herdr[p]
           s == [[[o EXCEPT !.run = n] EXCEPT !.name = m] EXCEPT !.stage = "launching"]
<1>1. /\ q.phase = "sending" /\ q.method \in Starting /\ q.result = "none"
      /\ q \in Request /\ Fits(db, q) /\ db \in Store
      /\ herdr \in Full /\ req \in [All -> Request]
  BY RequestFits DEF Write, At, IdentitiesInv, Typed, HerdrTyped
<1>2. p \in Panes /\ o \in Seat /\ m \in Names \cup {NoName}
  BY <1>1 DEF Request, Full
<1>3. n \in Nat
  <2>1. Len(launch) \in Nat
    BY DEF IdentitiesInv, LaunchesAgree
  <2> QED  BY <2>1
<1>14. x # 0 /\ x \in DOMAIN db.inc /\ x \in 0..MaxIncs
  <2>1. x # 0 /\ x \in DOMAIN db.inc
    BY <1>1, RequestFits DEF Fits, Owned
  <2>2. Len(db.inc) <= MaxIncs /\ DOMAIN db.inc = 1..Len(db.inc) /\ Len(db.inc) \in Nat
    BY <1>1 DEF IdentitiesInv, Typed, Store
  <2> QED  BY <2>1, <2>2, IdentitiesAssumption
<1>4. Later /\ HerdrTyped'
  <2>1. s \in [open : BOOLEAN, term : Terms, run : Nat, name : Names \cup {NoName},
               stage : {"launching", "ready", "manual"}]
    <3>1. o \in [open : BOOLEAN, term : Terms, run : Nat, name : Names \cup {NoName},
                 stage : {"launching", "ready", "manual"}]
      <4>1. Runs \subseteq Nat
        BY DEF Runs, IdentitiesInv, LaunchesAgree
      <4> HIDE DEF o
      <4> QED  BY <1>2, <4>1 DEF Seat
    <3> HIDE DEF n, m, o
    <3> QED  BY <1>2, <1>3, <3>1
  <2>2. herdr' = [herdr EXCEPT ![p] = s] /\ s.run = n /\ s.term = herdr[p].term
    BY <1>1, <1>2 DEF Full, Seat
  <2> HIDE DEF s, x
  <2>3. launch' = Append(launch, x)
    BY DEF x
  <2> QED  BY <1>2, <1>14, <2>1, <2>2, <2>3, RunIsLater
<1>5. w \in Partial(p)
  BY <1>1, <1>2 DEF Full, Partial
<1>6. w \in Views
  BY <1>2, <1>5 DEF Views
<1>7. req' = [req EXCEPT ![c] = r]
  <2> HIDE DEF w
  <2> QED  BY <1>1 DEF w
<1> HIDE DEF w
<1>8. r1 \in Request
  BY <1>1 DEF Request, Results
<1>9. r \in Request
  <2> HIDE DEF r1
  <2> QED  BY <1>6, <1>8 DEF Request
<1>10. /\ r.method = q.method /\ r.phase = q.phase /\ r.inc = q.inc /\ r.old = q.old
       /\ r.name = q.name /\ r.pane = q.pane /\ r.kept = q.kept
       /\ r.view = w /\ r.result = "ok"
  BY <1>1 DEF Request
<1> HIDE DEF r
<1>11. Fits(db, r)
  BY <1>1, <1>5, <1>9, <1>10 DEF Fits, Starting
<1>12. /\ req' \in [All -> Request] /\ req'[c] = r
       /\ \A e \in All : e # c => req'[e] = req[e]
  BY <1>1, <1>7, <1>9
<1>20. Knows(db, r)
  <2>1. Knows(db, q) /\ r.method # "close"
    BY <1>1, <1>10 DEF IdentitiesInv, SeatsAgree, Starting
  <2>2. \A y : Shows(w, y)
    BY HerdrShows DEF w
  <2> HIDE DEF q
  <2> QED  BY <1>10, <2>1, <2>2 DEF Knows
<1>13. Typed' /\ SeatsAgree'
  <2>1. UsedTyped'
    BY DEF UsedTyped, IdentitiesInv, Typed
  <2> QED  BY <1>4, <1>7, <1>11, <1>20, <2>1, StoreUnmoved
<1>15. Pending(q) /\ Owner(q)
  BY <1>1, <1>14 DEF Pending, Owner
<1>16. Unlaunched(x) /\ ~Refused(db.inc[x])
  BY <1>15 DEF IdentitiesInv, LaunchesAgree
<1>17. ASSUME NEW e \in All, Pending(req'[e])
       PROVE  Pending(req[e]) /\ req'[e].inc = req[e].inc /\ req'[e].inc # x
  <2>1. e # c
    <3>1. ~Pending(r)
      BY <1>1, <1>10 DEF Pending
    <3> QED  BY <1>12, <1>17, <3>1
  <2>2. req'[e] = req[e] /\ Pending(req[e])
    BY <1>12, <1>17, <2>1
  <2>3. Owner(req[e])
    BY <2>2 DEF Pending, Owner
  <2>4. req[e].inc # x
    BY <1>15, <2>1, <2>3 DEF IdentitiesInv, LaunchesAgree
  <2> QED  BY <2>2, <2>4
<1>18. ASSUME NEW e \in All, Owner(req'[e])
       PROVE  Owner(req[e]) /\ req'[e].inc = req[e].inc
  BY <1>10, <1>12, <1>15, <1>18
<1>19. launch' = Append(launch, x)
  OBVIOUS
<1> HIDE DEF x
<1> QED  BY <1>13, <1>14, <1>16, <1>17, <1>18, <1>19, LaunchKeeps

LEMMA HerdrStartsKeeps ==
    ASSUME IdentitiesInv, NEW c \in All, HerdrStarts(c)
    PROVE  IdentitiesInv'
<1> DEFINE p == req[c].pane
<1>1. Write(c, Starting) /\ UNCHANGED db
  BY DEF HerdrStarts
<1>2. req[c].phase = "sending" /\ req[c].result = "none"
  BY <1>1 DEF Write, At
<1>3. \/ Says(c, "rejected") /\ UNCHANGED <<herdr, launch, used>>
      \/ Says(c, "busy") /\ UNCHANGED <<herdr, launch, used>>
      \/ /\ Says(c, "busy") /\ used.faults < MaxFaults
         /\ used' = [used EXCEPT !.faults = used.faults + 1] /\ UNCHANGED <<herdr, launch>>
      \/ /\ Len(launch) < MaxRuns /\ launch' = Append(launch, req[c].inc)
         /\ herdr' = [herdr EXCEPT ![p].run = Len(launch) + 1, ![p].name = req[c].name,
                                   ![p].stage = "launching"]
         /\ req' = [req EXCEPT ![c].result = "ok", ![c].view = [x \in {p} |-> herdr[x]]]
         /\ UNCHANGED used
  BY DEF HerdrStarts
<1>4. ASSUME NEW x \in {"rejected", "busy"}, Says(c, x), UNCHANGED <<herdr, launch>>, UsedTyped'
      PROVE  IdentitiesInv'
  <2>1. x \in Results /\ x # "ok"
    BY DEF Results
  <2>2. Later /\ HerdrTyped'
    BY <1>4, KeepIsLater
  <2> QED  BY <1>1, <1>2, <1>4, <2>1, <2>2, SaysKeeps
<1>5. CASE (Says(c, "rejected") \/ Says(c, "busy")) /\ UNCHANGED <<herdr, launch, used>>
  <2>1. UsedTyped'
    BY <1>5 DEF UsedTyped, IdentitiesInv, Typed
  <2> QED  BY <1>4, <1>5, <2>1
<1>6. CASE /\ Says(c, "busy") /\ used.faults < MaxFaults
           /\ used' = [used EXCEPT !.faults = used.faults + 1] /\ UNCHANGED <<herdr, launch>>
  <2>1. used \in [world : 0..MaxWorld, faults : 0..MaxFaults, crashes : 0..MaxCrashes]
    BY DEF IdentitiesInv, Typed
  <2>2. used.faults + 1 \in 0..MaxFaults
    BY <1>6, <2>1, IdentitiesAssumption
  <2>3. UsedTyped'
    BY <1>6, <2>1, <2>2 DEF UsedTyped
  <2> QED  BY <1>4, <1>6, <2>3
<1>7. CASE /\ Len(launch) < MaxRuns /\ launch' = Append(launch, req[c].inc)
           /\ herdr' = [herdr EXCEPT ![p].run = Len(launch) + 1, ![p].name = req[c].name,
                                     ![p].stage = "launching"]
           /\ req' = [req EXCEPT ![c].result = "ok", ![c].view = [x \in {p} |-> herdr[x]]]
           /\ UNCHANGED used
  BY <1>1, <1>7, HerdrLaunchesKeeps
<1> QED  BY <1>3, <1>5, <1>6, <1>7

\* The seats change, and nothing that the daemon has.
LEMMA WorldKeeps ==
    ASSUME IdentitiesInv, UNCHANGED <<db, req, launch>>, Later, HerdrTyped', UsedTyped'
    PROVE  IdentitiesInv'
<1>1. Follows(db, db', {}, {}) /\ Len(db'.inc) <= MaxIncs
  BY NothingFollows DEF IdentitiesInv, Typed
<1> QED  BY <1>1, NobodyMoves

LEMMA BecomesReadyKeeps ==
    ASSUME IdentitiesInv, NEW p \in Panes, BecomesReady(p)
    PROVE  IdentitiesInv'
<1> DEFINE s == [herdr[p] EXCEPT !.stage = "ready"]
           n == NoName
<1>1. UsedTyped' /\ UNCHANGED <<db, req, launch>> /\ n \in Names \cup {NoName}
  BY DEF BecomesReady, IdentitiesInv, Typed, UsedTyped
<1>2. herdr' = [herdr EXCEPT ![p] = s]
  BY DEF BecomesReady
<1>3. s \in {Closed(herdr[p]), Empty(herdr[p]), [herdr[p] EXCEPT !.name = n], s}
  OBVIOUS
<1> HIDE DEF n
<1>4. Later /\ HerdrTyped'
  BY <1>1, <1>2, <1>3, SeatIsLater
<1> QED  BY <1>1, <1>4, WorldKeeps

LEMMA PeopleKeep ==
    ASSUME IdentitiesInv, PeopleAct
    PROVE  IdentitiesInv'
<1>1. /\ HerdrTyped /\ herdr \in Full /\ UNCHANGED <<db, req>>
      /\ \A p \in Panes : herdr[p] \in Seat
  BY DEF PeopleAct, IdentitiesInv, Typed, HerdrTyped, Full
<1>2. UsedTyped'
  <2>1. /\ used' = [used EXCEPT !.world = used.world + 1] /\ used.world < MaxWorld
        /\ used \in [world : 0..MaxWorld, faults : 0..MaxFaults, crashes : 0..MaxCrashes]
    BY DEF PeopleAct, IdentitiesInv, Typed
  <2>2. used.world + 1 \in 0..MaxWorld
    BY <2>1, IdentitiesAssumption
  <2> QED  BY <2>1, <2>2 DEF UsedTyped
<1>3. ASSUME UNCHANGED launch, NEW p \in Panes,
             NEW s \in {Empty(herdr[p]), [herdr[p] EXCEPT !.name = NoName]},
             herdr' = [herdr EXCEPT ![p] = s]
      PROVE  IdentitiesInv'
  <2> DEFINE n == NoName
  <2>1. /\ n \in Names \cup {NoName}
        /\ s \in {Closed(herdr[p]), Empty(herdr[p]), [herdr[p] EXCEPT !.name = n],
                  [herdr[p] EXCEPT !.stage = "ready"]}
    OBVIOUS
  <2> HIDE DEF n
  <2>2. Later /\ HerdrTyped'
    BY <1>3, <2>1, SeatIsLater
  <2> QED  BY <1>1, <1>2, <1>3, <2>2, WorldKeeps
<1>4. Runs \subseteq Nat
  BY DEF Runs, IdentitiesInv, LaunchesAgree
<1>5. ASSUME NEW p \in Panes, herdr' = [herdr EXCEPT ![p] = Empty(herdr[p])], UNCHANGED launch
      PROVE  IdentitiesInv'
  BY <1>3, <1>5
<1>6. ASSUME NEW p \in Panes, Len(launch) < MaxRuns, launch' = Append(launch, 0),
             herdr' = [herdr EXCEPT ![p].run = Len(launch) + 1]
      PROVE  IdentitiesInv'
  <2> DEFINE n == Len(launch) + 1
             s == [herdr[p] EXCEPT !.run = n]
             x == 0
  <2>1. n \in Nat /\ x \in 0..MaxIncs
    <3>1. Len(launch) \in Nat
      BY DEF IdentitiesInv, LaunchesAgree
    <3> QED  BY <3>1, IdentitiesAssumption
  <2>2. herdr' = [herdr EXCEPT ![p] = s]
    BY <1>1, <1>6
  <2>3. /\ s \in [open : BOOLEAN, term : Terms, run : Nat, name : Names \cup {NoName},
                  stage : {"launching", "ready", "manual"}]
        /\ s.run = n /\ s.term = herdr[p].term
    <3> HIDE DEF n
    <3> QED  BY <1>1, <1>4, <2>1 DEF Seat
  <2> HIDE DEF s
  <2>4. launch' = Append(launch, x) /\ x = 0
    BY <1>6
  <2> HIDE DEF x
  <2>5. Later /\ HerdrTyped'
    BY <2>1, <2>2, <2>3, <2>4, RunIsLater
  <2>6. Typed' /\ SeatsAgree'
    <3>1. Boot \in All /\ req \in [All -> Request]
      BY DEF All, IdentitiesInv, Typed
    <3> DEFINE r == req[Boot]
    <3>2. req' = [req EXCEPT ![Boot] = r] /\ Fits(db, r) /\ Knows(db, r)
      BY <1>1, <3>1 DEF IdentitiesInv, Typed, SeatsAgree
    <3> HIDE DEF r
    <3> QED  BY <1>1, <1>2, <2>5, <3>1, <3>2, StoreUnmoved
  <2>7. ASSUME NEW c \in All, Pending(req'[c])
        PROVE  Pending(req[c]) /\ req'[c].inc = req[c].inc /\ req'[c].inc # x
    BY <1>1, <2>4, <2>7 DEF Pending
  <2>8. \A c \in All : Owner(req'[c]) => Owner(req[c]) /\ req'[c].inc = req[c].inc
    BY <1>1
  <2> QED  BY <1>1, <1>6, <2>1, <2>4, <2>6, <2>7, <2>8, LaunchKeeps
<1>7. ASSUME NEW p \in Panes, herdr' = [herdr EXCEPT ![p].name = NoName], UNCHANGED launch
      PROVE  IdentitiesInv'
  <2> DEFINE s == [herdr[p] EXCEPT !.name = NoName]
  <2>1. herdr' = [herdr EXCEPT ![p] = s] /\ s \in {Empty(herdr[p]), s}
    BY <1>1, <1>7
  <2> QED  BY <1>3, <1>7, <2>1
<1>8. ASSUME NEW f \in [Panes -> Panes], UNCHANGED launch,
             herdr' = [p \in Panes |-> [Empty(herdr[p]) EXCEPT !.term = @ + 1,
                                                              !.run = herdr[f[p]].run]]
      PROVE  IdentitiesInv'
  <2>1. Age \in Nat \ {0} /\ FirstPane \in Panes /\ \A p \in Panes : herdr[p].term = Age
    BY <1>1, IdentitiesAssumption DEF HerdrTyped, Seated
  <2>2. ASSUME NEW p \in Panes
        PROVE  /\ herdr'[p] \in [open : BOOLEAN, term : {Age + 1}, run : Runs,
                                 name : Names \cup {NoName},
                                 stage : {"launching", "ready", "manual"}]
               /\ herdr'[p].term = Age + 1
    <3> DEFINE e == Empty(herdr[p])
               t == e.term + 1
               r == herdr[f[p]].run
    <3>1. e \in Seat /\ e.term = Age
      <4>1. herdr[p] \in Seat /\ herdr[p].term = Age /\ 0 \in Runs
        BY <1>1, <2>1 DEF Runs
      <4> QED  BY <4>1 DEF Empty, Seat
    <3> HIDE DEF e
    <3>2. t = Age + 1 /\ r \in Runs
      BY <1>1, <3>1 DEF Seat
    <3>3. herdr'[p] = [[e EXCEPT !.term = t] EXCEPT !.run = r]
      BY <1>8 DEF e
    <3> HIDE DEF t, r
    <3> QED  BY <3>1, <3>2, <3>3 DEF Seat
  <2>3. Age' = Age + 1 /\ Runs' = Runs
    BY <1>8, <2>1, <2>2 DEF Age, Runs
  <2>4. \A p \in Panes : herdr'[p] \in Seat'
    BY <2>1, <2>2, <2>3 DEF Seat, Terms
  <2>5. herdr' \in Full'
    BY <1>8, <2>4 DEF Full
  <2>6. Later /\ HerdrTyped'
    BY <2>1, <2>2, <2>3, <2>5 DEF Later, HerdrTyped, Seated
  <2> QED  BY <1>1, <1>2, <1>8, <2>6, WorldKeeps
<1> QED  BY <1>5, <1>6, <1>7, <1>8 DEF PeopleAct

\* After a crash every row is an earlier daemon's, and every request is over or fresh.
LEMMA CrashKeeps ==
    ASSUME IdentitiesInv, Crash
    PROVE  IdentitiesInv'
<1> DEFINE s == [i \in DOMAIN db.inc |-> [db.inc[i] EXCEPT !.mine = FALSE]]
           over == [Idle EXCEPT !.phase = "done"]
           fresh == Fresh("recover")
<1>1. db \in Store /\ Minted(db) /\ db.inc \in Seq(Row)
  BY DEF IdentitiesInv, Typed, Store
<1>2. db' = [db EXCEPT !.inc = s]
  BY DEF Crash, Incs
<1>3. ASSUME NEW i \in DOMAIN db.inc
      PROVE  /\ s[i] \in Row /\ s[i].agent = db.inc[i].agent
             /\ s[i].state = db.inc[i].state /\ s[i].bound = db.inc[i].bound
             /\ s[i].pane = db.inc[i].pane /\ s[i].term = db.inc[i].term
             /\ s[i].run = db.inc[i].run
  <2>1. db.inc[i] \in Row
    BY <1>1, RowTyped
  <2> QED  BY <2>1 DEF Row
<1>4. s \in Seq(Row) /\ Len(s) = Len(db.inc) /\ DOMAIN s = DOMAIN db.inc
  <2>1. DOMAIN s = 1..Len(db.inc) /\ Len(db.inc) \in Nat
    BY <1>1
  <2>2. s = [i \in DOMAIN db.inc |-> s[i]] /\ DOMAIN s = DOMAIN db.inc
    OBVIOUS
  <2>3. DOMAIN db.inc = 1..Len(db.inc)
    BY <1>1
  <2> HIDE DEF s
  <2>4. s \in [1..Len(db.inc) -> Row]
    BY <1>3, <2>2, <2>3
  <2> QED  BY <2>1, <2>2, <2>3, <2>4
<1> HIDE DEF s
<1>5. db' \in Store /\ db'.inc = s /\ db'.name = db.name
  BY <1>1, <1>2, <1>4 DEF Store
<1>6. Minted(db')
  BY <1>1, <1>3, <1>4, <1>5 DEF Minted
<1>7. \A i \in DOMAIN db'.inc : Refused(db'.inc[i]) <=> Refused(db.inc[i])
  BY <1>3, <1>4, <1>5 DEF Refused
<1>8. Fits(db', over) /\ Fits(db', fresh) /\ Fits(db', Idle)
  BY <1>5, IdleFits, FreshFits, IdleTyped
<1>9. /\ ~Owner(over) /\ ~Owner(fresh) /\ ~Owner(Idle)
      /\ ~Pending(over) /\ ~Pending(fresh) /\ ~Pending(Idle)
  <2>1. ~Owner(over) /\ ~Pending(over) /\ ~Owner(Idle) /\ ~Pending(Idle)
    BY DEF Idle, Owner, Pending, Starting, Adopting
  <2>2. ~Owner(fresh) /\ ~Pending(fresh)
    BY <1>5, FreshFits
  <2> QED  BY <2>1, <2>2
<1> DEFINE Blind(r) == r.view = NoView /\ r.kept = NoView /\ r.method # "close"
<1>21. Blind(over) /\ Blind(fresh) /\ Blind(Idle)
  <2>1. Blind(Idle) /\ Blind(over)
    BY DEF Idle
  <2>2. fresh = [Idle EXCEPT !.method = "recover", !.phase = "snapshot"]
    BY DEF Fresh
  <2>3. fresh.view = Idle.view /\ fresh.kept = Idle.kept /\ fresh.method = "recover"
    BY <2>2 DEF Idle
  <2> HIDE DEF fresh
  <2>4. fresh.method # "close"
    BY <2>3
  <2> QED  BY <2>1, <2>3, <2>4
<1> HIDE DEF over, fresh
<1>10. req' = [c \in All |-> IF c = Boot THEN fresh
                             ELSE IF req[c].phase = "idle" THEN Idle ELSE over]
  BY DEF Crash, All, over, fresh, Fresh
<1>11. \A c \in All : req'[c] \in {over, fresh, Idle}
  BY <1>10
<1>12. req' \in [All -> Request] /\ \A c \in All : Fits(db', req'[c])
  <2>1. \A c \in All : Fits(db', req'[c])
    BY <1>8, <1>11
  <2>2. \A c \in All : req'[c] \in Request
    BY <2>1 DEF Fits
  <2> QED  BY <1>10, <2>1, <2>2
<1>13. UsedTyped'
  <2>1. /\ used' = [used EXCEPT !.crashes = used.crashes + 1] /\ used.crashes < MaxCrashes
        /\ used \in [world : 0..MaxWorld, faults : 0..MaxFaults, crashes : 0..MaxCrashes]
    BY DEF Crash, IdentitiesInv, Typed
  <2>2. used.crashes + 1 \in 0..MaxCrashes
    BY <2>1, IdentitiesAssumption
  <2> QED  BY <2>1, <2>2 DEF UsedTyped
<1>14. /\ herdr' = herdr /\ launch' = launch /\ Len(db.inc) <= MaxIncs
       /\ Later /\ HerdrTyped /\ HerdrTyped'
  BY KeepIsLater DEF Crash, IdentitiesInv, Typed
<1>15. Typed'
  <2>1. db' \in Store' /\ Minted(db') /\ Len(db'.inc) <= MaxIncs
    BY <1>4, <1>5, <1>6, <1>14, TypesGrow
  <2>2. req' \in [All -> Request'] /\ \A c \in All : Fits(db, req[c])'
    BY <1>12, <1>14, TypesGrow
  <2> QED  BY <1>13, <1>14, <2>1, <2>2 DEF Typed, UsedTyped, Minted
<1>16. \A c \in All : ~Pending(req'[c]) /\ ~Owner(req'[c])
  BY <1>9, <1>11
<1>17. \A i \in DOMAIN db'.inc : Refused(db'.inc[i]) => Unlaunched(i)'
  BY <1>4, <1>5, <1>7, <1>14 DEF IdentitiesInv, LaunchesAgree, Unlaunched
<1>18. AtMostOneLaunch' /\ \A x \in DOMAIN launch' : launch'[x] <= Len(db'.inc)
  BY <1>4, <1>5, <1>14 DEF IdentitiesInv, LaunchesAgree, AtMostOneLaunch
<1>19. launch' \in Seq(0..MaxIncs) /\ Len(launch') <= MaxRuns
  BY <1>14 DEF IdentitiesInv, LaunchesAgree
<1>20. LaunchesAgree'
  BY <1>16, <1>17, <1>18, <1>19 DEF LaunchesAgree
<1>22. RetiredMeansGone'
  <2>1. ASSUME NEW i \in DOMAIN db'.inc, db'.inc[i].state = "retired"
        PROVE  ~Houses(db.inc[i])'
    <3>1. i \in DOMAIN db.inc /\ db'.inc[i] = s[i]
      BY <1>4, <1>5, <2>1
    <3>2. ~Houses(db.inc[i])
      BY <1>3, <2>1, <3>1 DEF IdentitiesInv, SeatsAgree, RetiredMeansGone, In, Houses
    <3>3. ~Houses(s[i])
      BY <1>3, <3>1, <3>2 DEF Houses, SeatLive, Occupied, HasTerminal
    <3> QED  BY <1>14, <3>1, <3>3 DEF Houses
  <2> QED  BY <2>1 DEF RetiredMeansGone, In, Houses
<1>23. \A c \in All : Knows(db, req[c])'
  <2>1. DOMAIN NoView = {}
    BY DEF NoView
  <2> QED  BY <1>11, <1>21, <2>1 DEF Knows, Shows
<1> QED  BY <1>15, <1>20, <1>22, <1>23 DEF IdentitiesInv, SeatsAgree

LEMMA HerdrKeeps ==
    ASSUME IdentitiesInv, NEW c \in All, Herdr(c)
    PROVE  IdentitiesInv'
BY HerdrObservesKeeps, HerdrStartsKeeps, HerdrPromptsKeeps, HerdrRenamesKeeps, JobFailsKeeps
   DEF Herdr

(***************************************************************************)
(* What every behaviour keeps.                                              *)
(***************************************************************************)
LEMMA NextKeeps ==
    ASSUME IdentitiesInv, [Next]_vars
    PROVE  IdentitiesInv'
<1>1. CASE UNCHANGED vars
  <2>1. UNCHANGED <<db, req, launch>> /\ Later /\ HerdrTyped' /\ UsedTyped'
    BY <1>1, KeepIsLater DEF vars, IdentitiesInv, Typed, UsedTyped
  <2> QED  BY <2>1, WorldKeeps
<1>2. ASSUME NEW c \in Clients, Ask(c) \/ OnStart(c) \/ OnAdopt(c) \/ OnRetire(c)
      PROVE  IdentitiesInv'
  <2>1. c \in All
    BY DEF All
  <2> QED  BY <1>2, <2>1, AskKeeps, OnStartKeeps, OnAdoptKeeps, OnRetireKeeps
<1>3. ASSUME NEW c \in Clients \cup {Boot}, OnRename(c) \/ OnRecover(c) \/ Herdr(c)
      PROVE  IdentitiesInv'
  <2>1. c \in All
    BY DEF All
  <2> QED  BY <1>3, <2>1, OnRenameKeeps, OnRecoverKeeps, HerdrKeeps
<1>4. CASE BootContinue
  BY <1>4, BootContinueKeeps
<1>5. CASE ArchiveDeadIdentities
  BY <1>5, ArchiveKeeps
<1>6. ASSUME NEW p \in Panes, BecomesReady(p) PROVE IdentitiesInv'
  BY <1>6, BecomesReadyKeeps
<1>7. CASE PeopleAct
  BY <1>7, PeopleKeep
<1>8. CASE Crash
  BY <1>8, CrashKeeps
<1> QED  BY <1>1, <1>2, <1>3, <1>4, <1>5, <1>6, <1>7, <1>8 DEF Next

\* Every request fits the store, whatever the daemon, Herdr and people do: each has the
\* incarnation, the name and the snapshot that its next step uses, and a start that may
\* still be launched, or was refused, has launched nothing (OnStart, OnAdopt, OnRename).
THEOREM IdentitiesInvariant == Spec => []IdentitiesInv
<1>1. Init => IdentitiesInv
  BY InitHolds
<1>2. IdentitiesInv /\ [Next]_vars => IdentitiesInv'
  BY NextKeeps
<1> QED  BY <1>1, <1>2, PTL DEF Spec

\* The store's rows, Herdr's panes and the requests stay what the daemon's records are,
\* within the numbers of incarnations and runtimes (schema of store.rs, slice.rs).
THEOREM IdentitiesTypeCorrect == Spec => []TypeOK
<1>1. IdentitiesInv => TypeOK
  <2> SUFFICES ASSUME IdentitiesInv PROVE TypeOK
    OBVIOUS
  <2>1. /\ db \in Store /\ Len(db.inc) <= MaxIncs /\ herdr \in Full
        /\ used \in [world : 0..MaxWorld, faults : 0..MaxFaults, crashes : 0..MaxCrashes]
        /\ launch \in Seq(0..MaxIncs) /\ \A c \in All : Fits(db, req[c])
    BY DEF IdentitiesInv, Typed, HerdrTyped, LaunchesAgree
  <2>2. db.name \in [Agents -> Names \cup {NoName}] /\ db.archived \subseteq Agents
    BY <2>1 DEF Store
  <2>3. \A i \in Incs : db.inc[i] \in Row
    BY <2>1, RowTyped DEF Incs
  <2>4. ASSUME NEW c \in Clients \cup {Boot}
        PROVE  /\ req[c].phase \in Phases
               /\ req[c].result \in {"none", "ok", "busy", "rejected", "lost", "unsent"}
               /\ {req[c].inc, req[c].old} \subseteq 0..MaxIncs
    <3>1. req[c] \in Request /\ req[c].old <= Len(db.inc) /\ req[c].inc <= Len(db.inc)
      BY <2>1 DEF All, Fits
    <3>2. /\ req[c].phase \in Phases /\ req[c].result \in Results
          /\ req[c].inc \in Nat /\ req[c].old \in Nat
      BY <3>1 DEF Request
    <3>3. Len(db.inc) \in Nat /\ MaxIncs \in Nat
      <4>1. db.inc \in Seq(Row)
        BY <2>1 DEF Store
      <4> QED  BY <4>1, IdentitiesAssumption
    <3>4. req[c].inc \in 0..MaxIncs /\ req[c].old \in 0..MaxIncs
      BY <2>1, <3>1, <3>2, <3>3
    <3> QED  BY <3>2, <3>4 DEF Results
  <2>5. Terms \subseteq Nat /\ Runs \subseteq 0..MaxRuns
    <3>1. launch \in Seq(0..MaxIncs) /\ Len(launch) <= MaxRuns /\ Age \in Nat /\ MaxRuns \in Nat
      BY IdentitiesAssumption DEF IdentitiesInv, LaunchesAgree, Typed, HerdrTyped, Seated
    <3>2. DOMAIN launch = 1..Len(launch) /\ Len(launch) \in Nat
      BY <3>1
    <3> QED  BY <3>1, <3>2 DEF Terms, Runs
  <2> QED  BY <2>1, <2>2, <2>3, <2>4, <2>5 DEF TypeOK, Row, Full, Seat
<1> QED  BY <1>1, IdentitiesInvariant, PTL

\* A start launches at most one runtime: a retry follows only an answer that says nothing
\* was launched, and a request that lost its answer never launches again (OnStart, and
\* CrashKeeps for the daemon that dies between the launch and its record).
THEOREM OneLaunchPerStart == Spec => []AtMostOneLaunch
<1>1. IdentitiesInv => AtMostOneLaunch
  BY DEF IdentitiesInv, LaunchesAgree
<1> QED  BY <1>1, IdentitiesInvariant, PTL

\* A start that is recorded as failed and that Herdr never answered with a terminal has
\* launched nothing: only a refusal and a job that was never sent fail it (slice.rs).
THEOREM RefusedStartLeftNothing == Spec => []FailedStartLeftNothing
<1>1. IdentitiesInv => FailedStartLeftNothing
  BY DEF IdentitiesInv, LaunchesAgree, FailedStartLeftNothing, In, Refused, Unlaunched
<1> QED  BY <1>1, IdentitiesInvariant, PTL

\* The runtime of a retired incarnation is gone from its seat, for good: a retirement is
\* completed only on a view of Herdr, and neither the close that is confirmed late nor a
\* recovery that reads an old snapshot has one that shows the seat empty while the runtime
\* is in it (slice.rs, complete_retirement_if_absent and reconcile_live_state of store.rs).
THEOREM RetiredAreGone == Spec => []RetiredMeansGone
<1>1. IdentitiesInv => RetiredMeansGone
  BY DEF IdentitiesInv, SeatsAgree
<1> QED  BY <1>1, IdentitiesInvariant, PTL

\* Every transaction of a recovery, at boot or for a client, repairs the store.
LEMMA RecoveredRepairs ==
    ASSUME IdentitiesInv, Recovered
    PROVE  Continued(db, db') /\ LeftAlone(db, db')
<1>1. Repairs(db, db')
  BY OnRenameKeeps, OnRecoverSnapshotKeeps, BootContinueKeeps DEF Recovered, All
<1>2. db \in Store /\ Minted(db)
  BY DEF IdentitiesInv, Typed
<1> QED  BY <1>1, <1>2, RepairsFollow

\* Reconciling with Herdr leaves the running daemon's open operations, and its
\* retirements, to the requests that own them, though it settles an earlier daemon's
\* (store.rs, reconcile_live_state).
THEOREM RecoveryLeavesItsOwn == Spec => RecoveryLeavesLiveWork
<1> DEFINE Left == \A i \in Incs :
              /\ db.inc[i].mine
              /\ db.inc[i].op \in Open \/ db.inc[i].state = "retiring"
              => db'.inc[i].op = db.inc[i].op
                 /\ (db.inc[i].state # "ready" => db'.inc[i].state = db.inc[i].state)
<1>1. IdentitiesInv /\ [Next]_vars => [Recovered => Left]_vars
  BY RecoveredRepairs DEF LeftAlone, Incs
<1> HIDE DEF Left
<1>2. Spec => [][Recovered => Left]_vars
  BY <1>1, IdentitiesInvariant, PTL DEF Spec
<1> QED  BY <1>2 DEF RecoveryLeavesLiveWork, Left

\* Recovery gives a new incarnation only to an agent with none ready or starting, and
\* whose newest was neither retired nor replaced (store.rs, continue_unbound_agents).
THEOREM OnlyTheStoppedContinue == Spec => ContinuesOnlyTheStopped
<1>1. IdentitiesInv /\ [Next]_vars =>
        [Recovered => \A i \in DOMAIN db'.inc \ Incs :
           LET own == {j \in Incs : db.inc[j].agent = db'.inc[i].agent}
           IN  /\ \A j \in own : db'.inc[j].state \notin {"ready", "starting"}
               /\ db.inc[Newest(own)].state \notin {"retiring", "retired", "superseded"}]_vars
  BY RecoveredRepairs DEF Continued, Incs
<1> QED  BY <1>1, IdentitiesInvariant, PTL DEF Spec, ContinuesOnlyTheStopped
============================================================================
