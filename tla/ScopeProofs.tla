----------------------------- MODULE ScopeProofs -----------------------------
(***************************************************************************)
(* Proofs about one execution of a Scope graph (ScopeExecution), for every   *)
(* graph and every bound.                                                    *)
(*                                                                           *)
(* The handlers are operators on the tables of the execution, so most of the *)
(* argument is a lemma per operator that says which columns it writes. What  *)
(* must hold of a node execution is stated of its row, of the execution's    *)
(* status and of what a pause recorded about it (Sound, Accounted); what     *)
(* holds besides when no call outlives the pause that cancelled it is Calm.  *)
(***************************************************************************)
EXTENDS ScopeExecution, TLAPS, FiniteSetTheorems, SequenceTheorems, NaturalsInduction,
        WellFoundedInduction

BundleState == {"none", "reserved", "injected", "acknowledged", "failed", "deferred",
                "dead_lettered", "cancelled"}
CancelState == {"none", "requested", "force_requested", "quiesced", "session_retired"}
AllPorts == UNION {OutPorts(n) : n \in Nodes}

RunRow ==
  [node : Nodes \cup {"none"}, st : NodeStatus, got : SUBSET Slots, rows : [Slots -> RowState],
   bun : BundleState, bno : Nat, bset : SUBSET Slots, batt : Nat, tries : Int,
   att : Seq(AttemptStatus), out : SUBSET AllPorts, reminded : BOOLEAN,
   host : {"none", "running"}]
PauseRow ==
  [st : {"none", "pausing", "paused"}, prior : ScopeStatus, node : [Runs -> NodeStatus \cup {"none"}],
   row : [Runs -> [Slots -> RowState]], canc : [Runs -> CancelState], bno : [Runs -> Nat],
   att : [Runs -> Nat], unknown : [Runs -> BOOLEAN]]
Tables ==
  [status : ScopeStatus, run : [Runs -> RunRow], pause : PauseRow, pauses : Nat, err : BOOLEAN]

(* The row of a node execution q in an execution whose status is st. *)
RowOK(q, st) ==
  /\ q.node = "none" => q = NoRun
  /\ q.node # "none" => q.got \subseteq InPorts[q.node] /\ q.out \subseteq OutPorts(q.node)
  /\ q.batt <= Len(q.att)
  /\ q.st = "completed" /\ q.node \notin Commands => Required[q.node] \subseteq q.out
  /\ q.host = "running" => q.node \in Commands
  /\ q.node # "none" /\ q.st = "cancelled" => st = "cancelled"
  /\ q.node # "none" /\ st = "completed" => q.st = "completed"

(* After a stop. *)
Still(q) ==
  /\ q.st \in Ended /\ q.host = "none" /\ q.bun \notin Owned
  /\ \A p \in Slots : q.rows[p] \notin {"queued"} \cup Owned
  /\ \A i \in 1 .. Len(q.att) : q.att[i] \notin Live

(* What a pause recorded about node execution r. *)
RecordOK(q, z, r) ==
  /\ z.node[r] \notin Ended /\ z.att[r] <= Len(q.att)
  /\ q.node = "none" =>
       z.node[r] = "none" /\ z.canc[r] = "none" /\ z.att[r] = 0 /\ \A p \in Slots : z.row[r][p] = "none"
  /\ z.st = "pausing" => z.bno[r] <= q.bno
  /\ z.st = "pausing" /\ q.node \in Commands /\ z.canc[r] # "none" /\ z.bno[r] = q.bno /\ q.bun \in Owned
       => z.att[r] = q.batt
  /\ z.st = "pausing" /\ q.node \in Commands /\ z.att[r] # 0 /\ q.att[z.att[r]] \in Live
       => z.node[r] # "none"

Sound(s) ==
  /\ s \in Tables /\ s.pause.prior \in {"active", "waiting_external", "blocked"}
  /\ \A r \in Runs : RowOK(s.run[r], s.status) /\ RecordOK(s.run[r], s.pause, r)

(* A Command whose attempt is open is the one its bundle carries, and its    *)
(* step has not ended.                                                       *)
LiveOK(q) ==
  /\ q.host = "running" => q.st \notin Ended
  /\ q.node \in Commands => \A i \in 1 .. Len(q.att) :
       q.att[i] \in Live => q.bun = "injected" /\ i = q.batt /\ q.st \notin Ended

Accounted(s) == \A r \in Runs : LiveOK(s.run[r])
StoppedOK(s) == s.status = "cancelled" => \A r \in Runs : s.run[r].node # "none" => Still(s.run[r])

ScopeInv ==
  /\ Sound(sx) /\ Accounted(sx) /\ StoppedOK(sx) /\ sx.err = FALSE /\ sx.pauses <= MaxPauses

(* With no late calls. *)
CalmCore(q) ==
  /\ q.host = "running" => q.bun = "injected" /\ q.batt # 0
  /\ \A i \in 1 .. Len(q.att) : q.att[i] = "running" => q.bun = "injected" /\ i = q.batt
  /\ q.node # "none" /\ q.st = "collecting" => q.got # InPorts[q.node]
CalmRow(q, st) ==
  /\ CalmCore(q)
  /\ \A p \in Slots : q.rows[p] = "queued" => st \notin {"pausing", "paused", "cancelled"}
  /\ q.bun \in Owned => st \notin {"paused", "cancelled"}
  /\ q.host = "running" => st \notin {"pausing", "paused", "cancelled"}
  /\ q.st = "paused" => st = "paused"
CalmRecord(q, z, r) ==
  /\ z.st = "pausing" /\ q.bun \in Owned => z.canc[r] # "none" /\ z.bno[r] = q.bno /\ z.att[r] = q.batt
  /\ z.st # "none" /\ z.node[r] = "collecting" => q.got # InPorts[q.node]
  /\ z.st # "none" => z.node[r] # "paused" /\ (q.st = "paused" => z.node[r] # "none")
CalmPause(s) ==
  /\ s.pause.st = "none" => s.status \notin {"pausing", "paused"}
  /\ s.pause.st = "pausing" => s.status \in {"pausing", "cancelled"}
  /\ s.pause.st = "paused" => s.status \in {"paused", "cancelled"}
Calm(s) ==
  /\ CalmPause(s)
  /\ \A r \in Runs : CalmRow(s.run[r], s.status) /\ CalmRecord(s.run[r], s.pause, r)

ScopeCalmInv == ScopeInv /\ Calm(sx)

-----------------------------------------------------------------------------
(* The tables and their rows. *)

LEMMA NodeMoves ==
  ASSUME NEW a \in NodeStatus, NEW b \in NodeNext[a]
  PROVE  /\ b \in NodeStatus /\ a \notin {"completed", "cancelled"}
         /\ a = "failed" => b = "retrying"
         /\ b = "completed" => a # "paused"
  BY DEF NodeStatus, NodeNext, Ended

LEMMA ScopeMoves ==
  ASSUME NEW a \in ScopeStatus, NEW b \in ScopeNext[a]
  PROVE  /\ b \in ScopeStatus /\ a \notin {"completed", "cancelled", "failed", "none"}
  BY DEF ScopeStatus, ScopeNext, Ended

LEMMA Constants ==
  /\ MaxRuns \in Nat /\ MaxBundles \in Nat /\ MaxPauses \in Nat /\ MaxAttempts \in Nat
  /\ Runs \subseteq Nat \ {0} /\ "none" \notin Nodes /\ "reminder" \in Slots
  /\ Commands \subseteq Nodes /\ External \subseteq Commands
  BY ScopeAssumption DEF Runs, Slots

LEMMA RowFields ==
  ASSUME NEW q \in RunRow
  PROVE  /\ q.node \in Nodes \cup {"none"} /\ q.st \in NodeStatus /\ q.got \in SUBSET Slots
         /\ q.rows \in [Slots -> RowState] /\ q.bun \in BundleState /\ q.bno \in Nat
         /\ q.bset \in SUBSET Slots /\ q.batt \in Nat /\ q.tries \in Int
         /\ q.att \in Seq(AttemptStatus) /\ Len(q.att) \in Nat /\ q.out \in SUBSET AllPorts
         /\ q.reminded \in BOOLEAN /\ q.host \in {"none", "running"}
         /\ \A i \in 1 .. Len(q.att) : q.att[i] \in AttemptStatus
  BY DEF RunRow

LEMMA TableFields ==
  ASSUME NEW s \in Tables
  PROVE  /\ s.status \in ScopeStatus /\ s.run \in [Runs -> RunRow] /\ s.pause \in PauseRow
         /\ s.pauses \in Nat /\ s.err \in BOOLEAN /\ \A r \in Runs : s.run[r] \in RunRow
  BY DEF Tables

LEMMA NoRunIsRow == NoRun \in RunRow /\ NoRun.att = <<>> /\ Len(NoRun.att) = 0
  BY Constants DEF RunRow, NoRun, NodeStatus, RowState, BundleState

LEMMA NoPauseIsRow == NoPause \in PauseRow
  BY DEF PauseRow, NoPause, ScopeStatus, RowState, CancelState

(* One row and the status may change. *)
Moves(s, t, r, q) ==
  /\ t \in Tables /\ q \in RunRow /\ t.run = [s.run EXCEPT ![r] = q]
  /\ t.pause = s.pause /\ t.pauses = s.pauses

LEMMA Put ==
  ASSUME NEW s \in Tables, NEW r \in Runs, NEW q \in RunRow
  PROVE  /\ Moves(s, [s EXCEPT !.run[r] = q], r, q)
         /\ [s EXCEPT !.run[r] = q].status = s.status /\ [s EXCEPT !.run[r] = q].err = s.err
  BY DEF Moves, Tables

LEMMA MoveRows ==
  ASSUME NEW s \in Tables, NEW r \in Runs, NEW t, NEW q, Moves(s, t, r, q)
  PROVE  t.run[r] = q /\ \A x \in Runs : x # r => t.run[x] = s.run[x]
  BY DEF Moves, Tables

LEMMA MoveTwice ==
  ASSUME NEW s \in Tables, NEW r \in Runs, NEW t, NEW q, Moves(s, t, r, q),
         NEW t2, NEW q2, Moves(t, t2, r, q2)
  PROVE  Moves(s, t2, r, q2)
  BY DEF Moves, Tables

LEMMA MoveNone ==
  ASSUME NEW s \in Tables, NEW r \in Runs
  PROVE  Moves(s, s, r, s.run[r])
  BY DEF Moves, Tables

-----------------------------------------------------------------------------
(* What the operators write. *)

LEMMA SetNodeIs ==
  ASSUME NEW s \in Tables, NEW r \in Runs, NEW to \in NodeStatus
  PROVE  LET t == SetNode(s, r, to) IN
         /\ t \in Tables /\ (s.err => t.err)
         /\ ~t.err => /\ Moves(s, t, r, [s.run[r] EXCEPT !.st = to]) /\ t.status = s.status
                      /\ s.run[r].st = to \/ to \in NodeNext[s.run[r].st]
<1>0. s.run[r] \in RunRow BY TableFields
<1>1. [s.run[r] EXCEPT !.st = to] \in RunRow BY <1>0 DEF RunRow
<1>2. CASE s.run[r].st = to
  <2>1. [s.run[r] EXCEPT !.st = to] = s.run[r] BY <1>2 DEF Tables, RunRow
  <2> QED BY <1>2, <2>1, MoveNone DEF SetNode
<1>3. CASE s.run[r].st # to /\ to \in NodeNext[s.run[r].st]
  BY <1>1, <1>3, Put DEF SetNode, Moves
<1>4. CASE s.run[r].st # to /\ to \notin NodeNext[s.run[r].st]
  BY <1>4 DEF SetNode, Tables
<1> QED BY <1>2, <1>3, <1>4

LEMMA SetExecutionIs ==
  ASSUME NEW s \in Tables, NEW to \in ScopeStatus
  PROVE  LET t == SetExecution(s, to) IN
         /\ t \in Tables /\ (s.err => t.err)
         /\ t.run = s.run /\ t.pause = s.pause /\ t.pauses = s.pauses
         /\ ~t.err => /\ t.status = to
                      /\ s.status = to \/ to \in ScopeNext[s.status]
  BY DEF SetExecution, Tables

LEMMA ReconcileIs ==
  ASSUME NEW s \in Tables
  PROVE  LET t == Reconcile(s) IN
         /\ t \in Tables /\ (s.err => t.err)
         /\ t.run = s.run /\ t.pause = s.pause /\ t.pauses = s.pauses
         /\ s.status \in {"pausing", "paused"} \cup Ended => t = s
         /\ t.status \notin {"cancelled", "pausing"} \/ t.status = s.status
         /\ ~t.err /\ t.status = "completed" /\ s.status # "completed" =>
              \A r \in Runs : s.run[r].node # "none" => s.run[r].st \in {"completed", "cancelled"}
         /\ t.status = "paused" /\ s.status # "paused" =>
              \E r \in Runs : s.run[r].node # "none" /\ s.run[r].st = "paused"
<1> DEFINE sts == {s.run[r].st : r \in Made(s)}
           to == IF "failed" \in sts THEN "failed" ELSE IF "blocked" \in sts THEN "blocked"
             ELSE IF sts \cap {"collecting", "waiting_external"} # {} THEN "waiting_external"
             ELSE IF sts \cap {"ready", "active", "retrying", "paused"} = {} THEN "completed"
             ELSE IF sts \ {"paused", "completed", "cancelled"} = {} THEN "paused"
             ELSE "active"
<1>1. CASE s.status \in {"pausing", "paused"} \cup Ended
  <2>1. Reconcile(s) = s BY <1>1 DEF Reconcile
  <2> QED BY <1>1, <2>1
<1>2. CASE s.status \notin {"pausing", "paused"} \cup Ended
  <2>1. Reconcile(s) = SetExecution(s, to) BY <1>2 DEF Reconcile
  <2>2. to \in ScopeStatus /\ to \notin {"cancelled", "pausing"} BY DEF ScopeStatus
  <2>3. to = "completed" => \A r \in Runs : s.run[r].node # "none" => s.run[r].st \in {"completed", "cancelled"}
    <3> SUFFICES ASSUME to = "completed", NEW r \in Runs, s.run[r].node # "none"
                 PROVE  s.run[r].st \in {"completed", "cancelled"} OBVIOUS
    <3>1. s.run[r].st \in sts BY DEF Made, Exists
    <3>2. s.run[r].st \in NodeStatus BY TableFields, RowFields
    <3>3. "failed" \notin sts /\ "blocked" \notin sts /\ "collecting" \notin sts
          /\ "waiting_external" \notin sts /\ "ready" \notin sts /\ "active" \notin sts
          /\ "retrying" \notin sts /\ "paused" \notin sts
      OBVIOUS
    <3> HIDE DEF sts
    <3> QED BY <3>1, <3>2, <3>3 DEF NodeStatus
  <2>4. to = "paused" => \E r \in Runs : s.run[r].node # "none" /\ s.run[r].st = "paused"
    <3> SUFFICES ASSUME to = "paused" PROVE "paused" \in sts BY DEF Made, Exists
    <3> HIDE DEF sts
    <3> QED OBVIOUS
  <2> HIDE DEF to
  <2>5. SetExecution(s, to).status \in {to, s.status} BY DEF SetExecution, Tables
  <2> QED BY <1>2, <2>1, <2>2, <2>3, <2>4, <2>5, SetExecutionIs
<1> QED BY <1>1, <1>2

LEMMA FinishAttemptIs ==
  ASSUME NEW s \in Tables, NEW r \in Runs, NEW i \in 1 .. Len(s.run[r].att), NEW to \in AttemptStatus
  PROVE  LET t == FinishAttempt(s, r, i, to) IN
         /\ t \in Tables /\ (s.err => t.err) /\ (s.run[r].att[i] \in Live /\ t.err => s.err)
         /\ ~t.err => /\ Moves(s, t, r, [s.run[r] EXCEPT !.att[i] = to]) /\ t.status = s.status
                      /\ s.run[r].att[i] \in Live \cup {to}
<1>0. s.run[r] \in RunRow BY TableFields
<1>1. [s.run[r] EXCEPT !.att[i] = to] \in RunRow
  <2>1. s.run[r].att \in Seq(AttemptStatus) BY <1>0, RowFields
  <2>2. [s.run[r].att EXCEPT ![i] = to] \in Seq(AttemptStatus) BY <2>1
  <2> QED BY <1>0, <2>2 DEF RunRow
<1>2. CASE s.run[r].att[i] = to
  <2>1. [s.run[r] EXCEPT !.att[i] = to] = s.run[r]
    <3>1. [s.run[r].att EXCEPT ![i] = to] = s.run[r].att BY <1>0, <1>2, RowFields
    <3> QED BY <1>0, <3>1 DEF RunRow
  <2> QED BY <1>2, <2>1, MoveNone DEF FinishAttempt
<1>3. CASE s.run[r].att[i] # to /\ s.run[r].att[i] \in Live
  BY <1>1, <1>3, Put DEF FinishAttempt, Moves
<1>4. CASE s.run[r].att[i] # to /\ s.run[r].att[i] \notin Live
  BY <1>4 DEF FinishAttempt, Tables
<1> QED BY <1>2, <1>3, <1>4

(* The rows of the bundle. *)
RowsTo(q, to) == [p \in Slots |-> IF p \in q.bset THEN to ELSE q.rows[p]]

LEMMA BundleRowsIs ==
  ASSUME NEW s \in Tables, NEW r \in Runs, NEW to \in RowState
  PROVE  LET t == BundleRows(s, r, to) IN
         /\ Moves(s, t, r, [s.run[r] EXCEPT !.rows = RowsTo(s.run[r], to)])
         /\ t.status = s.status /\ t.err = s.err
<1>0. s.run[r] \in RunRow BY TableFields
<1>1. [s.run[r] EXCEPT !.rows = RowsTo(s.run[r], to)] \in RunRow
  <2>1. RowsTo(s.run[r], to) \in [Slots -> RowState] BY <1>0, RowFields DEF RowsTo
  <2> QED BY <1>0, <2>1 DEF RunRow
<1>2. BundleRows(s, r, to) = [s EXCEPT !.run[r] = [s.run[r] EXCEPT !.rows = RowsTo(s.run[r], to)]]
  BY DEF BundleRows, RowsTo, Tables
<1> QED BY <1>1, <1>2, Put

-----------------------------------------------------------------------------
(* Routing: an input changes only node executions that collect, and what it  *)
(* changes is what they collected.                                           *)

SameWork(q, q2) ==
  /\ q2.bun = q.bun /\ q2.bno = q.bno /\ q2.bset = q.bset /\ q2.batt = q.batt /\ q2.tries = q.tries
  /\ q2.att = q.att /\ q2.out = q.out /\ q2.reminded = q.reminded /\ q2.host = q.host

Collects(q, q2) ==
  /\ SameWork(q, q2) /\ q.st = "collecting" /\ q2.st \in {"collecting", "ready"}
  /\ q2.node \in Nodes /\ q.node \in {"none", q2.node}
  /\ q.got \subseteq q2.got /\ q2.got \subseteq q.got \cup InPorts[q2.node]
  /\ q2.st = "collecting" => q2.got # InPorts[q2.node]

RouteOf(q, q2) == q2 = q \/ Collects(q, q2)

Unmade(s) == \A r \in Runs : s.run[r].node = "none" => s.run[r] = NoRun

Routed(s, t) ==
  /\ t \in Tables /\ Unmade(t) /\ t.status = s.status /\ t.pause = s.pause /\ t.pauses = s.pauses
  /\ s.err => t.err
  /\ \A r \in Runs : RouteOf(s.run[r], t.run[r])

LEMMA RoutedTwice ==
  ASSUME NEW s, NEW t, NEW u, Routed(s, t), Routed(t, u)
  PROVE  Routed(s, u)
<1> SUFFICES ASSUME NEW r \in Runs PROVE RouteOf(s.run[r], u.run[r]) BY DEF Routed
<1> DEFINE q == s.run[r]  q2 == t.run[r]  q3 == u.run[r]
<1>1. RouteOf(q, q2) /\ RouteOf(q2, q3) BY DEF Routed
<1> HIDE DEF q, q2, q3
<1>2. RouteOf(q, q3)
  <2>1. CASE q2 = q \/ q3 = q2 BY <1>1, <2>1 DEF RouteOf
  <2>2. CASE Collects(q, q2) /\ Collects(q2, q3)
    <3>1. q3.node = q2.node BY <2>2, Constants DEF Collects
    <3>2. SameWork(q, q3) BY <2>2 DEF Collects, SameWork
    <3> QED BY <2>2, <3>1, <3>2 DEF Collects, RouteOf
  <2> QED BY <1>1, <2>1, <2>2 DEF RouteOf
<1> QED BY <1>2 DEF q, q3

LEMMA RoutedNone ==
  ASSUME NEW s \in Tables, Unmade(s)
  PROVE  Routed(s, s)
  BY DEF Routed, RouteOf

LEMMA NewRow ==
  ASSUME NEW n \in Nodes
  PROVE  LET q == [NoRun EXCEPT !.node = n] IN
         /\ q \in RunRow /\ SameWork(NoRun, q) /\ q.node = n
         /\ NoRun.st = "collecting" /\ q.st = "collecting" /\ NoRun.got = {} /\ q.got = {}
<1>1. NoRun \in RunRow BY NoRunIsRow
<1>2. [NoRun EXCEPT !.node = n] \in RunRow BY <1>1 DEF RunRow
<1> QED BY <1>2 DEF SameWork, NoRun

LEMMA RouteEdgeIs ==
  ASSUME NEW s \in Tables, Unmade(s), NEW e \in Edges
  PROVE  Routed(s, RouteEdge(s, e))
<1> DEFINE n == e[3]
           r == CHOOSE x \in TargetRuns(s, n) : TRUE
           q == TargetRun(s, n, r)
           held == [q EXCEPT !.got = @ \cup {e[4]}, !.rows[e[4]] = "held"]
           released == [held EXCEPT !.st = "ready",
                          !.rows = [p \in Slots |-> IF @[p] = "held" THEN "queued" ELSE @[p]]]
           q2 == IF ~(q.st = "collecting" /\ e[4] \notin q.got) THEN q
                 ELSE IF JoinReady(held) THEN released ELSE held
<1>1. CASE TargetRuns(s, n) = {}
  <2>1. RouteEdge(s, e) = [s EXCEPT !.err = TRUE] BY <1>1 DEF RouteEdge
  <2> QED BY <2>1 DEF Routed, RouteOf, Unmade, Tables
<1>2. CASE TargetRuns(s, n) # {}
  <2>1. r \in TargetRuns(s, n) BY <1>2
  <2>2. RouteEdge(s, e) = [s EXCEPT !.run[r] = q2] BY <1>2 DEF RouteEdge
  <2>3. n \in Nodes /\ e[4] \in InPorts[n] /\ e[4] \in Slots BY ScopeAssumption DEF Slots
  <2>4. r \in Runs BY <2>1 DEF TargetRuns, Gathering, NextFree, Made
  <2>5. q \in RunRow /\ q.node = n /\ s.run[r].node \in {"none", n} /\ SameWork(s.run[r], q)
        /\ q.got = s.run[r].got /\ q.st = s.run[r].st
        /\ (s.run[r].node = "none" => q.st = "collecting" /\ q.got = {})
        /\ (s.run[r].node # "none" => q = s.run[r])
    <3>1. CASE Gathering(s, n) # {}
      BY <2>1, <2>3, <2>4, <3>1, TableFields, Constants DEF TargetRuns, TargetRun, Gathering, SameWork
    <3>2. CASE Gathering(s, n) = {}
      <4>1. s.run[r] = NoRun /\ s.run[r].node = "none"
        BY <2>1, <2>4, <3>2 DEF TargetRuns, NextFree, Exists, Unmade
      <4>2. q = [NoRun EXCEPT !.node = n] BY <3>2 DEF TargetRun
      <4> HIDE DEF q, n, r
      <4> QED BY <2>3, <4>1, <4>2, NewRow
    <3> QED BY <3>1, <3>2
  <2> HIDE DEF q, r, n
  <2>6. held \in RunRow /\ SameWork(q, held) /\ held.st = q.st /\ held.node = q.node
        /\ held.got = q.got \cup {e[4]}
    BY <2>3, <2>5 DEF RunRow, RowState, SameWork
  <2> HIDE DEF held
  <2>7. released \in RunRow /\ SameWork(held, released) /\ released.st = "ready"
        /\ released.node = held.node /\ released.got = held.got
    <3>1. [p \in Slots |-> IF held.rows[p] = "held" THEN "queued" ELSE held.rows[p]] \in [Slots -> RowState]
      BY <2>6, RowFields DEF RowState
    <3>2. held \in RunRow BY <2>6
    <3> QED BY <3>1, <3>2 DEF RunRow, NodeStatus, SameWork
  <2> HIDE DEF released
  <2>8. ~JoinReady(held) => held.got # InPorts[n] BY <2>5, <2>6 DEF JoinReady, Expected
  <2>9. q2 \in RunRow /\ RouteOf(s.run[r], q2) /\ q2.node # "none"
    <3>1. CASE ~(q.st = "collecting" /\ e[4] \notin q.got)
      BY <2>3, <2>5, <3>1, Constants DEF RouteOf
    <3>2. CASE q.st = "collecting" /\ e[4] \notin q.got
      <4>1. SameWork(s.run[r], held) /\ SameWork(s.run[r], released) BY <2>5, <2>6, <2>7 DEF SameWork
      <4>2. CASE JoinReady(held)
        <5>1. q2 = released BY <3>2, <4>2
        <5> HIDE DEF q2
        <5>2. Collects(s.run[r], q2) BY <2>3, <2>5, <2>6, <2>7, <3>2, <4>1, <5>1 DEF Collects
        <5> QED BY <2>3, <2>5, <2>6, <2>7, <5>1, <5>2, Constants DEF RouteOf
      <4>3. CASE ~JoinReady(held)
        <5>1. q2 = held BY <3>2, <4>3
        <5> HIDE DEF q2
        <5>2. Collects(s.run[r], q2) BY <2>3, <2>5, <2>6, <2>8, <3>2, <4>1, <4>3, <5>1 DEF Collects
        <5> QED BY <2>3, <2>5, <2>6, <5>1, <5>2, Constants DEF RouteOf
      <4> QED BY <4>2, <4>3
    <3> QED BY <3>1, <3>2
  <2> HIDE DEF q2
  <2> QED BY <2>2, <2>4, <2>9, Put, MoveRows DEF Moves, Routed, Unmade, RouteOf
<1> QED BY <1>1, <1>2

LEMMA Least ==
  ASSUME NEW T \in SUBSET Nat, T # {}
  PROVE  \E x \in T : \A y \in T : ~(y < x)
<1> DEFINE R == {ss \in Nat \X Nat : ss[1] < ss[2]}
<1>1. IsWellFoundedOn(R, Nat) BY NatLessThanWellFounded DEF OpToRel
<1>2. \A x, y \in Nat : y < x => <<y, x>> \in R OBVIOUS
<1> HIDE DEF R
<1>3. PICK x \in T : \A y \in T : ~ (<<y, x>> \in R) BY <1>1, WFMin
<1>4. \A y \in T : ~(y < x) BY <1>3, <1>2
<1>5. QED BY <1>4

(* The members of a finite set, one after the other. *)
LEMMA Listed ==
  ASSUME NEW S, IsFiniteSet(S)
  PROVE  /\ Cardinality(S) \in Nat /\ Len(SetToSeq(S)) = Cardinality(S)
         /\ \A i \in 1 .. Cardinality(S) : SetToSeq(S)[i] \in S
<1> DEFINE n == Cardinality(S)
<1>1. n \in Nat BY FS_CardinalityType
<1>2. PICK f : f \in Bijection(1 .. n, S) BY FS_CardinalityType DEF ExistsBijection
<1>3. f \in [1 .. n -> S] /\ IsInjective(f) BY <1>2 DEF Bijection, Injection, IsInjective
<1>4. SetToSeq(S) \in [1 .. n -> S] BY <1>3 DEF SetToSeq
<1>5. SetToSeq(S) \in Seq(S) /\ Len(SetToSeq(S)) = n BY <1>1, <1>4, SeqDef, LenProperties
<1> QED BY <1>1, <1>4, <1>5

LEMMA RouteEachIs ==
  ASSUME NEW s, NEW edges, Len(edges) \in Nat
  PROVE  LET f == RouteEach(s, edges) IN
         /\ f[0] = s
         /\ \A i \in 1 .. Len(edges) : f[i] = RouteEdge(f[i - 1], edges[i])
<1> DEFINE n == Len(edges)
           Is(f, k) == f = [i \in 0 .. k |-> IF i = 0 THEN s ELSE RouteEdge(f[i - 1], edges[i])]
           T == {k \in Nat : k <= n /\ ~ \E f : Is(f, k)}
<1>1. \E f : Is(f, n)
  <2> SUFFICES ASSUME n \in T PROVE FALSE OBVIOUS
  <2>1. PICK x \in T : \A y \in T : ~(y < x) BY Least
  <2>2. x # 0
    <3>1. Is([i \in 0 .. 0 |-> s], 0) OBVIOUS
    <3> QED BY <2>1, <3>1
  <2>3. x - 1 \in Nat /\ x - 1 < x /\ x - 1 <= n BY <2>1, <2>2
  <2>4. PICK f : Is(f, x - 1) BY <2>1, <2>3
  <2> DEFINE g == [i \in 0 .. x |-> IF i = x THEN RouteEdge(f[x - 1], edges[x]) ELSE f[i]]
  <2>5. \A i \in 0 .. x - 1 : g[i] = f[i] BY <2>3
  <2>6. ASSUME NEW i \in 0 .. x PROVE g[i] = IF i = 0 THEN s ELSE RouteEdge(g[i - 1], edges[i])
    <3>1. CASE i = x
      <4>1. g[i] = RouteEdge(f[x - 1], edges[x]) /\ x - 1 \in 0 .. x - 1 BY <3>1, <2>3
      <4>2. g[x - 1] = f[x - 1] BY <4>1, <2>5
      <4> HIDE DEF g
      <4> QED BY <2>2, <3>1, <4>1, <4>2
    <3>2. CASE i # x
      <4>1. i \in 0 .. x - 1 BY <3>2, <2>3
      <4>2. f[i] = IF i = 0 THEN s ELSE RouteEdge(f[i - 1], edges[i]) BY <2>4, <4>1
      <4>3. i # 0 => i - 1 \in 0 .. x - 1 BY <4>1, <2>3
      <4>4. g[i] = f[i] /\ (i # 0 => g[i - 1] = f[i - 1]) BY <2>5, <4>1, <4>3
      <4> HIDE DEF g
      <4> QED BY <4>2, <4>4
    <3> QED BY <3>1, <3>2
  <2>7. Is(g, x) BY <2>6
  <2> HIDE DEF g
  <2> QED BY <2>1, <2>7
<1> DEFINE h == CHOOSE f : Is(f, n)
<1>2. RouteEach(s, edges) = h BY DEF RouteEach
<1>3. Is(h, n) BY <1>1
<1> HIDE DEF h
<1>4. h[0] = s /\ \A i \in 1 .. n : h[i] = RouteEdge(h[i - 1], edges[i]) BY <1>3
<1> QED BY <1>2, <1>4

LEMMA RouteAllIs ==
  ASSUME NEW s \in Tables, Unmade(s), NEW edges \in SUBSET Edges
  PROVE  Routed(s, RouteAll(s, edges))
<1> DEFINE n == Cardinality(edges)
           seq == SetToSeq(edges)
           f == RouteEach(s, seq)
           T == {i \in Nat : i <= n /\ ~Routed(s, f[i])}
<1>1. IsFiniteSet(edges) BY ScopeAssumption, FS_Subset
<1>2. n \in Nat /\ Len(seq) = n /\ \A i \in 1 .. n : seq[i] \in edges BY <1>1, Listed
<1> HIDE DEF n, seq
<1>3. f[0] = s /\ \A i \in 1 .. n : f[i] = RouteEdge(f[i - 1], seq[i]) BY <1>2, RouteEachIs
<1> HIDE DEF f
<1>4. T = {}
  <2> SUFFICES ASSUME T # {} PROVE FALSE OBVIOUS
  <2>1. PICK x \in T : \A y \in T : ~(y < x) BY Least
  <2>2. x # 0 BY <1>3, <2>1, RoutedNone
  <2>3. x \in 1 .. n /\ x - 1 \in Nat /\ x - 1 < x /\ x - 1 <= n BY <1>2, <2>1, <2>2
  <2>4. Routed(s, f[x - 1]) BY <2>1, <2>3
  <2>5. Routed(f[x - 1], f[x])
    <3>1. f[x - 1] \in Tables /\ Unmade(f[x - 1]) BY <2>4 DEF Routed
    <3>2. seq[x] \in Edges BY <1>2, <2>3
    <3>3. f[x] = RouteEdge(f[x - 1], seq[x]) BY <1>3, <2>3
    <3> QED BY <3>1, <3>2, <3>3, RouteEdgeIs
  <2> QED BY <2>1, <2>4, <2>5, RoutedTwice
<1>5. Routed(s, f[n]) BY <1>2, <1>4
<1> QED BY <1>5 DEF RouteAll, f, seq, n

-----------------------------------------------------------------------------
(* Sound tables, and what a handler of node execution r leaves of them.      *)

(* Nothing is paused or stopped. *)
Going(s) == s.status \notin {"pausing", "paused", "cancelled"} /\ \A x \in Runs : s.run[x].st # "paused"

Step(s, t, r) ==
  /\ Sound(t) /\ t.status # "cancelled" /\ t.pause = s.pause /\ t.pauses = s.pauses
  /\ Going(s) => Going(t)
  /\ \A x \in Runs : x # r => RouteOf(s.run[x], t.run[x])

LEMMA RouteOfTwice ==
  ASSUME NEW q, NEW q2, NEW q3, RouteOf(q, q2), RouteOf(q2, q3)
  PROVE  RouteOf(q, q3)
<1>1. CASE q2 = q \/ q3 = q2 BY <1>1 DEF RouteOf
<1>2. CASE Collects(q, q2) /\ Collects(q2, q3)
  <2>1. q3.node = q2.node BY <1>2, Constants DEF Collects
  <2>2. SameWork(q, q3) BY <1>2 DEF Collects, SameWork
  <2> QED BY <1>2, <2>1, <2>2 DEF Collects, RouteOf
<1> QED BY <1>1, <1>2 DEF RouteOf

LEMMA StepTwice ==
  ASSUME NEW s, NEW t, NEW u, NEW r, Step(s, t, r), Step(t, u, r)
  PROVE  Step(s, u, r)
<1>1. \A x \in Runs : x # r => RouteOf(s.run[x], t.run[x]) /\ RouteOf(t.run[x], u.run[x]) BY DEF Step
<1>2. \A x \in Runs : x # r => RouteOf(s.run[x], u.run[x]) BY <1>1, RouteOfTwice
<1> QED BY <1>2 DEF Step

LEMMA StepNone ==
  ASSUME NEW s, Sound(s), s.status # "cancelled", NEW r
  PROVE  Step(s, s, r)
  BY DEF Step, RouteOf

LEMMA SoundFacts ==
  ASSUME NEW s, Sound(s)
  PROVE  /\ s \in Tables /\ Unmade(s)
         /\ \A r \in Runs : s.run[r] \in RunRow /\ RowOK(s.run[r], s.status) /\ RecordOK(s.run[r], s.pause, r)
  BY TableFields DEF Sound, Unmade, RowOK

LEMMA RecordKept ==
  ASSUME NEW q \in RunRow, NEW q2 \in RunRow, NEW z \in PauseRow, NEW r \in Runs, RecordOK(q, z, r),
         q.node # "none", q2.node = q.node, Len(q.att) <= Len(q2.att), q.bno <= q2.bno,
         q2.node \in Commands /\ q2.bun \in Owned /\ q2.bno = q.bno /\ z.st = "pausing" /\ z.bno[r] = q.bno
           => q.bun \in Owned /\ q2.batt = q.batt,
         q2.node \in Commands => \A i \in 1 .. Len(q.att) : q2.att[i] \in Live => q.att[i] \in Live
  PROVE  RecordOK(q2, z, r)
<1>1. z.att[r] \in Nat /\ z.bno[r] \in Nat /\ Len(q.att) \in Nat /\ Len(q2.att) \in Nat
      /\ q.bno \in Nat /\ q2.bno \in Nat
  BY RowFields DEF PauseRow
<1>2. z.att[r] # 0 => z.att[r] \in 1 .. Len(q.att) BY <1>1 DEF RecordOK
<1>3. z.st = "pausing" /\ q2.node \in Commands /\ z.canc[r] # "none" /\ z.bno[r] = q2.bno /\ q2.bun \in Owned
        => z.att[r] = q2.batt
  BY <1>1 DEF RecordOK
<1>4. z.st = "pausing" /\ q2.node \in Commands /\ z.att[r] # 0 /\ q2.att[z.att[r]] \in Live
       => z.node[r] # "none"
  BY <1>2 DEF RecordOK
<1> QED BY <1>1, <1>3, <1>4 DEF RecordOK

LEMMA MoveSound ==
  ASSUME NEW s, Sound(s), NEW r \in Runs, NEW t, NEW q, Moves(s, t, r, q),
         RowOK(q, t.status), RecordOK(q, s.pause, r), s.status # "cancelled", t.status # "cancelled",
         t.status = "completed" /\ s.status # "completed" =>
           \A x \in Runs : t.run[x].node # "none" => t.run[x].st = "completed"
  PROVE  /\ Sound(t) /\ t.pause = s.pause /\ t.pauses = s.pauses
         /\ \A x \in Runs : x # r => RouteOf(s.run[x], t.run[x])
<1>1. s \in Tables BY SoundFacts
<1>2. t.run[r] = q /\ \A x \in Runs : x # r => t.run[x] = s.run[x] BY <1>1, MoveRows
<1>3. ASSUME NEW x \in Runs PROVE RowOK(t.run[x], t.status) /\ RecordOK(t.run[x], t.pause, x)
  <2>1. CASE x = r BY <1>2, <2>1 DEF Moves
  <2>2. CASE x # r
    <3>1. RowOK(s.run[x], s.status) /\ RecordOK(s.run[x], s.pause, x) /\ t.run[x] = s.run[x]
      BY <1>2, <2>2, SoundFacts
    <3>2. RowOK(t.run[x], t.status) BY <3>1 DEF RowOK
    <3> QED BY <3>1, <3>2 DEF Moves
  <2> QED BY <2>1, <2>2
<1> QED BY <1>2, <1>3 DEF Sound, Moves, RouteOf

LEMMA RoutedStep ==
  ASSUME NEW s, Sound(s), s.status \notin {"completed", "cancelled"}, NEW t, Routed(s, t), NEW r
  PROVE  Step(s, t, r)
<1>1. t \in Tables /\ t.status = s.status /\ t.pause = s.pause /\ t.pauses = s.pauses BY DEF Routed
<1>2. ASSUME NEW x \in Runs
      PROVE  /\ RowOK(t.run[x], t.status) /\ RecordOK(t.run[x], t.pause, x)
             /\ t.run[x].st = "paused" => s.run[x].st = "paused"
  <2> DEFINE q == s.run[x]  q2 == t.run[x]  z == s.pause
  <2>1. q \in RunRow /\ RowOK(q, s.status) /\ RecordOK(q, z, x) /\ RouteOf(q, q2) /\ q2 \in RunRow
        /\ z \in PauseRow
    BY <1>1, SoundFacts, TableFields DEF Routed
  <2> HIDE DEF q, q2, z
  <2>2. CASE q2 = q BY <1>1, <2>1, <2>2 DEF q, q2, z
  <2>3. CASE Collects(q, q2)
    <3>1. q.node = "none" => q = NoRun BY <2>1 DEF RowOK
    <3>2. q.node = "none" => q.got = {} /\ q.out = {} /\ q.bno = 0 BY <3>1 DEF NoRun
    <3>3. q2.node # "none" /\ (q.node # "none" => q2.node = q.node) BY <2>3, Constants DEF Collects
    <3>4. q2.got \subseteq InPorts[q2.node] /\ q2.out \subseteq OutPorts(q2.node)
      BY <2>1, <2>3, <3>2, <3>3 DEF RowOK, Collects, SameWork
    <3>5. q2.host = "running" => q2.node \in Commands
      BY <2>1, <2>3, <3>1, <3>3, Constants DEF RowOK, Collects, SameWork, NoRun
    <3>6. RowOK(q2, s.status)
      BY <2>1, <2>3, <3>3, <3>4, <3>5 DEF RowOK, Collects, SameWork
    <3>7. RecordOK(q2, z, x)
      <4>1. CASE q.node = "none" BY <2>1, <2>3, <3>3, <4>1 DEF RecordOK, Collects, SameWork
      <4>2. CASE q.node # "none"
        <5>1. SameWork(q, q2) BY <2>3 DEF Collects
        <5>2. q.bno \in Nat /\ Len(q.att) \in Nat BY <2>1, RowFields
        <5> QED BY <2>1, <3>3, <4>2, <5>1, <5>2, RecordKept DEF SameWork
      <4> QED BY <4>1, <4>2
    <3>8. q2.st # "paused" BY <2>3 DEF Collects
    <3> QED BY <1>1, <3>6, <3>7, <3>8 DEF q2, z
  <2> QED BY <2>1, <2>2, <2>3 DEF RouteOf
<1>3. Sound(t) BY <1>1, <1>2 DEF Sound
<1>4. Going(s) => Going(t) BY <1>1, <1>2 DEF Going
<1> QED BY <1>1, <1>3, <1>4 DEF Step, Routed

LEMMA SetNodeStep ==
  ASSUME NEW s, Sound(s), s.status # "cancelled", NEW r \in Runs, s.run[r].node # "none",
         NEW to \in NodeStatus \ {"cancelled", "paused"},
         to = "completed" /\ s.run[r].node \notin Commands => Required[s.run[r].node] \subseteq s.run[r].out,
         ~SetNode(s, r, to).err
  PROVE  LET t == SetNode(s, r, to) IN
         /\ Step(s, t, r) /\ t.status = s.status /\ ~s.err /\ t.run[r] = [s.run[r] EXCEPT !.st = to]
         /\ s.run[r].st = to \/ to \in NodeNext[s.run[r].st]
<1> DEFINE t == SetNode(s, r, to)
           q == s.run[r]
           q2 == [q EXCEPT !.st = to]
<1>1. s \in Tables /\ q \in RunRow /\ RowOK(q, s.status) /\ RecordOK(q, s.pause, r) /\ s.pause \in PauseRow
      /\ s.err \in BOOLEAN
  BY SoundFacts, TableFields
<1>2. Moves(s, t, r, q2) /\ t.status = s.status /\ ~s.err /\ (q.st = to \/ to \in NodeNext[q.st])
  BY <1>1, SetNodeIs
<1> HIDE DEF t
<1>3. q2 \in RunRow BY <1>2 DEF Moves
<1>4. q.st \in NodeStatus BY <1>1, RowFields
<1>5. q.st = "completed" => to = "completed" BY <1>2, <1>4, NodeMoves
<1>6. RowOK(q2, t.status)
  <2>1. q2.st = to /\ q2.node = q.node /\ q2.got = q.got /\ q2.out = q.out /\ q2.batt = q.batt
        /\ q2.att = q.att /\ q2.host = q.host
    BY <1>1 DEF RunRow
  <2> HIDE DEF q2, q
  <2> QED BY <1>1, <1>2, <1>5, <2>1 DEF RowOK, q
<1>7. RecordOK(q2, s.pause, r)
  <2>1. q2.node = q.node /\ q2.att = q.att /\ q2.bno = q.bno /\ q2.bun = q.bun /\ q2.batt = q.batt
    BY <1>1 DEF RunRow
  <2>2. q.node # "none" /\ q.bno \in Nat /\ Len(q.att) \in Nat BY <1>1, RowFields
  <2> HIDE DEF q2, q
  <2> QED BY <1>1, <1>3, <2>1, <2>2, RecordKept
<1>8. t.run[r] = q2 /\ \A x \in Runs : x # r => t.run[x] = s.run[x] BY <1>1, <1>2, MoveRows
<1>9. Going(s) => Going(t)
  <2>1. q2.st = to BY <1>1 DEF RunRow
  <2> QED BY <1>2, <1>8, <2>1 DEF Going
<1>10. Sound(t) /\ t.pause = s.pause /\ t.pauses = s.pauses
       /\ \A x \in Runs : x # r => RouteOf(s.run[x], t.run[x])
  <2> HIDE DEF q2
  <2> QED BY <1>2, <1>6, <1>7, MoveSound
<1> QED BY <1>2, <1>8, <1>9, <1>10 DEF Step, t

(* The status follows. *)
LEMMA StatusStep ==
  ASSUME NEW s, Sound(s), s.status # "cancelled", NEW t \in Tables, NEW r,
         t.run = s.run, t.pause = s.pause, t.pauses = s.pauses, t.status # "cancelled",
         t.status = "completed" /\ s.status # "completed" =>
           \A x \in Runs : s.run[x].node # "none" => s.run[x].st \in {"completed", "cancelled"},
         t.status \in {"pausing", "paused"} =>
           s.status \in {"pausing", "paused"} \/ \E x \in Runs : s.run[x].st = "paused"
  PROVE  Step(s, t, r)
<1>1. ASSUME NEW x \in Runs PROVE RowOK(t.run[x], t.status) /\ RecordOK(t.run[x], t.pause, x)
  <2>1. RowOK(s.run[x], s.status) /\ RecordOK(s.run[x], s.pause, x) BY SoundFacts
  <2> QED BY <2>1 DEF RowOK
<1>2. Sound(t) BY <1>1 DEF Sound
<1> QED BY <1>2 DEF Step, Going, RouteOf

LEMMA ReconcileStep ==
  ASSUME NEW s, Sound(s), s.status # "cancelled", NEW r, ~Reconcile(s).err
  PROVE  Step(s, Reconcile(s), r) /\ Reconcile(s).run = s.run /\ ~s.err
<1> DEFINE t == Reconcile(s)
<1>1. s \in Tables /\ s.err \in BOOLEAN BY SoundFacts, TableFields
<1>2. /\ t \in Tables /\ (s.err => t.err)
      /\ t.run = s.run /\ t.pause = s.pause /\ t.pauses = s.pauses
      /\ t.status \notin {"cancelled", "pausing"} \/ t.status = s.status
      /\ ~t.err /\ t.status = "completed" /\ s.status # "completed" =>
           \A x \in Runs : s.run[x].node # "none" => s.run[x].st \in {"completed", "cancelled"}
      /\ t.status = "paused" /\ s.status # "paused" =>
           \E x \in Runs : s.run[x].node # "none" /\ s.run[x].st = "paused"
  BY <1>1, ReconcileIs
<1> HIDE DEF t
<1>3. Step(s, t, r) BY <1>2, StatusStep DEF t
<1> QED BY <1>2, <1>3 DEF t

LEMMA SetExecutionStep ==
  ASSUME NEW s, Sound(s), s.status # "cancelled", NEW r, ~SetExecution(s, "failed").err
  PROVE  LET t == SetExecution(s, "failed") IN
         Step(s, t, r) /\ t.run = s.run /\ ~s.err /\ t.status = "failed"
<1> DEFINE t == SetExecution(s, "failed")
<1>1. s \in Tables /\ s.err \in BOOLEAN BY SoundFacts, TableFields
<1>2. /\ t \in Tables /\ (s.err => t.err)
      /\ t.run = s.run /\ t.pause = s.pause /\ t.pauses = s.pauses /\ t.status = "failed"
  BY <1>1, SetExecutionIs DEF ScopeStatus
<1> HIDE DEF t
<1>3. Step(s, t, r) BY <1>2, StatusStep
<1> QED BY <1>2, <1>3 DEF t

SameBundle(q, q2) ==
  /\ q2.node = q.node /\ q2.bun = q.bun /\ q2.bno = q.bno /\ q2.bset = q.bset /\ q2.batt = q.batt
  /\ q2.tries = q.tries /\ q2.att = q.att /\ q2.host = q.host

LEMMA PublishedStep ==
  ASSUME NEW s, Sound(s), s.status # "cancelled", NEW r \in Runs, s.run[r].node # "none",
         NEW port \in OutPorts(s.run[r].node)
  PROVE  LET t == Published(s, r, port) IN
         /\ Step(s, t, r) /\ t.status = s.status /\ t.err = s.err
         /\ SameBundle(s.run[r], t.run[r]) /\ t.run[r].out = s.run[r].out \cup {port}
<1> DEFINE q == s.run[r]
           q2 == [q EXCEPT !.out = @ \cup {port}]
           t == [s EXCEPT !.run[r] = q2]
<1>1. s \in Tables /\ q \in RunRow /\ RowOK(q, s.status) /\ RecordOK(q, s.pause, r) /\ s.pause \in PauseRow
  BY SoundFacts, TableFields
<1>2. q.node \in Nodes BY <1>1, RowFields
<1>3. port \in AllPorts BY <1>2 DEF AllPorts
<1>4. q2 \in RunRow /\ SameBundle(q, q2) /\ q2.out = q.out \cup {port} /\ q2.st = q.st /\ q2.got = q.got
  BY <1>1, <1>3 DEF RunRow, SameBundle
<1>5. Published(s, r, port) = t BY DEF Published
<1> HIDE DEF q2
<1>6. Moves(s, t, r, q2) /\ t.status = s.status /\ t.err = s.err BY <1>1, <1>4, Put
<1>7. RowOK(q2, t.status) BY <1>1, <1>4, <1>6 DEF RowOK, SameBundle
<1>8. RecordOK(q2, s.pause, r)
  <2>1. q.node # "none" /\ q.bno \in Nat /\ Len(q.att) \in Nat BY <1>1, RowFields
  <2> HIDE DEF q
  <2> QED BY <1>1, <1>4, <2>1, RecordKept DEF SameBundle
<1> HIDE DEF t
<1>9. t.run[r] = q2 /\ \A x \in Runs : x # r => t.run[x] = s.run[x] BY <1>1, <1>6, MoveRows
<1>10. Going(s) => Going(t) BY <1>4, <1>6, <1>9 DEF Going
<1>11. Sound(t) /\ t.pause = s.pause /\ t.pauses = s.pauses
       /\ \A x \in Runs : x # r => RouteOf(s.run[x], t.run[x])
  BY <1>6, <1>7, <1>8, MoveSound
<1> QED BY <1>4, <1>5, <1>6, <1>9, <1>10, <1>11 DEF Step

(* A row is edited, and its step's status is not. *)
LEMMA EditStep ==
  ASSUME NEW s, Sound(s), s.status # "cancelled", NEW r \in Runs, s.run[r].node # "none",
         NEW q2 \in RunRow, q2.node = s.run[r].node, q2.st = s.run[r].st, q2.got = s.run[r].got,
         q2.out = s.run[r].out, q2.host = "running" => q2.node \in Commands, q2.batt <= Len(q2.att),
         RecordOK(q2, s.pause, r)
  PROVE  LET t == [s EXCEPT !.run[r] = q2] IN
         Step(s, t, r) /\ t.status = s.status /\ t.err = s.err /\ t.run[r] = q2
<1> DEFINE q == s.run[r]
           t == [s EXCEPT !.run[r] = q2]
<1>1. s \in Tables /\ q \in RunRow /\ RowOK(q, s.status) BY SoundFacts
<1>2. Moves(s, t, r, q2) /\ t.status = s.status /\ t.err = s.err BY <1>1, Put
<1> HIDE DEF t
<1>3. RowOK(q2, t.status) BY <1>1, <1>2 DEF RowOK
<1>4. t.run[r] = q2 /\ \A x \in Runs : x # r => t.run[x] = s.run[x] BY <1>1, <1>2, MoveRows
<1>5. Going(s) => Going(t) BY <1>2, <1>4 DEF Going
<1>6. Sound(t) /\ t.pause = s.pause /\ t.pauses = s.pauses
      /\ \A x \in Runs : x # r => RouteOf(s.run[x], t.run[x])
  BY <1>2, <1>3, MoveSound
<1> QED BY <1>2, <1>4, <1>5, <1>6 DEF Step, t

LEMMA WriteOutputTyped ==
  ASSUME NEW s \in Tables, Unmade(s), NEW r \in Runs, NEW port \in AllPorts, NEW outcome
  PROVE  WriteOutput(s, r, port, outcome) \in Tables /\ (s.err => WriteOutput(s, r, port, outcome).err)
<1> DEFINE u == RoutePublication(s, s.run[r].node, port)
           v == Published(u, r, port)
           missing == ~IsCommand(s.run[r]) /\ Missing(v.run[r]) # {}
           to == CASE outcome = "completed" -> IF missing THEN "active" ELSE "completed"
                   [] outcome = "waiting" -> "waiting_external" [] OTHER -> "failed"
           w == SetNode(v, r, to)
<1>1. Routed(s, u) BY RouteAllIs DEF RoutePublication, EdgesFrom
<1> HIDE DEF u
<1>2. v \in Tables /\ (u.err => v.err)
  <2>1. u \in Tables /\ u.run[r] \in RunRow BY <1>1, TableFields DEF Routed
  <2>2. [u.run[r] EXCEPT !.out = u.run[r].out \cup {port}] \in RunRow BY <2>1 DEF RunRow
  <2>3. v = [u EXCEPT !.run[r] = [u.run[r] EXCEPT !.out = u.run[r].out \cup {port}]] BY DEF Published
  <2> HIDE DEF v
  <2> QED BY <2>1, <2>2, <2>3, Put DEF Moves
<1> HIDE DEF v
<1>3. to \in NodeStatus BY DEF NodeStatus
<1> HIDE DEF to
<1>4. w \in Tables /\ (v.err => w.err) BY <1>2, <1>3, SetNodeIs
<1>5. Reconcile(w) \in Tables /\ (w.err => Reconcile(w).err) BY <1>4, ReconcileIs
<1>6. WriteOutput(s, r, port, outcome) = Reconcile(w) BY DEF WriteOutput, w, to, v, u
<1> QED BY <1>1, <1>2, <1>4, <1>5, <1>6 DEF Routed

LEMMA WriteOutputStep ==
  ASSUME NEW s, Sound(s), s.status \notin {"completed", "cancelled"}, NEW r \in Runs,
         s.run[r].node # "none", NEW port \in OutPorts(s.run[r].node), NEW outcome,
         ~WriteOutput(s, r, port, outcome).err
  PROVE  LET t == WriteOutput(s, r, port, outcome) IN
         /\ Step(s, t, r) /\ ~s.err /\ SameBundle(s.run[r], t.run[r])
         /\ t.run[r].out = s.run[r].out \cup {port}
         /\ t.run[r].st \in {"active", "completed", "waiting_external", "failed"}
         /\ outcome = "waiting" => t.run[r].st = "waiting_external"
<1> DEFINE u == RoutePublication(s, s.run[r].node, port)
           v == Published(u, r, port)
           missing == ~IsCommand(s.run[r]) /\ Missing(v.run[r]) # {}
           to == CASE outcome = "completed" -> IF missing THEN "active" ELSE "completed"
                   [] outcome = "waiting" -> "waiting_external" [] OTHER -> "failed"
           w == SetNode(v, r, to)
           t == Reconcile(w)
<1>0. s \in Tables /\ Unmade(s) /\ s.run[r] \in RunRow /\ s.err \in BOOLEAN BY SoundFacts, TableFields
<1>1. Routed(s, u) BY <1>0, RouteAllIs DEF RoutePublication, EdgesFrom
<1>2. WriteOutput(s, r, port, outcome) = t BY DEF WriteOutput
<1> HIDE DEF u
<1>3. Step(s, u, r) /\ u.status = s.status /\ (s.err => u.err) BY <1>1, RoutedStep DEF Routed
<1>4. SameBundle(s.run[r], u.run[r]) /\ u.run[r].out = s.run[r].out
  <2>1. RouteOf(s.run[r], u.run[r]) BY <1>1 DEF Routed
  <2> QED BY <2>1, Constants DEF RouteOf, Collects, SameWork, SameBundle
<1>5. Step(u, v, r) /\ v.status = u.status /\ v.err = u.err
      /\ SameBundle(u.run[r], v.run[r]) /\ v.run[r].out = u.run[r].out \cup {port}
  <2>1. u.run[r].node = s.run[r].node /\ Sound(u) /\ u.status # "cancelled" BY <1>3, <1>4 DEF SameBundle, Step
  <2> QED BY <2>1, PublishedStep
<1> HIDE DEF v
<1>6. to \in {"active", "completed", "waiting_external", "failed"}
      /\ (outcome = "waiting" => to = "waiting_external")
      /\ (to = "completed" => ~missing)
  OBVIOUS
<1> HIDE DEF to
<1>7. v \in Tables /\ Sound(v) /\ v.status # "cancelled" BY <1>5, SoundFacts DEF Step
<1>8. to \in NodeStatus \ {"cancelled", "paused"} BY <1>6 DEF NodeStatus
<1>9. w \in Tables /\ (w.err => t.err)
  <2>1. w \in Tables BY <1>7, <1>8, SetNodeIs
  <2> HIDE DEF w
  <2> QED BY <2>1, ReconcileIs
<1>10. v.run[r].node = s.run[r].node BY <1>4, <1>5 DEF SameBundle
<1>11. to = "completed" /\ v.run[r].node \notin Commands => Required[v.run[r].node] \subseteq v.run[r].out
  BY <1>6, <1>10 DEF IsCommand, Missing
<1>12. Step(v, w, r) /\ ~v.err /\ w.run[r] = [v.run[r] EXCEPT !.st = to]
  BY <1>2, <1>7, <1>8, <1>9, <1>10, <1>11, SetNodeStep
<1> HIDE DEF w
<1>13. Step(w, t, r) /\ t.run = w.run
  <2>1. Sound(w) /\ w.status # "cancelled" /\ ~Reconcile(w).err BY <1>2, <1>12 DEF Step
  <2> QED BY <2>1, ReconcileStep
<1>14. Step(s, t, r) BY <1>3, <1>5, <1>12, <1>13, StepTwice
<1>15. SameBundle(v.run[r], w.run[r]) /\ w.run[r].out = v.run[r].out /\ w.run[r].st = to
  <2>1. v.run[r] \in RunRow BY <1>7, TableFields
  <2> QED BY <1>12, <2>1 DEF RunRow, SameBundle
<1>16. SameBundle(s.run[r], t.run[r]) BY <1>4, <1>5, <1>13, <1>15 DEF SameBundle
<1>17. ~s.err BY <1>3, <1>5, <1>12
<1> HIDE DEF t
<1> QED BY <1>2, <1>4, <1>5, <1>6, <1>13, <1>14, <1>15, <1>16, <1>17

-----------------------------------------------------------------------------
(* The end of an attempt, of an Actor. *)

LEMMA HandOnStep ==
  ASSUME NEW s, Sound(s), s.status # "cancelled", NEW r \in Runs, s.run[r].node # "none", NEW reply
  PROVE  LET t == HandOn(s, r, reply) IN
         /\ t \in Tables /\ (s.err => t.err)
         /\ ~t.err => Step(s, t, r) /\ SameBundle(s.run[r], t.run[r])
<1> DEFINE q == s.run[r]
           p == CHOOSE x \in Missing(q) : TRUE
<1>0. s \in Tables /\ Unmade(s) /\ q \in RunRow BY SoundFacts
<1>1. CASE HandOn(s, r, reply) = s BY <1>0, <1>1, StepNone DEF SameBundle
<1>2. CASE /\ Missing(q) # {} /\ MayWrite(s, r) /\ HandOn(s, r, reply) = WriteOutput(s, r, p, "completed")
  <2>1. p \in Missing(q) BY <1>2
  <2> HIDE DEF p
  <2>2. q.node \in Nodes BY <1>0, RowFields
  <2>3. p \in OutPorts(q.node) /\ p \in AllPorts BY <2>1, <2>2 DEF Missing, OutPorts, AllPorts
  <2>4. s.status \notin {"completed", "cancelled"} BY <1>2 DEF MayWrite, Ended
  <2>5. WriteOutput(s, r, p, "completed") \in Tables /\ (s.err => WriteOutput(s, r, p, "completed").err)
    BY <1>0, <2>3, WriteOutputTyped
  <2>6. ~WriteOutput(s, r, p, "completed").err =>
          /\ Step(s, WriteOutput(s, r, p, "completed"), r)
          /\ SameBundle(s.run[r], WriteOutput(s, r, p, "completed").run[r])
    BY <2>3, <2>4, WriteOutputStep
  <2> QED BY <1>2, <2>5, <2>6
<1> QED BY <1>1, <1>2 DEF HandOn

LEMMA RemindedStep ==
  ASSUME NEW s, Sound(s), s.status # "cancelled", NEW r \in Runs, s.run[r].node # "none"
  PROVE  LET t == [s EXCEPT !.run[r].reminded = TRUE, !.run[r].rows["reminder"] = "queued"] IN
         Step(s, t, r) /\ t.err = s.err /\ SameBundle(s.run[r], t.run[r])
<1> DEFINE q == s.run[r]
           q2 == [q EXCEPT !.reminded = TRUE, !.rows["reminder"] = "queued"]
           t == [s EXCEPT !.run[r].reminded = TRUE, !.run[r].rows["reminder"] = "queued"]
<1>0. s \in Tables /\ q \in RunRow /\ RowOK(q, s.status) /\ RecordOK(q, s.pause, r) /\ s.pause \in PauseRow
  BY SoundFacts, TableFields
<1>1. t = [s EXCEPT !.run[r] = q2] BY <1>0 DEF Tables, RunRow
<1>2. q2 \in RunRow /\ SameBundle(q, q2) /\ q2.st = q.st /\ q2.got = q.got /\ q2.out = q.out
  <2>1. [q.rows EXCEPT !["reminder"] = "queued"] \in [Slots -> RowState] BY <1>0, RowFields DEF RowState
  <2> QED BY <1>0, <2>1 DEF RunRow, SameBundle
<1> HIDE DEF q2
<1>3. RecordOK(q2, s.pause, r)
  <2>1. q.node # "none" /\ q.bno \in Nat /\ Len(q.att) \in Nat BY <1>0, RowFields
  <2> HIDE DEF q
  <2> QED BY <1>0, <1>2, <2>1, RecordKept DEF SameBundle
<1>4. q2.batt <= Len(q2.att) /\ (q2.host = "running" => q2.node \in Commands)
  BY <1>0, <1>2 DEF RowOK, SameBundle
<1>5. q2.node = q.node BY <1>2 DEF SameBundle
<1> HIDE DEF t
<1>6. Step(s, t, r) /\ t.err = s.err /\ t.run[r] = q2 BY <1>1, <1>2, <1>3, <1>4, <1>5, EditStep
<1> QED BY <1>2, <1>6 DEF t

LEMMA SettleStep ==
  ASSUME NEW s, Sound(s), s.status # "cancelled", NEW r \in Runs, s.run[r].node # "none", NEW reply
  PROVE  LET t == Settle(s, r, reply) IN
         /\ t \in Tables /\ (s.err => t.err)
         /\ ~t.err => /\ Step(s, t, r) /\ SameBundle(s.run[r], t.run[r])
                      /\ t = s \/ t.run[r].st \in {"completed", "failed", "retrying"}
<1> DEFINE q == s.run[r]
           h == HandOn(s, r, reply)
           m == [h EXCEPT !.run[r].reminded = TRUE, !.run[r].rows["reminder"] = "queued"]
           t == Settle(s, r, reply)
<1>0. s \in Tables BY SoundFacts
<1>1. h \in Tables /\ (s.err => h.err) /\ (~h.err => Step(s, h, r) /\ SameBundle(q, h.run[r]))
  BY HandOnStep
<1>2. \/ t = s
      \/ Missing(h.run[r]) = {} /\ t = SetNode(h, r, "completed")
      \/ t = SetNode(h, r, "failed")
      \/ t = SetNode(m, r, "retrying")
  BY DEF Settle
<1> HIDE DEF h, t
<1>3. ASSUME NEW g \in Tables, h.err => g.err, ~h.err => Step(h, g, r) /\ SameBundle(h.run[r], g.run[r]),
             NEW to \in {"completed", "failed", "retrying"}, t = SetNode(g, r, to),
             to = "completed" => Required[g.run[r].node] \subseteq g.run[r].out
      PROVE  /\ t \in Tables /\ (s.err => t.err)
             /\ ~t.err => Step(s, t, r) /\ SameBundle(s.run[r], t.run[r]) /\ t.run[r].st = to
  <2>1. to \in NodeStatus \ {"cancelled", "paused"} BY DEF NodeStatus
  <2>2. t \in Tables /\ (g.err => t.err) BY <1>3, <2>1, SetNodeIs
  <2>3. ASSUME ~t.err PROVE Step(s, t, r) /\ SameBundle(s.run[r], t.run[r]) /\ t.run[r].st = to
    <3>1. ~g.err /\ ~h.err BY <1>3, <2>2, <2>3
    <3>2. Step(s, h, r) /\ Step(h, g, r) /\ SameBundle(q, h.run[r]) /\ SameBundle(h.run[r], g.run[r])
      BY <1>1, <1>3, <3>1
    <3>3. g.run[r].node # "none" /\ Sound(g) /\ g.status # "cancelled" /\ ~SetNode(g, r, to).err
      BY <1>3, <2>3, <3>2 DEF SameBundle, Step
    <3>4. Step(g, t, r) /\ t.run[r] = [g.run[r] EXCEPT !.st = to]
      BY <1>3, <2>1, <3>3, SetNodeStep
    <3>5. g.run[r] \in RunRow BY <1>3, TableFields
    <3>6. SameBundle(g.run[r], t.run[r]) /\ t.run[r].st = to BY <3>4, <3>5 DEF SameBundle, RunRow
    <3>7. Step(s, t, r) BY <3>2, <3>4, StepTwice
    <3> QED BY <3>2, <3>6, <3>7 DEF SameBundle
  <2> QED BY <1>1, <1>3, <2>2, <2>3
<1>4. CASE t = s BY <1>0, <1>4, StepNone DEF SameBundle, t
<1>5. CASE Missing(h.run[r]) = {} /\ t = SetNode(h, r, "completed")
  <2>1. ~h.err => Step(h, h, r) /\ SameBundle(h.run[r], h.run[r]) BY <1>1, StepNone DEF Step, SameBundle
  <2>2. Required[h.run[r].node] \subseteq h.run[r].out BY <1>5 DEF Missing
  <2> QED BY <1>1, <1>3, <1>5, <2>1, <2>2 DEF t
<1>6. CASE t = SetNode(h, r, "failed")
  <2>1. ~h.err => Step(h, h, r) /\ SameBundle(h.run[r], h.run[r]) BY <1>1, StepNone DEF Step, SameBundle
  <2> QED BY <1>1, <1>3, <1>6, <2>1 DEF t
<1>7. CASE t = SetNode(m, r, "retrying")
  <2>1. m \in Tables /\ m.err = h.err
    <3>1. h.run[r] \in RunRow BY <1>1, TableFields
    <3>2. [h.run[r].rows EXCEPT !["reminder"] = "queued"] \in [Slots -> RowState]
      BY <3>1, RowFields DEF RowState
    <3>3. [h.run[r] EXCEPT !.reminded = TRUE, !.rows["reminder"] = "queued"] \in RunRow
      BY <3>1, <3>2 DEF RunRow
    <3>4. m = [h EXCEPT !.run[r] = [h.run[r] EXCEPT !.reminded = TRUE, !.rows["reminder"] = "queued"]]
      BY <1>1, <3>1 DEF Tables, RunRow
    <3> HIDE DEF m
    <3> QED BY <1>1, <3>3, <3>4, Put DEF Moves
  <2>2. ~h.err => Step(h, m, r) /\ SameBundle(h.run[r], m.run[r])
    <3> SUFFICES ASSUME ~h.err PROVE Step(h, m, r) /\ SameBundle(h.run[r], m.run[r]) OBVIOUS
    <3>1. Sound(h) /\ h.status # "cancelled" /\ h.run[r].node # "none" BY <1>1 DEF Step, SameBundle
    <3> QED BY <3>1, RemindedStep
  <2> HIDE DEF m
  <2> QED BY <1>1, <1>3, <1>7, <2>1, <2>2 DEF t
<1> QED BY <1>2, <1>4, <1>5, <1>6, <1>7 DEF t

(* The attempt of the bundle is closed. *)
Closed(q, q2) ==
  /\ q2.node = q.node /\ q2.bun = q.bun /\ q2.bno = q.bno /\ q2.bset = q.bset /\ q2.batt = q.batt
  /\ q2.tries = q.tries /\ q2.host = q.host /\ Len(q2.att) = Len(q.att)
  /\ \A i \in 1 .. Len(q.att) : i # q.batt => q2.att[i] = q.att[i]
  /\ q.batt # 0 => q2.att[q.batt] \notin Live

LEMMA FinishAttemptStep ==
  ASSUME NEW s, Sound(s), s.status # "cancelled", NEW r \in Runs, s.run[r].node # "none",
         NEW i \in 1 .. Len(s.run[r].att), NEW to \in AttemptStatus \ Live,
         ~FinishAttempt(s, r, i, to).err
  PROVE  LET t == FinishAttempt(s, r, i, to) IN
         Step(s, t, r) /\ ~s.err /\ t.run[r] = [s.run[r] EXCEPT !.att[i] = to] /\ t.status = s.status
<1> DEFINE q == s.run[r]
           q2 == [q EXCEPT !.att[i] = to]
           t == FinishAttempt(s, r, i, to)
<1>0. s \in Tables /\ q \in RunRow /\ RowOK(q, s.status) /\ RecordOK(q, s.pause, r) /\ s.pause \in PauseRow
      /\ s.err \in BOOLEAN
  BY SoundFacts, TableFields
<1>1. Moves(s, t, r, q2) /\ t.status = s.status /\ ~s.err BY <1>0, FinishAttemptIs
<1> HIDE DEF t
<1>2. /\ q2 \in RunRow /\ q2.node = q.node /\ q2.bun = q.bun /\ q2.bno = q.bno /\ q2.batt = q.batt
      /\ q2.att = [q.att EXCEPT ![i] = to] /\ q2.host = q.host /\ q2.st = q.st /\ q2.got = q.got
      /\ q2.out = q.out
  BY <1>0, <1>1 DEF Moves, RunRow
<1>3. q.att \in Seq(AttemptStatus) /\ Len(q.att) \in Nat /\ q.bno \in Nat BY <1>0, RowFields
<1>4. Len(q2.att) = Len(q.att) /\ \A j \in 1 .. Len(q.att) : q2.att[j] = IF j = i THEN to ELSE q.att[j]
  BY <1>2, <1>3
<1> HIDE DEF q2
<1>5. RecordOK(q2, s.pause, r)
  <2>1. q.node # "none" /\ Len(q.att) <= Len(q2.att) /\ q.bno <= q2.bno BY <1>2, <1>3, <1>4
  <2>2. \A j \in 1 .. Len(q.att) : q2.att[j] \in Live => q.att[j] \in Live BY <1>4
  <2> HIDE DEF q
  <2> QED BY <1>0, <1>2, <2>1, <2>2, RecordKept
<1>6. RowOK(q2, t.status) BY <1>0, <1>1, <1>2, <1>4 DEF RowOK
<1>7. t.run[r] = q2 /\ \A x \in Runs : x # r => t.run[x] = s.run[x] BY <1>0, <1>1, MoveRows
<1>8. Going(s) => Going(t) BY <1>1, <1>2, <1>7 DEF Going
<1>9. Sound(t) /\ t.pause = s.pause /\ t.pauses = s.pauses
      /\ \A x \in Runs : x # r => RouteOf(s.run[x], t.run[x])
  BY <1>1, <1>5, <1>6, MoveSound
<1> QED BY <1>1, <1>7, <1>8, <1>9 DEF Step, t, q2

LEMMA FailStepStep ==
  ASSUME NEW s, Sound(s), s.status # "cancelled", NEW r \in Runs, s.run[r].node # "none",
         ~FailStep(s, r).err
  PROVE  LET t == FailStep(s, r) IN
         /\ Step(s, t, r) /\ SameBundle(s.run[r], t.run[r])
         /\ t = s \/ t.run[r].st = "failed"
<1> DEFINE w == SetNode(s, r, "failed")
<1>0. s \in Tables /\ s.run[r] \in RunRow BY SoundFacts
<1>1. CASE FailStep(s, r) = s BY <1>1, StepNone DEF SameBundle
<1>2. CASE FailStep(s, r) = Reconcile(w)
  <2>1. w \in Tables BY <1>0, SetNodeIs DEF NodeStatus
  <2>2. ~w.err
    <3> HIDE DEF w
    <3> QED BY <1>2, <2>1, ReconcileIs
  <2>3. Step(s, w, r) /\ w.run[r] = [s.run[r] EXCEPT !.st = "failed"] BY <2>2, SetNodeStep DEF NodeStatus
  <2> HIDE DEF w
  <2>4. Step(w, Reconcile(w), r) /\ Reconcile(w).run = w.run BY <1>2, <2>3, ReconcileStep DEF Step
  <2>5. SameBundle(s.run[r], w.run[r]) /\ w.run[r].st = "failed" BY <1>0, <2>3 DEF RunRow, SameBundle
  <2> QED BY <1>2, <2>3, <2>4, <2>5, StepTwice
<1> QED BY <1>1, <1>2 DEF FailStep

LEMMA FinishCanonicalStep ==
  ASSUME NEW s, Sound(s), s.status # "cancelled", ~s.err, NEW r \in Runs, s.run[r].node # "none",
         NEW to \in {"completed", "failed", "outcome_unknown"}, NEW reply,
         ~FinishCanonical(s, r, to, reply).err
  PROVE  LET t == FinishCanonical(s, r, to, reply) IN
         /\ Step(s, t, r) /\ Closed(s.run[r], t.run[r])
         /\ \/ t.run[r].st = s.run[r].st /\ t.run[r].got = s.run[r].got
            \/ t.run[r].st \in {"completed", "failed", "retrying"}
<1> DEFINE q == s.run[r]
           i == q.batt
           f == FinishAttempt(s, r, i, to)
           t == FinishCanonical(s, r, to, reply)
<1>0. s \in Tables /\ q \in RunRow /\ RowOK(q, s.status) /\ ~t.err BY SoundFacts
<1>1. i \in Nat /\ q.att \in Seq(AttemptStatus) /\ Len(q.att) \in Nat BY <1>0, RowFields
<1>2. i # 0 => i \in 1 .. Len(q.att) BY <1>0, <1>1 DEF RowOK
<1>3. \/ t = s /\ (i # 0 => q.att[i] \notin Live)
      \/ i = 0 /\ t = FailStep(s, r)
      \/ i # 0 /\ q.att[i] \in Live /\ t = Reconcile(Settle(f, r, reply))
      \/ i # 0 /\ q.att[i] \in Live /\ t = SetExecution(SetNode(f, r, "failed"), "failed")
  BY DEF FinishCanonical
<1> HIDE DEF t, f
<1>4. \A q2 : SameBundle(q, q2) /\ (i # 0 => q.att[i] \notin Live) => Closed(q, q2)
  BY <1>1 DEF SameBundle, Closed
<1>5. CASE t = s /\ (i # 0 => q.att[i] \notin Live)
  <2>1. SameBundle(q, t.run[r]) BY <1>5 DEF SameBundle
  <2>2. Closed(q, t.run[r]) BY <1>4, <1>5, <2>1
  <2> QED BY <1>5, <2>2, StepNone DEF t
<1>6. CASE i = 0 /\ t = FailStep(s, r)
  <2>1. Step(s, t, r) /\ SameBundle(q, t.run[r]) /\ (t = s \/ t.run[r].st = "failed")
    BY <1>0, <1>6, FailStepStep
  <2>2. Closed(q, t.run[r]) BY <1>4, <1>6, <2>1
  <2> QED BY <2>1, <2>2 DEF t
<1>7. ASSUME i # 0, q.att[i] \in Live
      PROVE  /\ f \in Tables /\ ~f.err /\ Step(s, f, r) /\ Sound(f) /\ f.status # "cancelled"
             /\ f.run[r].node # "none" /\ f.run[r] \in RunRow /\ Closed(q, f.run[r])
             /\ f.run[r].st = q.st /\ f.run[r].got = q.got
  <2>1. to \in AttemptStatus \ Live BY DEF AttemptStatus, Live
  <2>2. i \in 1 .. Len(q.att) BY <1>2, <1>7
  <2>0. q.batt = i OBVIOUS
  <2> HIDE DEF i
  <2>3. f \in Tables /\ ~f.err
    <3>1. to \in AttemptStatus BY <2>1
    <3>2. FinishAttempt(s, r, i, to) \in Tables BY <1>0, <2>2, <3>1, FinishAttemptIs
    <3>3. ~FinishAttempt(s, r, i, to).err BY <1>0, <1>7, <2>2, <3>1, FinishAttemptIs
    <3> QED BY <3>2, <3>3 DEF f
  <2>4. Step(s, f, r) /\ f.run[r] = [q EXCEPT !.att[i] = to]
    <3>1. ~FinishAttempt(s, r, i, to).err BY <2>3 DEF f
    <3> QED BY <2>1, <2>2, <3>1, FinishAttemptStep DEF f
  <2>5. Sound(f) /\ f.status # "cancelled" /\ f.run[r] \in RunRow BY <2>4, SoundFacts DEF Step
  <2>6. /\ f.run[r].node = q.node /\ f.run[r].bun = q.bun /\ f.run[r].bno = q.bno /\ f.run[r].bset = q.bset
        /\ f.run[r].batt = q.batt /\ f.run[r].tries = q.tries /\ f.run[r].host = q.host
        /\ f.run[r].att = [q.att EXCEPT ![i] = to] /\ f.run[r].st = q.st /\ f.run[r].got = q.got
    BY <1>0, <2>4 DEF RunRow
  <2>7. Closed(q, f.run[r])
    <3>1. Len(f.run[r].att) = Len(q.att) /\ f.run[r].att[i] = to
          /\ \A j \in 1 .. Len(q.att) : j # i => f.run[r].att[j] = q.att[j]
      BY <1>1, <2>2, <2>6
    <3> QED BY <2>0, <2>1, <2>6, <3>1 DEF Closed
  <2> QED BY <2>3, <2>4, <2>5, <2>6, <2>7
<1>8. \A q1, q2 : Closed(q, q1) /\ SameBundle(q1, q2) => Closed(q, q2) BY DEF Closed, SameBundle
<1>9. CASE i # 0 /\ q.att[i] \in Live /\ t = Reconcile(Settle(f, r, reply))
  <2> DEFINE g == Settle(f, r, reply)
  <2>1. /\ f \in Tables /\ Step(s, f, r) /\ Sound(f) /\ f.status # "cancelled"
        /\ f.run[r].node # "none" /\ Closed(q, f.run[r]) /\ f.run[r].st = q.st /\ f.run[r].got = q.got
    BY <1>7, <1>9
  <2>2. /\ g \in Tables
        /\ ~g.err => /\ Step(f, g, r) /\ SameBundle(f.run[r], g.run[r])
                     /\ g = f \/ g.run[r].st \in {"completed", "failed", "retrying"}
    BY <2>1, SettleStep
  <2> HIDE DEF g
  <2>3. ~Reconcile(g).err /\ t = Reconcile(g) BY <1>0, <1>9 DEF g
  <2>4. ~g.err BY <2>2, <2>3, ReconcileIs
  <2>5. Step(g, t, r) /\ t.run = g.run BY <2>2, <2>3, <2>4, ReconcileStep DEF Step
  <2>6. Step(s, t, r) BY <2>1, <2>2, <2>4, <2>5, StepTwice
  <2>7. Closed(q, t.run[r]) BY <1>8, <2>1, <2>2, <2>4, <2>5
  <2> QED BY <2>1, <2>2, <2>4, <2>5, <2>6, <2>7 DEF t
<1>10. CASE i # 0 /\ q.att[i] \in Live /\ t = SetExecution(SetNode(f, r, "failed"), "failed")
  <2> DEFINE g == SetNode(f, r, "failed")
  <2>1. /\ f \in Tables /\ Step(s, f, r) /\ Sound(f) /\ f.status # "cancelled"
        /\ f.run[r].node # "none" /\ f.run[r] \in RunRow /\ Closed(q, f.run[r])
    BY <1>7, <1>10
  <2>2. "failed" \in NodeStatus \ {"cancelled", "paused"} /\ "failed" \in ScopeStatus
    BY DEF NodeStatus, ScopeStatus
  <2>3. g \in Tables BY <2>1, <2>2, SetNodeIs
  <2>4. ~g.err
    <3> HIDE DEF g
    <3> QED BY <1>0, <1>10, <2>2, <2>3, SetExecutionIs DEF g
  <2>5. Step(f, g, r) /\ g.run[r] = [f.run[r] EXCEPT !.st = "failed"] BY <2>1, <2>2, <2>4, SetNodeStep
  <2>6. ~SetExecution(g, "failed").err /\ t = SetExecution(g, "failed") BY <1>0, <1>10
  <2> HIDE DEF g
  <2>7. Sound(g) /\ g.status # "cancelled" BY <2>5 DEF Step
  <2>8. Step(g, t, r) /\ t.run = g.run BY <2>6, <2>7, SetExecutionStep
  <2>9. SameBundle(f.run[r], g.run[r]) /\ g.run[r].st = "failed" BY <2>1, <2>5 DEF RunRow, SameBundle
  <2>10. Step(s, t, r) BY <2>1, <2>5, <2>8, StepTwice
  <2>11. Closed(q, t.run[r]) BY <1>8, <2>1, <2>8, <2>9
  <2> QED BY <2>8, <2>9, <2>10, <2>11 DEF t
<1> QED BY <1>3, <1>5, <1>6, <1>9, <1>10 DEF t

-----------------------------------------------------------------------------
(* Bundles and attempts. *)

(* Everything of a row but its bundle. *)
SameStep(q, q2) ==
  q2.node = q.node /\ q2.st = q.st /\ q2.got = q.got /\ q2.out = q.out /\ q2.reminded = q.reminded

WithBundle(s, r, b, h) == [s EXCEPT !.run[r] = [s.run[r] EXCEPT !.bun = b, !.host = h]]

LEMMA BundleStep ==
  ASSUME NEW s, Sound(s), s.status # "cancelled", NEW r \in Runs, s.run[r].node # "none",
         NEW b \in BundleState, NEW to \in RowState, NEW h \in {"none", "running"},
         h = "running" => s.run[r].node \in Commands,
         s.run[r].node \in Commands /\ b \in Owned => s.run[r].bun \in Owned
  PROVE  LET t == BundleRows(WithBundle(s, r, b, h), r, to)
             q == s.run[r]
             q2 == t.run[r]
         IN  /\ Step(s, t, r) /\ t.status = s.status /\ t.err = s.err
             /\ SameStep(q, q2) /\ q2.bun = b /\ q2.bno = q.bno /\ q2.bset = q.bset /\ q2.batt = q.batt
             /\ q2.tries = q.tries /\ q2.att = q.att /\ q2.host = h
             /\ q2.rows = RowsTo(q, to)
<1> DEFINE q == s.run[r]
           q1 == [q EXCEPT !.bun = b, !.host = h]
           u == WithBundle(s, r, b, h)
           q2 == [q1 EXCEPT !.rows = RowsTo(q1, to)]
           t == BundleRows(u, r, to)
<1>0. s \in Tables /\ q \in RunRow /\ RowOK(q, s.status) /\ RecordOK(q, s.pause, r) /\ s.pause \in PauseRow
  BY SoundFacts, TableFields
<1>1. q1 \in RunRow BY <1>0 DEF RunRow
<1>2. /\ SameStep(q, q1) /\ q1.bun = b /\ q1.bno = q.bno /\ q1.bset = q.bset /\ q1.batt = q.batt
      /\ q1.tries = q.tries /\ q1.att = q.att /\ q1.host = h /\ q1.rows = q.rows
  BY <1>0 DEF RunRow, SameStep
<1>3. u = [s EXCEPT !.run[r] = q1] BY DEF WithBundle
<1> HIDE DEF q1, u
<1>4. RecordOK(q1, s.pause, r)
  <2>1. q.node # "none" /\ q.bno \in Nat /\ Len(q.att) \in Nat BY <1>0, RowFields
  <2>2. q.node \in Commands /\ b \in Owned => q.bun \in Owned OBVIOUS
  <2> HIDE DEF q
  <2> QED BY <1>0, <1>1, <1>2, <2>1, <2>2, RecordKept DEF SameStep
<1>5. q1.batt <= Len(q1.att) /\ (q1.host = "running" => q1.node \in Commands)
  BY <1>0, <1>2 DEF RowOK, SameStep
<1>6. Step(s, u, r) /\ u.status = s.status /\ u.err = s.err /\ u.run[r] = q1
  BY <1>1, <1>2, <1>3, <1>4, <1>5, EditStep DEF SameStep
<1>7. Sound(u) /\ u.status # "cancelled" /\ u.pause = s.pause /\ u \in Tables BY <1>6, SoundFacts DEF Step
<1>8. Moves(u, t, r, q2) /\ t.status = u.status /\ t.err = u.err BY <1>6, <1>7, BundleRowsIs
<1>9. t = [u EXCEPT !.run[r] = q2]
  BY <1>6, <1>7 DEF BundleRows, RowsTo, Tables
<1>10. /\ q2 \in RunRow /\ SameStep(q1, q2) /\ q2.bun = b /\ q2.bno = q.bno /\ q2.bset = q.bset
       /\ q2.batt = q.batt /\ q2.tries = q.tries /\ q2.att = q.att /\ q2.host = h /\ q2.rows = RowsTo(q1, to)
  BY <1>1, <1>2, <1>8 DEF Moves, RunRow, SameStep
<1>11. RowsTo(q1, to) = RowsTo(q, to) BY <1>2 DEF RowsTo
<1> HIDE DEF q2
<1>12. RecordOK(q2, s.pause, r) BY <1>2, <1>4, <1>10 DEF RecordOK, SameStep
<1> HIDE DEF t
<1>13. Step(u, t, r) /\ t.run[r] = q2
  <2>1. q2.batt <= Len(q2.att) /\ (q2.host = "running" => q2.node \in Commands)
    BY <1>2, <1>5, <1>10 DEF SameStep
  <2>2. u.run[r].node # "none" /\ q2.node = u.run[r].node /\ q2.st = u.run[r].st /\ q2.got = u.run[r].got
        /\ q2.out = u.run[r].out
    BY <1>2, <1>6, <1>10 DEF SameStep
  <2> QED BY <1>7, <1>9, <1>10, <1>12, <2>1, <2>2, EditStep
<1>14. Step(s, t, r) BY <1>6, <1>13, StepTwice
<1> QED BY <1>2, <1>6, <1>8, <1>10, <1>11, <1>13, <1>14 DEF t, u, SameStep

LEMMA BundleOnlyStep ==
  ASSUME NEW s, Sound(s), s.status # "cancelled", NEW r \in Runs, s.run[r].node # "none",
         NEW b \in BundleState, NEW to \in RowState,
         s.run[r].node \in Commands /\ b \in Owned => s.run[r].bun \in Owned
  PROVE  LET t == BundleRows([s EXCEPT !.run[r].bun = b], r, to)
             q == s.run[r]
             q2 == t.run[r]
         IN  /\ Step(s, t, r) /\ t.status = s.status /\ t.err = s.err
             /\ SameStep(q, q2) /\ q2.bun = b /\ q2.bno = q.bno /\ q2.bset = q.bset /\ q2.batt = q.batt
             /\ q2.tries = q.tries /\ q2.att = q.att /\ q2.host = q.host
             /\ q2.rows = RowsTo(q, to)
<1> DEFINE q == s.run[r]
           u == [s EXCEPT !.run[r].bun = b]
           h == q.host
<1>1. s \in Tables /\ q \in RunRow /\ RowOK(q, s.status) BY SoundFacts
<1>2. h \in {"none", "running"} /\ (h = "running" => q.node \in Commands) BY <1>1, RowFields DEF RowOK
<1>3. [q EXCEPT !.bun = b] = [q EXCEPT !.bun = b, !.host = h] BY <1>1 DEF RunRow
<1>4. u = [s EXCEPT !.run[r] = [q EXCEPT !.bun = b]] BY <1>1 DEF Tables
<1>5. u = WithBundle(s, r, b, h) BY <1>3, <1>4 DEF WithBundle
<1> QED BY <1>2, <1>5, BundleStep

(* An attempt, new or the bundle's. *)
LEMMA StartStep ==
  ASSUME NEW s, Sound(s), s.status # "cancelled", ~s.err, NEW r \in Runs, s.run[r].node # "none",
         s.run[r].node \in Commands /\ s.pause.st = "pausing" => s.pause.bno[r] < s.run[r].bno,
         ~StartAttempt(s, r, "pending").err
  PROVE  LET t == StartAttempt(s, r, "pending")
             q == s.run[r]
             q2 == t.run[r]
         IN  /\ Step(s, t, r) /\ t.status = s.status /\ ~t.err
             /\ SameStep(q, q2) /\ q2.bun = q.bun /\ q2.bno = q.bno /\ q2.bset = q.bset
             /\ q2.tries = q.tries /\ q2.host = q.host /\ q2.rows = q.rows
             /\ q2.batt \in 1 .. Len(q2.att) /\ Len(q.att) <= Len(q2.att)
             /\ \/ q2.att = q.att /\ q2.batt = q.batt
                \/ /\ q.batt = 0 /\ q2.batt = Len(q.att) + 1 /\ q2.batt = Len(q2.att)
                   /\ q2.att[q2.batt] = "pending"
             /\ \A i \in 1 .. Len(q.att) : q2.att[i] = q.att[i]
<1> DEFINE q == s.run[r]
           a == Append(q.att, "pending")
           q2 == [q EXCEPT !.att = a, !.batt = Len(q.att) + 1]
           t == StartAttempt(s, r, "pending")
<1>0. s \in Tables /\ q \in RunRow /\ RowOK(q, s.status) /\ RecordOK(q, s.pause, r) /\ s.pause \in PauseRow
  BY SoundFacts, TableFields
<1>1. q.att \in Seq(AttemptStatus) /\ Len(q.att) \in Nat /\ q.batt \in Nat /\ q.bno \in Nat BY <1>0, RowFields
<1>2. CASE q.batt # 0
  <2>1. t = s BY <1>2 DEF StartAttempt
  <2>2. q.batt \in 1 .. Len(q.att) BY <1>0, <1>1, <1>2 DEF RowOK
  <2> QED BY <1>1, <2>1, <2>2, StepNone DEF SameStep
<1>3. CASE q.batt = 0
  <2>1. q.st \in {"ready", "retrying", "waiting_external"}
    <3> SUFFICES ASSUME q.st \notin {"ready", "retrying", "waiting_external"} PROVE FALSE OBVIOUS
    <3>1. t = [s EXCEPT !.err = TRUE] BY <1>3 DEF StartAttempt
    <3> QED BY <1>0, <3>1 DEF Tables
  <2>2. t = [s EXCEPT !.run[r] = q2] BY <1>0, <1>3, <2>1 DEF StartAttempt, Tables, RunRow
  <2>3. /\ a \in Seq(AttemptStatus) /\ Len(a) = Len(q.att) + 1 /\ a[Len(q.att) + 1] = "pending"
        /\ \A i \in 1 .. Len(q.att) : a[i] = q.att[i]
    BY <1>1 DEF AttemptStatus
  <2> HIDE DEF a
  <2>4. q2 \in RunRow
    <3>1. Len(q.att) + 1 \in Nat /\ a \in Seq(AttemptStatus) BY <1>1, <2>3
    <3> HIDE DEF q
    <3> QED BY <1>0, <3>1 DEF RunRow
  <2>5. /\ SameStep(q, q2) /\ q2.bun = q.bun /\ q2.bno = q.bno /\ q2.bset = q.bset
        /\ q2.tries = q.tries /\ q2.host = q.host /\ q2.rows = q.rows
        /\ q2.att = a /\ q2.batt = Len(q.att) + 1
    BY <1>0 DEF RunRow, SameStep
  <2>6. q.node # "none" OBVIOUS
  <2>7. q.node \in Commands /\ s.pause.st = "pausing" => s.pause.bno[r] # q.bno
    <3>1. s.pause.bno[r] \in Nat BY <1>0 DEF PauseRow
    <3> QED BY <1>1, <3>1
  <2>8. ~t.err OBVIOUS
  <2> HIDE DEF q2, t
  <2>9. Len(q.att) <= Len(q2.att) /\ q.bno <= q2.bno
    <3> HIDE DEF q
    <3> QED BY <1>1, <2>3, <2>5
  <2>10. RecordOK(q2, s.pause, r)
    <3> HIDE DEF q
    <3> QED BY <1>0, <2>3, <2>4, <2>5, <2>6, <2>7, <2>9, RecordKept DEF SameStep
  <2>11. q2.batt <= Len(q2.att) /\ (q2.host = "running" => q2.node \in Commands)
    <3> HIDE DEF q
    <3> QED BY <1>0, <1>1, <2>3, <2>5 DEF RowOK, SameStep
  <2>12. Step(s, t, r) /\ t.status = s.status /\ t.run[r] = q2
    BY <2>2, <2>4, <2>5, <2>10, <2>11, EditStep DEF SameStep
  <2>13. /\ q2.batt \in 1 .. Len(q2.att) /\ q2.batt = Len(q2.att) /\ q2.att[q2.batt] = "pending"
         /\ \A i \in 1 .. Len(q.att) : q2.att[i] = q.att[i]
    <3> HIDE DEF q
    <3> QED BY <1>1, <2>3, <2>5
  <2> QED BY <1>3, <2>5, <2>8, <2>9, <2>12, <2>13 DEF t
<1> QED BY <1>2, <1>3

LEMMA BeginStep ==
  ASSUME NEW s, Sound(s), s.status # "cancelled", NEW r \in Runs, s.run[r].node # "none",
         s.run[r].batt \in 1 .. Len(s.run[r].att), ~BeginAttempt(s, r).err
  PROVE  LET t == BeginAttempt(s, r)
             q == s.run[r]
             q2 == t.run[r]
         IN  /\ Step(s, t, r) /\ t.status = s.status
             /\ q2.node = q.node /\ q2.st = "active" /\ q2.got = q.got
             /\ q2.bun = q.bun /\ q2.bno = q.bno /\ q2.bset = q.bset /\ q2.tries = q.tries
             /\ q2.host = q.host /\ q2.batt = q.batt /\ Len(q2.att) = Len(q.att)
             /\ q.att[q.batt] \in Live /\ q2.att[q.batt] = "running"
             /\ \A i \in 1 .. Len(q.att) : i # q.batt => q2.att[i] = q.att[i]
<1> DEFINE q == s.run[r]
           i == q.batt
           w == SetNode(s, r, "active")
           q1 == w.run[r]
           q2 == [q1 EXCEPT !.att[i] = "running"]
           t == BeginAttempt(s, r)
<1>0. s \in Tables /\ q \in RunRow BY SoundFacts
<1>1. q.att[i] \in Live /\ t = [w EXCEPT !.run[r].att[i] = "running"]
  <2>1. CASE s.err \/ q.att[i] \notin Live
    <3>1. t = [s EXCEPT !.err = TRUE] BY <2>1 DEF BeginAttempt
    <3> QED BY <1>0, <3>1 DEF Tables
  <2>2. CASE ~(s.err \/ q.att[i] \notin Live) BY <2>2 DEF BeginAttempt
  <2> QED BY <2>1, <2>2
<1>2. "active" \in NodeStatus \ {"cancelled", "paused"} BY DEF NodeStatus
<1>3. w \in Tables BY <1>0, <1>2, SetNodeIs
<1> HIDE DEF w
<1>4. ~w.err
  <2>1. ~t.err OBVIOUS
  <2> QED BY <1>1, <1>3, <2>1 DEF Tables
<1>5. Step(s, w, r) /\ w.status = s.status /\ q1 = [q EXCEPT !.st = "active"] BY <1>2, <1>4, SetNodeStep DEF w
<1> HIDE DEF q1
<1>6. /\ q1.node = q.node /\ q1.st = "active" /\ q1.got = q.got /\ q1.out = q.out
      /\ q1.bun = q.bun /\ q1.bno = q.bno /\ q1.bset = q.bset /\ q1.tries = q.tries
      /\ q1.host = q.host /\ q1.batt = q.batt /\ q1.att = q.att
  BY <1>0, <1>5 DEF RunRow
<1>7. Sound(w) /\ w.status # "cancelled" BY <1>5 DEF Step
<1>8. q1 \in RunRow /\ RowOK(q1, w.status) /\ RecordOK(q1, w.pause, r) /\ w.pause \in PauseRow
  BY <1>3, <1>7, SoundFacts, TableFields DEF q1
<1>9. q.att \in Seq(AttemptStatus) /\ Len(q.att) \in Nat /\ q.bno \in Nat /\ i \in 1 .. Len(q.att)
  BY <1>0, RowFields
<1> HIDE DEF q, i
<1>10. [q1.att EXCEPT ![i] = "running"] \in Seq(AttemptStatus) /\ Len([q1.att EXCEPT ![i] = "running"]) = Len(q.att)
       /\ \A j \in 1 .. Len(q.att) : [q1.att EXCEPT ![i] = "running"][j] = IF j = i THEN "running" ELSE q.att[j]
  BY <1>6, <1>9 DEF AttemptStatus
<1>11. q2 \in RunRow BY <1>8, <1>10 DEF RunRow
<1>12. /\ q2.node = q.node /\ q2.st = "active" /\ q2.got = q.got /\ q2.out = q.out
       /\ q2.bun = q.bun /\ q2.bno = q.bno /\ q2.bset = q.bset /\ q2.tries = q.tries
       /\ q2.host = q.host /\ q2.batt = q.batt /\ q2.att = [q1.att EXCEPT ![i] = "running"]
  BY <1>6, <1>8 DEF RunRow
<1>13. t = [w EXCEPT !.run[r] = q2] BY <1>1, <1>3 DEF q1, Tables
<1> HIDE DEF q2, t
<1>14. RecordOK(q2, w.pause, r)
  <2>1. q1.node # "none" /\ q2.node = q1.node /\ Len(q1.att) <= Len(q2.att) /\ q1.bno <= q2.bno
    BY <1>6, <1>9, <1>10, <1>12 DEF q
  <2>2. \A j \in 1 .. Len(q1.att) : q2.att[j] \in Live => q1.att[j] \in Live BY <1>1, <1>6, <1>10, <1>12
  <2> QED BY <1>6, <1>8, <1>11, <1>12, <2>1, <2>2, RecordKept
<1>15. q2.batt <= Len(q2.att) /\ (q2.host = "running" => q2.node \in Commands)
  BY <1>6, <1>8, <1>10, <1>12 DEF RowOK
<1>16. q1 = w.run[r] BY DEF q1
<1>17. q.node # "none" BY DEF q
<1>18. Step(w, t, r) /\ t.status = w.status /\ t.run[r] = q2
  BY <1>6, <1>7, <1>11, <1>12, <1>13, <1>14, <1>15, <1>16, <1>17, EditStep
<1>19. Step(s, t, r) BY <1>5, <1>18, StepTwice
<1> QED BY <1>1, <1>5, <1>9, <1>10, <1>12, <1>18, <1>19 DEF t, q, i

-----------------------------------------------------------------------------
(* The handlers of an Actor's Delivery. *)

NotReplayed(q, q2) ==
  q.node \in External =>
    \A i \in 1 .. Len(q.att) :
      q.att[i] \in Live /\ q2.att[i] = "outcome_unknown" => q2.st \notin {"retrying", "active"}

Act(s, t, r) ==
  /\ Step(s, t, r) /\ LiveOK(t.run[r]) /\ NotReplayed(s.run[r], t.run[r])
  /\ CalmCore(s.run[r]) /\ Going(s) => CalmCore(t.run[r])

LEMMA ActorAct ==
  ASSUME NEW s, NEW t, NEW r \in Runs, Step(s, t, r), s.run[r].node \notin Commands,
         t.run[r].node = s.run[r].node, CalmCore(s.run[r]) /\ Going(s) => CalmCore(t.run[r])
  PROVE  Act(s, t, r)
<1>1. RowOK(t.run[r], t.status) BY SoundFacts DEF Step
<1>2. LiveOK(t.run[r]) BY <1>1 DEF RowOK, LiveOK
<1>3. NotReplayed(s.run[r], t.run[r]) BY Constants DEF NotReplayed
<1> QED BY <1>2, <1>3 DEF Act

LEMMA ReservedStep ==
  ASSUME NEW s, Sound(s), s.status # "cancelled", NEW r \in Runs, MayReserve(s, r)
  PROVE  LET t == Reserved(s, r)
             q == s.run[r]
             q2 == t.run[r]
         IN  /\ Step(s, t, r) /\ t.status = s.status /\ t.err = s.err
             /\ SameStep(q, q2) /\ q2.bun = "reserved" /\ q2.bno = q.bno + 1 /\ q2.batt = 0
             /\ q2.att = q.att /\ q2.host = q.host /\ q.bun \notin Owned /\ q.node # "none"
<1> DEFINE q == s.run[r]
           rows == {p \in Slots : q.rows[p] = "queued"}
           q1 == [q EXCEPT !.bun = "reserved", !.bno = @ + 1, !.bset = rows, !.batt = 0, !.tries = @ + 1]
           u == [s EXCEPT !.run[r] = q1]
           q2 == [q1 EXCEPT !.rows = RowsTo(q1, "reserved")]
           t == Reserved(s, r)
<1>0. s \in Tables /\ q \in RunRow /\ RowOK(q, s.status) /\ RecordOK(q, s.pause, r) /\ s.pause \in PauseRow
  BY SoundFacts, TableFields
<1>1. q.bno \in Nat /\ q.tries \in Int /\ Len(q.att) \in Nat BY <1>0, RowFields
<1>2. q.bun \notin Owned /\ q.node # "none" BY DEF MayReserve, Exists
<1>3. q1 \in RunRow
  <2>1. q.bno + 1 \in Nat /\ q.tries + 1 \in Int /\ rows \in SUBSET Slots BY <1>1
  <2> HIDE DEF rows
  <2> QED BY <1>0, <2>1 DEF RunRow, BundleState
<1>4. /\ SameStep(q, q1) /\ q1.bun = "reserved" /\ q1.bno = q.bno + 1 /\ q1.batt = 0 /\ q1.att = q.att
      /\ q1.host = q.host
  BY <1>0 DEF RunRow, SameStep
<1>5. t = BundleRows(u, r, "reserved") BY DEF Reserved
<1> HIDE DEF q1
<1>6. RecordOK(q1, s.pause, r)
  <2>1. Len(q.att) <= Len(q1.att) /\ q.bno <= q1.bno /\ q1.bno # q.bno BY <1>1, <1>4
  <2> HIDE DEF q
  <2> QED BY <1>0, <1>2, <1>3, <1>4, <2>1, RecordKept DEF SameStep
<1>7. q1.batt <= Len(q1.att) /\ (q1.host = "running" => q1.node \in Commands)
  BY <1>0, <1>1, <1>4 DEF RowOK, SameStep
<1>8. Step(s, u, r) /\ u.status = s.status /\ u.err = s.err /\ u.run[r] = q1
  BY <1>2, <1>3, <1>4, <1>6, <1>7, EditStep DEF SameStep
<1> HIDE DEF u
<1>9. Sound(u) /\ u.status # "cancelled" /\ u.pause = s.pause /\ u \in Tables BY <1>8, SoundFacts DEF Step
<1>10. t = [u EXCEPT !.run[r] = q2] /\ t.status = u.status /\ t.err = u.err /\ Moves(u, t, r, q2)
  <2>1. Moves(u, t, r, q2) /\ t.status = u.status /\ t.err = u.err
    <3>1. "reserved" \in RowState BY DEF RowState
    <3> DEFINE v == BundleRows(u, r, "reserved")
    <3>2. Moves(u, v, r, q2) /\ v.status = u.status /\ v.err = u.err BY <1>8, <1>9, <3>1, BundleRowsIs
    <3> HIDE DEF v, t
    <3>3. t = v BY <1>5 DEF v
    <3> QED BY <3>2, <3>3
  <2>2. t = [u EXCEPT !.run[r] = q2] BY <1>5, <1>8, <1>9 DEF BundleRows, RowsTo, Tables
  <2> QED BY <2>1, <2>2
<1>11. /\ q2 \in RunRow /\ SameStep(q1, q2) /\ q2.bun = q1.bun /\ q2.bno = q1.bno /\ q2.batt = q1.batt
       /\ q2.att = q1.att /\ q2.host = q1.host
  BY <1>3, <1>10 DEF Moves, RunRow, SameStep
<1> HIDE DEF q2, t
<1>12. RecordOK(q2, u.pause, r) BY <1>6, <1>9, <1>11 DEF RecordOK, SameStep
<1>13. q2.batt <= Len(q2.att) /\ (q2.host = "running" => q2.node \in Commands)
  BY <1>7, <1>11 DEF SameStep
<1>14. Step(u, t, r) /\ t.run[r] = q2
  <2>1. u.run[r].node # "none" BY <1>2, <1>4, <1>8 DEF SameStep
  <2> QED BY <1>8, <1>9, <1>10, <1>11, <1>12, <1>13, <2>1, EditStep DEF SameStep
<1>15. Step(s, t, r) BY <1>8, <1>14, StepTwice
<1> QED BY <1>2, <1>4, <1>8, <1>10, <1>11, <1>14, <1>15 DEF t, SameStep

LEMMA ReserveAct ==
  ASSUME NEW s, Sound(s), s.status # "cancelled", NEW r \in Runs, MayReserve(s, r),
         s.run[r].node \notin Commands
  PROVE  Act(s, Reserved(s, r), r)
<1> DEFINE t == Reserved(s, r)
<1>1. Step(s, t, r) /\ SameStep(s.run[r], t.run[r]) /\ t.run[r].att = s.run[r].att /\ s.run[r].bun \notin Owned
      /\ t.run[r].host = s.run[r].host
  BY ReservedStep
<1> HIDE DEF t
<1>2. CalmCore(s.run[r]) => CalmCore(t.run[r]) BY <1>1 DEF CalmCore, SameStep, Owned
<1>3. Act(s, t, r) BY <1>1, <1>2, ActorAct DEF SameStep
<1> QED BY <1>3 DEF t

LEMMA PrepareAct ==
  ASSUME NEW s, Sound(s), s.status # "cancelled", ~s.err, NEW r \in Runs, s.run[r].node # "none",
         s.run[r].node \notin Commands, s.run[r].bun = "reserved", ~StartAttempt(s, r, "pending").err
  PROVE  Act(s, StartAttempt(s, r, "pending"), r)
<1> DEFINE t == StartAttempt(s, r, "pending")
           q == s.run[r]
           q2 == t.run[r]
<1>0. Len(q.att) \in Nat /\ q.batt \in Nat BY SoundFacts, RowFields
<1>1. /\ Step(s, t, r) /\ SameStep(q, q2) /\ q2.bun = q.bun /\ q2.host = q.host
      /\ \/ q2.att = q.att /\ q2.batt = q.batt
         \/ /\ q.batt = 0 /\ q2.batt = Len(q.att) + 1 /\ q2.batt = Len(q2.att)
            /\ q2.att[q2.batt] = "pending"
      /\ \A i \in 1 .. Len(q.att) : q2.att[i] = q.att[i]
  BY StartStep
<1>2. q.bun = "reserved" /\ q.node \notin Commands OBVIOUS
<1> HIDE DEF t, q, q2
<1>3. CalmCore(q) => CalmCore(q2)
  <2> SUFFICES ASSUME CalmCore(q) PROVE CalmCore(q2) OBVIOUS
  <2>1. \A i \in 1 .. Len(q2.att) : q2.att[i] # "running" BY <1>0, <1>1, <1>2 DEF CalmCore
  <2> QED BY <1>1, <1>2, <2>1 DEF CalmCore, SameStep
<1>4. Act(s, t, r) BY <1>1, <1>2, <1>3, ActorAct DEF SameStep, q, q2
<1> QED BY <1>4 DEF t

Injected(s, r) ==
  BundleRows([BeginAttempt(StartAttempt(s, r, "pending"), r) EXCEPT !.run[r].bun = "injected"], r, "injected")

(* A started and begun attempt. *)
LEMMA StartBeginStep ==
  ASSUME NEW s, Sound(s), s.status # "cancelled", ~s.err, NEW r \in Runs, s.run[r].node # "none",
         s.run[r].node \in Commands /\ s.pause.st = "pausing" => s.pause.bno[r] < s.run[r].bno,
         ~BeginAttempt(StartAttempt(s, r, "pending"), r).err
  PROVE  LET t == BeginAttempt(StartAttempt(s, r, "pending"), r)
             q == s.run[r]
             q2 == t.run[r]
         IN  /\ Step(s, t, r) /\ t.status = s.status
             /\ q2.node = q.node /\ q2.st = "active" /\ q2.got = q.got
             /\ q2.bun = q.bun /\ q2.bno = q.bno /\ q2.host = q.host
             /\ q2.batt \in 1 .. Len(q2.att) /\ q2.att[q2.batt] = "running"
             /\ Len(q.att) <= Len(q2.att) /\ Len(q2.att) <= Len(q.att) + 1
             /\ Len(q2.att) = Len(q.att) + 1 => q2.batt = Len(q2.att)
             /\ \A i \in 1 .. Len(q.att) : i # q2.batt => q2.att[i] = q.att[i]
<1> DEFINE u == StartAttempt(s, r, "pending")
           q == s.run[r]
           q1 == u.run[r]
           t == BeginAttempt(u, r)
           q2 == t.run[r]
<1>0. s \in Tables /\ q \in RunRow /\ Len(q.att) \in Nat BY SoundFacts, RowFields
<1>1. ~u.err
  <2> SUFFICES ASSUME u.err PROVE FALSE OBVIOUS
  <2>1. t = [u EXCEPT !.err = TRUE] BY DEF BeginAttempt
  <2>2. u = [s EXCEPT !.err = TRUE] BY <1>0 DEF StartAttempt, Tables
  <2>3. t.err = TRUE BY <1>0, <2>1, <2>2 DEF Tables
  <2> QED BY <2>3
<1>2. /\ Step(s, u, r) /\ u.status = s.status
      /\ SameStep(q, q1) /\ q1.bun = q.bun /\ q1.bno = q.bno /\ q1.host = q.host
      /\ q1.batt \in 1 .. Len(q1.att) /\ Len(q.att) <= Len(q1.att)
      /\ \/ q1.att = q.att /\ q1.batt = q.batt
         \/ /\ q.batt = 0 /\ q1.batt = Len(q.att) + 1 /\ q1.batt = Len(q1.att)
            /\ q1.att[q1.batt] = "pending"
      /\ \A i \in 1 .. Len(q.att) : q1.att[i] = q.att[i]
  BY <1>1, StartStep
<1> HIDE DEF u
<1>3. Sound(u) /\ u.status # "cancelled" /\ q1.node # "none" /\ ~t.err BY <1>2 DEF Step, SameStep, u
<1>4. q1 \in RunRow /\ Len(q1.att) \in Nat BY <1>3, SoundFacts, RowFields
<1>5. /\ Step(u, t, r) /\ t.status = u.status
      /\ q2.node = q1.node /\ q2.st = "active" /\ q2.got = q1.got
      /\ q2.bun = q1.bun /\ q2.bno = q1.bno /\ q2.host = q1.host /\ q2.batt = q1.batt
      /\ Len(q2.att) = Len(q1.att) /\ q2.att[q1.batt] = "running"
      /\ \A i \in 1 .. Len(q1.att) : i # q1.batt => q2.att[i] = q1.att[i]
  BY <1>2, <1>3, BeginStep
<1>6. Step(s, t, r) BY <1>2, <1>5, StepTwice
<1> HIDE DEF t, q, q1, q2
<1>7. /\ Len(q2.att) <= Len(q.att) + 1 /\ (Len(q2.att) = Len(q.att) + 1 => q2.batt = Len(q2.att))
      /\ \A i \in 1 .. Len(q.att) : i # q2.batt => q2.att[i] = q.att[i]
  BY <1>0, <1>2, <1>4, <1>5
<1>8. /\ Step(s, t, r) /\ t.status = s.status
      /\ q2.node = q.node /\ q2.st = "active" /\ q2.got = q.got
      /\ q2.bun = q.bun /\ q2.bno = q.bno /\ q2.host = q.host
      /\ q2.batt \in 1 .. Len(q2.att) /\ q2.att[q2.batt] = "running" /\ Len(q.att) <= Len(q2.att)
  BY <1>2, <1>5, <1>6 DEF SameStep
<1> QED BY <1>7, <1>8 DEF t, q, q2, u

LEMMA InjectAct ==
  ASSUME NEW s, Sound(s), s.status # "cancelled", ~s.err, NEW r \in Runs, s.run[r].node # "none",
         s.run[r].node \notin Commands, s.run[r].bun = "reserved", ~Injected(s, r).err
  PROVE  Act(s, Injected(s, r), r)
<1> DEFINE u == BeginAttempt(StartAttempt(s, r, "pending"), r)
           t == BundleRows([u EXCEPT !.run[r].bun = "injected"], r, "injected")
           q == s.run[r]
           q1 == u.run[r]
           q2 == t.run[r]
<1>0. s \in Tables /\ q \in RunRow /\ Len(q.att) \in Nat BY SoundFacts, RowFields
<1>1. ~u.err
  <2>1. t.err = u.err BY DEF BundleRows
  <2>2. ~t.err BY DEF Injected
  <2> QED BY <2>1, <2>2
<1>2. /\ Step(s, u, r) /\ q1.node = q.node /\ q1.st = "active" /\ q1.batt \in 1 .. Len(q1.att)
      /\ Len(q.att) <= Len(q1.att) /\ Len(q1.att) <= Len(q.att) + 1 /\ q1.host = q.host
      /\ Len(q1.att) = Len(q.att) + 1 => q1.batt = Len(q1.att)
      /\ \A i \in 1 .. Len(q.att) : i # q1.batt => q1.att[i] = q.att[i]
  BY <1>1, StartBeginStep
<1> HIDE DEF u
<1>3. Sound(u) /\ u.status # "cancelled" /\ q1.node # "none" /\ q1.node \notin Commands BY <1>2 DEF Step
<1>4. /\ Step(u, t, r) /\ SameStep(q1, q2) /\ q2.bun = "injected" /\ q2.batt = q1.batt
      /\ q2.att = q1.att /\ q2.host = q1.host
  <2>1. "injected" \in BundleState /\ "injected" \in RowState BY DEF BundleState, RowState
  <2> QED BY <1>3, <2>1, BundleOnlyStep
<1>5. Step(s, t, r) BY <1>2, <1>4, StepTwice
<1>6. Len(q1.att) \in Nat /\ q1.batt \in Nat BY <1>3, SoundFacts, RowFields
<1>7. q.bun = "reserved" /\ q.node \notin Commands OBVIOUS
<1> HIDE DEF t, q, q1, q2
<1>8. CalmCore(q) => CalmCore(q2)
  <2> SUFFICES ASSUME CalmCore(q) PROVE CalmCore(q2) OBVIOUS
  <2>1. ASSUME NEW i \in 1 .. Len(q1.att), q1.att[i] = "running", i # q1.batt PROVE FALSE
    <3>1. i \in 1 .. Len(q.att) BY <1>0, <1>2, <1>6, <2>1
    <3> QED BY <1>2, <1>7, <2>1, <3>1 DEF CalmCore
  <2> QED BY <1>2, <1>4, <1>7, <2>1 DEF CalmCore, SameStep
<1>9. q2.node = q.node BY <1>2, <1>4 DEF SameStep
<1>10. Act(s, t, r) BY <1>5, <1>7, <1>8, <1>9, ActorAct DEF q, q2
<1> QED BY <1>10 DEF t, u, Injected

(* The Delivery is over, and with it the attempt it carried. *)
BundleTo(s, r, b, to) == BundleRows([s EXCEPT !.run[r].bun = b], r, to)

LEMMA CloseAct ==
  ASSUME NEW s, Sound(s), s.status # "cancelled", ~s.err, NEW r \in Runs, s.run[r].node # "none",
         s.run[r].node \notin Commands, NEW b \in BundleState \ Owned, NEW row \in RowState,
         NEW to \in {"completed", "failed", "outcome_unknown"}, NEW reply,
         ~FinishCanonical(BundleTo(s, r, b, row), r, to, reply).err
  PROVE  Act(s, FinishCanonical(BundleTo(s, r, b, row), r, to, reply), r)
<1> DEFINE u == BundleTo(s, r, b, row)
           t == FinishCanonical(u, r, to, reply)
           q == s.run[r]
           q1 == u.run[r]
           q2 == t.run[r]
<1>0. s \in Tables /\ q \in RunRow /\ Len(q.att) \in Nat /\ q.node \notin Commands BY SoundFacts, RowFields
<1>1. /\ Step(s, u, r) /\ u.err = s.err /\ SameStep(q, q1) /\ q1.bun = b /\ q1.batt = q.batt
      /\ q1.att = q.att /\ q1.host = q.host
  BY BundleOnlyStep DEF BundleTo
<1> HIDE DEF u
<1>2. Sound(u) /\ u.status # "cancelled" /\ ~u.err /\ q1.node # "none" /\ ~t.err
  BY <1>1 DEF Step, SameStep, u
<1>3. /\ Step(u, t, r) /\ Closed(q1, q2)
      /\ \/ q2.st = q1.st /\ q2.got = q1.got
         \/ q2.st \in {"completed", "failed", "retrying"}
  BY <1>2, FinishCanonicalStep
<1>4. Step(s, t, r) BY <1>1, <1>3, StepTwice
<1> HIDE DEF t, q, q1, q2
<1>5. CalmCore(q) => CalmCore(q2)
  <2> SUFFICES ASSUME CalmCore(q) PROVE CalmCore(q2) OBVIOUS
  <2>1. \A i \in 1 .. Len(q2.att) : q2.att[i] # "running"
    <3> SUFFICES ASSUME NEW i \in 1 .. Len(q2.att), q2.att[i] = "running" PROVE FALSE OBVIOUS
    <3>1. Len(q2.att) = Len(q.att) /\ (i # q.batt => q2.att[i] = q.att[i])
          /\ (q.batt # 0 => q2.att[q.batt] # "running")
      BY <1>1, <1>3 DEF Closed, Live
    <3>2. i \in 1 .. Len(q.att) /\ i # 0 BY <1>0, <3>1
    <3> QED BY <3>1, <3>2 DEF CalmCore
  <2>2. q2.node = q.node /\ q2.host = q.host BY <1>1, <1>3 DEF Closed, SameStep
  <2>3. q2.host # "running"
    <3>1. RowOK(q2, t.status) BY <1>4, SoundFacts DEF Step, q2
    <3> QED BY <1>0, <2>2, <3>1 DEF RowOK
  <2>4. q2.st = "collecting" => q.st = "collecting" /\ q2.got = q.got BY <1>1, <1>3 DEF SameStep
  <2> QED BY <2>1, <2>2, <2>3, <2>4 DEF CalmCore
<1>6. q2.node = q.node BY <1>1, <1>3 DEF Closed, SameStep
<1>7. Act(s, t, r) BY <1>0, <1>4, <1>5, <1>6, ActorAct DEF q, q2
<1> QED BY <1>7 DEF t, u

LEMMA EndAct ==
  ASSUME NEW s, Sound(s), s.status # "cancelled", NEW r \in Runs, s.run[r].node # "none",
         s.run[r].node \notin Commands, NEW b \in BundleState \ Owned, NEW row \in RowState,
         \/ s.run[r].bun # "injected" \/ s.run[r].batt = 0 \/ s.run[r].att[s.run[r].batt] \notin Live
  PROVE  LET t == BundleTo(s, r, b, row) IN
         /\ Act(s, t, r) /\ SameStep(s.run[r], t.run[r]) /\ t.run[r].bun = b
         /\ t.run[r].batt = s.run[r].batt /\ t.run[r].att = s.run[r].att /\ t.run[r].host = s.run[r].host
         /\ t.err = s.err
<1> DEFINE t == BundleTo(s, r, b, row)
           q == s.run[r]
           q2 == t.run[r]
<1>0. s \in Tables /\ q \in RunRow /\ Len(q.att) \in Nat /\ q.node \notin Commands /\ q.batt \in Nat
      /\ RowOK(q, s.status)
  BY SoundFacts, RowFields
<1>1. /\ Step(s, t, r) /\ t.err = s.err /\ SameStep(q, q2) /\ q2.bun = b /\ q2.batt = q.batt
      /\ q2.att = q.att /\ q2.host = q.host
  BY BundleOnlyStep DEF BundleTo
<1>2. q.bun # "injected" \/ q.batt = 0 \/ q.att[q.batt] \notin Live OBVIOUS
<1> HIDE DEF t, q, q2
<1>3. CalmCore(q) => CalmCore(q2)
  <2> SUFFICES ASSUME CalmCore(q) PROVE CalmCore(q2) OBVIOUS
  <2>1. \A i \in 1 .. Len(q.att) : q.att[i] # "running" BY <1>0, <1>2 DEF CalmCore, Live
  <2> QED BY <1>0, <1>1, <2>1 DEF CalmCore, SameStep, RowOK
<1>4. Act(s, t, r) BY <1>0, <1>1, <1>3, ActorAct DEF SameStep, q, q2
<1> QED BY <1>1, <1>4 DEF t, q, q2

LEMMA FailBeforeAct ==
  ASSUME NEW s, Sound(s), s.status # "cancelled", ~s.err, NEW r \in Runs, s.run[r].node # "none",
         s.run[r].node \notin Commands, s.run[r].bun = "reserved", ~FailBefore(s, r).err
  PROVE  Act(s, FailBefore(s, r), r)
<1>1. "failed" \in BundleState \ Owned /\ "dead_lettered" \in BundleState \ Owned
      /\ "queued" \in RowState /\ "dead_lettered" \in RowState
  BY DEF BundleState, Owned, RowState
<1>2. CASE s.run[r].tries < MaxAttempts
  <2>1. FailBefore(s, r) = BundleTo(s, r, "failed", "queued") BY <1>2 DEF FailBefore, BundleTo
  <2> QED BY <1>1, <2>1, EndAct
<1>3. CASE ~(s.run[r].tries < MaxAttempts)
  <2>1. FailBefore(s, r) = FinishCanonical(BundleTo(s, r, "dead_lettered", "dead_lettered"), r, "failed", FALSE)
    BY <1>3 DEF FailBefore, BundleTo
  <2> QED BY <1>1, <2>1, CloseAct
<1> QED BY <1>2, <1>3

LEMMA PublishAct ==
  ASSUME NEW s, Sound(s), s.status # "cancelled", NEW r \in Runs, s.run[r].node # "none",
         s.run[r].node \notin Commands, MayWrite(s, r), NEW port \in OutPorts(s.run[r].node),
         NEW outcome, ~WriteOutput(s, r, port, outcome).err
  PROVE  Act(s, WriteOutput(s, r, port, outcome), r)
<1> DEFINE t == WriteOutput(s, r, port, outcome)
<1>1. s.status \notin {"completed", "cancelled"} BY DEF MayWrite, Ended
<1>2. /\ Step(s, t, r) /\ SameBundle(s.run[r], t.run[r])
      /\ t.run[r].st \in {"active", "completed", "waiting_external", "failed"}
  BY <1>1, WriteOutputStep
<1> HIDE DEF t
<1>3. CalmCore(s.run[r]) => CalmCore(t.run[r]) BY <1>2 DEF CalmCore, SameBundle
<1>4. Act(s, t, r) BY <1>2, <1>3, ActorAct DEF SameBundle
<1> QED BY <1>4 DEF t

Deferred(s, r) ==
  LET q == s.run[r]
      u == BundleTo(s, r, "deferred", IF q.batt # 0 THEN "held" ELSE "queued")
  IN  IF q.batt = 0 THEN [u EXCEPT !.run[r].tries = @ - 1]
      ELSE IF q.att[q.batt] \notin Live THEN u
      ELSE Reconcile(SetNode(FinishAttempt(u, r, q.batt, "failed"), r, "blocked"))

LEMMA DeferAct ==
  ASSUME NEW s, Sound(s), s.status # "cancelled", ~s.err, NEW r \in Runs, s.run[r].node # "none",
         s.run[r].node \notin Commands, ~Deferred(s, r).err
  PROVE  Act(s, Deferred(s, r), r)
<1> DEFINE q == s.run[r]
           row == IF q.batt # 0 THEN "held" ELSE "queued"
           u == BundleTo(s, r, "deferred", row)
           q1 == u.run[r]
<1>0. s \in Tables /\ q \in RunRow /\ Len(q.att) \in Nat /\ q.node \notin Commands /\ q.batt \in Nat
      /\ RowOK(q, s.status)
  BY SoundFacts, RowFields
<1>1. "deferred" \in BundleState \ Owned /\ "held" \in RowState /\ "queued" \in RowState
  BY DEF BundleState, Owned, RowState
<1>2. row \in RowState BY <1>1
<1> HIDE DEF row
<1>3. CASE q.batt = 0
  <2> DEFINE q2 == [q1 EXCEPT !.tries = @ - 1]
             t == [u EXCEPT !.run[r] = q2]
  <2>1. Act(s, u, r) /\ SameStep(q, q1) /\ q1.batt = 0 BY <1>1, <1>2, <1>3, EndAct
  <2>2. Deferred(s, r) = t BY <1>3 DEF Deferred, row
  <2> HIDE DEF u
  <2>3. Step(s, u, r) /\ Sound(u) /\ u.status # "cancelled" BY <2>1 DEF Act, Step
  <2>4. q1 \in RunRow /\ RowOK(q1, u.status) /\ RecordOK(q1, u.pause, r) /\ q1.tries \in Int
    BY <2>3, SoundFacts, RowFields
  <2>5. q1.tries - 1 \in Int BY <2>4
  <2> HIDE DEF q1
  <2>6. q2 \in RunRow BY <2>4, <2>5 DEF RunRow
  <2>7. /\ SameStep(q1, q2) /\ q2.bun = q1.bun /\ q2.bno = q1.bno /\ q2.batt = q1.batt /\ q2.att = q1.att
        /\ q2.host = q1.host
    BY <2>4 DEF RunRow, SameStep
  <2> HIDE DEF q2
  <2>8. RecordOK(q2, u.pause, r) BY <2>4, <2>7 DEF RecordOK, SameStep
  <2>9. q2.batt <= Len(q2.att) /\ (q2.host = "running" => q2.node \in Commands)
    BY <2>4, <2>7 DEF RowOK, SameStep
  <2>10. u.run[r] = q1 BY DEF q1
  <2>11. q1.node # "none" BY <2>1 DEF SameStep
  <2>12. Step(u, t, r) /\ t.run[r] = q2
    BY <2>3, <2>6, <2>7, <2>8, <2>9, <2>10, <2>11, EditStep DEF SameStep
  <2> HIDE DEF t
  <2>13. Step(s, t, r) BY <2>3, <2>12, StepTwice
  <2>14. CalmCore(q1) => CalmCore(q2) BY <2>7 DEF CalmCore, SameStep
  <2>15. CalmCore(s.run[r]) /\ Going(s) => CalmCore(t.run[r]) BY <2>1, <2>10, <2>12, <2>14 DEF Act
  <2>16. Act(s, t, r) BY <1>0, <2>1, <2>7, <2>12, <2>13, <2>15, ActorAct DEF SameStep
  <2> QED BY <2>2, <2>16
<1>4. CASE q.batt # 0 /\ q.att[q.batt] \notin Live
  <2>1. Act(s, u, r) BY <1>1, <1>2, <1>4, EndAct
  <2>2. Deferred(s, r) = u BY <1>4 DEF Deferred, row
  <2> QED BY <2>1, <2>2
<1>5. CASE q.batt # 0 /\ q.att[q.batt] \in Live
  <2> DEFINE i == q.batt
             f == FinishAttempt(u, r, i, "failed")
             w == SetNode(f, r, "blocked")
             t == Reconcile(w)
             q2 == f.run[r]
             q3 == w.run[r]
  <2>0. i \in 1 .. Len(q.att) BY <1>0, <1>5 DEF RowOK
  <2>1. /\ Step(s, u, r) /\ u.err = s.err /\ SameStep(q, q1) /\ q1.batt = q.batt
        /\ q1.att = q.att /\ q1.host = q.host
    BY <1>1, <1>2, BundleOnlyStep DEF BundleTo
  <2>2. Deferred(s, r) = t /\ ~t.err BY <1>5 DEF Deferred, row
  <2> HIDE DEF u
  <2>3. Sound(u) /\ u.status # "cancelled" /\ u \in Tables /\ q1 \in RunRow /\ q1.node # "none"
        /\ i \in 1 .. Len(q1.att)
    BY <2>0, <2>1, SoundFacts DEF Step, SameStep
  <2>4. "failed" \in AttemptStatus \ Live /\ "blocked" \in NodeStatus \ {"cancelled", "paused"}
    BY DEF AttemptStatus, Live, NodeStatus
  <2> HIDE DEF i
  <2>5. f \in Tables BY <2>3, <2>4, FinishAttemptIs
  <2> HIDE DEF f
  <2>6. w \in Tables /\ (f.err => w.err) BY <2>4, <2>5, SetNodeIs
  <2>7. w.err => t.err
    <3> HIDE DEF w
    <3> QED BY <2>6, ReconcileIs
  <2>8. ~w.err /\ ~f.err BY <2>2, <2>6, <2>7
  <2>9. Step(u, f, r) /\ q2 = [q1 EXCEPT !.att[i] = "failed"]
    BY <2>3, <2>4, <2>8, FinishAttemptStep DEF f
  <2> HIDE DEF q1
  <2>10. /\ q2.node = q1.node /\ q2.host = q1.host /\ q2.batt = q1.batt
         /\ q2.att = [q1.att EXCEPT ![i] = "failed"]
    BY <2>3, <2>9 DEF RunRow
  <2>11. Sound(f) /\ f.status # "cancelled" /\ q2 \in RunRow BY <2>9, SoundFacts DEF Step
  <2>12. Step(f, w, r) /\ q3 = [q2 EXCEPT !.st = "blocked"]
    BY <2>3, <2>4, <2>8, <2>10, <2>11, SetNodeStep
  <2> HIDE DEF w, q2
  <2>13. q3.node = q2.node /\ q3.host = q2.host /\ q3.att = q2.att /\ q3.st = "blocked"
    BY <2>11, <2>12 DEF RunRow
  <2>14. Step(w, t, r) /\ t.run = w.run
    <3>1. Sound(w) /\ w.status # "cancelled" BY <2>12 DEF Step
    <3> QED BY <2>2, <3>1, ReconcileStep
  <2>15. Step(s, t, r) BY <2>1, <2>9, <2>12, <2>14, StepTwice
  <2> HIDE DEF t, q3
  <2>16. t.run[r] = q3 BY <2>14 DEF q3
  <2>17. q3.node = q.node /\ q3.host = q.host BY <2>1, <2>10, <2>13 DEF SameStep
  <2>18. \A j \in 1 .. Len(q3.att) : j \in 1 .. Len(q.att) /\ q3.att[j] = IF j = i THEN "failed" ELSE q.att[j]
    <3>1. q.att \in Seq(AttemptStatus) BY <1>0, RowFields
    <3>2. q3.att = [q.att EXCEPT ![i] = "failed"] BY <2>1, <2>10, <2>13
    <3> HIDE DEF q
    <3> QED BY <3>1, <3>2
  <2>19. CalmCore(q) => CalmCore(q3)
    <3> SUFFICES ASSUME CalmCore(q) PROVE CalmCore(q3) OBVIOUS
    <3>1. q.host # "running" BY <1>0 DEF RowOK
    <3> HIDE DEF q
    <3>2. \A j \in 1 .. Len(q3.att) : q3.att[j] # "running" BY <2>18 DEF CalmCore, i
    <3> QED BY <2>13, <2>17, <3>1, <3>2 DEF CalmCore
  <2>20. Act(s, t, r) BY <1>0, <2>15, <2>16, <2>17, <2>19, ActorAct
  <2> QED BY <2>2, <2>20
<1> QED BY <1>3, <1>4, <1>5

-----------------------------------------------------------------------------
(* Retries, and the failure of a Command. *)

LEMMA WithBundleIs ==
  ASSUME NEW s \in Tables, NEW r \in Runs, NEW b, NEW h
  PROVE  [s EXCEPT !.run[r].bun = b, !.run[r].host = h] = WithBundle(s, r, b, h)
  BY DEF WithBundle, Tables, RunRow

LEMMA BundleTyped ==
  ASSUME NEW s \in Tables, NEW r \in Runs, NEW b \in BundleState, NEW h \in {"none", "running"},
         NEW to \in RowState
  PROVE  LET t == BundleRows(WithBundle(s, r, b, h), r, to) IN t \in Tables /\ t.err = s.err
<1> DEFINE q == [s.run[r] EXCEPT !.bun = b, !.host = h]
           u == [s EXCEPT !.run[r] = q]
<1>1. s.run[r] \in RunRow BY TableFields
<1>2. q \in RunRow BY <1>1 DEF RunRow
<1>3. WithBundle(s, r, b, h) = u BY DEF WithBundle
<1> HIDE DEF q
<1>4. u \in Tables /\ u.err = s.err BY <1>2, Put DEF Moves
<1> HIDE DEF u
<1>5. BundleRows(u, r, to) \in Tables /\ BundleRows(u, r, to).err = u.err BY <1>4, BundleRowsIs DEF Moves
<1> QED BY <1>3, <1>4, <1>5

LEMMA FinishAttemptTyped ==
  ASSUME NEW s \in Tables, NEW r \in Runs, NEW i \in Nat, NEW to \in AttemptStatus
  PROVE  LET t == FinishAttempt(s, r, i, to) IN t \in Tables /\ (s.err => t.err)
<1> DEFINE q == [s.run[r] EXCEPT !.att[i] = to]
<1>1. s.run[r] \in RunRow /\ s.run[r].att \in Seq(AttemptStatus) BY TableFields, RowFields
<1>2. [s.run[r].att EXCEPT ![i] = to] \in Seq(AttemptStatus)
  <2>1. CASE i \in 1 .. Len(s.run[r].att) BY <1>1, <2>1
  <2>2. CASE i \notin 1 .. Len(s.run[r].att)
    <3>1. [s.run[r].att EXCEPT ![i] = to] = s.run[r].att BY <1>1, <2>2
    <3> QED BY <1>1, <3>1
  <2> QED BY <2>1, <2>2
<1>3. q \in RunRow BY <1>1, <1>2 DEF RunRow
<1>4. CASE s.run[r].att[i] = to BY <1>4 DEF FinishAttempt
<1>5. CASE s.run[r].att[i] # to /\ s.run[r].att[i] \in Live
  <2>1. FinishAttempt(s, r, i, to) = [s EXCEPT !.run[r] = q] BY <1>5 DEF FinishAttempt
  <2> HIDE DEF q
  <2> QED BY <1>3, <2>1, Put DEF Moves
<1>6. CASE s.run[r].att[i] # to /\ s.run[r].att[i] \notin Live BY <1>6 DEF FinishAttempt, Tables
<1> QED BY <1>4, <1>5, <1>6

LEMMA RetriedTyped ==
  ASSUME NEW s \in Tables, NEW r \in Runs
  PROVE  Retried(s, r) \in Tables /\ (s.err => Retried(s, r).err)
<1> DEFINE w == SetNode(s, r, "retrying")
           v == BundleRows(w, r, "queued")
<1>1. w \in Tables /\ (s.err => w.err) BY SetNodeIs DEF NodeStatus
<1> HIDE DEF w
<1>2. v \in Tables /\ v.err = w.err BY <1>1, BundleRowsIs DEF Moves, RowState
<1> HIDE DEF v
<1>3. Retried(s, r) = [v EXCEPT !.status = IF @ \in {"failed", "blocked"} THEN "active" ELSE @]
  BY DEF Retried, v, w
<1> QED BY <1>1, <1>2, <1>3 DEF Tables, ScopeStatus

LEMMA RetriedStep ==
  ASSUME NEW s, Sound(s), s.status # "cancelled", ~s.err, NEW r \in Runs, MayRetry(s, r)
  PROVE  LET t == Retried(s, r) IN
         /\ Step(s, t, r) /\ ~t.err /\ SameBundle(s.run[r], t.run[r]) /\ t.run[r].st = "retrying"
<1> DEFINE q == s.run[r]
           w == SetNode(s, r, "retrying")
           q1 == w.run[r]
           v == BundleRows(w, r, "queued")
           t == [v EXCEPT !.status = IF @ \in {"failed", "blocked"} THEN "active" ELSE @]
<1>0. s \in Tables /\ q \in RunRow /\ q.node # "none" /\ q.st \in {"failed", "blocked"}
  BY SoundFacts DEF MayRetry, Exists
<1>1. "retrying" \in NodeStatus \ {"cancelled", "paused"} /\ "queued" \in RowState
  BY DEF NodeStatus, RowState
<1>2. w = [s EXCEPT !.run[r].st = "retrying"]
  <2>1. "retrying" \in NodeNext[q.st] BY <1>0 DEF NodeNext
  <2> QED BY <1>0, <2>1 DEF SetNode
<1>3. ~w.err BY <1>0, <1>2 DEF Tables
<1>4. Step(s, w, r) /\ q1 = [q EXCEPT !.st = "retrying"] BY <1>0, <1>1, <1>3, SetNodeStep
<1>5. SameBundle(q, q1) /\ q1.st = "retrying" BY <1>0, <1>4 DEF SameBundle, RunRow
<1> HIDE DEF w
<1>6. Sound(w) /\ w.status # "cancelled" /\ w \in Tables /\ q1 \in RunRow /\ RowOK(q1, w.status)
      /\ q1.bun \in BundleState /\ q1.host \in {"none", "running"} /\ q1.node # "none"
  <2>1. Sound(w) /\ w.status # "cancelled" BY <1>4 DEF Step
  <2>2. w \in Tables /\ q1 \in RunRow /\ RowOK(q1, w.status) BY <2>1, SoundFacts
  <2> QED BY <1>0, <1>5, <2>1, <2>2, RowFields DEF SameBundle
<1>7. WithBundle(w, r, q1.bun, q1.host) = w
  <2>1. [q1 EXCEPT !.bun = q1.bun, !.host = q1.host] = q1 BY <1>6 DEF RunRow
  <2> QED BY <1>6, <2>1 DEF WithBundle, Tables
<1>8. Step(w, v, r) /\ v.err = w.err /\ SameStep(q1, v.run[r]) /\ v.run[r].bun = q1.bun
      /\ v.run[r].bno = q1.bno /\ v.run[r].bset = q1.bset /\ v.run[r].batt = q1.batt
      /\ v.run[r].tries = q1.tries /\ v.run[r].att = q1.att /\ v.run[r].host = q1.host
  <2>1. q1.host = "running" => q1.node \in Commands BY <1>6 DEF RowOK
  <2>2. q1.bun \in BundleState /\ q1.host \in {"none", "running"} /\ q1.node # "none" BY <1>6
  <2> DEFINE b == q1.bun  h == q1.host
  <2>3. w.run[r].bun = b /\ w.run[r].host = h OBVIOUS
  <2>4. b \in BundleState /\ h \in {"none", "running"} /\ (h = "running" => w.run[r].node \in Commands)
        /\ w.run[r].node # "none" /\ WithBundle(w, r, b, h) = w
    BY <1>7, <2>1, <2>2
  <2> HIDE DEF b, h
  <2> QED BY <1>1, <1>6, <2>3, <2>4, BundleStep
<1> HIDE DEF v
<1>9. Sound(v) /\ v.status # "cancelled" /\ v \in Tables BY <1>8, SoundFacts DEF Step
<1>10. t \in Tables /\ t.run = v.run /\ t.pause = v.pause /\ t.pauses = v.pauses /\ t.err = v.err
       /\ (t.status = v.status \/ t.status = "active")
  BY <1>9 DEF Tables, ScopeStatus
<1>11. Retried(s, r) = t BY DEF Retried, v, w
<1> HIDE DEF t
<1>12. Step(v, t, r) BY <1>9, <1>10, StatusStep
<1>13. Step(s, t, r) BY <1>4, <1>8, <1>12, StepTwice
<1>14. SameBundle(q, t.run[r]) /\ t.run[r].st = "retrying" BY <1>5, <1>8, <1>10 DEF SameBundle, SameStep
<1>15. ~t.err
  <2>1. v.err = w.err /\ t.err = v.err BY <1>8, <1>10
  <2> QED BY <1>3, <2>1
<1> QED BY <1>11, <1>13, <1>14, <1>15

LEMMA RetryAct ==
  ASSUME NEW s, Sound(s), s.status # "cancelled", ~s.err, NEW r \in Runs, MayRetry(s, r), LiveOK(s.run[r])
  PROVE  Act(s, Retried(s, r), r)
<1> DEFINE t == Retried(s, r)
           q == s.run[r]
           q2 == t.run[r]
<1>1. Step(s, t, r) /\ SameBundle(q, q2) /\ q2.st = "retrying" /\ LiveOK(q) BY RetriedStep
<1> HIDE DEF t, q, q2
<1>2. LiveOK(q2) BY <1>1 DEF LiveOK, SameBundle, Ended
<1>3. NotReplayed(q, q2) BY <1>1 DEF NotReplayed, SameBundle, Live
<1>4. CalmCore(q) => CalmCore(q2) BY <1>1 DEF CalmCore, SameBundle
<1>5. Act(s, t, r) BY <1>1, <1>2, <1>3, <1>4 DEF Act, q, q2
<1> QED BY <1>5 DEF t

LEMMA FailCommandIs ==
  ASSUME NEW s \in Tables, NEW r \in Runs, NEW to
  PROVE  LET i == s.run[r].batt
             b == BundleRows(WithBundle(s, r, "dead_lettered", "none"), r, "dead_lettered")
             f == FinishAttempt(b, r, i, to)
             w == SetNode(f, r, "failed")
             t == FailCommand(s, r, to)
         IN  \/ (i = 0 \/ s.run[r].att[i] \notin Live) /\ t = b
             \/ i # 0 /\ s.run[r].att[i] \in Live /\ s.run[r].st \in Ended /\ t = f
             \/ i # 0 /\ s.run[r].att[i] \in Live /\ s.run[r].st \notin Ended /\ t = w
             \/ i # 0 /\ s.run[r].att[i] \in Live /\ s.run[r].st \notin Ended /\ t = SetExecution(w, "failed")
<1> DEFINE u == [s EXCEPT !.run[r].bun = "dead_lettered", !.run[r].host = "none"]
           i == s.run[r].batt
           b == BundleRows(u, r, "dead_lettered")
           f == FinishAttempt(b, r, i, to)
           w == SetNode(f, r, "failed")
           t == FailCommand(s, r, to)
<1>1. u = WithBundle(s, r, "dead_lettered", "none") BY DEF WithBundle, Tables, RunRow
<1>2. \/ (i = 0 \/ s.run[r].att[i] \notin Live) /\ t = b
      \/ i # 0 /\ s.run[r].att[i] \in Live /\ s.run[r].st \in Ended /\ t = f
      \/ i # 0 /\ s.run[r].att[i] \in Live /\ s.run[r].st \notin Ended /\ t = w
      \/ i # 0 /\ s.run[r].att[i] \in Live /\ s.run[r].st \notin Ended /\ t = SetExecution(w, "failed")
  <2>1. t = IF i = 0 \/ s.run[r].att[i] \notin Live THEN b
            ELSE IF s.run[r].st \in Ended THEN f
            ELSE IF s.status \in Ended THEN w ELSE SetExecution(w, "failed")
    BY DEF FailCommand
  <2> HIDE DEF t, b, f, w, i
  <2> QED BY <2>1
<1> HIDE DEF u
<1> QED BY <1>1, <1>2

LEMMA FailCommandTyped ==
  ASSUME NEW s \in Tables, NEW r \in Runs, NEW to \in {"failed", "outcome_unknown"}
  PROVE  FailCommand(s, r, to) \in Tables /\ (s.err => FailCommand(s, r, to).err)
<1> DEFINE i == s.run[r].batt
           b == BundleRows(WithBundle(s, r, "dead_lettered", "none"), r, "dead_lettered")
           f == FinishAttempt(b, r, i, to)
           w == SetNode(f, r, "failed")
           x == SetExecution(w, "failed")
           t == FailCommand(s, r, to)
<1>1. t \in {b, f, w, x} BY FailCommandIs
<1>2. "dead_lettered" \in BundleState /\ "dead_lettered" \in RowState /\ to \in AttemptStatus
      /\ "failed" \in NodeStatus /\ "failed" \in ScopeStatus /\ i \in Nat
  BY TableFields, RowFields DEF BundleState, RowState, AttemptStatus, NodeStatus, ScopeStatus
<1> HIDE DEF t, i
<1>3. b \in Tables /\ b.err = s.err BY <1>2, BundleTyped
<1> HIDE DEF b
<1>4. f \in Tables /\ (b.err => f.err) BY <1>2, <1>3, FinishAttemptTyped
<1> HIDE DEF f
<1>5. w \in Tables /\ (f.err => w.err) BY <1>2, <1>4, SetNodeIs
<1> HIDE DEF w
<1>6. x \in Tables /\ (w.err => x.err) BY <1>2, <1>5, SetExecutionIs
<1> HIDE DEF x
<1>7. s.err => b.err BY <1>3
<1>8. t \in Tables /\ (s.err => t.err) BY <1>1, <1>3, <1>4, <1>5, <1>6, <1>7
<1> QED BY <1>8 DEF t

(* No attempt of a Command is left open. *)
Shut(q, q2) ==
  /\ q2.node = q.node /\ q2.bun = "dead_lettered" /\ q2.host = "none"
  /\ \A i \in 1 .. Len(q2.att) : q2.att[i] \notin Live
  /\ (q2.st = q.st /\ q2.att = q.att /\ q2.got = q.got) \/ q2.st = "failed"

LEMMA FailCommandStep ==
  ASSUME NEW s, Sound(s), s.status # "cancelled", NEW r \in Runs, s.run[r].node \in Commands,
         LiveOK(s.run[r]), NEW to \in {"failed", "outcome_unknown"}, ~FailCommand(s, r, to).err
  PROVE  Step(s, FailCommand(s, r, to), r) /\ Shut(s.run[r], FailCommand(s, r, to).run[r])
<1> DEFINE q == s.run[r]
           i == q.batt
           b == BundleRows(WithBundle(s, r, "dead_lettered", "none"), r, "dead_lettered")
           f == FinishAttempt(b, r, i, to)
           w == SetNode(f, r, "failed")
           x == SetExecution(w, "failed")
           t == FailCommand(s, r, to)
           q1 == b.run[r]
           q2 == f.run[r]
           q3 == w.run[r]
<1>0. /\ s \in Tables /\ q \in RunRow /\ RowOK(q, s.status) /\ Len(q.att) \in Nat /\ i \in Nat
      /\ q.att \in Seq(AttemptStatus)
  BY SoundFacts, RowFields
<1>1. /\ "dead_lettered" \in BundleState /\ "dead_lettered" \in RowState /\ "dead_lettered" \notin Owned
      /\ to \in AttemptStatus \ Live /\ "failed" \in NodeStatus \ {"cancelled", "paused"}
      /\ "failed" \in ScopeStatus
  BY DEF BundleState, RowState, Owned, AttemptStatus, Live, NodeStatus, ScopeStatus
<1>2. q.node \in Commands /\ q.node # "none" /\ LiveOK(q) /\ ~t.err BY Constants
<1>3. \/ (i = 0 \/ q.att[i] \notin Live) /\ t = b
      \/ i # 0 /\ q.att[i] \in Live /\ q.st \in Ended /\ t = f
      \/ i # 0 /\ q.att[i] \in Live /\ q.st \notin Ended /\ t = w
      \/ i # 0 /\ q.att[i] \in Live /\ q.st \notin Ended /\ t = x
  BY <1>0, FailCommandIs
<1> HIDE DEF t
<1>4. /\ Step(s, b, r) /\ b.err = s.err /\ SameStep(q, q1) /\ q1.bun = "dead_lettered"
      /\ q1.batt = q.batt /\ q1.att = q.att /\ q1.host = "none"
  BY <1>1, <1>2, BundleStep
<1> HIDE DEF b
<1>5. Sound(b) /\ b.status # "cancelled" /\ b \in Tables /\ q1 \in RunRow BY <1>4, SoundFacts DEF Step
<1>6. \A j \in 1 .. Len(q.att) : q.att[j] \in Live => j = i /\ q.st \notin Ended BY <1>2 DEF LiveOK
<1>7. CASE (i = 0 \/ q.att[i] \notin Live) /\ t = b
  <2>1. \A j \in 1 .. Len(q.att) : q.att[j] \notin Live BY <1>0, <1>6, <1>7
  <2> HIDE DEF q, q1, i
  <2>2. Shut(q, q1) BY <1>4, <2>1 DEF Shut, SameStep
  <2> QED BY <1>4, <1>7, <2>2 DEF t, q, q1
<1>8. CASE i # 0 /\ q.att[i] \in Live
  <2>1. i \in 1 .. Len(q.att) BY <1>0, <1>8 DEF RowOK
  <2>2. q.st \notin Ended BY <1>6, <1>8, <2>1
  <2>3. t \in {w, x} BY <1>3, <1>8, <2>2
  <2>4. i \in 1 .. Len(q1.att) BY <1>4, <2>1
  <2> HIDE DEF i
  <2>5. f \in Tables BY <1>1, <1>5, <2>4, FinishAttemptIs
  <2> HIDE DEF f
  <2>6. w \in Tables /\ (f.err => w.err) BY <1>1, <2>5, SetNodeIs
  <2>7. w.err => x.err
    <3> HIDE DEF w
    <3> QED BY <1>1, <2>6, SetExecutionIs
  <2>8. ~w.err /\ ~f.err BY <1>2, <2>3, <2>6, <2>7
  <2>9. Step(b, f, r) /\ q2 = [q1 EXCEPT !.att[i] = to]
    <3>1. q1.node # "none" BY <1>2, <1>4 DEF SameStep
    <3>2. ~FinishAttempt(b, r, i, to).err BY <2>8 DEF f
    <3>3. Sound(b) /\ b.status # "cancelled" /\ to \in AttemptStatus \ Live BY <1>1, <1>5
    <3> QED BY <2>4, <3>1, <3>2, <3>3, FinishAttemptStep DEF f
  <2> HIDE DEF q1
  <2>10. q2.node = q1.node /\ q2.host = q1.host /\ q2.bun = q1.bun /\ q2.att = [q1.att EXCEPT ![i] = to]
    BY <1>5, <2>9 DEF RunRow
  <2>11. Sound(f) /\ f.status # "cancelled" /\ q2 \in RunRow /\ q2.node = q.node
    BY <1>4, <2>9, <2>10, SoundFacts DEF Step, SameStep
  <2>12. Step(f, w, r) /\ q3 = [q2 EXCEPT !.st = "failed"] BY <1>1, <1>2, <2>8, <2>11, SetNodeStep
  <2> HIDE DEF w, q2
  <2>13. q3.node = q2.node /\ q3.host = q2.host /\ q3.bun = q2.bun /\ q3.att = q2.att /\ q3.st = "failed"
    BY <2>11, <2>12 DEF RunRow
  <2>14. Step(w, t, r) /\ t.run = w.run
    <3>1. Sound(w) /\ w.status # "cancelled" BY <2>12 DEF Step
    <3>2. CASE t = w BY <3>1, <3>2, StepNone
    <3>3. CASE t = x
      <4>1. ~SetExecution(w, "failed").err BY <1>2, <3>3
      <4> QED BY <3>1, <3>3, <4>1, SetExecutionStep
    <3> QED BY <2>3, <3>2, <3>3
  <2>15. Step(s, t, r) BY <1>4, <2>9, <2>12, <2>14, StepTwice
  <2> HIDE DEF q3
  <2>16. t.run[r] = q3 BY <2>14 DEF q3
  <2>17. q3.att = [q.att EXCEPT ![i] = to] BY <1>4, <2>10, <2>13
  <2>18. q.batt = i BY DEF i
  <2> HIDE DEF q
  <2>19. \A j \in 1 .. Len(q3.att) : q3.att[j] \notin Live BY <1>0, <1>1, <1>6, <2>1, <2>17
  <2>20. Shut(q, q3) BY <1>4, <2>10, <2>11, <2>13, <2>19 DEF Shut
  <2> QED BY <2>15, <2>16, <2>20 DEF t, q
<1> QED BY <1>3, <1>7, <1>8

(* The Bus does not start an external Command again. *)
NoReplay(q, q2) ==
  q.node \in External => (q2.att = q.att /\ q2.st = q.st) \/ q2.st \notin {"retrying", "active"}

LEMMA ShutRow ==
  ASSUME NEW q, NEW q2, Shut(q, q2)
  PROVE  LiveOK(q2) /\ NoReplay(q, q2) /\ NotReplayed(q, q2) /\ (CalmCore(q) => CalmCore(q2))
<1>1. LiveOK(q2) BY DEF Shut, LiveOK
<1>2. NoReplay(q, q2) BY DEF Shut, NoReplay
<1>3. NotReplayed(q, q2) BY DEF Shut, NotReplayed, Live
<1>4. CalmCore(q) => CalmCore(q2) BY DEF Shut, CalmCore, Live
<1> QED BY <1>1, <1>2, <1>3, <1>4

LEMMA LostType ==
  ASSUME NEW q
  PROVE  Lost(q) \in {"failed", "outcome_unknown"}
  BY DEF Lost

LEMMA CommandLostTyped ==
  ASSUME NEW s \in Tables, NEW r \in Runs
  PROVE  CommandLost(s, r) \in Tables /\ (s.err => CommandLost(s, r).err)
<1> DEFINE u == FailCommand(s, r, Lost(s.run[r]))
<1>1. u \in Tables /\ (s.err => u.err) BY LostType, FailCommandTyped
<1>2. CommandLost(s, r) \in {u, Retried(u, r)} BY DEF CommandLost
<1> HIDE DEF u
<1> QED BY <1>1, <1>2, RetriedTyped

LEMMA CommandLostStep ==
  ASSUME NEW s, Sound(s), s.status # "cancelled", NEW r \in Runs, s.run[r].node \in Commands,
         LiveOK(s.run[r]), ~CommandLost(s, r).err
  PROVE  LET t == CommandLost(s, r)
             q == s.run[r]
             q2 == t.run[r]
         IN  /\ Step(s, t, r) /\ q2.node = q.node /\ LiveOK(q2) /\ NoReplay(q, q2)
             /\ CalmCore(q) => CalmCore(q2)
<1> DEFINE u == FailCommand(s, r, Lost(s.run[r]))
           q == s.run[r]
           q1 == u.run[r]
           t == CommandLost(s, r)
           q2 == t.run[r]
<1>0. s \in Tables /\ Lost(q) \in {"failed", "outcome_unknown"} BY SoundFacts, LostType
<1>1. u \in Tables BY <1>0, FailCommandTyped
<1>2. t = u \/ (q.node \notin External /\ MayRetry(u, r) /\ t = Retried(u, r)) BY DEF CommandLost
<1>3. ~u.err
  <2> HIDE DEF u, t
  <2>1. ~t.err BY DEF t
  <2> QED BY <1>1, <1>2, <2>1, RetriedTyped
<1>4. Step(s, u, r) /\ Shut(q, q1) BY <1>0, <1>3, FailCommandStep
<1> HIDE DEF u, t
<1>5. LiveOK(q1) /\ NoReplay(q, q1) /\ (CalmCore(q) => CalmCore(q1)) /\ q1.node = q.node
  BY <1>4, ShutRow DEF Shut
<1>6. CASE t = u BY <1>4, <1>5, <1>6 DEF t
<1>7. CASE q.node \notin External /\ MayRetry(u, r) /\ t = Retried(u, r)
  <2>1. Sound(u) /\ u.status # "cancelled" BY <1>4 DEF Step
  <2>2. Step(u, t, r) /\ SameBundle(q1, q2) /\ q2.st = "retrying" BY <1>3, <1>7, <2>1, RetriedStep
  <2>3. Step(s, t, r) BY <1>4, <2>2, StepTwice
  <2> HIDE DEF q, q1, q2
  <2>4. LiveOK(q2) BY <1>5, <2>2 DEF LiveOK, SameBundle, Ended
  <2>5. NoReplay(q, q2) BY <1>7 DEF NoReplay
  <2>6. CalmCore(q1) => CalmCore(q2) BY <2>2 DEF CalmCore, SameBundle
  <2>7. q2.node = q.node BY <1>5, <2>2 DEF SameBundle
  <2> QED BY <1>5, <2>3, <2>4, <2>5, <2>6, <2>7 DEF t, q, q2
<1> QED BY <1>2, <1>6, <1>7

(* Several node executions move, one after the other. *)
Works(s, t) ==
  /\ Sound(t) /\ t.status # "cancelled" /\ t.pause = s.pause /\ t.pauses = s.pauses
  /\ Going(s) => Going(t)
  /\ \A x \in Runs :
       /\ LiveOK(t.run[x]) /\ NoReplay(s.run[x], t.run[x])
       /\ s.run[x].node # "none" => t.run[x].node = s.run[x].node
  /\ Going(s) /\ (\A x \in Runs : CalmCore(s.run[x])) => \A x \in Runs : CalmCore(t.run[x])

LEMMA WorksTwice ==
  ASSUME NEW s, NEW t, NEW u, Works(s, t), Works(t, u)
  PROVE  Works(s, u)
<1>1. ASSUME NEW x \in Runs
      PROVE  NoReplay(s.run[x], u.run[x]) /\ (s.run[x].node # "none" => u.run[x].node = s.run[x].node)
  <2> DEFINE q == s.run[x]  q2 == t.run[x]  q3 == u.run[x]
  <2>1. NoReplay(q, q2) /\ (q.node # "none" => q2.node = q.node) BY DEF Works
  <2>2. NoReplay(q2, q3) /\ (q2.node # "none" => q3.node = q2.node) BY DEF Works
  <2>3. q.node \in External => q.node # "none" BY Constants
  <2> HIDE DEF q, q2, q3
  <2>4. NoReplay(q, q3) /\ (q.node # "none" => q3.node = q.node) BY <2>1, <2>2, <2>3 DEF NoReplay
  <2> QED BY <2>4 DEF q, q3
<1> QED BY <1>1 DEF Works

LEMMA RouteKeeps ==
  ASSUME NEW q, NEW q2, RouteOf(q, q2), LiveOK(q), q.node = "none" => q = NoRun
  PROVE  /\ LiveOK(q2) /\ NoReplay(q, q2) /\ NotReplayed(q, q2)
         /\ q.node # "none" => q2.node = q.node
         /\ CalmCore(q) => CalmCore(q2)
<1>1. CASE q2 = q BY <1>1 DEF NoReplay, NotReplayed, Live
<1>2. CASE Collects(q, q2)
  <2>1. SameWork(q, q2) /\ q2.st \in {"collecting", "ready"} /\ (q.node # "none" => q2.node = q.node)
        /\ (q2.st = "collecting" => q2.got # InPorts[q2.node])
    BY <1>2 DEF Collects
  <2>2. LiveOK(q2)
    <3>1. CASE q.node = "none"
      <4>1. q2.att = <<>> /\ Len(q2.att) = 0 /\ q2.host = "none" BY <2>1, <3>1, NoRunIsRow DEF SameWork, NoRun
      <4> QED BY <4>1 DEF LiveOK
    <3>2. CASE q.node # "none" BY <2>1, <3>2 DEF LiveOK, SameWork, Ended
    <3> QED BY <3>1, <3>2
  <2>3. NoReplay(q, q2) BY <2>1 DEF NoReplay
  <2>4. NotReplayed(q, q2) BY <2>1 DEF NotReplayed
  <2>5. CalmCore(q) => CalmCore(q2) BY <2>1 DEF CalmCore, SameWork
  <2> QED BY <2>1, <2>2, <2>3, <2>4, <2>5
<1> QED BY <1>1, <1>2 DEF RouteOf

LEMMA StepWorks ==
  ASSUME NEW s, Sound(s), Accounted(s), NEW r \in Runs, NEW t, Step(s, t, r),
         LiveOK(t.run[r]), NoReplay(s.run[r], t.run[r]), t.run[r].node = s.run[r].node,
         Going(s) /\ CalmCore(s.run[r]) => CalmCore(t.run[r])
  PROVE  Works(s, t)
<1>1. ASSUME NEW x \in Runs, x # r
      PROVE  /\ LiveOK(t.run[x]) /\ NoReplay(s.run[x], t.run[x])
             /\ s.run[x].node # "none" => t.run[x].node = s.run[x].node
             /\ CalmCore(s.run[x]) => CalmCore(t.run[x])
  <2>1. RouteOf(s.run[x], t.run[x]) /\ LiveOK(s.run[x]) /\ RowOK(s.run[x], s.status)
    BY <1>1, SoundFacts DEF Step, Accounted
  <2>2. s.run[x].node = "none" => s.run[x] = NoRun BY <2>1 DEF RowOK
  <2> QED BY <2>1, <2>2, RouteKeeps
<1> QED BY <1>1 DEF Works, Step

LEMMA LoseEachIs ==
  ASSUME NEW s, NEW runs, Len(runs) \in Nat
  PROVE  LET f == LoseEach(s, runs) IN
         /\ f[0] = s
         /\ \A i \in 1 .. Len(runs) : f[i] = CommandLost(f[i - 1], runs[i])
<1> DEFINE n == Len(runs)
           Is(f, k) == f = [i \in 0 .. k |-> IF i = 0 THEN s ELSE CommandLost(f[i - 1], runs[i])]
           T == {k \in Nat : k <= n /\ ~ \E f : Is(f, k)}
<1>1. \E f : Is(f, n)
  <2> SUFFICES ASSUME n \in T PROVE FALSE OBVIOUS
  <2>1. PICK x \in T : \A y \in T : ~(y < x) BY Least
  <2>2. x # 0
    <3>1. Is([i \in 0 .. 0 |-> s], 0) OBVIOUS
    <3> QED BY <2>1, <3>1
  <2>3. x - 1 \in Nat /\ x - 1 < x /\ x - 1 <= n BY <2>1, <2>2
  <2>4. PICK f : Is(f, x - 1) BY <2>1, <2>3
  <2> DEFINE g == [i \in 0 .. x |-> IF i = x THEN CommandLost(f[x - 1], runs[x]) ELSE f[i]]
  <2>5. \A i \in 0 .. x - 1 : g[i] = f[i] BY <2>3
  <2>6. ASSUME NEW i \in 0 .. x PROVE g[i] = IF i = 0 THEN s ELSE CommandLost(g[i - 1], runs[i])
    <3>1. CASE i = x
      <4>1. g[i] = CommandLost(f[x - 1], runs[x]) /\ x - 1 \in 0 .. x - 1 BY <3>1, <2>3
      <4>2. g[x - 1] = f[x - 1] BY <4>1, <2>5
      <4> HIDE DEF g
      <4> QED BY <2>2, <3>1, <4>1, <4>2
    <3>2. CASE i # x
      <4>1. i \in 0 .. x - 1 BY <3>2, <2>3
      <4>2. f[i] = IF i = 0 THEN s ELSE CommandLost(f[i - 1], runs[i]) BY <2>4, <4>1
      <4>3. i # 0 => i - 1 \in 0 .. x - 1 BY <4>1, <2>3
      <4>4. g[i] = f[i] /\ (i # 0 => g[i - 1] = f[i - 1]) BY <2>5, <4>1, <4>3
      <4> HIDE DEF g
      <4> QED BY <4>2, <4>4
    <3> QED BY <3>1, <3>2
  <2>7. Is(g, x) BY <2>6
  <2> HIDE DEF g
  <2> QED BY <2>1, <2>7
<1> DEFINE h == CHOOSE f : Is(f, n)
<1>2. LoseEach(s, runs) = h BY DEF LoseEach
<1>3. Is(h, n) BY <1>1
<1> HIDE DEF h
<1>4. h[0] = s /\ \A i \in 1 .. n : h[i] = CommandLost(h[i - 1], runs[i]) BY <1>3
<1> QED BY <1>2, <1>4

LEMMA LoseAllIs ==
  ASSUME NEW s, Sound(s), Accounted(s), s.status # "cancelled", ~LoseAll(s, InjectedCommands(s)).err
  PROVE  Works(s, LoseAll(s, InjectedCommands(s)))
<1> DEFINE runs == InjectedCommands(s)
           n == Cardinality(runs)
           seq == SetToSeq(runs)
           f == LoseEach(s, seq)
           Good(t) == t \in Tables /\ (~t.err => Works(s, t))
           T == {i \in Nat : i <= n /\ ~Good(f[i])}
<1>1. runs \subseteq Runs /\ \A r \in runs : s.run[r].node \in Commands
  BY DEF InjectedCommands, Made, IsCommand
<1>2. IsFiniteSet(runs)
  <2>1. IsFiniteSet(1 .. MaxRuns) BY Constants, FS_Interval
  <2> QED BY <1>1, <2>1, FS_Subset DEF Runs
<1>3. n \in Nat /\ Len(seq) = n /\ \A i \in 1 .. n : seq[i] \in runs BY <1>2, Listed
<1>4. LoseAll(s, runs) = f[n] BY DEF LoseAll
<1> HIDE DEF n, seq, runs
<1>5. f[0] = s /\ \A i \in 1 .. n : f[i] = CommandLost(f[i - 1], seq[i]) BY <1>3, LoseEachIs
<1> HIDE DEF f
<1>6. Good(s)
  <2>1. s \in Tables BY SoundFacts
  <2>2. Works(s, s) BY DEF Works, Accounted, NoReplay
  <2> QED BY <2>1, <2>2
<1>7. T = {}
  <2> SUFFICES ASSUME T # {} PROVE FALSE OBVIOUS
  <2>1. PICK x \in T : \A y \in T : ~(y < x) BY Least
  <2>2. x # 0 BY <1>5, <1>6, <2>1
  <2>3. x \in 1 .. n /\ x - 1 \in Nat /\ x - 1 < x /\ x - 1 <= n BY <1>3, <2>1, <2>2
  <2> DEFINE u == f[x - 1]  t == f[x]  r == seq[x]
  <2>4. Good(u) BY <2>1, <2>3
  <2>5. t = CommandLost(u, r) /\ r \in runs BY <1>3, <1>5, <2>3
  <2>6. ~Good(t) BY <2>1
  <2> HIDE DEF u, t, r
  <2>7. r \in Runs /\ s.run[r].node \in Commands BY <1>1, <2>5
  <2>8. t \in Tables /\ (u.err => t.err) BY <2>4, <2>5, <2>7, CommandLostTyped
  <2>9. ASSUME ~t.err PROVE Works(s, t)
    <3>1. Works(s, u) BY <2>4, <2>8, <2>9
    <3>2. Sound(u) /\ Accounted(u) /\ u.status # "cancelled" /\ u.run[r].node = s.run[r].node
      BY <2>7, <3>1, Constants DEF Works, Accounted
    <3>3. u.run[r].node \in Commands /\ LiveOK(u.run[r]) /\ ~CommandLost(u, r).err
      BY <2>5, <2>7, <2>9, <3>2 DEF Accounted
    <3>4. /\ Step(u, t, r) /\ t.run[r].node = u.run[r].node /\ LiveOK(t.run[r])
          /\ NoReplay(u.run[r], t.run[r]) /\ (CalmCore(u.run[r]) => CalmCore(t.run[r]))
      BY <2>5, <2>7, <3>2, <3>3, CommandLostStep
    <3>5. Works(u, t) BY <2>7, <3>2, <3>4, StepWorks
    <3> QED BY <3>1, <3>5, WorksTwice
  <2> QED BY <2>6, <2>8, <2>9
<1>8. Good(f[n]) BY <1>3, <1>7
<1>9. ~f[n].err BY <1>4 DEF runs
<1>10. Works(s, f[n]) BY <1>8, <1>9
<1> QED BY <1>4, <1>10 DEF runs

(* The first of several outputs is on record when the Bus dies. *)
LEMMA WaitingNotCompleted ==
  ASSUME NEW s, Sound(s), NEW r \in Runs, s.run[r].node # "none", NEW port \in OutPorts(s.run[r].node),
         ~WriteOutput(s, r, port, "waiting").err
  PROVE  s.status # "completed"
<1> SUFFICES ASSUME s.status = "completed" PROVE FALSE OBVIOUS
<1> DEFINE u == RoutePublication(s, s.run[r].node, port)
           v == Published(u, r, port)
           w == SetNode(v, r, "waiting_external")
<1>0. s \in Tables /\ Unmade(s) /\ s.run[r] \in RunRow /\ RowOK(s.run[r], s.status) BY SoundFacts
<1>1. s.run[r].st = "completed" BY <1>0 DEF RowOK
<1>2. Routed(s, u) BY <1>0, RouteAllIs DEF RoutePublication, EdgesFrom
<1>3. WriteOutput(s, r, port, "waiting") = Reconcile(w) BY DEF WriteOutput
<1> HIDE DEF u
<1>4. u \in Tables /\ u.run[r] = s.run[r] BY <1>1, <1>2 DEF Routed, RouteOf, Collects
<1>5. port \in AllPorts BY <1>0, RowFields DEF AllPorts
<1>6. v \in Tables /\ v.run[r].st = "completed"
  <2> DEFINE q2 == [u.run[r] EXCEPT !.out = u.run[r].out \cup {port}]
  <2>1. q2 \in RunRow /\ q2.st = "completed" BY <1>0, <1>1, <1>4, <1>5 DEF RunRow
  <2>2. v = [u EXCEPT !.run[r] = q2] BY DEF Published
  <2> HIDE DEF q2, v
  <2>3. Moves(u, v, r, q2) BY <1>4, <2>1, <2>2, Put
  <2>4. v.run[r] = q2 BY <1>4, <2>3, MoveRows
  <2> QED BY <2>1, <2>3, <2>4 DEF Moves
<1> HIDE DEF v
<1>7. "waiting_external" \in NodeStatus /\ "waiting_external" \notin NodeNext["completed"]
  BY DEF NodeStatus, NodeNext
<1>8. w \in Tables /\ w.err
  <2>1. w \in Tables BY <1>6, <1>7, SetNodeIs
  <2>2. ~w.err => FALSE BY <1>6, <1>7, SetNodeIs
  <2> QED BY <2>1, <2>2
<1> HIDE DEF w
<1> QED BY <1>3, <1>8, ReconcileIs

LEMMA LoseAllTyped ==
  ASSUME NEW s \in Tables, s.err
  PROVE  LoseAll(s, InjectedCommands(s)).err
<1> DEFINE runs == InjectedCommands(s)
           n == Cardinality(runs)
           seq == SetToSeq(runs)
           f == LoseEach(s, seq)
           T == {i \in Nat : i <= n /\ ~(f[i] \in Tables /\ f[i].err)}
<1>1. runs \subseteq Runs BY DEF InjectedCommands, Made
<1>2. IsFiniteSet(runs)
  <2>1. IsFiniteSet(1 .. MaxRuns) BY Constants, FS_Interval
  <2> QED BY <1>1, <2>1, FS_Subset DEF Runs
<1>3. n \in Nat /\ Len(seq) = n /\ \A i \in 1 .. n : seq[i] \in runs BY <1>2, Listed
<1>4. LoseAll(s, runs) = f[n] BY DEF LoseAll
<1> HIDE DEF n, seq, runs
<1>5. f[0] = s /\ \A i \in 1 .. n : f[i] = CommandLost(f[i - 1], seq[i]) BY <1>3, LoseEachIs
<1> HIDE DEF f
<1>6. T = {}
  <2> SUFFICES ASSUME T # {} PROVE FALSE OBVIOUS
  <2>1. PICK x \in T : \A y \in T : ~(y < x) BY Least
  <2>2. x # 0 BY <1>5, <2>1
  <2>3. x \in 1 .. n /\ x - 1 \in Nat /\ x - 1 < x /\ x - 1 <= n BY <1>3, <2>1, <2>2
  <2>4. f[x - 1] \in Tables /\ f[x - 1].err BY <2>1, <2>3
  <2>5. f[x] = CommandLost(f[x - 1], seq[x]) /\ seq[x] \in Runs BY <1>1, <1>3, <1>5, <2>3
  <2>6. f[x] \in Tables /\ f[x].err BY <2>4, <2>5, CommandLostTyped
  <2> QED BY <2>1, <2>6
<1>7. f[n].err BY <1>3, <1>6
<1> QED BY <1>4, <1>7 DEF runs

LEMMA PublishThenLoseIs ==
  ASSUME NEW s, Sound(s), Accounted(s), s.status # "cancelled", NEW r \in Runs,
         s.run[r].node \in Commands, NEW port \in OutPorts(s.run[r].node),
         ~LoseAll(WriteOutput(s, r, port, "waiting"), InjectedCommands(WriteOutput(s, r, port, "waiting"))).err
  PROVE  Works(s, LoseAll(WriteOutput(s, r, port, "waiting"),
                          InjectedCommands(WriteOutput(s, r, port, "waiting"))))
<1> DEFINE u == WriteOutput(s, r, port, "waiting")
           q == s.run[r]
           q1 == u.run[r]
<1>0. s \in Tables /\ Unmade(s) /\ q \in RunRow BY SoundFacts
<1>1. s.run[r].node # "none" /\ LiveOK(q) BY Constants DEF Accounted
<1>a. ~u.err
  <2>1. port \in AllPorts BY Constants DEF AllPorts
  <2>2. u \in Tables BY <1>0, <2>1, WriteOutputTyped
  <2>3. ~LoseAll(u, InjectedCommands(u)).err OBVIOUS
  <2> HIDE DEF u
  <2> QED BY <2>2, <2>3, LoseAllTyped
<1>2. s.status \notin {"completed", "cancelled"} BY <1>1, <1>a, WaitingNotCompleted
<1>3. Step(s, u, r) /\ SameBundle(q, q1) /\ q1.st = "waiting_external" BY <1>1, <1>2, <1>a, WriteOutputStep
<1>4. ~LoseAll(u, InjectedCommands(u)).err OBVIOUS
<1> HIDE DEF u, q, q1
<1>5. LiveOK(q1) BY <1>1, <1>3 DEF LiveOK, SameBundle, Ended
<1>6. NoReplay(q, q1) BY <1>3 DEF NoReplay
<1>7. CalmCore(q) => CalmCore(q1) BY <1>3 DEF CalmCore, SameBundle
<1>8. Works(s, u) BY <1>3, <1>5, <1>6, <1>7, StepWorks DEF SameBundle, q, q1
<1>9. Works(u, LoseAll(u, InjectedCommands(u))) BY <1>4, <1>8, LoseAllIs DEF Works, Accounted
<1>10. Works(s, LoseAll(u, InjectedCommands(u))) BY <1>8, <1>9, WorksTwice
<1> QED BY <1>10 DEF u

Turn(i, n) == IF i = n THEN "completed" ELSE "waiting"

LEMMA PublishEachIs ==
  ASSUME NEW s, NEW r, NEW ports, Len(ports) \in Nat
  PROVE  LET f == PublishEach(s, r, ports) IN
         /\ f[0] = s
         /\ \A i \in 1 .. Len(ports) : f[i] = WriteOutput(f[i - 1], r, ports[i], Turn(i, Len(ports)))
<1> DEFINE n == Len(ports)
           Is(f, k) == f = [i \in 0 .. k |-> IF i = 0 THEN s ELSE WriteOutput(f[i - 1], r, ports[i], Turn(i, Len(ports)))]
           T == {k \in Nat : k <= n /\ ~ \E f : Is(f, k)}
<1>1. \E f : Is(f, n)
  <2> SUFFICES ASSUME n \in T PROVE FALSE OBVIOUS
  <2>1. PICK x \in T : \A y \in T : ~(y < x) BY Least
  <2>2. x # 0
    <3>1. Is([i \in 0 .. 0 |-> s], 0) OBVIOUS
    <3> QED BY <2>1, <3>1
  <2>3. x - 1 \in Nat /\ x - 1 < x /\ x - 1 <= n BY <2>1, <2>2
  <2>4. PICK f : Is(f, x - 1) BY <2>1, <2>3
  <2> DEFINE g == [i \in 0 .. x |-> IF i = x THEN WriteOutput(f[x - 1], r, ports[x], Turn(x, Len(ports))) ELSE f[i]]
  <2>5. \A i \in 0 .. x - 1 : g[i] = f[i] BY <2>3
  <2>6. ASSUME NEW i \in 0 .. x PROVE g[i] = IF i = 0 THEN s ELSE WriteOutput(g[i - 1], r, ports[i], Turn(i, Len(ports)))
    <3>1. CASE i = x
      <4>1. g[i] = WriteOutput(f[x - 1], r, ports[x], Turn(x, Len(ports))) /\ x - 1 \in 0 .. x - 1 BY <3>1, <2>3
      <4>2. g[x - 1] = f[x - 1] BY <4>1, <2>5
      <4> HIDE DEF g
      <4> QED BY <2>2, <3>1, <4>1, <4>2
    <3>2. CASE i # x
      <4>1. i \in 0 .. x - 1 BY <3>2, <2>3
      <4>2. f[i] = IF i = 0 THEN s ELSE WriteOutput(f[i - 1], r, ports[i], Turn(i, Len(ports))) BY <2>4, <4>1
      <4>3. i # 0 => i - 1 \in 0 .. x - 1 BY <4>1, <2>3
      <4>4. g[i] = f[i] /\ (i # 0 => g[i - 1] = f[i - 1]) BY <2>5, <4>1, <4>3
      <4> HIDE DEF g
      <4> QED BY <4>2, <4>4
    <3> QED BY <3>1, <3>2
  <2>7. Is(g, x) BY <2>6
  <2> HIDE DEF g
  <2> QED BY <2>1, <2>7
<1> DEFINE h == CHOOSE f : Is(f, n)
<1>2. PublishEach(s, r, ports) = h BY DEF PublishEach, Turn
<1>3. Is(h, n) BY <1>1
<1> HIDE DEF h
<1>4. h[0] = s /\ \A i \in 1 .. n : h[i] = WriteOutput(h[i - 1], r, ports[i], Turn(i, Len(ports))) BY <1>3
<1> QED BY <1>2, <1>4

LEMMA WriteOutputMade ==
  ASSUME NEW s \in Tables, Unmade(s), NEW r \in Runs, s.run[r].node # "none", NEW port \in AllPorts,
         NEW outcome
  PROVE  LET t == WriteOutput(s, r, port, outcome) IN
         /\ t \in Tables /\ (s.err => t.err) /\ Unmade(t) /\ t.run[r].node = s.run[r].node
<1> DEFINE u == RoutePublication(s, s.run[r].node, port)
           q1 == u.run[r]
           q2 == [q1 EXCEPT !.out = @ \cup {port}]
           v == Published(u, r, port)
           missing == ~IsCommand(s.run[r]) /\ Missing(v.run[r]) # {}
           to == CASE outcome = "completed" -> IF missing THEN "active" ELSE "completed"
                   [] outcome = "waiting" -> "waiting_external" [] OTHER -> "failed"
           w == SetNode(v, r, to)
<1>1. Routed(s, u) BY RouteAllIs DEF RoutePublication, EdgesFrom
<1> HIDE DEF u
<1>2. u \in Tables /\ Unmade(u) /\ q1 \in RunRow /\ q1.node = s.run[r].node /\ q1.node # "none"
  BY <1>1, TableFields DEF Routed, RouteOf, Collects
<1>3. q2 \in RunRow /\ q2.node = q1.node BY <1>2 DEF RunRow
<1>4. v = [u EXCEPT !.run[r] = q2] BY DEF Published
<1> HIDE DEF q2, v
<1>5. Moves(u, v, r, q2) /\ v \in Tables BY <1>2, <1>3, <1>4, Put DEF Moves
<1>6. v.run[r] = q2 /\ \A x \in Runs : x # r => v.run[x] = u.run[x] BY <1>2, <1>5, MoveRows
<1>7. Unmade(v) BY <1>2, <1>3, <1>6 DEF Unmade
<1>8. to \in NodeStatus BY DEF NodeStatus
<1> HIDE DEF to
<1>9. w \in Tables BY <1>5, <1>8, SetNodeIs
<1>10. Unmade(w) /\ w.run[r].node = q2.node
  <2>1. CASE w.run = v.run BY <1>6, <1>7, <2>1 DEF Unmade
  <2>2. CASE w = [v EXCEPT !.run[r].st = to]
    <3>1. w.run[r].node = v.run[r].node /\ \A x \in Runs : x # r => w.run[x] = v.run[x]
      BY <1>5, <2>2 DEF Tables, RunRow
    <3> QED BY <1>2, <1>3, <1>6, <1>7, <3>1 DEF Unmade
  <2>3. w.run = v.run \/ w = [v EXCEPT !.run[r].st = to] BY <1>5 DEF SetNode, Tables
  <2> QED BY <2>1, <2>2, <2>3
<1>11. WriteOutput(s, r, port, outcome) = Reconcile(w) BY DEF WriteOutput, w, to, v, u
<1> HIDE DEF w
<1>12. Reconcile(w) \in Tables /\ Reconcile(w).run = w.run BY <1>9, ReconcileIs
<1>13. Unmade(Reconcile(w)) BY <1>10, <1>12 DEF Unmade
<1> QED BY <1>2, <1>3, <1>10, <1>11, <1>12, <1>13, WriteOutputTyped

LEMMA OutPortsFinite ==
  ASSUME NEW n \in Nodes
  PROVE  IsFiniteSet(OutPorts(n)) /\ OutPorts(n) \subseteq AllPorts
<1> DEFINE D == {d \in Edges : d[1] = n}
<1>1. IsFiniteSet(D) BY ScopeAssumption, FS_Subset
<1> HIDE DEF D
<1>2. IsFiniteSet({e[2] : e \in D})
  <2> DEFINE g == [e \in D |-> e[2]]
  <2>1. g \in Surjection(D, {e[2] : e \in D}) BY DEF Surjection
  <2> QED BY <1>1, <2>1, FS_Surjection
<1>3. IsFiniteSet(Required[n]) BY ScopeAssumption
<1>4. IsFiniteSet({e[2] : e \in D} \cup Required[n]) BY <1>2, <1>3, FS_Union
<1> QED BY <1>4 DEF D, OutPorts, AllPorts

LEMMA PublishAllIs ==
  ASSUME NEW s, Sound(s), s.status # "cancelled", NEW r \in Runs, s.run[r].node \in Commands,
         s.run[r].st \notin Ended, NEW ports \in SUBSET OutPorts(s.run[r].node)
  PROVE  LET t == PublishAll(s, r, ports) IN
         /\ t \in Tables
         /\ ~t.err => Step(s, t, r) /\ SameBundle(s.run[r], t.run[r]) /\ t.run[r].st # "collecting"
<1> DEFINE q == s.run[r]
<1>0. s \in Tables /\ q \in RunRow /\ Unmade(s) /\ q.node # "none" /\ q.node \in Nodes
  BY SoundFacts, Constants
<1>1. CASE ports = {}
  <2> DEFINE w == SetNode(s, r, "completed")
             t == Reconcile(w)
  <2>1. PublishAll(s, r, ports) = t BY <1>1 DEF PublishAll
  <2>2. "completed" \in NodeStatus \ {"cancelled", "paused"} BY DEF NodeStatus
  <2>3. w \in Tables BY <1>0, <2>2, SetNodeIs
  <2>a. t \in Tables /\ (w.err => t.err)
    <3> HIDE DEF w
    <3> QED BY <2>3, ReconcileIs
  <2> SUFFICES ASSUME ~t.err
               PROVE  Step(s, t, r) /\ SameBundle(q, t.run[r]) /\ t.run[r].st # "collecting"
    BY <2>1, <2>a
  <2>4. ~w.err BY <2>a
  <2>5. Step(s, w, r) /\ w.run[r] = [q EXCEPT !.st = "completed"] BY <1>0, <2>2, <2>4, SetNodeStep
  <2> HIDE DEF w
  <2>6. SameBundle(q, w.run[r]) /\ w.run[r].st = "completed" BY <1>0, <2>5 DEF RunRow, SameBundle
  <2>7. Step(w, t, r) /\ t.run = w.run
    <3>1. Sound(w) /\ w.status # "cancelled" BY <2>5 DEF Step
    <3> QED BY <2>1, <3>1, ReconcileStep
  <2>8. Step(s, t, r) BY <2>5, <2>7, StepTwice
  <2> QED BY <2>1, <2>6, <2>7, <2>8
<1>2. CASE ports # {}
  <2> DEFINE n == Cardinality(ports)
             seq == SetToSeq(ports)
             f == PublishEach(s, r, seq)
             Good(k, t) ==
               /\ t \in Tables /\ Unmade(t) /\ t.run[r].node = q.node
               /\ ~t.err => /\ Step(s, t, r) /\ SameBundle(q, t.run[r])
                            /\ k < n => t.run[r].st \notin Ended
                            /\ k # 0 => t.run[r].st # "collecting"
             T == {i \in Nat : i <= n /\ ~Good(i, f[i])}
  <2>1. IsFiniteSet(ports) BY <1>0, OutPortsFinite, FS_Subset
  <2>2. n \in Nat /\ Len(seq) = n /\ \A i \in 1 .. n : seq[i] \in ports BY <2>1, Listed
  <2>3. n # 0 BY <1>2, <2>1, FS_EmptySet
  <2>4. PublishAll(s, r, ports) = f[n] BY <1>2 DEF PublishAll
  <2> HIDE DEF n, seq
  <2>5. f[0] = s /\ \A i \in 1 .. n : f[i] = WriteOutput(f[i - 1], r, seq[i], Turn(i, n))
    BY <2>2, PublishEachIs
  <2> HIDE DEF f
  <2>6. Good(0, s) BY <1>0, StepNone DEF SameBundle
  <2>7. T = {}
    <3> SUFFICES ASSUME T # {} PROVE FALSE OBVIOUS
    <3>1. PICK x \in T : \A y \in T : ~(y < x) BY Least
    <3>2. x # 0 BY <2>5, <2>6, <3>1
    <3>3. x \in 1 .. n /\ x - 1 \in Nat /\ x - 1 < x /\ x - 1 < n /\ x - 1 <= n BY <2>2, <3>1, <3>2
    <3> DEFINE u == f[x - 1]  t == f[x]  p == seq[x]  o == Turn(x, n)
    <3>4. Good(x - 1, u) BY <3>1, <3>3
    <3>5. t = WriteOutput(u, r, p, o) /\ p \in OutPorts(q.node) /\ (x < n => o = "waiting")
      BY <2>2, <2>5, <3>3 DEF Turn
    <3>6. ~Good(x, t) BY <3>1
    <3> HIDE DEF u, t, p, o, T
    <3>7. p \in AllPorts BY <1>0, <3>5, OutPortsFinite
    <3>8. t \in Tables /\ (u.err => t.err) /\ Unmade(t) /\ t.run[r].node = q.node
      BY <1>0, <3>4, <3>5, <3>7, WriteOutputMade
    <3>9. ASSUME ~t.err
          PROVE  /\ Step(s, t, r) /\ SameBundle(q, t.run[r])
                 /\ (x < n => t.run[r].st \notin Ended) /\ t.run[r].st # "collecting"
      <4>1. Step(s, u, r) /\ SameBundle(q, u.run[r]) /\ u.run[r].st \notin Ended BY <3>3, <3>4, <3>8, <3>9
      <4>2. Sound(u) /\ u.status # "cancelled" /\ u.run[r].node = q.node BY <4>1 DEF Step, SameBundle
      <4>3. u.status # "completed" BY <1>0, <4>1, <4>2, SoundFacts DEF RowOK, Ended
      <4>4. ~WriteOutput(u, r, p, o).err /\ p \in OutPorts(u.run[r].node) /\ u.run[r].node # "none"
        BY <1>0, <3>5, <3>9, <4>2
      <4>5. /\ Step(u, t, r) /\ SameBundle(u.run[r], t.run[r])
            /\ t.run[r].st \in {"active", "completed", "waiting_external", "failed"}
            /\ o = "waiting" => t.run[r].st = "waiting_external"
        <5>1. Sound(u) /\ u.status \notin {"completed", "cancelled"} BY <4>2, <4>3
        <5> HIDE DEF Good, q
        <5>2. LET w == WriteOutput(u, r, p, o) IN
              /\ Step(u, w, r) /\ SameBundle(u.run[r], w.run[r])
              /\ w.run[r].st \in {"active", "completed", "waiting_external", "failed"}
              /\ o = "waiting" => w.run[r].st = "waiting_external"
          BY <4>4, <5>1, WriteOutputStep
        <5> QED BY <3>5, <5>2
      <4>6. Step(s, t, r) BY <4>1, <4>5, StepTwice
      <4>7. SameBundle(q, t.run[r]) BY <4>1, <4>5 DEF SameBundle
      <4> QED BY <3>5, <4>5, <4>6, <4>7 DEF Ended
    <3> QED BY <3>6, <3>8, <3>9
  <2>8. Good(n, f[n]) BY <2>2, <2>7
  <2>9. /\ f[n] \in Tables
        /\ ~f[n].err => Step(s, f[n], r) /\ SameBundle(q, f[n].run[r]) /\ f[n].run[r].st # "collecting"
    BY <2>3, <2>8
  <2> HIDE DEF Good, T
  <2> QED BY <2>4, <2>9
<1> QED BY <1>1, <1>2

(* Attempts are numbered from one. *)
LEMMA FinishNoAttempt ==
  ASSUME NEW s \in Tables, NEW r \in Runs, NEW to, ~FinishAttempt(s, r, 0, to).err
  PROVE  FinishAttempt(s, r, 0, to) = s
<1> DEFINE q == s.run[r]
<1>1. q \in RunRow /\ q.att \in Seq(AttemptStatus) BY TableFields, RowFields
<1>2. [q.att EXCEPT ![0] = to] = q.att BY <1>1
<1>3. [q EXCEPT !.att[0] = to] = q BY <1>1, <1>2 DEF RunRow
<1>4. [s EXCEPT !.run[r].att[0] = to] = s
  <2>1. [s EXCEPT !.run[r].att[0] = to] = [s EXCEPT !.run[r] = [q EXCEPT !.att[0] = to]] OBVIOUS
  <2>2. [s EXCEPT !.run[r] = q] = s BY DEF Tables
  <2> QED BY <1>3, <2>1, <2>2
<1>5. [s EXCEPT !.err = TRUE].err BY DEF Tables
<1> QED BY <1>4, <1>5 DEF FinishAttempt

CommandReturned(s, r, ports) ==
  LET u == PublishAll(s, r, ports)
      f == FinishAttempt(u, r, u.run[r].batt, "completed")
  IN  BundleRows([f EXCEPT !.run[r].bun = "acknowledged", !.run[r].host = "none"], r, "acknowledged")

LEMMA CommandReturnsAct ==
  ASSUME NEW s, Sound(s), s.status # "cancelled", NEW r \in Runs, s.run[r].node \in Commands,
         LiveOK(s.run[r]), s.run[r].host = "running", NEW ports \in SUBSET OutPorts(s.run[r].node),
         ~CommandReturned(s, r, ports).err
  PROVE  Act(s, CommandReturned(s, r, ports), r)
<1> DEFINE u == PublishAll(s, r, ports)
           q == s.run[r]
           q1 == u.run[r]
           i == q1.batt
           f == FinishAttempt(u, r, i, "completed")
           q2 == f.run[r]
           t == BundleRows(WithBundle(f, r, "acknowledged", "none"), r, "acknowledged")
           q3 == t.run[r]
<1>0. s \in Tables /\ q \in RunRow /\ q.node # "none" /\ LiveOK(q) /\ q.st \notin Ended /\ Len(q.att) \in Nat
      /\ q.att \in Seq(AttemptStatus)
  BY SoundFacts, Constants, RowFields DEF LiveOK
<1>1. /\ "acknowledged" \in BundleState /\ "acknowledged" \in RowState /\ "acknowledged" \notin Owned
      /\ "completed" \in AttemptStatus \ Live
  BY DEF BundleState, RowState, Owned, AttemptStatus, Live
<1>2. /\ u \in Tables
      /\ ~u.err => Step(s, u, r) /\ SameBundle(q, q1) /\ q1.st # "collecting"
  BY <1>0, PublishAllIs
<1>3. CommandReturned(s, r, ports) =
        BundleRows([f EXCEPT !.run[r].bun = "acknowledged", !.run[r].host = "none"], r, "acknowledged")
  BY DEF CommandReturned
<1> HIDE DEF u
<1>4. f \in Tables /\ (u.err => f.err)
  <2>1. i \in Nat BY <1>2, TableFields, RowFields
  <2> HIDE DEF i
  <2> QED BY <1>1, <1>2, <2>1, FinishAttemptTyped
<1> HIDE DEF f
<1>5. CommandReturned(s, r, ports) = t
  <2>1. [f EXCEPT !.run[r].bun = "acknowledged", !.run[r].host = "none"]
          = WithBundle(f, r, "acknowledged", "none")
    BY <1>4 DEF WithBundle, Tables, RunRow
  <2> QED BY <1>3, <2>1
<1>6. ~f.err /\ ~u.err
  <2>1. t.err = f.err BY <1>1, <1>4, BundleTyped
  <2>2. ~t.err BY <1>5
  <2> QED BY <1>4, <2>1, <2>2
<1>7. Sound(u) /\ u.status # "cancelled" /\ q1 \in RunRow /\ i \in Nat /\ i <= Len(q1.att) /\ q1.node # "none"
  <2>1. Sound(u) /\ u.status # "cancelled" BY <1>2, <1>6 DEF Step
  <2>2. q1 \in RunRow /\ RowOK(q1, u.status) BY <2>1, SoundFacts
  <2> QED BY <1>0, <1>2, <1>6, <2>1, <2>2, RowFields DEF SameBundle, RowOK
<1>8. /\ Step(u, f, r) /\ q2.node = q1.node /\ q2.st = q1.st /\ Len(q2.att) = Len(q1.att)
      /\ \A j \in 1 .. Len(q1.att) : q2.att[j] = IF j = i THEN "completed" ELSE q1.att[j]
  <2>1. CASE i = 0
    <3>1. f = u
      <4>1. ~FinishAttempt(u, r, 0, "completed").err BY <1>6, <2>1 DEF f
      <4> QED BY <1>2, <2>1, <4>1, FinishNoAttempt DEF f
    <3>2. \A j \in 1 .. Len(q1.att) : j # i BY <2>1
    <3>3. Step(u, u, r) BY <1>7, StepNone
    <3> QED BY <3>1, <3>2, <3>3
  <2>2. CASE i # 0
    <3>1. i \in 1 .. Len(q1.att) BY <1>7, <2>2, RowFields
    <3> HIDE DEF i
    <3>2. Step(u, f, r) /\ q2 = [q1 EXCEPT !.att[i] = "completed"]
      <4>1. ~FinishAttempt(u, r, i, "completed").err BY <1>6 DEF f
      <4>2. Sound(u) /\ u.status # "cancelled" /\ "completed" \in AttemptStatus \ Live /\ q1.node # "none"
        BY <1>1, <1>7
      <4> QED BY <3>1, <4>1, <4>2, FinishAttemptStep, SMTT(40) DEF f
    <3> HIDE DEF q1, q2
    <3>3. q2.node = q1.node /\ q2.st = q1.st /\ q2.att = [q1.att EXCEPT ![i] = "completed"]
      BY <1>7, <3>2 DEF RunRow
    <3>4. q1.att \in Seq(AttemptStatus) BY <1>7, RowFields
    <3> QED BY <3>1, <3>2, <3>3, <3>4
  <2> QED BY <2>1, <2>2
<1>9. Sound(f) /\ f.status # "cancelled" /\ q2.node # "none" BY <1>7, <1>8 DEF Step
<1>10. Step(f, t, r) /\ SameStep(q2, q3) /\ q3.att = q2.att /\ q3.host = "none" BY <1>1, <1>9, BundleStep
<1>11. Step(s, t, r) BY <1>2, <1>6, <1>8, <1>10, StepTwice
<1> HIDE DEF t, q, q1, q2, q3
<1>12. /\ q3.node = q.node /\ q3.st # "collecting" /\ Len(q3.att) = Len(q.att) /\ q.batt = i
       /\ \A j \in 1 .. Len(q.att) : q3.att[j] = IF j = i THEN "completed" ELSE q.att[j]
  BY <1>2, <1>6, <1>8, <1>10 DEF SameBundle, SameStep
<1>13. \A j \in 1 .. Len(q.att) : q.att[j] \in Live => j = i
  <2>1. q.node \in Commands BY DEF q
  <2> QED BY <1>0, <1>12, <2>1 DEF LiveOK
<1>14. \A j \in 1 .. Len(q.att) : q3.att[j] \notin Live /\ (q.att[j] \in Live => q3.att[j] = "completed")
  BY <1>1, <1>12, <1>13
<1>15. LiveOK(q3) BY <1>10, <1>12, <1>14 DEF LiveOK
<1>16. NotReplayed(q, q3) BY <1>14 DEF NotReplayed
<1>17. CalmCore(q3) BY <1>10, <1>12, <1>14 DEF CalmCore, Live
<1>18. Act(s, t, r) BY <1>11, <1>15, <1>16, <1>17 DEF Act, q, q3
<1> QED BY <1>5, <1>18

(* A reservation and the start of the host are one step of the Bus. *)
LEMMA CommandStartedAct ==
  ASSUME NEW s, Sound(s), s.status # "cancelled", ~s.err, NEW r \in Runs, MayReserve(s, r),
         s.run[r].node \in Commands, LiveOK(s.run[r]), ~CommandStarted(Reserved(s, r), r).err
  PROVE  Act(s, CommandStarted(Reserved(s, r), r), r)
<1> DEFINE u == Reserved(s, r)
           q == s.run[r]
           q1 == u.run[r]
           b == BeginAttempt(StartAttempt(u, r, "pending"), r)
           t == CommandStarted(u, r)
           q3 == t.run[r]
<1>0. s \in Tables /\ q \in RunRow /\ q.bno \in Nat /\ Len(q.att) \in Nat /\ RecordOK(q, s.pause, r)
      /\ s.pause \in PauseRow /\ LiveOK(q) /\ q.node \in Commands
  BY SoundFacts, TableFields, RowFields
<1>1. /\ Step(s, u, r) /\ u.err = s.err
      /\ SameStep(q, q1) /\ q1.bun = "reserved" /\ q1.bno = q.bno + 1 /\ q1.batt = 0
      /\ q1.att = q.att /\ q1.host = q.host /\ q.bun \notin Owned /\ q.node # "none"
  BY ReservedStep
<1>2. t = IF b.err THEN FailCommand(u, r, Lost(q1))
          ELSE BundleRows([b EXCEPT !.run[r].bun = "injected", !.run[r].host = "running"], r, "injected")
  BY DEF CommandStarted
<1>3. ~t.err OBVIOUS
<1> HIDE DEF u
<1>4. Sound(u) /\ u.status # "cancelled" /\ ~u.err /\ u \in Tables /\ u.pause = s.pause
      /\ q1.node \in Commands /\ q1.node # "none"
  BY <1>0, <1>1, SoundFacts DEF Step, SameStep
<1> HIDE DEF t, b, q, q1, q3
<1>5. \A i \in 1 .. Len(q.att) : q.att[i] \notin Live BY <1>0, <1>1 DEF LiveOK, Owned
<1>6. LiveOK(q1) /\ (CalmCore(q) => CalmCore(q1))
  BY <1>0, <1>1, <1>5 DEF LiveOK, CalmCore, SameStep, Owned
<1>7. CASE b.err
  <2>1. t = FailCommand(u, r, Lost(q1)) /\ Lost(q1) \in {"failed", "outcome_unknown"} BY <1>2, <1>7, LostType
  <2>2. ~FailCommand(u, r, Lost(q1)).err BY <1>3, <2>1
  <2>3. Step(u, t, r) /\ Shut(q1, q3) BY <1>4, <1>6, <2>1, <2>2, FailCommandStep DEF q1, q3
  <2>4. LiveOK(q3) /\ (CalmCore(q1) => CalmCore(q3)) BY <2>3, ShutRow
  <2>5. NotReplayed(q, q3) BY <1>5 DEF NotReplayed
  <2>6. Step(s, t, r) BY <1>1, <2>3, StepTwice
  <2>7. Act(s, t, r) BY <1>6, <2>4, <2>5, <2>6 DEF Act, q, q3
  <2> QED BY <2>7 DEF t, u
<1>8. CASE ~b.err
  <2> DEFINE q2 == b.run[r]
             v == BundleRows(WithBundle(b, r, "injected", "running"), r, "injected")
  <2>1. u.pause.st = "pausing" => u.pause.bno[r] < u.run[r].bno
    <3>1. s.pause.st = "pausing" => s.pause.bno[r] <= q.bno BY <1>0, <1>1 DEF RecordOK
    <3>2. s.pause.bno[r] \in Nat BY <1>0 DEF PauseRow
    <3> QED BY <1>0, <1>1, <1>4, <3>1, <3>2 DEF q1
  <2>2. /\ Step(u, b, r) /\ q2.node = q1.node /\ q2.st = "active" /\ q2.bun = q1.bun
        /\ q2.batt \in 1 .. Len(q2.att)
        /\ Len(q1.att) <= Len(q2.att) /\ Len(q2.att) <= Len(q1.att) + 1
        /\ Len(q2.att) = Len(q1.att) + 1 => q2.batt = Len(q2.att)
        /\ \A i \in 1 .. Len(q1.att) : i # q2.batt => q2.att[i] = q1.att[i]
    <3>1. ~BeginAttempt(StartAttempt(u, r, "pending"), r).err BY <1>8 DEF b
    <3>2. u.run[r].node # "none" BY <1>4 DEF q1
    <3> QED BY <1>4, <2>1, <3>1, <3>2, StartBeginStep DEF b, q1
  <2>3. Sound(b) /\ b.status # "cancelled" /\ b \in Tables /\ q2.node \in Commands /\ q2.node # "none"
        /\ Len(q2.att) \in Nat /\ q2.batt \in Nat
    <3>1. Sound(b) /\ b.status # "cancelled" BY <2>2 DEF Step
    <3>2. b \in Tables /\ q2 \in RunRow BY <3>1, SoundFacts
    <3> QED BY <1>4, <2>2, <3>1, <3>2, RowFields
  <2>4. t = v
    <3>1. [b EXCEPT !.run[r].bun = "injected", !.run[r].host = "running"] = WithBundle(b, r, "injected", "running")
      BY <2>3 DEF WithBundle, Tables, RunRow
    <3> QED BY <1>2, <1>8, <3>1
  <2>5. "injected" \in BundleState /\ "injected" \in RowState BY DEF BundleState, RowState
  <2>6. b.run[r].bun \in Owned BY <1>1, <2>2 DEF Owned
  <2>7. /\ Step(b, v, r) /\ SameStep(q2, v.run[r]) /\ v.run[r].bun = "injected" /\ v.run[r].batt = q2.batt
        /\ v.run[r].att = q2.att /\ v.run[r].host = "running"
    BY <2>3, <2>5, <2>6, BundleStep
  <2> HIDE DEF v, q2
  <2>8. Step(s, t, r) BY <1>1, <2>2, <2>4, <2>7, StepTwice
  <2>9. /\ q3.st = "active" /\ q3.bun = "injected" /\ q3.batt = q2.batt /\ q3.att = q2.att
    BY <2>2, <2>4, <2>7 DEF SameStep, q3
  <2>10. ASSUME NEW i \in 1 .. Len(q3.att), q3.att[i] \in Live PROVE i = q3.batt
    <3> SUFFICES ASSUME i # q2.batt PROVE FALSE BY <2>9
    <3>1. i \in 1 .. Len(q.att)
      <4> DEFINE m == Len(q.att)
                 k == Len(q2.att)
      <4>1. m \in Nat /\ k \in Nat /\ k <= m + 1 /\ (k = m + 1 => i # k) /\ i \in 1 .. k
        BY <1>0, <1>1, <2>2, <2>3, <2>9
      <4> HIDE DEF m, k
      <4>2. i \in 1 .. m BY <4>1
      <4> QED BY <4>2 DEF m
    <3>2. q3.att[i] = q.att[i] BY <1>1, <2>2, <2>9, <3>1
    <3> QED BY <1>5, <2>10, <3>1, <3>2
  <2>a. q3.st \notin Ended BY <2>9 DEF Ended
  <2>11. LiveOK(q3) BY <2>9, <2>10, <2>a DEF LiveOK
  <2>b. q3.batt # 0 BY <2>2, <2>3, <2>9
  <2>12. CalmCore(q3) BY <2>9, <2>10, <2>b DEF CalmCore, Live
  <2>13. NotReplayed(q, q3) BY <1>5 DEF NotReplayed
  <2>14. Act(s, t, r) BY <2>8, <2>11, <2>12, <2>13 DEF Act, q, q3
  <2> QED BY <2>14 DEF t, u
<1> QED BY <1>7, <1>8

LEMMA FailCommandAct ==
  ASSUME NEW s, Sound(s), s.status # "cancelled", NEW r \in Runs, s.run[r].node \in Commands,
         LiveOK(s.run[r]), ~FailCommand(s, r, Lost(s.run[r])).err
  PROVE  Act(s, FailCommand(s, r, Lost(s.run[r])), r)
<1> DEFINE t == FailCommand(s, r, Lost(s.run[r]))
<1>1. Lost(s.run[r]) \in {"failed", "outcome_unknown"} BY LostType
<1>2. Step(s, t, r) /\ Shut(s.run[r], t.run[r]) BY <1>1, FailCommandStep
<1> HIDE DEF t
<1>3. Act(s, t, r) BY <1>2, ShutRow DEF Act
<1> QED BY <1>3 DEF t

-----------------------------------------------------------------------------
(* What the calls of the Bridge and the Commands leave of the whole.         *)

Done(s, t) ==
  /\ Sound(t) /\ Accounted(t) /\ ~t.err /\ t.status # "cancelled" /\ t.pause = s.pause /\ t.pauses = s.pauses
  /\ \A x \in Runs : NotReplayed(s.run[x], t.run[x])
  /\ Going(s) => Going(t)
  /\ Going(s) /\ (\A x \in Runs : CalmCore(s.run[x])) => \A x \in Runs : CalmCore(t.run[x])

LEMMA ActDone ==
  ASSUME NEW s, Sound(s), Accounted(s), NEW r \in Runs, NEW t, ~t.err, Act(s, t, r)
  PROVE  Done(s, t)
<1>1. ASSUME NEW x \in Runs, x # r
      PROVE  /\ LiveOK(t.run[x]) /\ NotReplayed(s.run[x], t.run[x])
             /\ CalmCore(s.run[x]) => CalmCore(t.run[x])
  <2>1. RouteOf(s.run[x], t.run[x]) /\ LiveOK(s.run[x]) /\ RowOK(s.run[x], s.status)
    BY <1>1, SoundFacts DEF Act, Step, Accounted
  <2>2. s.run[x].node = "none" => s.run[x] = NoRun BY <2>1 DEF RowOK
  <2> QED BY <2>1, <2>2, RouteKeeps
<1> QED BY <1>1 DEF Done, Act, Step, Accounted

LEMMA WorksDone ==
  ASSUME NEW s, NEW t, ~t.err, Works(s, t)
  PROVE  Done(s, t)
<1>1. ASSUME NEW x \in Runs PROVE NotReplayed(s.run[x], t.run[x])
  <2>1. NoReplay(s.run[x], t.run[x]) BY DEF Works
  <2> QED BY <2>1 DEF NoReplay, NotReplayed, Live
<1> QED BY <1>1 DEF Done, Works, Accounted

(* A node execution that may move belongs to an execution that was not stopped. *)
LEMMA NotStopped ==
  ASSUME ScopeInv, NEW r \in Runs, sx.run[r].node # "none",
         \/ sx.run[r].bun \in Owned \/ sx.run[r].host = "running"
         \/ \E p \in Slots : sx.run[r].rows[p] = "queued"
  PROVE  sx.status # "cancelled"
  BY DEF ScopeInv, StoppedOK, Still

LEMMA BridgeDone ==
  ASSUME ScopeInv, NEW r \in Runs, BridgeStep(r) \/ LeaseExpires(r) \/ ReserveForActor(r)
  PROVE  Done(sx, sx')
<1>0. Sound(sx) /\ Accounted(sx) /\ ~sx.err BY DEF ScopeInv
<1> DEFINE q == sx.run[r]
<1>1. "acknowledged" \in BundleState \ Owned /\ "failed" \in BundleState \ Owned
      /\ "dead_lettered" \in BundleState \ Owned /\ "acknowledged" \in RowState
      /\ "dead_lettered" \in RowState /\ "queued" \in RowState
  BY DEF BundleState, Owned, RowState
<1>2. ASSUME Goes(r), q.bun \in Owned
      PROVE  sx.status # "cancelled" /\ q.node # "none" /\ q.node \notin Commands
  <2>1. q.node # "none" /\ q.node \notin Commands BY <1>2 DEF Goes, Open, Exists, IsCommand
  <2> QED BY <1>2, <2>1, NotStopped
<1>3. "reserved" \in Owned /\ "injected" \in Owned BY DEF Owned
<1>4. CASE Prepare(r)
  <2>1. sx.status # "cancelled" /\ q.node # "none" /\ q.node \notin Commands /\ q.bun = "reserved"
        /\ ~StartAttempt(sx, r, "pending").err /\ sx' = StartAttempt(sx, r, "pending")
    BY <1>2, <1>3, <1>4 DEF Prepare, Commit
  <2> QED BY <1>0, <2>1, PrepareAct, ActDone
<1>5. CASE Inject(r)
  <2>1. sx.status # "cancelled" /\ q.node # "none" /\ q.node \notin Commands /\ q.bun = "reserved"
        /\ ~Injected(sx, r).err /\ sx' = Injected(sx, r)
    BY <1>2, <1>3, <1>5 DEF Inject, Commit, Injected
  <2> QED BY <1>0, <2>1, InjectAct, ActDone
<1>6. CASE ReportFailed(r)
  <2>1. CASE q.bun = "reserved" /\ Commit(FailBefore(sx, r))
    <3>1. sx.status # "cancelled" /\ q.node # "none" /\ q.node \notin Commands
          /\ ~FailBefore(sx, r).err /\ sx' = FailBefore(sx, r)
      BY <1>2, <1>3, <1>6, <2>1 DEF ReportFailed, Commit
    <3> QED BY <1>0, <2>1, <3>1, FailBeforeAct, ActDone
  <2>2. CASE q.bun = "injected" /\ Commit(FinishCanonical(BundleRows([sx EXCEPT !.run[r].bun = "failed"], r,
                                             "dead_lettered"), r, "failed", FALSE))
    <3> DEFINE t == FinishCanonical(BundleTo(sx, r, "failed", "dead_lettered"), r, "failed", FALSE)
    <3>1. sx.status # "cancelled" /\ q.node # "none" /\ q.node \notin Commands
          /\ ~t.err /\ sx' = t
      BY <1>2, <1>3, <1>6, <2>2 DEF ReportFailed, Commit, BundleTo
    <3>2. Act(sx, t, r) BY <1>0, <1>1, <3>1, CloseAct
    <3> HIDE DEF t
    <3> QED BY <1>0, <3>1, <3>2, ActDone
  <2> QED BY <1>6, <2>1, <2>2 DEF ReportFailed
<1>7. CASE Defer(r)
  <2>1. sx.status # "cancelled" /\ q.node # "none" /\ q.node \notin Commands
        /\ ~Deferred(sx, r).err /\ sx' = Deferred(sx, r)
    BY <1>2, <1>3, <1>7 DEF Defer, Commit, Deferred, BundleTo
  <2> QED BY <1>0, <2>1, DeferAct, ActDone
<1>8. CASE \E reply \in BOOLEAN : Acknowledge(r, reply)
  <2>1. PICK reply \in BOOLEAN : Acknowledge(r, reply) BY <1>8
  <2> DEFINE t == FinishCanonical(BundleTo(sx, r, "acknowledged", "acknowledged"), r, "completed", reply)
  <2>2. sx.status # "cancelled" /\ q.node # "none" /\ q.node \notin Commands
        /\ ~t.err /\ sx' = t
    BY <1>2, <1>3, <2>1 DEF Acknowledge, Commit, BundleTo
  <2>3. Act(sx, t, r) BY <1>0, <1>1, <2>2, CloseAct
  <2> HIDE DEF t
  <2> QED BY <1>0, <2>2, <2>3, ActDone
<1>9. CASE \E port \in UNION {OutPorts(n) : n \in Nodes} :
             \E outcome \in {"completed", "waiting", "failed"} : PublishOutput(r, port, outcome)
  <2>1. PICK port, outcome : PublishOutput(r, port, outcome) BY <1>9
  <2>2. Goes(r) /\ q.bun = "injected" /\ MayWrite(sx, r) /\ port \in OutPorts(q.node)
        /\ ~WriteOutput(sx, r, port, outcome).err /\ sx' = WriteOutput(sx, r, port, outcome)
    BY <2>1 DEF PublishOutput, MayPublish, Commit
  <2>3. sx.status # "cancelled" /\ q.node # "none" /\ q.node \notin Commands BY <1>2, <1>3, <2>2
  <2>4. Act(sx, sx', r) BY <1>0, <2>2, <2>3, PublishAct
  <2> QED BY <1>0, <2>2, <2>4, ActDone
<1>10. CASE LeaseExpires(r)
  <2>1. CASE /\ q.bun = "injected"
             /\ Commit(FinishCanonical(BundleRows([sx EXCEPT !.run[r].bun = "dead_lettered"], r,
                                                 "dead_lettered"), r, "outcome_unknown", FALSE))
    <3> DEFINE t == FinishCanonical(BundleTo(sx, r, "dead_lettered", "dead_lettered"), r, "outcome_unknown", FALSE)
    <3>1. sx.status # "cancelled" /\ q.node # "none" /\ q.node \notin Commands
          /\ ~t.err /\ sx' = t
      BY <1>2, <1>3, <1>10, <2>1 DEF LeaseExpires, Commit, BundleTo
    <3>2. Act(sx, t, r) BY <1>0, <1>1, <3>1, CloseAct
    <3> HIDE DEF t
    <3> QED BY <1>0, <3>1, <3>2, ActDone
  <2>2. CASE q.bun = "reserved" /\ Commit(BundleRows([sx EXCEPT !.run[r].bun = "failed"], r, "queued"))
    <3> DEFINE t == BundleTo(sx, r, "failed", "queued")
    <3>1. sx.status # "cancelled" /\ q.node # "none" /\ q.node \notin Commands /\ ~t.err /\ sx' = t
      BY <1>2, <1>3, <1>10, <2>2 DEF LeaseExpires, Commit, BundleTo
    <3>2. Act(sx, t, r) BY <1>0, <1>1, <2>2, <3>1, EndAct
    <3> HIDE DEF t
    <3> QED BY <1>0, <3>1, <3>2, ActDone
  <2>3. CASE q.bun = "reserved" /\ Commit(BundleRows([sx EXCEPT !.run[r].bun = "dead_lettered"], r, "dead_lettered"))
    <3> DEFINE t == BundleTo(sx, r, "dead_lettered", "dead_lettered")
    <3>1. sx.status # "cancelled" /\ q.node # "none" /\ q.node \notin Commands /\ ~t.err /\ sx' = t
      BY <1>2, <1>3, <1>10, <2>3 DEF LeaseExpires, Commit, BundleTo
    <3>2. Act(sx, t, r) BY <1>0, <1>1, <2>3, <3>1, EndAct
    <3> HIDE DEF t
    <3> QED BY <1>0, <3>1, <3>2, ActDone
  <2> QED BY <1>10, <2>1, <2>2, <2>3 DEF LeaseExpires
<1>11. CASE ReserveForActor(r)
  <2>1. MayReserve(sx, r) /\ q.node \notin Commands /\ ~Reserved(sx, r).err /\ sx' = Reserved(sx, r)
    BY <1>11 DEF ReserveForActor, Commit, IsCommand
  <2>2. q.node # "none" /\ \E p \in Slots : q.rows[p] = "queued" BY <2>1 DEF MayReserve, Exists
  <2>3. sx.status # "cancelled" BY <2>2, NotStopped
  <2> QED BY <1>0, <2>1, <2>3, ReserveAct, ActDone
<1> QED BY <1>4, <1>5, <1>6, <1>7, <1>8, <1>9, <1>10, <1>11 DEF BridgeStep

LEMMA CommandDone ==
  ASSUME ScopeInv, NEW r \in Runs, CommandStep(r) \/ RetryNode(r)
  PROVE  Done(sx, sx')
<1>0. Sound(sx) /\ Accounted(sx) /\ ~sx.err BY DEF ScopeInv
<1> DEFINE q == sx.run[r]
<1>1. LiveOK(q) BY <1>0 DEF Accounted
<1>2. "reserved" \in Owned /\ "injected" \in Owned BY DEF Owned
<1>3. CASE ReserveForCommand(r)
  <2> DEFINE t == CommandStarted(Reserved(sx, r), r)
  <2>1. MayReserve(sx, r) /\ q.node \in Commands /\ ~t.err /\ sx' = t
    BY <1>3 DEF ReserveForCommand, Commit, IsCommand
  <2>2. q.node # "none" /\ \E p \in Slots : q.rows[p] = "queued" BY <2>1 DEF MayReserve, Exists
  <2>3. sx.status # "cancelled" BY <2>2, NotStopped
  <2>4. Act(sx, t, r) BY <1>0, <1>1, <2>1, <2>3, CommandStartedAct
  <2> HIDE DEF t
  <2> QED BY <1>0, <2>1, <2>4, ActDone
<1>4. CASE CommandFails(r)
  <2> DEFINE t == FailCommand(sx, r, Lost(sx.run[r]))
  <2>1. q.node # "none" /\ q.host = "running" /\ ~t.err /\ sx' = t BY <1>4 DEF CommandFails, Exists, Commit
  <2>2. sx.status # "cancelled" BY <2>1, NotStopped
  <2>3. q.node \in Commands BY <1>0, <2>1, SoundFacts DEF RowOK
  <2>4. Act(sx, t, r) BY <1>0, <1>1, <2>1, <2>2, <2>3, FailCommandAct
  <2> HIDE DEF t
  <2> QED BY <1>0, <2>1, <2>4, ActDone
<1>5. CASE CommandLeaseExpires(r)
  <2> DEFINE t == CommandLost(sx, r)
  <2>1. q.node # "none" /\ q.node \in Commands /\ q.bun = "injected" /\ ~t.err /\ sx' = t
    BY <1>5 DEF CommandLeaseExpires, Open, Exists, IsCommand, Commit
  <2>2. sx.status # "cancelled" BY <1>2, <2>1, NotStopped
  <2>3. /\ Step(sx, t, r) /\ t.run[r].node = q.node /\ LiveOK(t.run[r]) /\ NoReplay(q, t.run[r])
        /\ CalmCore(q) => CalmCore(t.run[r])
    BY <1>0, <1>1, <2>1, <2>2, CommandLostStep
  <2> HIDE DEF t
  <2>4. Works(sx, t) BY <1>0, <2>3, StepWorks
  <2> QED BY <2>1, <2>4, WorksDone
<1>6. CASE \E ports \in SUBSET UNION {OutPorts(n) : n \in Nodes} : CommandReturns(r, ports)
  <2>1. PICK ports : CommandReturns(r, ports) BY <1>6
  <2> DEFINE t == CommandReturned(sx, r, ports)
  <2>2. q.node # "none" /\ q.host = "running" /\ ports \in SUBSET OutPorts(q.node) /\ ~t.err /\ sx' = t
    BY <2>1 DEF CommandReturns, CommandReturned, Exists, Commit
  <2>3. sx.status # "cancelled" BY <2>2, NotStopped
  <2>4. q.node \in Commands BY <1>0, <2>2, SoundFacts DEF RowOK
  <2>5. Act(sx, t, r) BY <1>0, <1>1, <2>2, <2>3, <2>4, CommandReturnsAct
  <2> HIDE DEF t
  <2> QED BY <1>0, <2>2, <2>5, ActDone
<1>7. CASE \E port \in UNION {OutPorts(n) : n \in Nodes} : BusDiesPublishing(r, port)
  <2>1. PICK port : BusDiesPublishing(r, port) BY <1>7
  <2> DEFINE u == WriteOutput(sx, r, port, "waiting")
             t == LoseAll(u, InjectedCommands(u))
  <2>2. r \in InjectedCommands(sx) /\ port \in OutPorts(q.node) /\ ~t.err /\ sx' = t
    BY <2>1 DEF BusDiesPublishing, Commit
  <2>3. q.node # "none" /\ q.node \in Commands /\ q.bun = "injected"
    BY <2>2 DEF InjectedCommands, Made, Exists, IsCommand
  <2>4. sx.status # "cancelled" BY <1>2, <2>3, NotStopped
  <2>5. Works(sx, t) BY <1>0, <2>2, <2>3, <2>4, PublishThenLoseIs
  <2> HIDE DEF t
  <2> QED BY <2>2, <2>5, WorksDone
<1>8. CASE RetryNode(r)
  <2> DEFINE t == Retried(sx, r)
  <2>1. MayRetry(sx, r) /\ ~t.err /\ sx' = t BY <1>8 DEF RetryNode, Commit
  <2>2. sx.status # "cancelled" BY <2>1 DEF MayRetry
  <2>3. Act(sx, t, r) BY <1>0, <1>1, <2>1, <2>2, RetryAct
  <2> HIDE DEF t
  <2> QED BY <1>0, <2>1, <2>3, ActDone
<1> QED BY <1>3, <1>4, <1>5, <1>6, <1>7, <1>8 DEF CommandStep

LEMMA RestartDone ==
  ASSUME ScopeInv, BusRestarts
  PROVE  Done(sx, sx')
<1>0. Sound(sx) /\ Accounted(sx) BY DEF ScopeInv
<1> DEFINE t == LoseAll(sx, InjectedCommands(sx))
<1>1. InjectedCommands(sx) # {} /\ ~t.err /\ sx' = t BY DEF BusRestarts, Commit
<1>2. PICK r \in Runs : sx.run[r].node # "none" /\ sx.run[r].bun = "injected"
  BY <1>1 DEF InjectedCommands, Made, Exists
<1>3. sx.status # "cancelled" BY <1>2, NotStopped DEF Owned
<1>4. Works(sx, t) BY <1>0, <1>1, <1>3, LoseAllIs
<1> HIDE DEF t
<1> QED BY <1>1, <1>4, WorksDone

(* The calls, and what the Bus does of itself. *)
Handler ==
  BusRestarts \/ \E r \in Runs : LeaseExpires(r) \/ ReserveForActor(r) \/ RetryNode(r) \/ BridgeStep(r) \/ CommandStep(r)

LEMMA HandlerDone ==
  ASSUME ScopeInv, Handler
  PROVE  Done(sx, sx')
  BY BridgeDone, CommandDone, RestartDone DEF Handler

LEMMA DoneInv ==
  ASSUME ScopeInv, Done(sx, sx')
  PROVE  ScopeInv'
<1>1. sx'.err = FALSE
  <2>1. ~sx'.err /\ sx'.err \in BOOLEAN BY SoundFacts, TableFields DEF Done
  <2> QED BY <2>1
<1>2. sx'.pauses = sx.pauses /\ sx.pauses <= MaxPauses BY DEF ScopeInv, Done
<1>3. Sound(sx') /\ Accounted(sx') /\ StoppedOK(sx') BY DEF Done, StoppedOK
<1> QED BY <1>1, <1>2, <1>3 DEF ScopeInv

LEMMA CalmGoing ==
  ASSUME ScopeInv, Calm(sx), sx.status \notin {"pausing", "paused", "cancelled"}
  PROVE  sx.pause.st = "none" /\ Going(sx)
<1>1. sx.pause.st \in {"none", "pausing", "paused"} BY SoundFacts, TableFields DEF ScopeInv, PauseRow
<1> QED BY <1>1 DEF Calm, CalmPause, CalmRow, Going

(* Without late calls nobody moves a Delivery of a paused execution. *)
LEMMA HandlerGoing ==
  ASSUME ScopeInv, Calm(sx), ~LateCalls, Handler
  PROVE  sx.pause.st = "none" /\ Going(sx)
<1>0. sx.pause.st \in {"none", "pausing", "paused"} BY SoundFacts, TableFields DEF ScopeInv, PauseRow
<1>1. ASSUME NEW r \in Runs, Open(r), sx.run[r].bun \in Owned
      PROVE  sx.status \notin {"pausing", "paused", "cancelled"}
  <2>1. sx.status \notin {"paused", "cancelled"} BY <1>1 DEF Calm, CalmRow
  <2>2. ~(sx.pause.st = "pausing" /\ sx.pause.canc[r] # "none") BY <1>1 DEF Open, Asked
  <2>3. sx.pause.st # "pausing" BY <1>1, <2>2 DEF Calm, CalmRecord
  <2> QED BY <1>0, <2>1, <2>3 DEF Calm, CalmPause
<1>2. ASSUME NEW r \in Runs, NEW p \in Slots, sx.run[r].rows[p] = "queued"
      PROVE  sx.status \notin {"pausing", "paused", "cancelled"}
  BY <1>2 DEF Calm, CalmRow
<1>3. ASSUME NEW r \in Runs, sx.run[r].host = "running"
      PROVE  sx.status \notin {"pausing", "paused", "cancelled"}
  BY <1>3 DEF Calm, CalmRow
<1>4. "reserved" \in Owned /\ "injected" \in Owned BY DEF Owned
<1>5. sx.status \notin {"pausing", "paused", "cancelled"}
  <2>1. CASE BusRestarts
    <3>1. PICK r \in Runs : sx.run[r].bun = "injected" /\ Open(r)
      BY <2>1 DEF BusRestarts, InjectedCommands, Made
    <3> QED BY <1>1, <1>4, <3>1
  <2>2. ASSUME NEW r \in Runs, LeaseExpires(r) PROVE sx.status \notin {"pausing", "paused", "cancelled"}
    BY <1>1, <1>4, <2>2 DEF LeaseExpires, Goes
  <2>3. ASSUME NEW r \in Runs, ReserveForActor(r) PROVE sx.status \notin {"pausing", "paused", "cancelled"}
    BY <1>2, <2>3 DEF ReserveForActor, MayReserve
  <2>4. ASSUME NEW r \in Runs, RetryNode(r) PROVE sx.status \notin {"pausing", "paused", "cancelled"}
    BY <2>4 DEF RetryNode, MayRetry
  <2>5. ASSUME NEW r \in Runs, BridgeStep(r) PROVE sx.status \notin {"pausing", "paused", "cancelled"}
    <3>1. Open(r) /\ sx.run[r].bun \in Owned
      BY <1>4, <2>5 DEF BridgeStep, Prepare, Inject, ReportFailed, Defer, Acknowledge, PublishOutput, MayPublish, Goes
    <3> QED BY <1>1, <3>1
  <2>6. ASSUME NEW r \in Runs, CommandStep(r) PROVE sx.status \notin {"pausing", "paused", "cancelled"}
    <3>1. CASE ReserveForCommand(r) BY <1>2, <3>1 DEF ReserveForCommand, MayReserve
    <3>2. CASE CommandFails(r) BY <1>3, <3>2 DEF CommandFails
    <3>3. CASE CommandLeaseExpires(r) BY <1>1, <1>4, <3>3 DEF CommandLeaseExpires
    <3>4. CASE \E ports \in SUBSET UNION {OutPorts(n) : n \in Nodes} : CommandReturns(r, ports)
      BY <1>3, <3>4 DEF CommandReturns
    <3>5. CASE \E port \in UNION {OutPorts(n) : n \in Nodes} : BusDiesPublishing(r, port)
      BY <1>1, <1>4, <3>5 DEF BusDiesPublishing, InjectedCommands, Made
    <3> QED BY <2>6, <3>1, <3>2, <3>3, <3>4, <3>5 DEF CommandStep
  <2> QED BY <2>1, <2>2, <2>3, <2>4, <2>5, <2>6 DEF Handler
<1> QED BY <1>5, CalmGoing

LEMMA DoneCalm ==
  ASSUME Calm(sx), sx.pause.st = "none", Going(sx), Done(sx, sx')
  PROVE  Calm(sx')
<1>1. sx'.pause.st = "none" /\ Going(sx') BY DEF Done
<1>2. \A x \in Runs : CalmCore(sx'.run[x]) BY DEF Done, Calm, CalmRow
<1> QED BY <1>1, <1>2 DEF Calm, CalmPause, CalmRow, CalmRecord, Going

LEMMA HandlerCalm ==
  ASSUME ScopeInv, Calm(sx), ~LateCalls, Handler
  PROVE  Calm(sx')
  BY HandlerGoing, HandlerDone, DoneCalm

-----------------------------------------------------------------------------
(* Starting. *)

LEMMA StartDone ==
  ASSUME ScopeInv, StartExecution
  PROVE  Done(sx, sx')
<1> DEFINE s == [sx EXCEPT !.status = "active"]
           edges == {e \in Edges : e[1] = "ingress"}
           u == RouteAll(s, edges)
           t == Reconcile(u)
<1>0. Sound(sx) /\ Accounted(sx) BY DEF ScopeInv
<1>1. sx.status = "none" /\ ~t.err /\ sx' = t BY DEF StartExecution, IngressRouted, Commit
<1>2. Step(sx, s, 0)
  <2>1. sx \in Tables BY <1>0, SoundFacts
  <2>2. s \in Tables /\ s.run = sx.run /\ s.pause = sx.pause /\ s.pauses = sx.pauses /\ s.status = "active"
    BY <2>1 DEF Tables, ScopeStatus
  <2> HIDE DEF s
  <2> QED BY <1>0, <1>1, <2>2, StatusStep
<1>3. s.status = "active" BY <1>0, SoundFacts DEF Tables
<1> HIDE DEF s
<1>4. Sound(s) BY <1>2 DEF Step
<1>5. Routed(s, u) BY <1>4, SoundFacts, RouteAllIs
<1> HIDE DEF u
<1>6. Step(s, u, 0) BY <1>3, <1>4, <1>5, RoutedStep
<1>7. Step(u, t, 0) BY <1>1, <1>6, ReconcileStep DEF Step
<1> HIDE DEF t
<1>8. Step(sx, t, 0) BY <1>2, <1>6, <1>7, StepTwice
<1>9. ASSUME NEW x \in Runs
      PROVE  /\ LiveOK(t.run[x]) /\ NotReplayed(sx.run[x], t.run[x])
             /\ CalmCore(sx.run[x]) => CalmCore(t.run[x])
  <2>0. x # 0 BY Constants
  <2>1. RouteOf(sx.run[x], t.run[x]) /\ LiveOK(sx.run[x]) /\ RowOK(sx.run[x], sx.status)
    BY <1>0, <1>8, <2>0, SoundFacts DEF Step, Accounted
  <2>2. sx.run[x].node = "none" => sx.run[x] = NoRun BY <2>1 DEF RowOK
  <2> QED BY <2>1, <2>2, RouteKeeps
<1> QED BY <1>1, <1>8, <1>9 DEF Done, Step, Accounted

-----------------------------------------------------------------------------
(* Pause, resume and stop rewrite every row at once. *)

Whole(s) == Sound(s) /\ Accounted(s) /\ StoppedOK(s)

(* A row whose turn a pause closes. *)
Hold(q, z, r) ==
  [q EXCEPT
     !.att = IF z.att[r] = 0 THEN q.att
             ELSE [q.att EXCEPT ![z.att[r]] =
                     IF q.att[z.att[r]] \notin Live THEN q.att[z.att[r]]
                     ELSE IF z.unknown[r] THEN "outcome_unknown" ELSE "cancelled"],
     !.bun = IF z.canc[r] # "none" /\ q.bno = z.bno[r] THEN "cancelled" ELSE @,
     !.rows = [p \in Slots |-> IF z.row[r][p] # "none" THEN "held" ELSE @[p]],
     !.st = IF z.node[r] = "none" \/ @ \in Ended THEN @ ELSE "paused"]

Holds(q, q2, z, r) ==
  /\ q2 \in RunRow /\ q2.node = q.node /\ q2.got = q.got /\ q2.bno = q.bno /\ q2.batt = q.batt
  /\ q2.out = q.out /\ q2.host = q.host /\ Len(q2.att) = Len(q.att)
  /\ \A i \in 1 .. Len(q.att) :
       \/ q2.att[i] = q.att[i] /\ (i = z.att[r] => q.att[i] \notin Live)
       \/ i = z.att[r] /\ q.att[i] \in Live /\ q2.att[i] \notin Live
  /\ q2.bun = IF z.canc[r] # "none" /\ q.bno = z.bno[r] THEN "cancelled" ELSE q.bun
  /\ \A p \in Slots : q2.rows[p] = IF z.row[r][p] # "none" THEN "held" ELSE q.rows[p]
  /\ q2.st = IF z.node[r] = "none" \/ q.st \in Ended THEN q.st ELSE "paused"

LEMMA HoldIs ==
  ASSUME NEW q \in RunRow, NEW z \in PauseRow, NEW r \in Runs, z.att[r] <= Len(q.att)
  PROVE  /\ Holds(q, Hold(q, z, r), z, r)
         /\ q = NoRun /\ z.node[r] = "none" /\ z.canc[r] = "none" /\ z.att[r] = 0
              /\ (\A p \in Slots : z.row[r][p] = "none") => Hold(q, z, r) = NoRun
<1> DEFINE q2 == Hold(q, z, r)
           k == z.att[r]
           n == Len(q.att)
           v == IF q.att[k] \notin Live THEN q.att[k]
                ELSE IF z.unknown[r] THEN "outcome_unknown" ELSE "cancelled"
           att == IF k = 0 THEN q.att ELSE [q.att EXCEPT ![k] = v]
           rows == [p \in Slots |-> IF z.row[r][p] # "none" THEN "held" ELSE q.rows[p]]
<1>1. q.att \in Seq(AttemptStatus) /\ n \in Nat /\ k \in Nat /\ k <= n
      /\ (\A i \in 1 .. n : q.att[i] \in AttemptStatus) /\ q.rows \in [Slots -> RowState]
  BY RowFields DEF PauseRow
<1>2. k # 0 => k \in 1 .. n BY <1>1
<1>3. k # 0 => v \in AttemptStatus /\ v \notin Live BY <1>1, <1>2 DEF AttemptStatus, Live
<1>4. att \in Seq(AttemptStatus) /\ Len(att) = n
      /\ \A i \in 1 .. n : att[i] = IF k # 0 /\ i = k THEN v ELSE q.att[i]
  <2> HIDE DEF v, k
  <2>1. CASE k = 0 BY <1>1, <2>1
  <2>2. CASE k # 0 BY <1>1, <1>2, <1>3, <2>2
  <2> QED BY <2>1, <2>2
<1>5. rows \in [Slots -> RowState] BY <1>1 DEF RowState
<1>6. q2 = [q EXCEPT !.att = att,
                     !.bun = IF z.canc[r] # "none" /\ q.bno = z.bno[r] THEN "cancelled" ELSE q.bun,
                     !.rows = rows,
                     !.st = IF z.node[r] = "none" \/ q.st \in Ended THEN q.st ELSE "paused"]
  BY DEF Hold, RunRow
<1> HIDE DEF att, rows, k, v, q2
<1>7. /\ q2 \in RunRow /\ q2.node = q.node /\ q2.got = q.got /\ q2.bno = q.bno /\ q2.batt = q.batt
      /\ q2.out = q.out /\ q2.host = q.host /\ q2.att = att /\ q2.rows = rows
      /\ q2.bun = IF z.canc[r] # "none" /\ q.bno = z.bno[r] THEN "cancelled" ELSE q.bun
      /\ q2.st = IF z.node[r] = "none" \/ q.st \in Ended THEN q.st ELSE "paused"
  BY <1>4, <1>5, <1>6 DEF RunRow, NodeStatus, BundleState
<1>8. \A i \in 1 .. n :
       \/ q2.att[i] = q.att[i] /\ (i = k => q.att[i] \notin Live)
       \/ i = k /\ q.att[i] \in Live /\ q2.att[i] \notin Live
  <2> SUFFICES ASSUME NEW i \in 1 .. n
               PROVE  \/ q2.att[i] = q.att[i] /\ (i = k => q.att[i] \notin Live)
                      \/ i = k /\ q.att[i] \in Live /\ q2.att[i] \notin Live
    OBVIOUS
  <2>1. i = k => k # 0 BY <1>1
  <2>2. v = q.att[k] \/ q.att[k] \in Live BY DEF v
  <2> QED BY <1>3, <1>4, <1>7, <2>1, <2>2
<1>9. \A p \in Slots : q2.rows[p] = IF z.row[r][p] # "none" THEN "held" ELSE q.rows[p]
  BY <1>7 DEF rows
<1>10. Holds(q, q2, z, r) BY <1>4, <1>7, <1>8, <1>9 DEF Holds, k, n
<1>11. ASSUME q = NoRun, z.node[r] = "none", z.canc[r] = "none", k = 0,
              \A p \in Slots : z.row[r][p] = "none"
       PROVE  q2 = NoRun
  <2>1. rows = q.rows BY <1>1, <1>11 DEF rows
  <2>2. att = q.att BY <1>11 DEF att
  <2> QED BY <1>6, <1>11, <2>1, <2>2 DEF NoRun
<1> QED BY <1>10, <1>11 DEF q2, k

LEMMA FinalizeIs ==
  ASSUME NEW s, Sound(s)
  PROVE  LET t == FinalizePause(s) IN
         /\ t \in Tables /\ t.pause = [s.pause EXCEPT !.st = "paused"]
         /\ t.status = (IF s.status = "pausing" THEN "paused" ELSE s.status)
         /\ t.pauses = s.pauses /\ t.err = s.err
         /\ \A r \in Runs : t.run[r] = Hold(s.run[r], s.pause, r)
<1> DEFINE t == FinalizePause(s)
           z == s.pause
<1>1. s \in Tables /\ z \in PauseRow /\ \A r \in Runs : s.run[r] \in RunRow /\ z.att[r] <= Len(s.run[r].att)
  BY SoundFacts, TableFields DEF RecordOK
<1>2. t = [s EXCEPT !.run = [r \in Runs |-> Hold(s.run[r], z, r)],
                    !.status = IF s.status = "pausing" THEN "paused" ELSE s.status,
                    !.pause = [z EXCEPT !.st = "paused"]]
  BY <1>1 DEF FinalizePause, Hold, Tables
<1>3. \A r \in Runs : Hold(s.run[r], z, r) \in RunRow BY <1>1, HoldIs DEF Holds
<1>4. [z EXCEPT !.st = "paused"] \in PauseRow BY <1>1 DEF PauseRow
<1> HIDE DEF t, z
<1> DEFINE run == [r \in Runs |-> Hold(s.run[r], z, r)]
           st == IF s.status = "pausing" THEN "paused" ELSE s.status
           z2 == [z EXCEPT !.st = "paused"]
<1>5. st \in ScopeStatus BY <1>1, TableFields DEF ScopeStatus
<1>6. run \in [Runs -> RunRow] /\ \A r \in Runs : run[r] = Hold(s.run[r], z, r) BY <1>3
<1>7. t = [s EXCEPT !.run = run, !.status = st, !.pause = z2] /\ z2 \in PauseRow BY <1>2, <1>4
<1> HIDE DEF run, st, z2
<1>8. t \in Tables /\ t.pause = z2 /\ t.status = st /\ t.pauses = s.pauses /\ t.err = s.err /\ t.run = run
  BY <1>1, <1>5, <1>6, <1>7 DEF Tables
<1> QED BY <1>6, <1>8 DEF st, z2, t, z

(* finalizePause keeps what is Whole: the attempt of a recorded Command is   *)
(* the one its bundle carries, so that it is closed with it.                 *)
LEMMA FinalizeRow ==
  ASSUME NEW q \in RunRow, NEW z \in PauseRow, NEW r \in Runs, NEW st, z.st = "pausing",
         RowOK(q, st), RecordOK(q, z, r), LiveOK(q)
  PROVE  LET q2 == Hold(q, z, r)
             st2 == IF st = "pausing" THEN "paused" ELSE st
         IN  /\ RowOK(q2, st2) /\ RecordOK(q2, [z EXCEPT !.st = "paused"], r) /\ LiveOK(q2)
             /\ Still(q) => Still(q2)
             /\ NotReplayed(q, q2)
<1> DEFINE q2 == Hold(q, z, r)
           st2 == IF st = "pausing" THEN "paused" ELSE st
           z2 == [z EXCEPT !.st = "paused"]
<1>1. Holds(q, q2, z, r) BY HoldIs DEF RecordOK
<1>2. q.node = "none" => q2 = NoRun BY HoldIs DEF RecordOK, RowOK
<1>3. Len(q.att) \in Nat /\ q.batt \in Nat /\ z.att[r] \in Nat BY RowFields DEF PauseRow
<1>4. z2.st = "paused" /\ z2.node = z.node /\ z2.att = z.att /\ z2.canc = z.canc /\ z2.row = z.row
  BY DEF PauseRow
<1> HIDE DEF q2, z2
<1>5. q2.st \in Ended => q2.st = q.st BY <1>1 DEF Holds, Ended
<1>6. q.st \in Ended => q2.st = q.st BY <1>1 DEF Holds
<1>7. RowOK(q2, st2)
  <2>1. q2.node # "none" => q2.got \subseteq InPorts[q2.node] /\ q2.out \subseteq OutPorts(q2.node)
    BY <1>1 DEF Holds, RowOK
  <2>2. q2.batt <= Len(q2.att) BY <1>1 DEF Holds, RowOK
  <2>3. q2.st = "completed" /\ q2.node \notin Commands => Required[q2.node] \subseteq q2.out
    BY <1>1, <1>5 DEF Holds, RowOK, Ended
  <2>4. q2.host = "running" => q2.node \in Commands BY <1>1 DEF Holds, RowOK
  <2>5. q2.node # "none" /\ q2.st = "cancelled" => st2 = "cancelled" BY <1>1, <1>5 DEF Holds, RowOK, Ended
  <2>6. q2.node # "none" /\ st2 = "completed" => q2.st = "completed" BY <1>1, <1>6 DEF Holds, RowOK, Ended
  <2>7. q2.node = "none" => q2 = NoRun BY <1>1, <1>2 DEF Holds
  <2> QED BY <2>1, <2>2, <2>3, <2>4, <2>5, <2>6, <2>7 DEF RowOK
<1>8. RecordOK(q2, z2, r) BY <1>1, <1>4 DEF Holds, RecordOK
<1>9. ASSUME NEW i \in 1 .. Len(q.att), q2.att[i] \in Live
      PROVE  q.att[i] \in Live /\ q2.att[i] = q.att[i] /\ i # z.att[r]
  BY <1>1, <1>9 DEF Holds
<1>10. LiveOK(q2)
  <2>1. q2.host = "running" => q2.st \notin Ended BY <1>1, <1>5 DEF Holds, LiveOK
  <2>2. ASSUME q2.node \in Commands, NEW i \in 1 .. Len(q2.att), q2.att[i] \in Live
        PROVE  q2.bun = "injected" /\ i = q2.batt /\ q2.st \notin Ended
    <3>1. i \in 1 .. Len(q.att) /\ q.node \in Commands BY <1>1, <2>2 DEF Holds
    <3>2. q.att[i] \in Live /\ i # z.att[r] BY <1>9, <2>2, <3>1
    <3>3. q.bun = "injected" /\ i = q.batt /\ q.st \notin Ended BY <3>1, <3>2 DEF LiveOK
    <3>4. ~(z.canc[r] # "none" /\ z.bno[r] = q.bno) BY <3>1, <3>2, <3>3 DEF RecordOK, Owned
    <3> QED BY <1>1, <1>5, <3>3, <3>4 DEF Holds
  <2> QED BY <2>1, <2>2 DEF LiveOK
<1>11. Still(q) => Still(q2)
  <2>1. Still(q) => \A i \in 1 .. Len(q2.att) : q2.att[i] \notin Live BY <1>1, <1>9 DEF Holds, Still
  <2>2. Still(q) => \A p \in Slots : q2.rows[p] \notin {"queued"} \cup Owned BY <1>1 DEF Holds, Still, Owned
  <2>3. Still(q) => q2.st \in Ended /\ q2.host = "none" /\ q2.bun \notin Owned
    BY <1>1, <1>6 DEF Holds, Still, Owned
  <2> QED BY <2>1, <2>2, <2>3 DEF Still
<1>12. NotReplayed(q, q2)
  <2> SUFFICES ASSUME q.node \in External, NEW i \in 1 .. Len(q.att), q.att[i] \in Live,
                      q2.att[i] = "outcome_unknown"
               PROVE  q2.st \notin {"retrying", "active"}
    BY DEF NotReplayed
  <2>1. i = z.att[r] BY <1>1 DEF Holds, Live
  <2>2. q.node \in Commands /\ z.att[r] # 0 BY <1>3, <2>1, Constants
  <2>3. z.node[r] # "none" BY <2>1, <2>2 DEF RecordOK
  <2> QED BY <1>1, <2>3 DEF Holds, Ended
<1> QED BY <1>7, <1>8, <1>10, <1>11, <1>12 DEF q2, z2

LEMMA FinalizeWhole ==
  ASSUME NEW s, Whole(s), s.pause.st = "pausing"
  PROVE  LET t == FinalizePause(s) IN
         /\ Whole(t) /\ t.pauses = s.pauses /\ t.err = s.err
         /\ \A r \in Runs : NotReplayed(s.run[r], t.run[r])
<1> DEFINE t == FinalizePause(s)
           z == s.pause
           z2 == [z EXCEPT !.st = "paused"]
<1>0. Sound(s) /\ Accounted(s) /\ StoppedOK(s) /\ z \in PauseRow /\ z.st = "pausing"
  BY SoundFacts, TableFields DEF Whole
<1>1. /\ t \in Tables /\ t.pause = z2
      /\ t.status = (IF s.status = "pausing" THEN "paused" ELSE s.status)
      /\ t.pauses = s.pauses /\ t.err = s.err
      /\ \A r \in Runs : t.run[r] = Hold(s.run[r], z, r)
  BY <1>0, FinalizeIs
<1>2. z2.prior = z.prior BY <1>0 DEF PauseRow
<1> HIDE DEF t, z2
<1>3. ASSUME NEW r \in Runs
      PROVE  /\ RowOK(t.run[r], t.status) /\ RecordOK(t.run[r], t.pause, r) /\ LiveOK(t.run[r])
             /\ Still(s.run[r]) => Still(t.run[r])
             /\ NotReplayed(s.run[r], t.run[r])
  <2>1. s.run[r] \in RunRow /\ RowOK(s.run[r], s.status) /\ RecordOK(s.run[r], z, r) /\ LiveOK(s.run[r])
    BY <1>0, SoundFacts DEF Accounted
  <2> HIDE DEF z
  <2> QED BY <1>0, <1>1, <2>1, FinalizeRow DEF z2
<1>4. Sound(t) BY <1>0, <1>1, <1>2, <1>3 DEF Sound
<1>5. StoppedOK(t)
  <2> SUFFICES ASSUME t.status = "cancelled", NEW r \in Runs, t.run[r].node # "none" PROVE Still(t.run[r])
    BY DEF StoppedOK
  <2>1. s.run[r].node = t.run[r].node
    <3>1. z.att[r] <= Len(s.run[r].att) /\ s.run[r] \in RunRow BY <1>0, SoundFacts DEF RecordOK
    <3> HIDE DEF z
    <3> QED BY <1>0, <1>1, <3>1, HoldIs DEF Holds
  <2> QED BY <1>0, <1>1, <1>3, <2>1 DEF StoppedOK
<1> QED BY <1>1, <1>3, <1>4, <1>5 DEF Whole, Accounted, t

(* After a pause every Delivery that was under way is closed. *)
LEMMA FinalizeCalm ==
  ASSUME NEW s, Whole(s), Calm(s), s.pause.st = "pausing"
  PROVE  Calm(FinalizePause(s))
<1> DEFINE t == FinalizePause(s)
           z == s.pause
           z2 == [z EXCEPT !.st = "paused"]
<1>0. Sound(s) /\ StoppedOK(s) /\ z \in PauseRow /\ z.st = "pausing" /\ s.status \in {"pausing", "cancelled"}
  BY SoundFacts, TableFields DEF Whole, Calm, CalmPause
<1>1. /\ t.pause = z2
      /\ t.status = (IF s.status = "pausing" THEN "paused" ELSE s.status)
      /\ \A r \in Runs : t.run[r] = Hold(s.run[r], z, r)
  BY <1>0, FinalizeIs
<1>2. z2.st = "paused" /\ z2.node = z.node BY <1>0 DEF PauseRow
<1> HIDE DEF t, z2
<1>3. ASSUME NEW r \in Runs
      PROVE  CalmRow(t.run[r], t.status) /\ CalmRecord(t.run[r], t.pause, r)
  <2> DEFINE q == s.run[r]
             q2 == t.run[r]
  <2>1. q \in RunRow /\ RecordOK(q, z, r) /\ CalmRow(q, s.status) /\ CalmRecord(q, z, r)
        /\ (s.status = "cancelled" /\ q.node # "none" => Still(q))
    BY <1>0, SoundFacts DEF Calm, StoppedOK
  <2>2. Holds(q, q2, z, r) BY <1>0, <1>1, <2>1, HoldIs DEF RecordOK
  <2>3. t.status \in {"paused", "cancelled"} /\ (t.status = "cancelled" => s.status = "cancelled")
    BY <1>0, <1>1
  <2> HIDE DEF q, q2, z
  <2>4. q.host # "running" BY <1>0, <2>1 DEF CalmRow
  <2>5. q2.bun \notin Owned BY <1>0, <2>1, <2>2 DEF Holds, CalmRecord, Owned
  <2>6. \A p \in Slots : q2.rows[p] # "queued" BY <1>0, <2>1, <2>2 DEF Holds, CalmRow
  <2>7. ASSUME NEW i \in 1 .. Len(q2.att) PROVE q2.att[i] # "running"
    <3> SUFFICES ASSUME q2.att[i] = "running" PROVE FALSE OBVIOUS
    <3>1. q.att[i] = "running" /\ i # z.att[r] BY <2>2 DEF Holds, Live
    <3>2. q.bun = "injected" /\ i = q.batt BY <2>1, <2>2, <3>1 DEF CalmRow, CalmCore, Holds
    <3> QED BY <1>0, <2>1, <3>1, <3>2 DEF CalmRecord, Owned
  <2>8. q2.st = "paused" => z.node[r] # "none" /\ t.status = "paused"
    <3> SUFFICES ASSUME q2.st = "paused" PROVE z.node[r] # "none" /\ t.status = "paused" OBVIOUS
    <3>1. q.st # "paused" BY <1>0, <2>1 DEF CalmRow
    <3>2. z.node[r] # "none" /\ q.st \notin Ended BY <2>2, <3>1 DEF Holds
    <3>3. q.node # "none" BY <2>1, <3>2 DEF RecordOK
    <3> QED BY <2>1, <2>3, <3>2, <3>3 DEF Still
  <2>9. q2.st = "collecting" => q.st = "collecting" BY <2>2 DEF Holds
  <2>10. q2.node = q.node /\ q2.got = q.got /\ q2.host = q.host BY <2>2 DEF Holds
  <2>11. CalmCore(q2) BY <2>1, <2>4, <2>7, <2>9, <2>10 DEF CalmCore, CalmRow
  <2>12. CalmRow(q2, t.status) BY <2>4, <2>5, <2>6, <2>8, <2>10, <2>11 DEF CalmRow
  <2>13. CalmRecord(q2, t.pause, r) BY <1>0, <1>1, <1>2, <2>1, <2>8, <2>10 DEF CalmRecord
  <2> QED BY <2>12, <2>13 DEF q2
<1>4. CalmPause(t) BY <1>0, <1>1, <1>2 DEF CalmPause
<1> QED BY <1>3, <1>4 DEF Calm, t

(* What is asked of a runtime owner, and what it answers. *)
Asks(s, t) ==
  /\ t \in Tables /\ t.status = s.status /\ t.pauses = s.pauses /\ t.err = s.err
  /\ t.pause.st = s.pause.st /\ t.pause.prior = s.pause.prior /\ t.pause.node = s.pause.node
  /\ t.pause.row = s.pause.row /\ t.pause.bno = s.pause.bno /\ t.pause.att = s.pause.att
  /\ \A x \in Runs : /\ t.pause.canc[x] = "none" <=> s.pause.canc[x] = "none"
                     /\ t.run[x] \in {s.run[x], [s.run[x] EXCEPT !.host = "none"]}

Idle(q, q2) ==
  /\ q2.node = q.node /\ q2.st = q.st /\ q2.got = q.got /\ q2.rows = q.rows /\ q2.bun = q.bun
  /\ q2.bno = q.bno /\ q2.batt = q.batt /\ q2.att = q.att /\ q2.out = q.out
  /\ q2.host \in {q.host, "none"}

LEMMA IdleRow ==
  ASSUME NEW q \in RunRow, NEW q2 \in {q, [q EXCEPT !.host = "none"]}
  PROVE  Idle(q, q2) /\ (q = NoRun => q2 = NoRun)
<1>1. Idle(q, q2) BY DEF Idle, RunRow
<1>2. q = NoRun => q2 = NoRun BY DEF NoRun
<1> QED BY <1>1, <1>2

LEMMA AsksWhole ==
  ASSUME NEW s, NEW t, Whole(s), Asks(s, t)
  PROVE  Whole(t) /\ \A x \in Runs : NotReplayed(s.run[x], t.run[x])
<1>1. ASSUME NEW x \in Runs
      PROVE  /\ RowOK(t.run[x], t.status) /\ RecordOK(t.run[x], t.pause, x) /\ LiveOK(t.run[x])
             /\ (t.status = "cancelled" /\ t.run[x].node # "none" => Still(t.run[x]))
             /\ NotReplayed(s.run[x], t.run[x])
  <2> DEFINE q == s.run[x]
             q2 == t.run[x]
             z == s.pause
             z2 == t.pause
  <2>1. q \in RunRow /\ RowOK(q, s.status) /\ RecordOK(q, z, x) /\ LiveOK(q)
        /\ (s.status = "cancelled" /\ q.node # "none" => Still(q))
    BY SoundFacts DEF Whole, Accounted, StoppedOK
  <2>2. Idle(q, q2) /\ (q = NoRun => q2 = NoRun) BY <2>1, IdleRow DEF Asks
  <2>3. /\ t.status = s.status /\ z2.st = z.st /\ z2.node = z.node /\ z2.row = z.row /\ z2.bno = z.bno
        /\ z2.att = z.att /\ (z2.canc[x] = "none" <=> z.canc[x] = "none")
    BY DEF Asks
  <2> HIDE DEF q, q2, z, z2
  <2>4. RowOK(q2, t.status) BY <2>1, <2>2, <2>3 DEF RowOK, Idle
  <2>5. RecordOK(q2, z2, x) BY <2>1, <2>2, <2>3 DEF RecordOK, Idle
  <2>6. LiveOK(q2) BY <2>1, <2>2 DEF LiveOK, Idle
  <2>7. Still(q) => Still(q2) BY <2>2 DEF Still, Idle
  <2>8. NotReplayed(q, q2) BY <2>2 DEF NotReplayed, Idle, Live
  <2>9. q2.node = q.node BY <2>2 DEF Idle
  <2> QED BY <2>1, <2>3, <2>4, <2>5, <2>6, <2>7, <2>8, <2>9 DEF q, q2, z2
<1>2. t \in Tables /\ t.pause.prior = s.pause.prior BY DEF Asks
<1>3. Sound(t) BY <1>1, <1>2 DEF Sound, Whole
<1> QED BY <1>1, <1>3 DEF Whole, Accounted, StoppedOK

LEMMA AsksCalm ==
  ASSUME NEW s, NEW t, Whole(s), Calm(s), Asks(s, t)
  PROVE  Calm(t)
<1>1. ASSUME NEW x \in Runs
      PROVE  CalmRow(t.run[x], t.status) /\ CalmRecord(t.run[x], t.pause, x)
  <2> DEFINE q == s.run[x]
             q2 == t.run[x]
             z == s.pause
             z2 == t.pause
  <2>1. q \in RunRow /\ CalmRow(q, s.status) /\ CalmRecord(q, z, x)
    BY SoundFacts DEF Whole, Calm
  <2>2. Idle(q, q2) BY <2>1, IdleRow DEF Asks
  <2>3. /\ t.status = s.status /\ z2.st = z.st /\ z2.node = z.node /\ z2.bno = z.bno
        /\ z2.att = z.att /\ (z2.canc[x] = "none" <=> z.canc[x] = "none")
    BY DEF Asks
  <2> HIDE DEF q, q2, z, z2
  <2>4. CalmRow(q2, t.status) BY <2>1, <2>2, <2>3 DEF CalmRow, CalmCore, Idle
  <2>5. CalmRecord(q2, z2, x) BY <2>1, <2>2, <2>3 DEF CalmRecord, Idle
  <2> QED BY <2>4, <2>5 DEF q2, z2
<1> QED BY <1>1 DEF Calm, CalmPause, Asks

(* A handler of the whole execution. *)
Bulk(s, t) ==
  /\ Whole(t) /\ ~t.err /\ t.pauses \in {s.pauses, s.pauses + 1} /\ (t.pauses # s.pauses => s.pauses < MaxPauses)
  /\ \A x \in Runs : NotReplayed(s.run[x], t.run[x])

LEMMA BulkInv ==
  ASSUME ScopeInv, Bulk(sx, sx')
  PROVE  ScopeInv'
<1>1. Sound(sx') /\ Accounted(sx') /\ StoppedOK(sx') BY DEF Bulk, Whole
<1>2. sx'.err = FALSE
  <2>1. ~sx'.err /\ sx'.err \in BOOLEAN BY <1>1, SoundFacts, TableFields DEF Bulk
  <2> QED BY <2>1
<1>3. sx'.pauses <= MaxPauses
  <2>1. sx.pauses \in Nat /\ MaxPauses \in Nat BY SoundFacts, TableFields, Constants DEF ScopeInv
  <2> QED BY <2>1 DEF Bulk, ScopeInv
<1> QED BY <1>1, <1>2, <1>3 DEF ScopeInv

LEMMA DeadlineBulk ==
  ASSUME ScopeInv, PauseDeadline
  PROVE  Bulk(sx, sx') /\ (Calm(sx) => Calm(sx'))
<1> DEFINE z == sx.pause
           canc == [r \in Runs |-> IF r \in Overdue(sx) THEN "force_requested" ELSE z.canc[r]]
           t == [sx EXCEPT !.pause = [z EXCEPT !.canc = canc]]
<1>0. sx \in Tables /\ z \in PauseRow /\ Whole(sx) BY SoundFacts, TableFields DEF ScopeInv, Whole
<1>1. sx' = t /\ ~t.err BY <1>0 DEF PauseDeadline, Commit, Tables, PauseRow
<1>2. canc \in [Runs -> CancelState] /\ \A x \in Runs : canc[x] = "none" <=> z.canc[x] = "none"
  BY <1>0 DEF Overdue, CancelState, PauseRow
<1> HIDE DEF canc
<1>3. [z EXCEPT !.canc = canc] \in PauseRow BY <1>0, <1>2 DEF PauseRow
<1>4. Asks(sx, t) BY <1>0, <1>2, <1>3 DEF Asks, Tables, PauseRow
<1>5. t.pauses = sx.pauses BY <1>4 DEF Asks
<1> HIDE DEF t
<1> QED BY <1>0, <1>1, <1>4, <1>5, AsksWhole, AsksCalm DEF Bulk

(* The last answer completes the pause. *)
LEMMA AnsweredBulk ==
  ASSUME NEW s, NEW u, NEW t, Whole(u), u.pause.st = "pausing", t \in {u, FinalizePause(u)}, ~t.err,
         u.pauses \in {s.pauses, s.pauses + 1}, u.pauses # s.pauses => s.pauses < MaxPauses,
         \A x \in Runs : u.run[x].node = s.run[x].node /\ u.run[x].att = s.run[x].att
  PROVE  Bulk(s, t) /\ (Calm(u) => Calm(t))
<1>1. CASE t = u
  <2>1. \A x \in Runs : NotReplayed(s.run[x], t.run[x]) BY <1>1 DEF NotReplayed, Live
  <2> QED BY <1>1, <2>1 DEF Bulk
<1>2. CASE t = FinalizePause(u)
  <2>1. Whole(t) /\ t.pauses = u.pauses /\ \A x \in Runs : NotReplayed(u.run[x], t.run[x])
    BY <1>2, FinalizeWhole
  <2>2. \A x \in Runs : NotReplayed(s.run[x], t.run[x]) BY <2>1 DEF NotReplayed
  <2>3. Calm(u) => Calm(t) BY <1>2, FinalizeCalm
  <2> QED BY <2>1, <2>2, <2>3 DEF Bulk
<1> QED BY <1>1, <1>2

LEMMA CancellationBulk ==
  ASSUME ScopeInv, NEW r \in Runs, NEW outcome \in {"quiesced", "session_retired"}, PauseCancellation(r, outcome)
  PROVE  Bulk(sx, sx') /\ (Calm(sx) => Calm(sx'))
<1> DEFINE z == sx.pause
           canc == [z.canc EXCEPT ![r] = outcome]
           u == [sx EXCEPT !.pause = [z EXCEPT !.canc = canc]]
<1>0. sx \in Tables /\ z \in PauseRow /\ Whole(sx) BY SoundFacts, TableFields DEF ScopeInv, Whole
<1>1. z.st = "pausing" /\ z.canc[r] # "none" BY DEF PauseCancellation, Pausing
<1>2. sx' \in {u, FinalizePause(u)} /\ ~sx'.err
  <2>1. [sx EXCEPT !.pause.canc[r] = outcome] = u BY <1>0 DEF Tables, PauseRow
  <2> QED BY <2>1 DEF PauseCancellation, CancellationRecorded, Commit
<1>3. canc \in [Runs -> CancelState] /\ \A x \in Runs : canc[x] = "none" <=> z.canc[x] = "none"
  BY <1>0, <1>1 DEF CancelState, PauseRow
<1> HIDE DEF canc
<1>4. [z EXCEPT !.canc = canc] \in PauseRow BY <1>0, <1>3 DEF PauseRow
<1>5. Asks(sx, u) /\ u.run = sx.run BY <1>0, <1>3, <1>4 DEF Asks, Tables, PauseRow
<1> HIDE DEF u
<1>6. Whole(u) /\ (Calm(sx) => Calm(u)) BY <1>0, <1>5, AsksWhole, AsksCalm
<1>7. u.pause.st = "pausing" /\ u.pauses = sx.pauses BY <1>1, <1>5 DEF Asks
<1> QED BY <1>2, <1>5, <1>6, <1>7, AnsweredBulk

-----------------------------------------------------------------------------
(* Pausing. *)

HeldRows(q) == [p \in Slots |-> IF q.rows[p] = "queued" THEN "held" ELSE q.rows[p]]
WithRows(q) == [q EXCEPT !.rows = HeldRows(q)]

Recorded(s) ==
  [NoPause EXCEPT
     !.st = "pausing", !.prior = s.status,
     !.node = [r \in Runs |-> IF Exists(s, r) /\ s.run[r].st \notin Ended THEN s.run[r].st ELSE "none"],
     !.row = [r \in Runs |-> [p \in Slots |->
                IF s.run[r].rows[p] \in {"held", "queued"} \cup Owned THEN s.run[r].rows[p] ELSE "none"]],
     !.canc = [r \in Runs |-> IF s.run[r].bun \in Owned THEN "requested" ELSE "none"],
     !.bno = [r \in Runs |-> s.run[r].bno],
     !.att = [r \in Runs |-> IF s.run[r].bun \in Owned THEN s.run[r].batt ELSE 0],
     !.unknown = [r \in Runs |-> s.run[r].bun = "injected"]]

LEMMA RecordedIs ==
  ASSUME NEW s \in Tables
  PROVE  LET z == Recorded(s) IN
         /\ z \in PauseRow /\ z.st = "pausing" /\ z.prior = s.status
         /\ \A r \in Runs :
              /\ z.node[r] = IF s.run[r].node # "none" /\ s.run[r].st \notin Ended THEN s.run[r].st ELSE "none"
              /\ \A p \in Slots : z.row[r][p] =
                   IF s.run[r].rows[p] \in {"held", "queued"} \cup Owned THEN s.run[r].rows[p] ELSE "none"
              /\ z.canc[r] = IF s.run[r].bun \in Owned THEN "requested" ELSE "none"
              /\ z.bno[r] = s.run[r].bno
              /\ z.att[r] = IF s.run[r].bun \in Owned THEN s.run[r].batt ELSE 0
<1> DEFINE node == [r \in Runs |-> IF Exists(s, r) /\ s.run[r].st \notin Ended THEN s.run[r].st ELSE "none"]
           row == [r \in Runs |-> [p \in Slots |->
                     IF s.run[r].rows[p] \in {"held", "queued"} \cup Owned THEN s.run[r].rows[p] ELSE "none"]]
           canc == [r \in Runs |-> IF s.run[r].bun \in Owned THEN "requested" ELSE "none"]
           bno == [r \in Runs |-> s.run[r].bno]
           att == [r \in Runs |-> IF s.run[r].bun \in Owned THEN s.run[r].batt ELSE 0]
           unknown == [r \in Runs |-> s.run[r].bun = "injected"]
           z == Recorded(s)
<1>1. s.status \in ScopeStatus /\ \A r \in Runs : s.run[r] \in RunRow BY TableFields
<1>2. \A r \in Runs : s.run[r].st \in NodeStatus /\ s.run[r].rows \in [Slots -> RowState]
                      /\ s.run[r].bno \in Nat /\ s.run[r].batt \in Nat
  BY <1>1, RowFields
<1>3. node \in [Runs -> NodeStatus \cup {"none"}] BY <1>2
<1>4. row \in [Runs -> [Slots -> RowState]]
  <2>1. ASSUME NEW r \in Runs, NEW p \in Slots PROVE row[r][p] \in RowState BY <1>2 DEF RowState, Owned
  <2> QED BY <2>1
<1>5. canc \in [Runs -> CancelState] BY DEF CancelState
<1>6. bno \in [Runs -> Nat] /\ att \in [Runs -> Nat] BY <1>2
<1>7. unknown \in [Runs -> BOOLEAN] OBVIOUS
<1>8. z = [NoPause EXCEPT !.st = "pausing", !.prior = s.status, !.node = node, !.row = row, !.canc = canc,
                          !.bno = bno, !.att = att, !.unknown = unknown]
  BY DEF Recorded
<1>9. /\ \A r \in Runs :
           /\ node[r] = IF s.run[r].node # "none" /\ s.run[r].st \notin Ended THEN s.run[r].st ELSE "none"
           /\ \A p \in Slots : row[r][p] =
                IF s.run[r].rows[p] \in {"held", "queued"} \cup Owned THEN s.run[r].rows[p] ELSE "none"
           /\ canc[r] = IF s.run[r].bun \in Owned THEN "requested" ELSE "none"
           /\ bno[r] = s.run[r].bno
           /\ att[r] = IF s.run[r].bun \in Owned THEN s.run[r].batt ELSE 0
  BY DEF Exists
<1> HIDE DEF node, row, canc, bno, att, unknown, z
<1>10. z \in PauseRow /\ z.st = "pausing" /\ z.prior = s.status /\ z.node = node /\ z.row = row
       /\ z.canc = canc /\ z.bno = bno /\ z.att = att
  BY <1>1, <1>3, <1>4, <1>5, <1>6, <1>7, <1>8, NoPauseIsRow DEF PauseRow
<1> QED BY <1>9, <1>10 DEF z

LEMMA PauseRecordedIs ==
  ASSUME NEW s \in Tables
  PROVE  LET t == PauseRecorded(s) IN
         /\ t \in Tables /\ t.status = "pausing" /\ t.pause = Recorded(s) /\ t.pauses = s.pauses + 1
         /\ t.err = s.err /\ \A r \in Runs : t.run[r] = WithRows(s.run[r])
<1> DEFINE run == [r \in Runs |-> WithRows(s.run[r])]
           t == PauseRecorded(s)
           z == Recorded(s)
<1>1. t = [s EXCEPT !.status = "pausing", !.pause = z, !.pauses = s.pauses + 1, !.run = run]
  BY DEF PauseRecorded, Recorded, WithRows, HeldRows
<1>2. \A r \in Runs : WithRows(s.run[r]) \in RunRow
  <2> SUFFICES ASSUME NEW q \in RunRow PROVE WithRows(q) \in RunRow BY TableFields
  <2>1. HeldRows(q) \in [Slots -> RowState] BY RowFields DEF HeldRows, RowState
  <2> QED BY <2>1 DEF WithRows, RunRow
<1>3. run \in [Runs -> RunRow] /\ \A r \in Runs : run[r] = WithRows(s.run[r]) BY <1>2
<1>4. z \in PauseRow /\ s.pauses + 1 \in Nat BY RecordedIs, TableFields
<1> HIDE DEF run, t, z
<1>5. t \in Tables /\ t.status = "pausing" /\ t.pause = z /\ t.pauses = s.pauses + 1 /\ t.err = s.err /\ t.run = run
  BY <1>1, <1>3, <1>4 DEF Tables, ScopeStatus
<1> QED BY <1>3, <1>5 DEF t, z

LEMMA WithRowsIs ==
  ASSUME NEW q \in RunRow
  PROVE  LET q2 == WithRows(q) IN
         /\ q2.node = q.node /\ q2.st = q.st /\ q2.got = q.got /\ q2.bun = q.bun /\ q2.bno = q.bno
         /\ q2.batt = q.batt /\ q2.att = q.att /\ q2.out = q.out /\ q2.host = q.host
         /\ \A p \in Slots : q2.rows[p] = IF q.rows[p] = "queued" THEN "held" ELSE q.rows[p]
         /\ q = NoRun => q2 = NoRun
<1>1. q = NoRun => HeldRows(q) = q.rows BY DEF HeldRows, NoRun
<1>2. q = NoRun => WithRows(q) = q BY <1>1 DEF WithRows, NoRun
<1> QED BY <1>2 DEF WithRows, HeldRows, RunRow

LEMMA RecordedWhole ==
  ASSUME NEW s, Whole(s), s.status \in {"active", "waiting_external", "blocked"}
  PROVE  Whole(PauseRecorded(s))
<1> DEFINE t == PauseRecorded(s)
           z == Recorded(s)
<1>0. s \in Tables /\ Sound(s) /\ Accounted(s) BY SoundFacts DEF Whole
<1>1. /\ t \in Tables /\ t.status = "pausing" /\ t.pause = z
      /\ \A r \in Runs : t.run[r] = WithRows(s.run[r])
  BY <1>0, PauseRecordedIs
<1>2. /\ z \in PauseRow /\ z.st = "pausing" /\ z.prior = s.status
      /\ \A r \in Runs :
              /\ z.node[r] = IF s.run[r].node # "none" /\ s.run[r].st \notin Ended THEN s.run[r].st ELSE "none"
              /\ \A p \in Slots : z.row[r][p] =
                   IF s.run[r].rows[p] \in {"held", "queued"} \cup Owned THEN s.run[r].rows[p] ELSE "none"
              /\ z.canc[r] = IF s.run[r].bun \in Owned THEN "requested" ELSE "none"
              /\ z.bno[r] = s.run[r].bno
              /\ z.att[r] = IF s.run[r].bun \in Owned THEN s.run[r].batt ELSE 0
  BY <1>0, RecordedIs
<1> HIDE DEF t, z
<1>3. ASSUME NEW r \in Runs
      PROVE  RowOK(t.run[r], t.status) /\ RecordOK(t.run[r], z, r) /\ LiveOK(t.run[r])
  <2> DEFINE q == s.run[r]
             q2 == t.run[r]
  <2>1. q \in RunRow /\ RowOK(q, s.status) /\ LiveOK(q) BY <1>0, SoundFacts DEF Accounted
  <2>2. /\ q2.node = q.node /\ q2.st = q.st /\ q2.got = q.got /\ q2.bun = q.bun /\ q2.bno = q.bno
        /\ q2.batt = q.batt /\ q2.att = q.att /\ q2.out = q.out /\ q2.host = q.host
        /\ q = NoRun => q2 = NoRun
    BY <1>1, <2>1, WithRowsIs
  <2>3. /\ z.node[r] = IF q.node # "none" /\ q.st \notin Ended THEN q.st ELSE "none"
        /\ \A p \in Slots : z.row[r][p] = IF q.rows[p] \in {"held", "queued"} \cup Owned THEN q.rows[p] ELSE "none"
        /\ z.canc[r] = IF q.bun \in Owned THEN "requested" ELSE "none"
        /\ z.bno[r] = q.bno /\ z.att[r] = IF q.bun \in Owned THEN q.batt ELSE 0
    BY <1>2
  <2>4. Len(q.att) \in Nat /\ q.batt \in Nat /\ q.bno \in Nat /\ q.st \in NodeStatus BY <2>1, RowFields
  <2> HIDE DEF q, q2
  <2>5. RowOK(q2, t.status) BY <1>1, <2>1, <2>2 DEF RowOK
  <2>6. LiveOK(q2) BY <2>1, <2>2 DEF LiveOK
  <2>7. z.node[r] \notin Ended /\ z.att[r] <= Len(q2.att) BY <2>1, <2>2, <2>3, <2>4 DEF RowOK, Ended
  <2>8. q2.node = "none" =>
          z.node[r] = "none" /\ z.canc[r] = "none" /\ z.att[r] = 0 /\ \A p \in Slots : z.row[r][p] = "none"
    BY <2>1, <2>2, <2>3 DEF RowOK, NoRun, Owned
  <2>9. z.bno[r] <= q2.bno BY <2>2, <2>3, <2>4
  <2>10. q2.node \in Commands /\ z.att[r] # 0 /\ q2.att[z.att[r]] \in Live => z.node[r] # "none"
    <3> SUFFICES ASSUME q2.node \in Commands, z.att[r] # 0, q2.att[z.att[r]] \in Live PROVE z.node[r] # "none"
      OBVIOUS
    <3>1. z.att[r] = q.batt /\ q.batt \in 1 .. Len(q.att) BY <2>1, <2>3, <2>4 DEF RowOK
    <3>2. q.node \in Commands /\ q.st \notin Ended BY <2>1, <2>2, <3>1 DEF LiveOK
    <3> QED BY <2>3, <2>4, <3>2, Constants DEF NodeStatus
  <2>11. RecordOK(q2, z, r) BY <2>2, <2>3, <2>7, <2>8, <2>9, <2>10 DEF RecordOK
  <2> QED BY <2>5, <2>6, <2>11 DEF q2
<1>4. Sound(t) BY <1>1, <1>2, <1>3 DEF Sound
<1> QED BY <1>1, <1>3, <1>4 DEF Whole, Accounted, StoppedOK, t

(* The Bus ends its own Command hosts. *)
Mine(s, r) == s.pause.canc[r] = "requested" /\ IsCommand(s.run[r]) /\ s.run[r].batt # 0
Quieted(s) ==
  [s EXCEPT !.pause = [s.pause EXCEPT !.canc = [r \in Runs |-> IF Mine(s, r) THEN "quiesced" ELSE s.pause.canc[r]]],
            !.run = [r \in Runs |-> IF Mine(s, r) THEN [s.run[r] EXCEPT !.host = "none"] ELSE s.run[r]]]

LEMMA QuietedIs ==
  ASSUME NEW s \in Tables
  PROVE  /\ Asks(s, Quieted(s))
         /\ \A r \in Runs : Quieted(s).run[r] = IF Mine(s, r) THEN [s.run[r] EXCEPT !.host = "none"] ELSE s.run[r]
         /\ Paused(s) \in {Quieted(s), FinalizePause(Quieted(s))}
<1> DEFINE z == s.pause
           canc == [r \in Runs |-> IF Mine(s, r) THEN "quiesced" ELSE z.canc[r]]
           run == [r \in Runs |-> IF Mine(s, r) THEN [s.run[r] EXCEPT !.host = "none"] ELSE s.run[r]]
           z2 == [z EXCEPT !.canc = canc]
           t == Quieted(s)
<1>1. z \in PauseRow /\ \A r \in Runs : s.run[r] \in RunRow BY TableFields
<1>2. canc \in [Runs -> CancelState] /\ \A x \in Runs : canc[x] = "none" <=> z.canc[x] = "none"
  BY <1>1 DEF Mine, CancelState, PauseRow
<1>3. \A r \in Runs : [s.run[r] EXCEPT !.host = "none"] \in RunRow BY <1>1 DEF RunRow
<1>4. /\ run \in [Runs -> RunRow]
      /\ \A r \in Runs : run[r] = IF Mine(s, r) THEN [s.run[r] EXCEPT !.host = "none"] ELSE s.run[r]
  BY <1>1, <1>3
<1>5. t = [s EXCEPT !.pause = z2, !.run = run] BY DEF Quieted
<1>6. Paused(s) \in {t, FinalizePause(t)}
  <2>1. t = [s EXCEPT !.pause.canc = [r \in Runs |-> IF Mine(s, r) THEN "quiesced" ELSE @[r]],
                      !.run = [r \in Runs |-> IF Mine(s, r) THEN [s.run[r] EXCEPT !.host = "none"] ELSE s.run[r]]]
    BY <1>1, <1>5 DEF Tables, PauseRow
  <2> HIDE DEF t
  <2> QED BY <2>1 DEF Paused, Mine
<1> HIDE DEF canc, run, t
<1>7. z2 \in PauseRow /\ z2.st = z.st /\ z2.prior = z.prior /\ z2.node = z.node /\ z2.row = z.row
      /\ z2.bno = z.bno /\ z2.att = z.att /\ z2.canc = canc
  BY <1>1, <1>2 DEF PauseRow
<1> HIDE DEF z2
<1>8. t \in Tables /\ t.status = s.status /\ t.pauses = s.pauses /\ t.err = s.err /\ t.pause = z2 /\ t.run = run
  BY <1>4, <1>5, <1>7 DEF Tables
<1>9. Asks(s, t) BY <1>2, <1>4, <1>7, <1>8 DEF Asks
<1> QED BY <1>4, <1>6, <1>8, <1>9 DEF t

LEMMA QuietedCalm ==
  ASSUME NEW s, Whole(s), Calm(s), s.status \in {"active", "waiting_external", "blocked"}
  PROVE  Calm(Quieted(PauseRecorded(s)))
<1> DEFINE u == PauseRecorded(s)
           t == Quieted(u)
           z == Recorded(s)
           z2 == t.pause
<1>0. s \in Tables /\ Sound(s) BY SoundFacts DEF Whole
<1>1. /\ u \in Tables /\ u.status = "pausing" /\ u.pause = z
      /\ \A r \in Runs : u.run[r] = WithRows(s.run[r])
  BY <1>0, PauseRecordedIs
<1>2. /\ z.st = "pausing"
      /\ \A r \in Runs :
              /\ z.node[r] = IF s.run[r].node # "none" /\ s.run[r].st \notin Ended THEN s.run[r].st ELSE "none"
              /\ z.canc[r] = IF s.run[r].bun \in Owned THEN "requested" ELSE "none"
              /\ z.bno[r] = s.run[r].bno
              /\ z.att[r] = IF s.run[r].bun \in Owned THEN s.run[r].batt ELSE 0
  BY <1>0, RecordedIs
<1> HIDE DEF u, z
<1>3. /\ Asks(u, t)
      /\ \A r \in Runs : t.run[r] = IF Mine(u, r) THEN [u.run[r] EXCEPT !.host = "none"] ELSE u.run[r]
  BY <1>1, QuietedIs
<1> HIDE DEF t, z2
<1>4. /\ t.status = "pausing" /\ z2.st = "pausing" /\ z2.node = z.node /\ z2.bno = z.bno /\ z2.att = z.att
      /\ \A r \in Runs : z2.canc[r] = "none" <=> z.canc[r] = "none"
  BY <1>1, <1>2, <1>3 DEF Asks, z2
<1>5. ASSUME NEW r \in Runs
      PROVE  CalmRow(t.run[r], t.status) /\ CalmRecord(t.run[r], z2, r)
  <2> DEFINE q == s.run[r]
             q1 == u.run[r]
             q2 == t.run[r]
  <2>1. q \in RunRow /\ RowOK(q, s.status) /\ CalmRow(q, s.status) /\ q1 \in RunRow
    BY <1>0, <1>1, SoundFacts, TableFields DEF Calm
  <2>2. /\ q1.node = q.node /\ q1.st = q.st /\ q1.got = q.got /\ q1.bun = q.bun /\ q1.bno = q.bno
        /\ q1.batt = q.batt /\ q1.att = q.att /\ q1.host = q.host
        /\ \A p \in Slots : q1.rows[p] = IF q.rows[p] = "queued" THEN "held" ELSE q.rows[p]
    BY <1>1, <2>1, WithRowsIs
  <2>3. q2 = IF Mine(u, r) THEN [q1 EXCEPT !.host = "none"] ELSE q1 BY <1>3
  <2>4. Mine(u, r) <=> q.bun \in Owned /\ q.node \in Commands /\ q.batt # 0
    BY <1>1, <1>2, <2>2 DEF Mine, IsCommand
  <2>5. /\ z.node[r] = IF q.node # "none" /\ q.st \notin Ended THEN q.st ELSE "none"
        /\ z.canc[r] = IF q.bun \in Owned THEN "requested" ELSE "none"
        /\ z.bno[r] = q.bno /\ z.att[r] = IF q.bun \in Owned THEN q.batt ELSE 0
    BY <1>2
  <2> HIDE DEF q, q1, q2
  <2>6. Idle(q1, q2) BY <2>1, <2>3, IdleRow
  <2>7. q2.host # "running"
    <3> SUFFICES ASSUME q2.host = "running" PROVE FALSE OBVIOUS
    <3>1. q.host = "running" BY <2>2, <2>6 DEF Idle
    <3>2. Mine(u, r) BY <2>1, <2>4, <3>1 DEF CalmRow, CalmCore, RowOK, Owned
    <3>3. q2.host = "none" BY <2>1, <2>3, <3>2 DEF RunRow
    <3> QED BY <3>3
  <2>8. CalmCore(q2) BY <2>1, <2>2, <2>6, <2>7 DEF CalmRow, CalmCore, Idle
  <2>9. \A p \in Slots : q2.rows[p] # "queued" BY <2>2, <2>6 DEF Idle
  <2>10. q.st # "paused" /\ q2.st = q.st BY <2>1, <2>2, <2>6 DEF CalmRow, Idle
  <2>11. CalmRow(q2, t.status) BY <1>4, <2>7, <2>8, <2>9, <2>10 DEF CalmRow
  <2>12. q2.bun = q.bun /\ q2.bno = q.bno /\ q2.batt = q.batt /\ q2.got = q.got /\ q2.node = q.node
    BY <2>2, <2>6 DEF Idle
  <2>13. z.node[r] = "collecting" => q.got # InPorts[q.node] BY <2>1, <2>5 DEF CalmRow, CalmCore
  <2>14. CalmRecord(q2, z2, r)
    BY <1>4, <2>5, <2>10, <2>12, <2>13 DEF CalmRecord
  <2> QED BY <2>11, <2>14 DEF q2
<1>6. CalmPause(t) BY <1>4 DEF CalmPause, z2
<1> QED BY <1>5, <1>6 DEF Calm, z2, t, u

LEMMA PauseBulk ==
  ASSUME ScopeInv, PauseExecution
  PROVE  Bulk(sx, sx') /\ (Calm(sx) => Calm(sx'))
<1> DEFINE u == PauseRecorded(sx)
           t == Quieted(u)
<1>0. sx \in Tables /\ Whole(sx) BY SoundFacts DEF ScopeInv, Whole
<1>1. sx.status \in {"active", "waiting_external", "blocked"} /\ sx.pauses < MaxPauses
      /\ sx' = Paused(u) /\ ~sx'.err
  BY DEF PauseExecution, Commit
<1>2. /\ u \in Tables /\ u.pauses = sx.pauses + 1 /\ u.pause.st = "pausing"
      /\ \A r \in Runs : u.run[r] = WithRows(sx.run[r])
  BY <1>0, PauseRecordedIs, RecordedIs
<1>3. Whole(u) /\ (Calm(sx) => Calm(t)) BY <1>0, <1>1, RecordedWhole, QuietedCalm
<1> HIDE DEF u
<1>4. Asks(u, t) /\ sx' \in {t, FinalizePause(t)} BY <1>1, <1>2, QuietedIs
<1> HIDE DEF t
<1>5. Whole(t) BY <1>3, <1>4, AsksWhole
<1>6. t.pause.st = "pausing" /\ t.pauses = sx.pauses + 1 BY <1>2, <1>4 DEF Asks
<1>7. ASSUME NEW x \in Runs PROVE t.run[x].node = sx.run[x].node /\ t.run[x].att = sx.run[x].att
  <2>1. u.run[x].node = sx.run[x].node /\ u.run[x].att = sx.run[x].att /\ u.run[x] \in RunRow
    BY <1>0, <1>2, TableFields, WithRowsIs
  <2>2. Idle(u.run[x], t.run[x]) BY <1>4, <2>1, IdleRow DEF Asks
  <2> QED BY <2>1, <2>2 DEF Idle
<1> QED BY <1>1, <1>3, <1>4, <1>5, <1>6, <1>7, AnsweredBulk

-----------------------------------------------------------------------------
(* Resuming. *)

Back(q, s, r) ==
  [q EXCEPT !.st = IF s.pause.node[r] = "none" \/ @ # "paused" THEN @
                   ELSE IF Interrupted(s, r) THEN "retrying" ELSE s.pause.node[r],
            !.rows = [p \in Slots |->
               IF s.pause.row[r][p] = "none" \/ @[p] # "held" THEN @[p]
               ELSE IF s.pause.row[r][p] \in Owned THEN "queued" ELSE s.pause.row[r][p]]]

LEMMA BackIs ==
  ASSUME NEW s \in Tables, NEW r \in Runs, NEW q \in RunRow
  PROVE  LET q2 == Back(q, s, r)
             z == s.pause
         IN  /\ q2 \in RunRow /\ q2.node = q.node /\ q2.got = q.got /\ q2.bun = q.bun /\ q2.bno = q.bno
             /\ q2.batt = q.batt /\ q2.att = q.att /\ q2.out = q.out /\ q2.host = q.host
             /\ q2.st \in {q.st, "retrying", z.node[r]}
             /\ z.node[r] = "none" \/ q.st # "paused" => q2.st = q.st
             /\ z.node[r] # "none" /\ q.st = "paused" => q2.st \in {"retrying", z.node[r]}
             /\ q = NoRun /\ z.node[r] = "none" /\ (\A p \in Slots : z.row[r][p] = "none") => q2 = NoRun
<1> DEFINE z == s.pause
           st == IF z.node[r] = "none" \/ q.st # "paused" THEN q.st
                 ELSE IF Interrupted(s, r) THEN "retrying" ELSE z.node[r]
           rows == [p \in Slots |->
                     IF z.row[r][p] = "none" \/ q.rows[p] # "held" THEN q.rows[p]
                     ELSE IF z.row[r][p] \in Owned THEN "queued" ELSE z.row[r][p]]
           q2 == Back(q, s, r)
<1>1. z \in PauseRow /\ q.rows \in [Slots -> RowState] /\ q.st \in NodeStatus BY TableFields, RowFields
<1>2. st \in NodeStatus /\ z.node[r] \in NodeStatus \cup {"none"} BY <1>1 DEF PauseRow, NodeStatus
<1>3. rows \in [Slots -> RowState]
  <2>1. ASSUME NEW p \in Slots PROVE rows[p] \in RowState BY <1>1 DEF PauseRow, RowState
  <2> QED BY <2>1
<1>4. q2 = [q EXCEPT !.st = st, !.rows = rows] BY DEF Back, RunRow
<1>5. /\ st \in {q.st, "retrying", z.node[r]}
      /\ z.node[r] = "none" \/ q.st # "paused" => st = q.st
      /\ z.node[r] # "none" /\ q.st = "paused" => st \in {"retrying", z.node[r]}
  OBVIOUS
<1>6. (\A p \in Slots : z.row[r][p] = "none") => rows = q.rows BY <1>1
<1> HIDE DEF st, rows, q2, z
<1>7. q2 \in RunRow /\ q2.node = q.node /\ q2.got = q.got /\ q2.bun = q.bun /\ q2.bno = q.bno
      /\ q2.batt = q.batt /\ q2.att = q.att /\ q2.out = q.out /\ q2.host = q.host /\ q2.st = st
  BY <1>2, <1>3, <1>4 DEF RunRow
<1>8. q = NoRun /\ z.node[r] = "none" /\ (\A p \in Slots : z.row[r][p] = "none") => q2 = NoRun
  <2> SUFFICES ASSUME q = NoRun, z.node[r] = "none", \A p \in Slots : z.row[r][p] = "none" PROVE q2 = NoRun
    OBVIOUS
  <2>1. st = q.st /\ rows = q.rows BY <1>5, <1>6
  <2> QED BY <1>4, <2>1 DEF NoRun
<1> QED BY <1>5, <1>7, <1>8 DEF q2, z

LEMMA ResumedIs ==
  ASSUME NEW s \in Tables
  PROVE  LET t == Resumed(s) IN
         /\ t \in Tables /\ t.status = s.pause.prior /\ t.pause = NoPause /\ t.pauses = s.pauses /\ t.err = s.err
         /\ \A r \in Runs : t.run[r] = Back(s.run[r], s, r)
<1> DEFINE run == [r \in Runs |-> Back(s.run[r], s, r)]
           t == Resumed(s)
<1>1. t = [s EXCEPT !.run = run, !.status = s.pause.prior, !.pause = NoPause]
  BY DEF Resumed, Back, Tables
<1>2. run \in [Runs -> RunRow] BY TableFields, BackIs
<1>3. \A r \in Runs : run[r] = Back(s.run[r], s, r) OBVIOUS
<1>4. s.pause.prior \in ScopeStatus BY TableFields DEF PauseRow
<1> HIDE DEF t, run
<1>5. t \in Tables /\ t.status = s.pause.prior /\ t.pause = NoPause /\ t.pauses = s.pauses /\ t.err = s.err
      /\ t.run = run
  BY <1>1, <1>2, <1>4, NoPauseIsRow DEF Tables
<1> QED BY <1>3, <1>5 DEF t

LEMMA ResumeBulk ==
  ASSUME ScopeInv, ResumeExecution
  PROVE  Bulk(sx, sx') /\ (Calm(sx) => Calm(sx'))
<1> DEFINE t == Resumed(sx)
           z == sx.pause
<1>0. sx \in Tables /\ Sound(sx) /\ Accounted(sx) BY SoundFacts DEF ScopeInv
<1>1. sx.status = "paused" /\ z.st # "none" /\ sx' = t /\ ~t.err BY DEF ResumeExecution, MayResume, Commit
<1>2. /\ t \in Tables /\ t.status = z.prior /\ t.pause = NoPause /\ t.pauses = sx.pauses
      /\ \A r \in Runs : t.run[r] = Back(sx.run[r], sx, r)
  BY <1>0, ResumedIs
<1>3. z.prior \in {"active", "waiting_external", "blocked"} BY <1>0 DEF Sound
<1>4. /\ NoPause.st = "none" /\ NoPause.prior = "active"
      /\ \A r \in Runs : NoPause.node[r] = "none" /\ NoPause.att[r] = 0 /\ NoPause.canc[r] = "none"
                         /\ \A p \in Slots : NoPause.row[r][p] = "none"
  BY DEF NoPause
<1> HIDE DEF t
<1>5. ASSUME NEW r \in Runs
      PROVE  /\ RowOK(t.run[r], t.status) /\ RecordOK(t.run[r], NoPause, r) /\ LiveOK(t.run[r])
             /\ NotReplayed(sx.run[r], t.run[r])
             /\ Calm(sx) => CalmRow(t.run[r], t.status)
  <2> DEFINE q == sx.run[r]
             q2 == t.run[r]
  <2>1. q \in RunRow /\ RowOK(q, sx.status) /\ RecordOK(q, z, r) /\ LiveOK(q)
        /\ (Calm(sx) => CalmRow(q, sx.status) /\ CalmRecord(q, z, r))
    BY <1>0, SoundFacts DEF Accounted, Calm
  <2>2. /\ q2 \in RunRow /\ q2.node = q.node /\ q2.got = q.got /\ q2.bun = q.bun /\ q2.bno = q.bno
        /\ q2.batt = q.batt /\ q2.att = q.att /\ q2.out = q.out /\ q2.host = q.host
        /\ q2.st \in {q.st, "retrying", z.node[r]}
        /\ z.node[r] = "none" \/ q.st # "paused" => q2.st = q.st
        /\ z.node[r] # "none" /\ q.st = "paused" => q2.st \in {"retrying", z.node[r]}
        /\ q = NoRun /\ z.node[r] = "none" /\ (\A p \in Slots : z.row[r][p] = "none") => q2 = NoRun
    BY <1>0, <1>2, <2>1, BackIs
  <2> HIDE DEF q, q2, z
  <2>3. q2.st \in Ended => q2.st = q.st BY <2>1, <2>2 DEF RecordOK, Ended
  <2>4. q2.node = "none" => q2 = NoRun BY <2>1, <2>2 DEF RowOK, RecordOK
  <2>5. RowOK(q2, t.status)
    <3>1. q2.node # "none" => q2.got \subseteq InPorts[q2.node] /\ q2.out \subseteq OutPorts(q2.node)
      BY <2>1, <2>2 DEF RowOK
    <3>2. q2.batt <= Len(q2.att) /\ (q2.host = "running" => q2.node \in Commands) BY <2>1, <2>2 DEF RowOK
    <3>3. q2.st = "completed" /\ q2.node \notin Commands => Required[q2.node] \subseteq q2.out
      BY <2>1, <2>2, <2>3 DEF RowOK, Ended
    <3>4. ~(q2.node # "none" /\ q2.st = "cancelled") BY <1>1, <2>1, <2>2, <2>3 DEF RowOK, Ended
    <3> QED BY <1>2, <1>3, <2>4, <3>1, <3>2, <3>3, <3>4 DEF RowOK
  <2>6. RecordOK(q2, NoPause, r)
    <3>1. Len(q2.att) \in Nat BY <2>2, RowFields
    <3> QED BY <1>4, <3>1 DEF RecordOK, Ended
  <2>7. LiveOK(q2)
    <3>1. q2.st \in Ended => q.st \in Ended BY <2>3
    <3> QED BY <2>1, <2>2, <3>1 DEF LiveOK
  <2>8. NotReplayed(q, q2) BY <2>2 DEF NotReplayed, Live
  <2>9. ASSUME Calm(sx) PROVE CalmRow(q2, t.status)
    <3>1. CalmRow(q, sx.status) /\ CalmRecord(q, z, r) BY <2>1, <2>9
    <3>2. q2.st # "paused" BY <1>1, <2>2, <3>1 DEF CalmRecord
    <3>3. q2.st = "collecting" => q.st = "collecting" \/ z.node[r] = "collecting" BY <2>2
    <3>4. CalmCore(q2) BY <1>1, <2>2, <3>1, <3>3 DEF CalmCore, CalmRow, CalmRecord
    <3> QED BY <1>2, <1>3, <3>2, <3>4 DEF CalmRow
  <2> QED BY <2>5, <2>6, <2>7, <2>8, <2>9 DEF q, q2
<1>6. Sound(t) BY <1>2, <1>4, <1>5 DEF Sound
<1>7. Whole(t) BY <1>2, <1>3, <1>5, <1>6 DEF Whole, Accounted, StoppedOK
<1>8. Bulk(sx, t) BY <1>1, <1>2, <1>5, <1>7 DEF Bulk
<1>9. ASSUME Calm(sx) PROVE Calm(t)
  <2>1. CalmPause(t) BY <1>2, <1>3, <1>4 DEF CalmPause
  <2>2. \A r \in Runs : CalmRecord(t.run[r], t.pause, r) BY <1>2, <1>4 DEF CalmRecord
  <2> QED BY <1>5, <1>9, <2>1, <2>2 DEF Calm
<1> QED BY <1>1, <1>8, <1>9

-----------------------------------------------------------------------------
(* Stopping. *)

LEMMA StoppedIs ==
  ASSUME NEW q \in RunRow
  PROVE  LET q2 == Stopped(q) IN
         /\ q2 \in RunRow /\ q2.node = q.node /\ q2.got = q.got /\ q2.bno = q.bno /\ q2.batt = q.batt
         /\ q2.out = q.out /\ Len(q2.att) = Len(q.att) /\ Still(q2)
         /\ q2.st = IF q.st \in Ended THEN q.st ELSE "cancelled"
<1> DEFINE unsure == ~IsCommand(q) \/ q.node \in External
           att == [i \in DOMAIN q.att |-> IF q.att[i] \notin Live THEN q.att[i]
                           ELSE IF q.att[i] = "running" /\ unsure THEN "outcome_unknown"
                           ELSE "cancelled"]
           rows == [p \in Slots |->
                   IF q.rows[p] \in {"held", "queued"} \cup Owned THEN "cancelled" ELSE q.rows[p]]
           st == IF q.st \in Ended THEN q.st ELSE "cancelled"
           bun == IF q.bun \in Owned THEN "cancelled" ELSE q.bun
           q2 == Stopped(q)
<1>1. q.att \in Seq(AttemptStatus) /\ Len(q.att) \in Nat /\ DOMAIN q.att = 1 .. Len(q.att)
      /\ (\A i \in 1 .. Len(q.att) : q.att[i] \in AttemptStatus)
      /\ q.rows \in [Slots -> RowState] /\ q.bun \in BundleState /\ q.st \in NodeStatus
  BY RowFields
<1>2. att \in Seq(AttemptStatus) /\ Len(att) = Len(q.att) /\ \A i \in 1 .. Len(q.att) : att[i] \notin Live
  <2> DEFINE n == Len(q.att)
  <2>1. att \in [1 .. n -> AttemptStatus] BY <1>1 DEF AttemptStatus
  <2>2. \A i \in 1 .. n : att[i] \notin Live BY <1>1 DEF Live
  <2> HIDE DEF att, n
  <2>3. att \in Seq(AttemptStatus) /\ Len(att) = n BY <1>1, <2>1 DEF n
  <2> QED BY <2>2, <2>3 DEF n
<1>3. rows \in [Slots -> RowState] /\ \A p \in Slots : rows[p] \notin {"queued"} \cup Owned
  BY <1>1 DEF RowState, Owned
<1>4. bun \in BundleState \ Owned /\ st \in NodeStatus \cap Ended BY <1>1 DEF BundleState, Owned, NodeStatus, Ended
<1>5. q2 = [q EXCEPT !.rows = rows, !.bun = bun, !.att = att, !.st = st, !.host = "none"]
  BY DEF Stopped, RunRow
<1> HIDE DEF rows, att, bun, q2
<1>6. q2 \in RunRow /\ q2.node = q.node /\ q2.got = q.got /\ q2.bno = q.bno /\ q2.batt = q.batt
      /\ q2.out = q.out /\ q2.att = att /\ q2.rows = rows /\ q2.bun = bun /\ q2.st = st /\ q2.host = "none"
  BY <1>2, <1>3, <1>4, <1>5 DEF RunRow
<1>7. Still(q2) BY <1>2, <1>3, <1>4, <1>6 DEF Still
<1> QED BY <1>2, <1>6, <1>7 DEF q2

LEMMA StopBulk ==
  ASSUME ScopeInv, StopExecution
  PROVE  Bulk(sx, sx') /\ (Calm(sx) => Calm(sx'))
<1> DEFINE run == [r \in Runs |-> IF Exists(sx, r) THEN Stopped(sx.run[r]) ELSE sx.run[r]]
           u == [sx EXCEPT !.run = run]
           t == SetExecution(u, "cancelled")
           z == sx.pause
<1>0. sx \in Tables /\ Sound(sx) /\ Accounted(sx) /\ z \in PauseRow BY SoundFacts, TableFields DEF ScopeInv
<1>1. MayStop(sx) /\ sx' = t /\ ~t.err BY <1>0 DEF StopExecution, Commit, Tables
<1>2. run \in [Runs -> RunRow]
      /\ \A r \in Runs : run[r] = IF sx.run[r].node # "none" THEN Stopped(sx.run[r]) ELSE sx.run[r]
  BY <1>0, TableFields, StoppedIs DEF Exists
<1> HIDE DEF run
<1>3. u \in Tables /\ u.run = run /\ u.pause = z /\ u.pauses = sx.pauses BY <1>0, <1>2 DEF Tables
<1> HIDE DEF u
<1>4. /\ t \in Tables /\ t.run = run /\ t.pause = z /\ t.pauses = sx.pauses /\ t.status = "cancelled"
  BY <1>1, <1>3, SetExecutionIs DEF ScopeStatus
<1> HIDE DEF t
<1>5. ASSUME NEW r \in Runs
      PROVE  /\ RowOK(t.run[r], t.status) /\ RecordOK(t.run[r], z, r) /\ LiveOK(t.run[r])
             /\ t.run[r].node # "none" => Still(t.run[r])
             /\ NotReplayed(sx.run[r], t.run[r])
             /\ Calm(sx) => CalmRow(t.run[r], t.status) /\ CalmRecord(t.run[r], z, r)
  <2> DEFINE q == sx.run[r]
             q2 == t.run[r]
  <2>1. q \in RunRow /\ RowOK(q, sx.status) /\ RecordOK(q, z, r) /\ LiveOK(q)
        /\ (Calm(sx) => CalmRow(q, sx.status) /\ CalmRecord(q, z, r))
    BY <1>0, SoundFacts DEF Accounted, Calm
  <2>2. q2 = IF q.node # "none" THEN Stopped(q) ELSE q BY <1>2, <1>4
  <2>3. Len(q.att) \in Nat /\ q.bno \in Nat BY <2>1, RowFields
  <2> HIDE DEF q, q2, z
  <2>4. CASE q.node = "none"
    <3>1. q2 = NoRun /\ q = NoRun BY <2>1, <2>2, <2>4 DEF RowOK
    <3>2. RowOK(q2, t.status) BY <1>4, <2>1, <3>1 DEF RowOK, NoRun
    <3>3. NotReplayed(q, q2) BY <2>4, Constants DEF NotReplayed
    <3>4. Calm(sx) => CalmRow(q2, t.status) /\ CalmRecord(q2, z, r)
      BY <1>4, <2>1, <3>1 DEF CalmRow, NoRun, Owned
    <3> QED BY <2>1, <2>4, <3>1, <3>2, <3>3, <3>4 DEF q, q2
  <2>5. CASE q.node # "none"
    <3>1. /\ q2 \in RunRow /\ q2.node = q.node /\ q2.got = q.got /\ q2.bno = q.bno /\ q2.batt = q.batt
          /\ q2.out = q.out /\ Len(q2.att) = Len(q.att) /\ Still(q2)
          /\ q2.st = IF q.st \in Ended THEN q.st ELSE "cancelled"
      BY <2>1, <2>2, <2>5, StoppedIs
    <3>2. RowOK(q2, t.status) BY <1>4, <2>1, <2>5, <3>1 DEF RowOK, Still, Ended
    <3>3. \A i \in 1 .. Len(q.att) : q2.att[i] \notin Live BY <3>1 DEF Still
    <3>4. q2.bun \notin Owned /\ q2.host = "none" /\ q2.st \in Ended BY <3>1 DEF Still
    <3>5. RecordOK(q2, z, r) BY <1>0, <2>1, <2>3, <2>5, <3>1, <3>3, <3>4, RecordKept DEF z
    <3>6. LiveOK(q2) BY <3>1, <3>3, <3>4 DEF LiveOK
    <3>7. NotReplayed(q, q2) BY <3>4 DEF NotReplayed, Ended
    <3>8. CalmCore(q2) BY <3>1, <3>3, <3>4 DEF CalmCore, Live, Ended
    <3>9. \A p \in Slots : q2.rows[p] # "queued" BY <3>1 DEF Still
    <3>10. CalmRow(q2, t.status) BY <3>4, <3>8, <3>9 DEF CalmRow, Ended
    <3>11. CalmRecord(q, z, r) => CalmRecord(q2, z, r) BY <3>1, <3>4 DEF CalmRecord, Ended
    <3> QED BY <2>1, <3>1, <3>2, <3>5, <3>6, <3>7, <3>10, <3>11 DEF q, q2
  <2> QED BY <2>4, <2>5
<1>6. Sound(t) BY <1>0, <1>4, <1>5 DEF Sound
<1>7. Whole(t) BY <1>5, <1>6 DEF Whole, Accounted, StoppedOK
<1>8. Bulk(sx, t) BY <1>1, <1>4, <1>5, <1>7 DEF Bulk
<1>9. ASSUME Calm(sx) PROVE Calm(t)
  <2>1. CalmPause(t)
    <3>1. z.st \in {"none", "pausing", "paused"} BY <1>0 DEF PauseRow
    <3> QED BY <1>4, <3>1 DEF CalmPause
  <2> QED BY <1>4, <1>5, <1>9, <2>1 DEF Calm
<1> QED BY <1>1, <1>8, <1>9

-----------------------------------------------------------------------------
(* The invariants. *)

LEMMA ScopeInitially ==
  ASSUME ScopeInit
  PROVE  ScopeInv /\ Calm(sx)
<1> DEFINE run == [r \in Runs |-> NoRun]
<1>1. sx = [status |-> "none", run |-> run, pause |-> NoPause, pauses |-> 0, err |-> FALSE]
  BY DEF ScopeInit, NoExecution
<1>2. run \in [Runs -> RunRow] /\ \A r \in Runs : run[r] = NoRun BY NoRunIsRow
<1> HIDE DEF run
<1>3. sx \in Tables BY <1>1, <1>2, NoPauseIsRow DEF Tables, ScopeStatus
<1>4. sx.status = "none" /\ sx.pause = NoPause /\ sx.pauses = 0 /\ sx.err = FALSE /\ \A r \in Runs : sx.run[r] = NoRun
  BY <1>1, <1>2
<1>5. /\ NoPause.st = "none" /\ NoPause.prior = "active"
      /\ \A r \in Runs : NoPause.node[r] = "none" /\ NoPause.att[r] = 0 /\ NoPause.canc[r] = "none"
                         /\ \A p \in Slots : NoPause.row[r][p] = "none"
  BY DEF NoPause
<1>6. /\ NoRun.node = "none" /\ NoRun.st = "collecting" /\ NoRun.host = "none" /\ NoRun.bun = "none"
      /\ NoRun.batt = 0 /\ Len(NoRun.att) = 0 /\ \A p \in Slots : NoRun.rows[p] = "none"
  BY NoRunIsRow DEF NoRun
<1>7. RowOK(NoRun, "none") BY <1>6 DEF RowOK
<1>8. LiveOK(NoRun) BY <1>6 DEF LiveOK
<1>9. \A r \in Runs : RecordOK(NoRun, NoPause, r) BY <1>5, <1>6 DEF RecordOK, Ended
<1>10. Sound(sx) BY <1>3, <1>4, <1>5, <1>7, <1>9 DEF Sound
<1>11. ScopeInv BY <1>4, <1>8, <1>10, Constants DEF ScopeInv, Accounted, StoppedOK
<1>12. CalmRow(NoRun, "none") BY <1>6 DEF CalmRow, CalmCore, Owned
<1>13. Calm(sx) BY <1>4, <1>5, <1>12 DEF Calm, CalmPause, CalmRecord
<1> QED BY <1>11, <1>13

LEMMA ScopeStep ==
  ASSUME ScopeInv, [ScopeNextStep]_sx
  PROVE  /\ ScopeInv' /\ \A x \in Runs : NotReplayed(sx.run[x], sx'.run[x])
         /\ ~LateCalls /\ Calm(sx) => Calm(sx')
<1>1. CASE StartExecution
  <2>1. Done(sx, sx') BY <1>1, StartDone
  <2>2. ScopeInv' /\ \A x \in Runs : NotReplayed(sx.run[x], sx'.run[x]) BY <2>1, DoneInv DEF Done
  <2>3. sx.status = "none" BY <1>1 DEF StartExecution
  <2>4. Calm(sx) => Calm(sx') BY <2>1, <2>3, CalmGoing, DoneCalm
  <2> QED BY <2>2, <2>4
<1>2. CASE Handler
  <2>1. Done(sx, sx') BY <1>2, HandlerDone
  <2>2. ScopeInv' /\ \A x \in Runs : NotReplayed(sx.run[x], sx'.run[x]) BY <2>1, DoneInv DEF Done
  <2> QED BY <1>2, <2>2, HandlerCalm
<1>3. ASSUME Bulk(sx, sx'), Calm(sx) => Calm(sx')
      PROVE  /\ ScopeInv' /\ \A x \in Runs : NotReplayed(sx.run[x], sx'.run[x])
             /\ ~LateCalls /\ Calm(sx) => Calm(sx')
  BY <1>3, BulkInv DEF Bulk
<1>4. CASE PauseExecution BY <1>3, <1>4, PauseBulk
<1>5. CASE PauseDeadline BY <1>3, <1>5, DeadlineBulk
<1>6. CASE ResumeExecution BY <1>3, <1>6, ResumeBulk
<1>7. CASE StopExecution BY <1>3, <1>7, StopBulk
<1>8. CASE \E r \in Runs, outcome \in {"quiesced", "session_retired"} : PauseCancellation(r, outcome)
  BY <1>3, <1>8, CancellationBulk
<1>9. CASE UNCHANGED sx
  <2>1. ScopeInv' BY <1>9 DEF ScopeInv
  <2>2. \A x \in Runs : NotReplayed(sx.run[x], sx'.run[x]) BY <1>9 DEF NotReplayed, Live
  <2> QED BY <1>9, <2>1, <2>2
<1> QED BY <1>1, <1>2, <1>4, <1>5, <1>6, <1>7, <1>8, <1>9 DEF ScopeNextStep, Handler

(* The tables stay sound under every handler, every answer however late, a   *)
(* pause, a stop, the loss of a Command and a restart of the Bus.            *)
THEOREM ScopeHolds == ScopeSpec => []ScopeInv
<1>1. ScopeInit => ScopeInv BY ScopeInitially
<1>2. ScopeInv /\ [ScopeNextStep]_sx => ScopeInv' BY ScopeStep
<1> QED BY <1>1, <1>2, PTL DEF ScopeSpec

(* An execution is well formed, takes no step its tables of transitions      *)
(* refuse, and is whole when it says so: once it reports completion every    *)
(* step of it completed, and a completed Actor step handed on every output   *)
(* it is required to (reconcileScopeExecutionStatus, writeScopeNodeOutput,   *)
(* settleCanonicalNodeAfterAttempt). This is so for every graph, with joins, *)
(* pauses, retries and calls that come late.                                 *)
THEOREM CompletedStaysWhole == ScopeSpec => []CompletedIsWhole
<1>1. ScopeInv => CompletedIsWhole
  <2> SUFFICES ASSUME ScopeInv PROVE CompletedIsWhole OBVIOUS
  <2>0. Sound(sx) /\ sx \in Tables /\ sx.err = FALSE /\ sx.pauses <= MaxPauses BY SoundFacts DEF ScopeInv
  <2>1. ASSUME NEW r \in Made(sx)
        PROVE  /\ r \in Runs /\ sx.run[r].node # "none" /\ sx.run[r] \in RunRow /\ RowOK(sx.run[r], sx.status)
    BY <2>0, <2>1, SoundFacts DEF Made, Exists
  <2>2. ScopeTypeOK
    <3>1. sx.status \in ScopeStatus /\ sx.pauses \in 0 .. MaxPauses /\ sx.pause.st \in {"none", "pausing", "paused"}
      BY <2>0, TableFields, Constants DEF PauseRow
    <3>2. ASSUME NEW r \in Made(sx)
          PROVE  LET q == sx.run[r]
                 IN  /\ q.node \in Nodes /\ q.st \in NodeStatus /\ q.rows \in [Slots -> RowState]
                     /\ q.att \in Seq(AttemptStatus) /\ q.batt \in 0 .. Len(q.att)
                     /\ q.got \subseteq InPorts[q.node] /\ q.out \subseteq OutPorts(q.node)
      BY <2>1, RowFields DEF RowOK
    <3> QED BY <2>0, <3>1, <3>2 DEF ScopeTypeOK
  <2>3. CompletedHandedOn BY <2>1 DEF CompletedHandedOn, RowOK, Missing, IsCommand
  <2>4. CompletedIsDone BY <2>1 DEF CompletedIsDone, RowOK
  <2> QED BY <2>2, <2>3, <2>4 DEF CompletedIsWhole
<1> QED BY <1>1, ScopeHolds, PTL

(* Stopped work stays stopped: after stopScopeExecution no row is queued, no *)
(* attempt is open and no Command host runs, whatever a Bridge or a pause    *)
(* still answers. And in the step in which the outcome of an external        *)
(* Command's attempt becomes unknown the Bus does not issue it again.        *)
THEOREM NothingIsReplayed == ScopeSpec => NothingReplayed
<1>1. ScopeInv => StoppedStaysStopped
  <2> SUFFICES ASSUME ScopeInv, sx.status = "cancelled", NEW r \in Made(sx)
               PROVE  /\ sx.run[r].st \in Ended /\ sx.run[r].host = "none"
                      /\ \A p \in Slots : sx.run[r].rows[p] \notin {"queued"} \cup Owned
                      /\ \A i \in DOMAIN sx.run[r].att : sx.run[r].att[i] \notin Live
    BY DEF StoppedStaysStopped
  <2>1. Still(sx.run[r]) /\ sx.run[r] \in RunRow BY SoundFacts DEF ScopeInv, StoppedOK, Made, Exists
  <2>2. DOMAIN sx.run[r].att = 1 .. Len(sx.run[r].att) BY <2>1, RowFields
  <2> QED BY <2>1, <2>2 DEF Still
<1>2. ScopeInv /\ [ScopeNextStep]_sx =>
        [\A r \in Runs : \A i \in DOMAIN sx.run[r].att :
           /\ sx.run[r].node \in External /\ sx.run[r].att[i] \in Live
           /\ sx'.run[r].att[i] = "outcome_unknown"
           => sx'.run[r].st \notin {"retrying", "active"}]_sx
  <2> SUFFICES ASSUME ScopeInv, [ScopeNextStep]_sx, NEW r \in Runs, NEW i \in DOMAIN sx.run[r].att,
                      sx.run[r].node \in External, sx.run[r].att[i] \in Live,
                      sx'.run[r].att[i] = "outcome_unknown"
               PROVE  sx'.run[r].st \notin {"retrying", "active"}
    OBVIOUS
  <2>1. NotReplayed(sx.run[r], sx'.run[r]) BY ScopeStep
  <2>2. sx.run[r] \in RunRow BY SoundFacts DEF ScopeInv
  <2>3. i \in 1 .. Len(sx.run[r].att) BY <2>2, RowFields
  <2> QED BY <2>1, <2>3 DEF NotReplayed
<1> QED BY <1>1, <1>2, ScopeHolds, PTL DEF ScopeSpec, NothingReplayed, UnknownNotReplayed

LEMMA CalmHolds ==
  ASSUME ~LateCalls
  PROVE  ScopeSpec => []ScopeCalmInv
<1>1. ScopeInit => ScopeCalmInv BY ScopeInitially DEF ScopeCalmInv
<1>2. ScopeCalmInv /\ [ScopeNextStep]_sx => ScopeCalmInv'
  BY ScopeStep DEF ScopeCalmInv
<1> QED BY <1>1, <1>2, PTL DEF ScopeSpec

(* While an execution is paused nothing of it runs: no runtime owns a        *)
(* Delivery, no Command host and no attempt is running; and a turn begins    *)
(* only when every earlier turn of its step is accounted for (finalizePause, *)
(* beginAttempt). The hypothesis is the code's own gap: a call, a lease or a *)
(* restart that still moves a Delivery after its cancellation was asked for  *)
(* breaks this, as TLC shows.                                                *)
THEOREM PauseStaysQuiet ==
  ASSUME ~LateCalls
  PROVE  ScopeSpec => []PauseHolds
<1>1. ScopeCalmInv => PauseHolds
  <2> SUFFICES ASSUME ScopeInv, Calm(sx), NEW r \in Made(sx)
               PROVE  /\ sx.status = "paused" =>
                           /\ sx.run[r].bun \notin Owned /\ sx.run[r].host = "none"
                           /\ \A i \in DOMAIN sx.run[r].att : sx.run[r].att[i] # "running"
                      /\ sx.run[r].bun = "injected" =>
                           \A i \in DOMAIN sx.run[r].att : sx.run[r].att[i] = "running" => i = sx.run[r].batt
    BY DEF ScopeCalmInv, PauseHolds, PausedIsQuiet, TurnsAccounted
  <2> DEFINE q == sx.run[r]
  <2>1. q \in RunRow /\ CalmRow(q, sx.status) BY SoundFacts DEF ScopeInv, Calm, Made
  <2>2. DOMAIN q.att = 1 .. Len(q.att) /\ q.host \in {"none", "running"} BY <2>1, RowFields
  <2> HIDE DEF q
  <2>3. \A i \in DOMAIN q.att : q.att[i] = "running" => q.bun \in Owned /\ i = q.batt
    BY <2>1, <2>2 DEF CalmRow, CalmCore, Owned
  <2>4. sx.status = "paused" => q.bun \notin Owned /\ q.host = "none" BY <2>1, <2>2 DEF CalmRow
  <2> QED BY <2>3, <2>4 DEF q
<1> QED BY <1>1, CalmHolds, PTL

(* A join all of whose inputs have arrived does not go on collecting, also   *)
(* when they arrived before, during or after a pause (acceptInput,           *)
(* getJoinState, resumeExecution), unless a call outlived the pause that     *)
(* cancelled it.                                                             *)
THEOREM JoinsAlwaysFire ==
  ASSUME ~LateCalls
  PROVE  ScopeSpec => []JoinFires
<1>1. ScopeCalmInv => JoinFires
  <2> SUFFICES ASSUME Calm(sx), NEW r \in Made(sx), sx.run[r].st = "collecting"
               PROVE  sx.run[r].got # InPorts[sx.run[r].node]
    BY DEF ScopeCalmInv, JoinFires
  <2> QED BY DEF Calm, CalmRow, CalmCore, Made, Exists
<1> QED BY <1>1, CalmHolds, PTL
=============================================================================
