--------------------------- MODULE ScopeExecution ---------------------------
(* One execution of a published Scope graph (scope-executions.ts and the     *)
(* routing, pausing and Command parts of store.ts): node executions, their   *)
(* queue rows, Delivery bundles and attempts; pause, resume, retry and stop; *)
(* Commands run by the Bus itself and their recovery after a crash.          *)
EXTENDS Integers, FiniteSets, Sequences, SequencesExt

CONSTANTS
  Nodes,        \* Actor and Command placements of the pinned revision
  Commands,     \* those that are Commands
  External,     \* the Commands that declare an external side effect
  Joins,        \* the nodes with activation all_required_ports
  InPorts,      \* a function: the input Ports of a node, each min_count = max_count = 1
  Required,     \* a function: the output Ports of a node with min_count > 0
  Edges,        \* <<source node or "ingress", output Port, target node, input Port>>
  MaxRuns,      \* bound: node executions
  MaxBundles,   \* bound: Delivery bundles of one node execution
  MaxAttempts,  \* attempts before a Delivery is dead-lettered (3 in the code)
  MaxPauses,    \* bound: pauses
  LateCalls     \* may a call, a lease or a restart still move a Delivery that a pause has
                \* asked to be cancelled?

ASSUME ScopeAssumption ==
  /\ Commands \subseteq Nodes /\ External \subseteq Commands /\ Joins \subseteq Nodes
  /\ "none" \notin Nodes
  /\ IsFiniteSet(Edges) /\ \A e \in Edges : e[3] \in Nodes /\ e[4] \in InPorts[e[3]]
  /\ \A n \in Nodes : IsFiniteSet(Required[n])
  /\ LateCalls \in BOOLEAN /\ {MaxRuns, MaxBundles, MaxAttempts, MaxPauses} \subseteq Nat

VARIABLE sx     \* the tables of the execution: status, run, pause, pauses

ScopeStatus == {"none", "active", "waiting_external", "pausing", "paused", "blocked",
                "completed", "failed", "cancelled"}
NodeStatus == {"collecting", "ready", "active", "waiting_external", "paused", "retrying",
               "blocked", "completed", "failed", "cancelled"}
AttemptStatus == {"pending", "running", "completed", "failed", "cancelled", "outcome_unknown"}
RowState == {"none", "held", "queued", "reserved", "injected", "acknowledged", "cancelled",
             "dead_lettered"}

Ended == {"completed", "failed", "cancelled"}       \* of executions and of node executions
Owned == {"reserved", "injected"}                   \* reserved stands for delivered_to_bridge too
Live == {"pending", "running"}

Runs == 1 .. MaxRuns
Slots == (UNION {InPorts[n] : n \in Nodes}) \cup {"reminder"}  \* the rows of a node execution
OutPorts(n) == {e[2] : e \in {d \in Edges : d[1] = n}} \cup Required[n]
IsCommand(r) == r.node \in Commands

NoRun == [node |-> "none", st |-> "collecting", got |-> {}, rows |-> [p \in Slots |-> "none"],
          bun |-> "none", bno |-> 0, bset |-> {}, batt |-> 0, tries |-> 0, att |-> <<>>,
          out |-> {}, reminded |-> FALSE, host |-> "none"]
NoPause == [st |-> "none", prior |-> "active", node |-> [r \in Runs |-> "none"],
            row |-> [r \in Runs |-> [p \in Slots |-> "none"]],
            canc |-> [r \in Runs |-> "none"], bno |-> [r \in Runs |-> 0],
            att |-> [r \in Runs |-> 0], unknown |-> [r \in Runs |-> FALSE]]
NoExecution == [status |-> "none", run |-> [r \in Runs |-> NoRun], pause |-> NoPause,
                pauses |-> 0, err |-> FALSE]

Exists(s, r) == s.run[r].node # "none"
Made(s) == {r \in Runs : Exists(s, r)}

-----------------------------------------------------------------------------
(* Status changes. A refused change throws and rolls the handler back: err.  *)

NodeNext ==
  [collecting |-> {"ready", "paused", "blocked", "failed", "cancelled"},
   ready |-> {"active", "waiting_external", "paused", "retrying", "blocked"} \cup Ended,
   active |-> {"waiting_external", "paused", "retrying", "blocked"} \cup Ended,
   waiting_external |-> {"ready", "active", "paused", "retrying", "blocked"} \cup Ended,
   paused |-> NodeStatus \ {"paused", "completed"},
   retrying |-> {"ready", "active", "waiting_external", "paused", "blocked"} \cup Ended,
   blocked |-> {"collecting", "ready", "paused", "retrying", "failed", "cancelled"},
   completed |-> {}, failed |-> {"retrying"}, cancelled |-> {}]

ScopeNext ==
  [active |-> {"waiting_external", "pausing", "paused", "blocked"} \cup Ended,
   waiting_external |-> {"active", "pausing", "paused", "blocked"} \cup Ended,
   pausing |-> {"paused", "failed", "cancelled"},
   paused |-> {"active", "waiting_external", "blocked", "failed", "cancelled"},
   blocked |-> {"active", "waiting_external", "pausing", "paused", "failed", "cancelled"},
   completed |-> {}, failed |-> {}, cancelled |-> {}, none |-> {}]

SetNode(s, r, to) ==
  IF s.run[r].st = to THEN s
  ELSE IF to \in NodeNext[s.run[r].st] THEN [s EXCEPT !.run[r].st = to]
  ELSE [s EXCEPT !.err = TRUE]

SetExecution(s, to) ==
  IF s.status = to THEN s
  ELSE IF to \in ScopeNext[s.status] THEN [s EXCEPT !.status = to]
  ELSE [s EXCEPT !.err = TRUE]

(* reconcileScopeExecutionStatus. *)
Reconcile(s) ==
  LET sts == {s.run[r].st : r \in Made(s)}
  IN  IF s.status \in {"pausing", "paused"} \cup Ended THEN s
      ELSE SetExecution(s,
             IF "failed" \in sts THEN "failed" ELSE IF "blocked" \in sts THEN "blocked"
             ELSE IF sts \cap {"collecting", "waiting_external"} # {} THEN "waiting_external"
             ELSE IF sts \cap {"ready", "active", "retrying", "paused"} = {} THEN "completed"
             ELSE IF sts \ {"paused", "completed", "cancelled"} = {} THEN "paused"
             ELSE "active")

(* finishAttempt *)
FinishAttempt(s, r, i, to) ==
  IF s.run[r].att[i] = to THEN s
  ELSE IF s.run[r].att[i] \in Live THEN [s EXCEPT !.run[r].att[i] = to]
  ELSE [s EXCEPT !.err = TRUE]

(* UPDATE event_queue ... WHERE delivery_id = the current bundle *)
BundleRows(s, r, to) ==
  [s EXCEPT !.run[r].rows = [p \in Slots |-> IF p \in s.run[r].bset THEN to ELSE @[p]]]

-----------------------------------------------------------------------------
(* Routing.                                                                  *)

(* createOrGetNodeExecution: a join gathers in its one node execution, another *)
(* node gets a new one (of MaxRuns).                                          *)
Gathering(s, n) == {r \in Made(s) : n \in Joins /\ s.run[r].node = n}
NextFree(s) == {r \in Runs : ~Exists(s, r) /\ \A x \in Runs : x < r => Exists(s, x)}
TargetRuns(s, n) == IF Gathering(s, n) # {} THEN Gathering(s, n) ELSE NextFree(s)
TargetRun(s, n, r) == IF Gathering(s, n) # {} THEN s.run[r] ELSE [NoRun EXCEPT !.node = n]

(* Mutant: the join is evaluated on the inputs there were before this one. *)
RouteEdge_CountsBefore(s, e) ==
  LET n == e[3]
      r == CHOOSE x \in TargetRuns(s, n) : TRUE
      q == TargetRun(s, n, r)
      held == [q EXCEPT !.got = @ \cup {e[4]}, !.rows[e[4]] = "held"]
      released == [held EXCEPT !.st = "ready",
                     !.rows = [p \in Slots |-> IF @[p] = "held" THEN "queued" ELSE @[p]]]
  IN  IF TargetRuns(s, n) = {} THEN [s EXCEPT !.err = TRUE]
      ELSE [s EXCEPT !.run[r] = IF q.st # "collecting" \/ e[4] \in q.got THEN q
              ELSE IF n \in Joins => q.got = InPorts[n] THEN released ELSE held]

(* initializeRequiredPortExpectations: one expectation per required input of  *)
(* a join; another node waits for nothing more than what activated it.        *)
Expected(n) == IF n \in Joins THEN InPorts[n] ELSE {}

(* getJoinState: no expectation is left unsatisfied. *)
JoinReady(q) == Expected(q.node) \subseteq q.got

(* acceptInput and the queue row: an input counts only while the node          *)
(* execution collects; the last one needed makes it ready and releases its    *)
(* held rows; a late one is cancelled.                                        *)
RouteEdge(s, e) ==
  LET n == e[3]
      r == CHOOSE x \in TargetRuns(s, n) : TRUE
      q == TargetRun(s, n, r)
      received == q.st = "collecting" /\ e[4] \notin q.got
      held == [q EXCEPT !.got = @ \cup {e[4]}, !.rows[e[4]] = "held"]
      released == [held EXCEPT !.st = "ready",
                     !.rows = [p \in Slots |-> IF @[p] = "held" THEN "queued" ELSE @[p]]]
  IN  IF TargetRuns(s, n) = {} THEN [s EXCEPT !.err = TRUE]
      ELSE [s EXCEPT !.run[r] = IF ~received THEN q
                                ELSE IF JoinReady(held) THEN released ELSE held]

EdgesFrom(n, port) == {e \in Edges : e[1] = n /\ e[2] = port}

(* routeScopePublication: the enabled Edges, in priority order. *)
RouteEach(s, edges) ==
  LET f[i \in 0 .. Len(edges)] == IF i = 0 THEN s ELSE RouteEdge(f[i - 1], edges[i])
  IN  f
RouteAll(s, edges) == RouteEach(s, SetToSeq(edges))[Cardinality(edges)]
RoutePublication(s, n, port) == RouteAll(s, EdgesFrom(n, port))

(* missingRequiredOutputPorts *)
Missing(r) == Required[r.node] \ r.out

(* createPublication: the output is on record once, whoever repeats it. *)
Published(s, r, port) == [s EXCEPT !.run[r].out = @ \cup {port}]

(* Mutant: the first publication finishes an Actor's step. *)
WriteOutput_FirstFinishes(s, r, port, outcome) ==
  LET routed == Published(RoutePublication(s, s.run[r].node, port), r, port)
  IN  Reconcile(SetNode(routed, r, CASE outcome = "completed" -> "completed"
         [] outcome = "waiting" -> "waiting_external" [] OTHER -> "failed"))

(* writeScopeNodeOutput, once its checks have passed. *)
WriteOutput(s, r, port, outcome) ==
  LET routed == Published(RoutePublication(s, s.run[r].node, port), r, port)
      missing == ~IsCommand(s.run[r]) /\ Missing(routed.run[r]) # {}
      to == CASE outcome = "completed" -> IF missing THEN "active" ELSE "completed"
              [] outcome = "waiting" -> "waiting_external" [] OTHER -> "failed"
  IN  Reconcile(SetNode(routed, r, to))

MayWrite(s, r) == s.run[r].st \notin Ended /\ s.status \notin Ended

-----------------------------------------------------------------------------
(* The end of an attempt.                                                    *)

(* handOnTurnReply: the reply becomes the output of the only required Port,  *)
(* as an explicit publication would; one already made wins.                  *)
HandOn(s, r, reply) ==
  LET q == s.run[r]
  IN  IF /\ reply /\ ~IsCommand(q) /\ Cardinality(Required[q.node]) = 1
         /\ Missing(q) # {} /\ MayWrite(s, r)
      THEN WriteOutput(s, r, CHOOSE p \in Missing(q) : TRUE, "completed") ELSE s

(* settleCanonicalNodeAfterAttempt: hand on the reply, or remind once, or     *)
(* fail. A step never waits silently.                                         *)
Settle(s, r, reply) ==
  LET q == s.run[r]
      t == HandOn(s, r, reply)
  IN  IF q.st \in Ended \cup {"waiting_external"} THEN s
      ELSE IF Missing(t.run[r]) = {} THEN SetNode(t, r, "completed")
      ELSE IF IsCommand(q) \/ q.reminded THEN SetNode(t, r, "failed")
      ELSE SetNode([t EXCEPT !.run[r].reminded = TRUE,
                              !.run[r].rows["reminder"] = "queued"], r, "retrying")

(* failStepWithoutAttempt *)
FailStep(s, r) ==
  IF s.run[r].st \in Ended \cup {"paused"} THEN s ELSE Reconcile(SetNode(s, r, "failed"))

(* finishCanonicalAttempt *)
FinishCanonical(s, r, to, reply) ==
  LET i == s.run[r].batt
      t == FinishAttempt(s, r, i, to)
  IN  IF i = 0 THEN IF to \in {"failed", "outcome_unknown"} THEN FailStep(s, r) ELSE s
      ELSE IF s.run[r].att[i] \notin Live THEN s
      ELSE IF to = "completed" THEN Reconcile(Settle(t, r, reply))
      ELSE SetExecution(SetNode(t, r, "failed"), "failed")

Commit(s) == ~s.err /\ sx' = s

-----------------------------------------------------------------------------
(* Starting, and the calls of the Bridge for an Actor's Delivery.            *)

(* The root Event is published at the ingress, whose node execution is        *)
(* complete at once, and routed.                                              *)
IngressRouted(s) ==
  Reconcile(RouteAll(s, {e \in Edges : e[1] = "ingress"}))

(* startScopeExecution: a second call with the idempotency key returns the    *)
(* first execution.                                                           *)
StartExecution == sx.status = "none" /\ Commit(IngressRouted([sx EXCEPT !.status = "active"]))

(* tryCreateDeliveryForEndpoint: all queued rows of the oldest node execution *)
(* of a free endpoint.                                                        *)
Reserved(s, r) ==
  LET q == s.run[r]
      rows == {p \in Slots : q.rows[p] = "queued"}
  IN  BundleRows([s EXCEPT !.run[r] = [q EXCEPT !.bun = "reserved", !.bno = q.bno + 1,
                     !.bset = rows, !.batt = 0, !.tries = q.tries + 1]], r, "reserved")

MayReserve(s, r) ==
  LET q == s.run[r]
  IN  /\ Exists(s, r) /\ \E p \in Slots : q.rows[p] = "queued"
      /\ q.bno < MaxBundles
      /\ \A x \in Runs : s.run[x].node = q.node => s.run[x].bun \notin Owned
      /\ \A x \in 1 .. r - 1 : s.run[x].node = q.node => \A p \in Slots : s.run[x].rows[p] # "queued"

ReserveForActor(r) ==
  MayReserve(sx, r) /\ ~IsCommand(sx.run[r]) /\ Commit(Reserved(sx, r))

(* startAttempt: the attempt of the bundle, or a new one of a startable node. *)
StartAttempt(s, r, as) ==
  IF s.run[r].batt # 0 THEN s
  ELSE IF s.run[r].st \notin {"ready", "retrying", "waiting_external"} THEN [s EXCEPT !.err = TRUE]
  ELSE [s EXCEPT !.run[r].att = Append(@, as), !.run[r].batt = Len(s.run[r].att) + 1]

(* beginAttempt *)
BeginAttempt(s, r) ==
  LET a == s.run[r].att[s.run[r].batt]
  IN  IF s.err \/ a \notin Live THEN [s EXCEPT !.err = TRUE]
      ELSE [SetNode(s, r, "active") EXCEPT !.run[r].att[s.run[r].batt] = "running"]

Pausing(s, r) == s.pause.st = "pausing" /\ s.pause.canc[r] \in {"requested", "force_requested"}
Asked(s, r) == s.pause.st = "pausing" /\ s.pause.canc[r] # "none"
Open(r) == Exists(sx, r) /\ (Asked(sx, r) => LateCalls)
Goes(r) == Open(r) /\ ~IsCommand(sx.run[r])

(* prepareRuntimeDelivery: a pending attempt. *)
Prepare(r) ==
  /\ Goes(r) /\ sx.run[r].bun = "reserved" /\ sx.run[r].batt = 0
  /\ Commit(StartAttempt(sx, r, "pending"))

(* reportDeliveryStatus "injected_to_runtime": the turn begins. *)
Inject(r) ==
  /\ Goes(r) /\ sx.run[r].bun = "reserved"
  /\ LET s == BeginAttempt(StartAttempt(sx, r, "pending"), r)
     IN  Commit(BundleRows([s EXCEPT !.run[r].bun = "injected"], r, "injected"))

(* publishNodeOutput: a runtime publishes for the step it was given, as the   *)
(* Actor assigned to it, while that turn is under way.                        *)
MayPublish(r) == Goes(r) /\ sx.run[r].bun = "injected" /\ MayWrite(sx, r)

(* publishScopeNodeOutput by the Actor of a turn, with the authority session  *)
(* of its Delivery. A repeated idempotency key changes nothing.               *)
PublishOutput(r, port, outcome) ==
  /\ MayPublish(r)
  /\ port \in OutPorts(sx.run[r].node)
  /\ Commit(WriteOutput(sx, r, port, outcome))

(* recordRuntimeTurnResult and reportDeliveryStatus "acknowledged": the turn  *)
(* ended, with or without a reply.                                            *)
Acknowledge(r, reply) ==
  /\ Goes(r) /\ sx.run[r].bun = "injected"
  /\ LET s == BundleRows([sx EXCEPT !.run[r].bun = "acknowledged"], r, "acknowledged")
     IN  Commit(FinishCanonical(s, r, "completed", reply))

(* A failure before the turn: again, or dead-lettered and the step fails. *)
FailBefore(s, r) ==
  IF s.run[r].tries < MaxAttempts
  THEN BundleRows([s EXCEPT !.run[r].bun = "failed"], r, "queued")
  ELSE FinishCanonical(BundleRows([s EXCEPT !.run[r].bun = "dead_lettered"], r, "dead_lettered"),
                       r, "failed", FALSE)

(* reportDeliveryStatus "failed", failInjectedRuntimeDelivery *)
ReportFailed(r) ==
  /\ Goes(r)
  /\ \/ sx.run[r].bun = "reserved" /\ Commit(FailBefore(sx, r))
     \/ /\ sx.run[r].bun = "injected"
        /\ Commit(FinishCanonical(BundleRows([sx EXCEPT !.run[r].bun = "failed"], r,
                                             "dead_lettered"), r, "failed", FALSE))

(* reportDeliveryStatus "deferred": a prepared step blocks and its rows are   *)
(* held; unprepared work goes back to the queue and its attempt is returned.  *)
Defer(r) ==
  LET q == sx.run[r]
      s == BundleRows([sx EXCEPT !.run[r].bun = "deferred"], r, IF q.batt # 0 THEN "held" ELSE "queued")
  IN  /\ Goes(r) /\ q.bun \in Owned
      /\ Commit(IF q.batt = 0 THEN [s EXCEPT !.run[r].tries = @ - 1]
                ELSE IF q.att[q.batt] \notin Live THEN s
                ELSE Reconcile(SetNode(FinishAttempt(s, r, q.batt, "failed"), r, "blocked")))

(* requeueExpiredDeliveryLeases: an injected turn is lost, its outcome        *)
(* unknown; a reservation is requeued or, out of attempts, dead-lettered.     *)
LeaseExpires(r) ==
  LET q == sx.run[r]
  IN  /\ Goes(r)
      /\ \/ /\ q.bun = "injected"
            /\ Commit(FinishCanonical(BundleRows([sx EXCEPT !.run[r].bun = "dead_lettered"], r,
                                                 "dead_lettered"), r, "outcome_unknown", FALSE))
         \/ /\ q.bun = "reserved" /\ q.tries < MaxAttempts
            /\ Commit(BundleRows([sx EXCEPT !.run[r].bun = "failed"], r, "queued"))
         \/ /\ q.bun = "reserved" /\ q.tries >= MaxAttempts
            /\ Commit(BundleRows([sx EXCEPT !.run[r].bun = "dead_lettered"], r, "dead_lettered"))

-----------------------------------------------------------------------------
(* Pause, resume, retry, stop.                                               *)

Pending(s) == {r \in Runs : s.pause.canc[r] \in {"requested", "force_requested"}}

(* Mutant: the attempts under way are not closed. *)
FinalizePause_KeepsAttempts(s) ==
  LET hold(q, r) ==
        [q EXCEPT !.bun = IF s.pause.canc[r] # "none" /\ q.bno = s.pause.bno[r]
                          THEN "cancelled" ELSE @,
                  !.rows = [p \in Slots |-> IF s.pause.row[r][p] # "none" THEN "held" ELSE @[p]],
                  !.st = IF s.pause.node[r] = "none" \/ @ \in Ended THEN @ ELSE "paused"]
  IN  [s EXCEPT !.run = [r \in Runs |-> hold(@[r], r)],
                !.status = IF @ = "pausing" THEN "paused" ELSE @, !.pause.st = "paused"]

(* finalizePause: every recorded attempt is closed, its bundle cancelled, all *)
(* recorded rows are held whatever became of them, recorded nodes pause.      *)
FinalizePause(s) ==
  LET closed(q, r) == IF s.pause.att[r] = 0 THEN q.att
        ELSE [q.att EXCEPT ![s.pause.att[r]] =
                IF @ \notin Live THEN @
                ELSE IF s.pause.unknown[r] THEN "outcome_unknown" ELSE "cancelled"]
      hold(q, r) ==
        [q EXCEPT !.att = closed(q, r),
                  !.bun = IF s.pause.canc[r] # "none" /\ q.bno = s.pause.bno[r]
                          THEN "cancelled" ELSE @,
                  !.rows = [p \in Slots |-> IF s.pause.row[r][p] # "none" THEN "held" ELSE @[p]],
                  !.st = IF s.pause.node[r] = "none" \/ @ \in Ended THEN @ ELSE "paused"]
  IN  [s EXCEPT !.run = [r \in Runs |-> hold(@[r], r)],
                !.status = IF @ = "pausing" THEN "paused" ELSE @, !.pause.st = "paused"]

(* pauseExecution: what is queued or held and who owns the rest is recorded,  *)
(* the queue is held, and cancellation is asked of each runtime owner.        *)
PauseRecorded(s) ==
  LET owned(r) == s.run[r].bun \in Owned
      held(q) == [q EXCEPT !.rows = [p \in Slots |-> IF q.rows[p] = "queued" THEN "held" ELSE q.rows[p]]]
      rec == [NoPause EXCEPT
        !.st = "pausing", !.prior = s.status,
        !.node = [r \in Runs |-> IF Exists(s, r) /\ s.run[r].st \notin Ended
                                 THEN s.run[r].st ELSE "none"],
        !.row = [r \in Runs |-> [p \in Slots |->
                   IF s.run[r].rows[p] \in {"held", "queued"} \cup Owned
                   THEN s.run[r].rows[p] ELSE "none"]],
        !.canc = [r \in Runs |-> IF owned(r) THEN "requested" ELSE "none"],
        !.bno = [r \in Runs |-> s.run[r].bno],
        !.att = [r \in Runs |-> IF owned(r) THEN s.run[r].batt ELSE 0],
        !.unknown = [r \in Runs |-> s.run[r].bun = "injected"]]
  IN  [s EXCEPT !.status = "pausing", !.pause = rec, !.pauses = @ + 1,
         !.run = [r \in Runs |-> held(s.run[r])]]

(* pauseScopeExecution: the Bus cancels its own Command hosts at once and     *)
(* records them quiesced; with no owner left to answer the pause is complete. *)
Paused(s) ==
  LET mine(r) == s.pause.canc[r] = "requested" /\ IsCommand(s.run[r]) /\ s.run[r].batt # 0
      ended(q) == [q EXCEPT !.host = "none"]
      t == [s EXCEPT !.pause.canc = [r \in Runs |-> IF mine(r) THEN "quiesced" ELSE @[r]],
                     !.run = [r \in Runs |-> IF mine(r) THEN ended(s.run[r]) ELSE s.run[r]]]
  IN  IF Pending(t) = {} THEN FinalizePause(t) ELSE t

(* A pause that was never resumed keeps a second one from being recorded. *)
PauseExecution ==
  /\ sx.status \in {"active", "waiting_external", "blocked"}
  /\ sx.pause.st = "none" /\ sx.pauses < MaxPauses
  /\ Commit(Paused(PauseRecorded(sx)))

(* recordPauseCancellation: the last answer completes the pause. It looks at  *)
(* the pause record, not at the execution's status.                           *)
CancellationRecorded(s, r, outcome) ==
  LET t == [s EXCEPT !.pause.canc[r] = outcome]
  IN  IF Pending(t) = {} THEN FinalizePause(t) ELSE t

(* recordScopePauseCancellation: the Bridge quiesced the turn or retired its  *)
(* session.                                                                   *)
PauseCancellation(r, outcome) ==
  /\ Pausing(sx, r)
  /\ outcome = "session_retired" => sx.pause.canc[r] = "force_requested"
  /\ Commit(CancellationRecorded(sx, r, outcome))

(* claimExpiredPauseDeliveryIds *)
Overdue(s) ==
  {r \in Runs : s.pause.st = "pausing" /\ s.status = "pausing" /\ s.pause.canc[r] = "requested"}

(* Mutant: the deadline is taken for the answer. *)
PauseDeadline_Answers ==
  /\ Overdue(sx) # {}
  /\ Commit([sx EXCEPT !.pause.canc = [r \in Runs |-> IF @[r] = "requested" THEN "none" ELSE @[r]]])

(* scheduleNextPauseDeadline: past the deadline the Bridge is asked to retire *)
(* the sessions.                                                              *)
PauseDeadline ==
  /\ Overdue(sx) # {}
  /\ Commit([sx EXCEPT !.pause.canc = [r \in Runs |->
                IF r \in Overdue(sx) THEN "force_requested" ELSE @[r]]])

(* pauseInterruptionEvidence *)
Interrupted(s, r) ==
  s.pause.att[r] # 0 /\ s.pause.canc[r] \in {"quiesced", "session_retired"}

(* resumeExecution: nodes that are still paused go on where they were, the    *)
(* interrupted ones as a retry; rows that are still held go back.             *)
Resumed(s) ==
  LET back(q, r) ==
        [q EXCEPT !.st = IF s.pause.node[r] = "none" \/ @ # "paused" THEN @
                         ELSE IF Interrupted(s, r) THEN "retrying" ELSE s.pause.node[r],
                  !.rows = [p \in Slots |->
                     IF s.pause.row[r][p] = "none" \/ @[p] # "held" THEN @[p]
                     ELSE IF s.pause.row[r][p] \in Owned THEN "queued" ELSE s.pause.row[r][p]]]
  IN  [s EXCEPT !.run = [r \in Runs |-> back(@[r], r)],
                !.status = s.pause.prior, !.pause = NoPause]

(* The operation is there for a paused execution only. *)
MayResume(s) == s.status = "paused" /\ s.pause.st # "none"

(* resumeScopeExecution; a free endpoint then reserves what waits for it.     *)
ResumeExecution == MayResume(sx) /\ Commit(Resumed(sx))

(* retryNodeExecution: a failed or blocked step that published nothing gets   *)
(* its rows queued again.                                                     *)
MayRetry(s, r) ==
  LET q == s.run[r]
  IN  /\ Exists(s, r) /\ q.st \in {"failed", "blocked"} /\ q.out = {} /\ q.att # <<>>
      /\ Last(q.att) \in {"failed", "cancelled", "outcome_unknown"}
      /\ \A p \in q.bset : q.rows[p] \notin Owned
      /\ s.status \in {"active", "waiting_external", "blocked", "failed"}

Retried(s, r) ==
  [BundleRows(SetNode(s, r, "retrying"), r, "queued") EXCEPT
     !.status = IF @ \in {"failed", "blocked"} THEN "active" ELSE @]

RetryNode(r) == MayRetry(sx, r) /\ Commit(Retried(sx, r))

(* A step that is stopped: its rows, bundle, attempts and Command host. What  *)
(* a runtime or an external Command may have done by then is not known.       *)
Stopped(q) ==
  LET unsure == ~IsCommand(q) \/ q.node \in External
  IN  [q EXCEPT !.rows = [p \in Slots |->
                   IF @[p] \in {"held", "queued"} \cup Owned THEN "cancelled" ELSE @[p]],
                !.bun = IF @ \in Owned THEN "cancelled" ELSE @,
                !.att = [i \in DOMAIN @ |-> IF @[i] \notin Live THEN @[i]
                           ELSE IF @[i] = "running" /\ unsure THEN "outcome_unknown"
                           ELSE "cancelled"],
                !.st = IF @ \in Ended THEN @ ELSE "cancelled", !.host = "none"]

(* stoppableScopeExecutionStatuses *)
MayStop(s) == s.status \in {"active", "waiting_external", "pausing", "paused", "blocked"}

(* stopScopeExecution: every step, then the execution. *)
StopExecution ==
  /\ MayStop(sx)
  /\ Commit(SetExecution([sx EXCEPT !.run = [r \in Runs |->
               IF Exists(sx, r) THEN Stopped(@[r]) ELSE @[r]]], "cancelled"))

-----------------------------------------------------------------------------
(* Commands. The Bus runs them itself, in a child process per attempt.       *)

(* failCommandDelivery *)
FailCommand(s, r, to) ==
  LET i == s.run[r].batt
      t == BundleRows([s EXCEPT !.run[r].bun = "dead_lettered", !.run[r].host = "none"], r,
                      "dead_lettered")
      u == SetNode(FinishAttempt(t, r, i, to), r, "failed")
  IN  IF i = 0 \/ s.run[r].att[i] \notin Live THEN t
      ELSE IF s.run[r].st \in Ended THEN FinishAttempt(t, r, i, to)
      ELSE IF s.status \in Ended THEN u ELSE SetExecution(u, "failed")

Lost(q) == IF q.node \in External THEN "outcome_unknown" ELSE "failed"

(* executeCanonicalCommandDelivery up to the call of the host. *)
CommandStarted(s, r) ==
  LET t == BeginAttempt(StartAttempt(s, r, "pending"), r)
  IN  IF t.err THEN FailCommand(s, r, Lost(s.run[r]))
      ELSE BundleRows([t EXCEPT !.run[r].bun = "injected", !.run[r].host = "running"], r, "injected")

(* tryCreateDeliveryForEndpoint for a Command worker; the microtask it queues *)
(* runs before anything else.                                                 *)
ReserveForCommand(r) ==
  MayReserve(sx, r) /\ IsCommand(sx.run[r]) /\ Commit(CommandStarted(Reserved(sx, r), r))

(* acceptCommandHostResult: each output is published, the last one completes  *)
(* the node.                                                                  *)
PublishEach(s, r, ports) ==
  LET f[i \in 0 .. Len(ports)] ==
        IF i = 0 THEN s
        ELSE WriteOutput(f[i - 1], r, ports[i], IF i = Len(ports) THEN "completed" ELSE "waiting")
  IN  f
PublishAll(s, r, ports) ==
  IF ports = {} THEN Reconcile(SetNode(s, r, "completed"))
  ELSE PublishEach(s, r, SetToSeq(ports))[Cardinality(ports)]

(* The host answered: publish, close the attempt, acknowledge. *)
CommandReturns(r, ports) ==
  LET s == PublishAll(sx, r, ports)
      t == FinishAttempt(s, r, s.run[r].batt, "completed")
  IN  /\ Exists(sx, r) /\ sx.run[r].host = "running" /\ ports \subseteq OutPorts(sx.run[r].node)
      /\ ports = {} => Required[sx.run[r].node] = {}
      /\ Commit(BundleRows([t EXCEPT !.run[r].bun = "acknowledged", !.run[r].host = "none"], r,
                           "acknowledged"))

(* The host failed, timed out or broke its contract. *)
CommandFails(r) ==
  /\ Exists(sx, r) /\ sx.run[r].host = "running"
  /\ Commit(FailCommand(sx, r, Lost(sx.run[r])))

(* Mutant: a lost Command is retried whatever it may have done outside. *)
CommandLost_RetriesAll(s, r) ==
  LET t == FailCommand(s, r, Lost(s.run[r]))
  IN  IF MayRetry(t, r) THEN Retried(t, r) ELSE t

(* recoverCanonicalCommandDeliveries, and the lease of a Command: an attempt  *)
(* without external effects is retried, another is left outcome_unknown.      *)
CommandLost(s, r) ==
  LET t == FailCommand(s, r, Lost(s.run[r]))
  IN  IF s.run[r].node \notin External /\ MayRetry(t, r) THEN Retried(t, r) ELSE t

CommandLeaseExpires(r) ==
  Open(r) /\ IsCommand(sx.run[r]) /\ sx.run[r].bun = "injected" /\ Commit(CommandLost(sx, r))

LoseEach(s, runs) ==
  LET f[i \in 0 .. Len(runs)] == IF i = 0 THEN s ELSE CommandLost(f[i - 1], runs[i])
  IN  f
LoseAll(s, runs) == LoseEach(s, SetToSeq(runs))[Cardinality(runs)]

InjectedCommands(s) == {r \in Made(s) : IsCommand(s.run[r]) /\ s.run[r].bun = "injected"}

(* The Bus dies and starts again, perhaps after the first of several          *)
(* publications of a Command.                                                 *)
BusRestarts ==
  /\ InjectedCommands(sx) # {} /\ \A r \in InjectedCommands(sx) : Open(r)
  /\ Commit(LoseAll(sx, InjectedCommands(sx)))

BusDiesPublishing(r, port) ==
  /\ r \in InjectedCommands(sx) /\ (\A x \in InjectedCommands(sx) : Open(x)) /\ port \in OutPorts(sx.run[r].node)
  /\ LET s == WriteOutput(sx, r, port, "waiting")
     IN  Commit(LoseAll(s, InjectedCommands(s)))

-----------------------------------------------------------------------------
ScopeInit == sx = NoExecution

BridgeStep(r) ==
  \/ Prepare(r) \/ Inject(r) \/ ReportFailed(r) \/ Defer(r)
  \/ \E reply \in BOOLEAN : Acknowledge(r, reply)
  \/ \E port \in UNION {OutPorts(n) : n \in Nodes} :
       \E outcome \in {"completed", "waiting", "failed"} : PublishOutput(r, port, outcome)

CommandStep(r) ==
  \/ ReserveForCommand(r) \/ CommandFails(r) \/ CommandLeaseExpires(r)
  \/ \E ports \in SUBSET UNION {OutPorts(n) : n \in Nodes} : CommandReturns(r, ports)
  \/ \E port \in UNION {OutPorts(n) : n \in Nodes} : BusDiesPublishing(r, port)

ScopeNextStep ==
  \/ StartExecution \/ PauseExecution \/ PauseDeadline \/ ResumeExecution \/ StopExecution
  \/ BusRestarts
  \/ \E r \in Runs :
       \/ ReserveForActor(r) \/ LeaseExpires(r) \/ RetryNode(r) \/ BridgeStep(r) \/ CommandStep(r)
       \/ \E outcome \in {"quiesced", "session_retired"} : PauseCancellation(r, outcome)

ScopeSpec == ScopeInit /\ [][ScopeNextStep]_sx

(* The deadline is a timer of the Bus; a Bridge that is asked to retire a     *)
(* session answers.                                                           *)
ScopeFairness ==
  /\ WF_sx(PauseDeadline)
  /\ \A r \in Runs : WF_sx(PauseCancellation(r, "session_retired"))
FairScopeSpec == ScopeSpec /\ ScopeFairness

-----------------------------------------------------------------------------
ScopeTypeOK ==
  /\ sx.status \in ScopeStatus /\ sx.pauses \in 0 .. MaxPauses /\ sx.err = FALSE
  /\ sx.pause.st \in {"none", "pausing", "paused"}
  /\ \A r \in Made(sx) :
       LET q == sx.run[r]
       IN  /\ q.node \in Nodes /\ q.st \in NodeStatus /\ q.rows \in [Slots -> RowState]
           /\ q.att \in Seq(AttemptStatus) /\ q.batt \in 0 .. Len(q.att)
           /\ q.got \subseteq InPorts[q.node] /\ q.out \subseteq OutPorts(q.node)

(* An Actor's step is complete only when every required output was handed on, *)
(* whether by publications, by the turn's reply or after the one reminder.    *)
CompletedHandedOn ==
  \A r \in Made(sx) : sx.run[r].st = "completed" /\ ~IsCommand(sx.run[r]) => Missing(sx.run[r]) = {}

(* An execution that reports completion has no step left to do, none that     *)
(* failed and no Delivery under way.                                          *)
CompletedIsDone ==
  sx.status = "completed" =>
    \A r \in Made(sx) : /\ sx.run[r].st \in {"completed", "cancelled"}
                        /\ sx.run[r].bun = "injected" => sx.run[r].st = "completed"

(* After a stop nothing can start: no row is queued or owned, no attempt is   *)
(* live, no Command host runs, however late the Bridge answers.               *)
StoppedStaysStopped ==
  sx.status = "cancelled" =>
    \A r \in Made(sx) : /\ sx.run[r].st \in Ended /\ sx.run[r].host = "none"
                        /\ \A p \in Slots : sx.run[r].rows[p] \notin {"queued"} \cup Owned
                        /\ \A i \in DOMAIN sx.run[r].att : sx.run[r].att[i] \notin Live

(* A step's turn begins only when every earlier turn of it is accounted for:  *)
(* none is recorded as still running.                                         *)
TurnsAccounted ==
  \A r \in Made(sx) : sx.run[r].bun = "injected" =>
    \A i \in DOMAIN sx.run[r].att : sx.run[r].att[i] = "running" => i = sx.run[r].batt

(* While an execution is paused no turn runs and no runtime owns a Delivery. *)
PausedIsQuiet ==
  sx.status = "paused" =>
    \A r \in Made(sx) : /\ sx.run[r].bun \notin Owned /\ sx.run[r].host = "none"
                        /\ \A i \in DOMAIN sx.run[r].att : sx.run[r].att[i] # "running"

(* An execution is well formed and takes no step its table of transitions    *)
(* refuses; one that says it completed has nothing left to do, and none of   *)
(* its completed Actor steps owes an output (reconcile and writeOutput).     *)
CompletedIsWhole == ScopeTypeOK /\ CompletedHandedOn /\ CompletedIsDone

(* A paused execution runs nothing, and a turn begins only when every        *)
(* earlier turn of its step is accounted for (finalizePause).                *)
PauseHolds == PausedIsQuiet /\ TurnsAccounted

(* A join all of whose inputs have arrived does not go on collecting. *)
JoinFires ==
  sx.status \notin {"pausing", "paused"} =>
    \A r \in Made(sx) : sx.run[r].st = "collecting" => sx.run[r].got # InPorts[sx.run[r].node]

(* "A step never waits silently": one that is to run has a row that brings it *)
(* its turn.                                                                  *)
NeverWaitsSilently ==
  \A r \in Made(sx) : sx.run[r].st \in {"ready", "retrying"} =>
    \E p \in Slots : sx.run[r].rows[p] \in {"held", "queued"} \cup Owned

(* An external Command whose outcome became unknown is not retried by the Bus *)
(* itself.                                                                    *)
UnknownNotReplayed ==
  [][\A r \in Runs : \A i \in DOMAIN sx.run[r].att :
       /\ sx.run[r].node \in External /\ sx.run[r].att[i] \in Live
       /\ sx'.run[r].att[i] = "outcome_unknown"
       => sx'.run[r].st \notin {"retrying", "active"}]_sx

(* Stopped work stays stopped, and a Command whose outcome was lost is never *)
(* issued again by the Bus.                                                  *)
NothingReplayed == []StoppedStaysStopped /\ UnknownNotReplayed

(* A pause comes to an end: the turns quiesce, or their sessions are retired  *)
(* after the deadline.                                                        *)
PauseCompletes == sx.status = "pausing" ~> sx.status # "pausing"
=============================================================================
