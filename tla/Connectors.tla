----------------------------- MODULE Connectors -----------------------------
(* Connector definitions and bindings (connectors.ts), their operations      *)
(* (connector-operations.ts) and the worker that observes the sources of a   *)
(* binding: polls, pushes and schedule wakes (connector-worker.ts).          *)
EXTENDS Integers, Sequences, FiniteSets, FiniteSetsExt

CONSTANTS
  Turns,        \* turns of the worker host that may be under way at once
  NItems,       \* bound: what the provider of the polled source holds, 1 .. NItems
  Altered,      \* the items whose content the provider may change between two polls
  Unverified,   \* the items whose origin or signature does not verify
  SourceSets,   \* the enabled_source_interface_ids to consider, each \subseteq Sources
  Policies,     \* <<missed_fire_policy, overlap_policy>> of the schedule
  Times,        \* the occurrences of the schedule, a set of naturals
  CatchUp,      \* catch_up_limit
  MaxDefRevs,   \* bound: revisions of the definition
  MaxRevs,      \* bound: revisions of the binding
  MaxWakeRevs,  \* bound: revisions of a binding with a schedule
  MaxClock      \* bound: the clock

Sources == {"poll", "push", "wake"}      \* wake stands for the schedule source

ConnectorAssumption ==
  /\ SourceSets \subseteq SUBSET Sources
  /\ NItems \in Nat /\ Altered \cup Unverified \subseteq 1 .. NItems /\ Times \subseteq 1 .. MaxClock
  /\ Policies \subseteq {"skip", "latest", "catch_up"} \X {"allow", "skip", "wait"}
  /\ CatchUp \in 1 .. 100 /\ MaxDefRevs \in Nat \ {0} /\ MaxRevs \in Nat \ {0} /\ MaxWakeRevs \in 1 .. MaxRevs /\ MaxClock \in Nat

VARIABLES
  cn,           \* the tables, the clock and what the provider and the Event store hold
  turn          \* the worker turns, in memory

Items == 1 .. NItems
Revs == 1 .. MaxRevs
Fires == {<<r, t>> : r \in Revs, t \in Times}     \* fire_id: the revision and the time
Polled == {<<0, i>> : i \in Items}
Occurrences == Polled \cup Fires                  \* deduplication keys of both sources
Digests == {"a", "b"}

NoReceipt == [st |-> "none", dig |-> "a"]

(* connector_source_checkpoints, one per binding revision and source.        *)
NoCheckpoint == [ver |-> 0, at |-> 0]

Idle == [pc |-> "idle", kind |-> "none", rev |-> 0, ver |-> 0, to |-> 0, obs |-> <<>>]

ConnectorInit ==
  /\ \E p \in Policies, sources \in SourceSets :
       cn = [sources |-> sources, def |-> "active", defHead |-> 1, on |-> 0, health |-> 0,
             status |-> "absent", head |-> 0, ready |-> [r \in Revs |-> FALSE], enabledAt |-> 0, clock |-> 0, held |-> TRUE,
             rcpt |-> [k \in Occurrences |-> NoReceipt], event |-> {},
             poll |-> [r \in Revs |-> NoCheckpoint], sched |-> [r \in Revs |-> NoCheckpoint],
             wake |-> 0, missed |-> p[1], overlap |-> p[2]]
  /\ turn = [t \in Turns |-> Idle]

Quiet == UNCHANGED turn

-----------------------------------------------------------------------------
(* The store: definitions, bindings and their revisions. Each returns the    *)
(* tables after it, given that its checks pass.                              *)

ReviseDefinition(s) == [s EXCEPT !.defHead = @ + 1]

SetDefinitionStatus(s, to) == [s EXCEPT !.def = to]

CreateBinding(s, defRev, ready) ==
  [s EXCEPT !.status = "disabled", !.head = 1, !.on = defRev, !.ready[1] = ready]

(* A new revision, which leaves the status alone and is not checked for      *)
(* readiness.                                                                *)
ReviseBinding(s, defRev, ready) ==
  [s EXCEPT !.head = @ + 1, !.on = defRev, !.ready[s.head + 1] = ready]

(* The content of the current revision with other SecretRefs. *)
RotateBindingSecrets(s, ready) == ReviseBinding(s, s.on, ready)

BindingReady(s) == s.def = "active" /\ s.ready[s.head]

SetBindingStatus(s, to) ==
  IF to = s.status THEN s
  ELSE [s EXCEPT !.status = to, !.enabledAt = IF to = "enabled" THEN s.clock ELSE @]

RecordHealth(s) == [s EXCEPT !.health = s.head]

-----------------------------------------------------------------------------
(* The operations, each at the revision its caller read.                     *)

BindingExists == cn.status # "absent"
MoreRevs == cn.head < IF "wake" \in cn.sources THEN MaxWakeRevs ELSE MaxRevs

ConfigureConnectorDefinition ==
  /\ cn.def = "active" /\ cn.defHead < MaxDefRevs
  /\ cn' = ReviseDefinition(cn) /\ Quiet

ConnectorDefinitionStatus(to) == cn.def # to /\ cn' = SetDefinitionStatus(cn, to) /\ Quiet

(* A binding starts disabled, on the definition revision it names. *)
BindConnector(defRev, ready) ==
  /\ ~BindingExists /\ cn.def = "active" /\ defRev <= cn.defHead
  /\ cn' = CreateBinding(cn, defRev, ready) /\ Quiet

ConfigureConnectorBinding(defRev, ready) ==
  /\ BindingExists /\ cn.status # "retired" /\ defRev <= cn.defHead /\ MoreRevs
  /\ cn' = ReviseBinding(cn, defRev, ready) /\ Quiet

RotateConnectorBinding(ready) ==
  /\ BindingExists /\ cn.status # "retired" /\ MoreRevs
  /\ cn' = RotateBindingSecrets(cn, ready) /\ Quiet

BindingLifecycle(to) ==
  /\ BindingExists /\ cn.status # "retired"
  /\ to = "retired" => cn.status # "enabled"
  /\ to = "enabled" => BindingReady(cn)
  /\ cn' = SetBindingStatus(cn, to) /\ cn' # cn /\ Quiet

(* What the worker says of the current revision; also while held. *)
RecordConnectorHealth ==
  /\ BindingExists /\ cn.health # cn.head
  /\ cn' = RecordHealth(cn) /\ Quiet

(* The hold of a restored Workspace is released. *)
ReleaseHold == cn.held /\ cn' = [cn EXCEPT !.held = FALSE] /\ Quiet

-----------------------------------------------------------------------------
(* recordIngress: one receipt per occurrence. A second observation of it is  *)
(* a duplicate, or conflicts with the recorded facts.                        *)

(* requireActiveSource, assertSourcePinCurrent *)
ActiveSource(s, rev) == s.status = "enabled" /\ s.head = rev
Conflicts(s, o) == s.rcpt[o.key].st # "none" /\ s.rcpt[o.key].dig # o.dig

RecordIngress(s, o) ==
  IF s.rcpt[o.key].st # "none" THEN s
  ELSE [s EXCEPT !.rcpt[o.key] =
          [st |-> IF o.ok THEN "accepted" ELSE "quarantined", dig |-> o.dig]]

(* The operation connector.ingest: it records, and nothing materializes.     *)
IngestOperation(o) ==
  /\ ~cn.held /\ ActiveSource(cn, cn.head) /\ cn.sources \cap {"poll", "push"} # {}
  /\ cn' = RecordIngress(cn, o) /\ cn' # cn
  /\ Quiet

-----------------------------------------------------------------------------
(* The worker host. A turn pins the enabled revision, waits for its runner,  *)
(* ingests each observation and then advances the checkpoint of the pin.     *)

(* pinEnabledBinding *)
Pin(t, kind) == /\ turn[t].pc = "idle" /\ kind \in cn.sources /\ ~cn.held /\ cn.status = "enabled"
                /\ turn' = [turn EXCEPT ![t] = [Idle EXCEPT !.pc = "runner", !.kind = kind,
                                                            !.rev = cn.head]]
                /\ UNCHANGED cn

ReceivePush(t) == Pin(t, "push")

(* pollOnce up to runner.poll: one turn at a time for a pinned source; the   *)
(* checkpoint is read first.                                                 *)
PollOnce(t) ==
  /\ turn[t].pc = "idle" /\ "poll" \in cn.sources /\ ~cn.held /\ cn.status = "enabled"
  /\ \A u \in Turns : turn[u].kind = "poll" => turn[u].rev # cn.head
  /\ turn' = [turn EXCEPT ![t] = [Idle EXCEPT !.pc = "runner", !.kind = "poll", !.rev = cn.head,
                !.ver = cn.poll[cn.head].ver, !.to = cn.poll[cn.head].at]]
  /\ UNCHANGED cn

(* runScheduleWake up to inspect_schedule_activity. *)
ScheduleWake(t) == Pin(t, "wake")

Observed(i) ==      \* what a provider may answer about one item
  [key : {<<0, i>>}, dig : IF i \in Altered THEN Digests ELSE {"a"}, ok : {i \notin Unverified}]

(* The provider answers with the next items, which fit one page. *)
PollAnswers(t) ==
  /\ turn[t].pc = "runner" /\ turn[t].kind = "poll"
  /\ \E n \in turn[t].to .. NItems :
     \E page \in [1 .. n - turn[t].to -> UNION {Observed(i) : i \in Items}] :
       /\ \A j \in DOMAIN page : page[j].key = <<0, turn[t].to + j>>
       /\ turn' = [turn EXCEPT ![t].pc = "ingest", ![t].obs = page, ![t].to = n]
  /\ UNCHANGED cn

PushNormalized(t) ==
  /\ turn[t].pc = "runner" /\ turn[t].kind = "push"
  /\ \E i \in Items : \E o \in Observed(i) :
       turn' = [turn EXCEPT ![t].pc = "ingest", ![t].obs = <<o>>]
  /\ UNCHANGED cn

(* planDurableSchedule: which occurrences fire, and how far the cursor goes. *)
PlanSchedule(cursor, now, active) ==
  LET due == {x \in Times : cursor < x /\ x <= now}
      latest == Max(due)
      first == CHOOSE S \in SUBSET due :
                 /\ Cardinality(S) = Min({Cardinality(due), CatchUp})
                 /\ \A x \in S, y \in due \ S : x < y
  IN  CASE due = {} -> [fires |-> {}, through |-> cursor, waits |-> FALSE]
        [] due # {} /\ active /\ cn.overlap = "wait" ->
             [fires |-> {}, through |-> cursor, waits |-> TRUE]
        [] due # {} /\ ~(active /\ cn.overlap = "wait")
           /\ (cn.missed = "skip" \/ (active /\ cn.overlap = "skip")) ->
             [fires |-> {}, through |-> latest, waits |-> FALSE]
        [] OTHER -> LET sel == IF cn.missed = "latest" THEN {latest} ELSE first
                    IN  [fires |-> sel, through |-> Max(sel), waits |-> FALSE]

InOrder(S) == CHOOSE q \in [1 .. Cardinality(S) -> S] : \A i, j \in DOMAIN q : i < j => q[i] < q[j]

(* The activity is known; the checkpoint is read and the plan is made. *)
SchedulePlanned(t) ==
  LET r == turn[t].rev
      cursor == IF cn.sched[r].ver > 0 THEN cn.sched[r].at ELSE cn.enabledAt
  IN  /\ turn[t].pc = "runner" /\ turn[t].kind = "wake"
      /\ \E active \in BOOLEAN :
           LET plan == PlanSchedule(cursor, cn.clock, active)
               times == InOrder(plan.fires)
           IN  turn' = [turn EXCEPT ![t] = [@ EXCEPT !.pc = "ingest", !.ver = cn.sched[r].ver,
                 !.to = plan.through,
                 !.obs = [i \in DOMAIN times |-> [key |-> <<r, times[i]>>, dig |-> "a", ok |-> TRUE]]]]
      /\ UNCHANGED cn

(* The runner, the evidence store or the materialization throws. *)
TurnFails(t) ==
  /\ turn[t].pc \in {"runner", "materialize"}
  /\ turn' = [turn EXCEPT ![t] = Idle] /\ UNCHANGED cn

(* ingest: the pin must still be current; a conflict aborts the turn; what   *)
(* was accepted is materialized, also on its second observation.             *)
Ingest(t) ==
  LET o == Head(turn[t].obs)
      s == RecordIngress(cn, o)
  IN  /\ turn[t].pc = "ingest" /\ turn[t].obs # <<>>
      /\ IF ~ActiveSource(cn, turn[t].rev) \/ Conflicts(cn, o)
         THEN turn' = [turn EXCEPT ![t] = Idle] /\ UNCHANGED cn
         ELSE /\ cn' = s
              /\ turn' = IF s.rcpt[o.key].st = "accepted" THEN [turn EXCEPT ![t].pc = "materialize"]
                         ELSE [turn EXCEPT ![t].obs = Tail(@)]

(* materialize_ingress: the same receipt always resolves to the same Event.  *)
Materialize(t) ==
  /\ turn[t].pc = "materialize"
  /\ cn' = [cn EXCEPT !.event = @ \cup {Head(turn[t].obs).key}]
  /\ turn' = [turn EXCEPT ![t].pc = "attach"]

(* attachIngressOutcome *)
Attach(t) ==
  /\ turn[t].pc = "attach"
  /\ cn' = [cn EXCEPT !.rcpt[Head(turn[t].obs).key].st = "materialized"]
  /\ turn' = [turn EXCEPT ![t].pc = "ingest", ![t].obs = Tail(@)]

(* Mutant: the checkpoint is overwritten whoever wrote it last. *)
Advanced_NoCompare(s, kind, r, ver, to) ==
  IF kind = "poll" THEN [s EXCEPT !.poll[r] = [ver |-> @.ver + 1, at |-> to]]
  ELSE [s EXCEPT !.sched[r] = [ver |-> @.ver + 1, at |-> to],
                 !.wake = IF \E x \in Times : x > to THEN Min({x \in Times : x > to}) ELSE 0]

(* ConnectorWorkerCheckpointStore.advance, a compare and swap, and           *)
(* arm_schedule_wake.                                                        *)
Advanced(s, kind, r, ver, to) ==
  IF kind = "poll"
  THEN IF s.poll[r].ver = ver THEN [s EXCEPT !.poll[r] = [ver |-> ver + 1, at |-> to]] ELSE s
  ELSE IF s.sched[r].ver = ver
       THEN [s EXCEPT !.sched[r] = [ver |-> ver + 1, at |-> to],
                      !.wake = IF \E x \in Times : x > to THEN Min({x \in Times : x > to}) ELSE 0]
       ELSE s

MaxVer == 2     \* bound: writes of one checkpoint

(* The end of a turn: a poll or a wake whose pin is current advances.        *)
FinishTurn(t) ==
  /\ turn[t].pc = "ingest" /\ turn[t].obs = <<>>
  /\ turn[t].kind # "push" => turn[t].ver < MaxVer
  /\ cn' = IF turn[t].kind = "push" \/ ~ActiveSource(cn, turn[t].rev) THEN cn
           ELSE Advanced(cn, turn[t].kind, turn[t].rev, turn[t].ver, turn[t].to)
  /\ turn' = [turn EXCEPT ![t] = Idle]

(* The Bus dies: what was in memory is gone. *)
WorkerDies == turn # [t \in Turns |-> Idle] /\ turn' = [t \in Turns |-> Idle] /\ UNCHANGED cn

Tick == "wake" \in cn.sources /\ cn.clock < MaxClock /\ cn' = [cn EXCEPT !.clock = @ + 1] /\ Quiet

-----------------------------------------------------------------------------
ConnectorNext ==
  \/ ConfigureConnectorDefinition
  \/ \E to \in {"active", "retired"} : ConnectorDefinitionStatus(to)
  \/ \E d \in 1 .. MaxDefRevs, ready \in BOOLEAN : BindConnector(d, ready)
  \/ \E d \in 1 .. MaxDefRevs, ready \in BOOLEAN : ConfigureConnectorBinding(d, ready)
  \/ \E ready \in BOOLEAN : RotateConnectorBinding(ready)
  \/ \E to \in {"enabled", "disabled", "retired"} : BindingLifecycle(to)
  \/ RecordConnectorHealth
  \/ \E i \in Items : \E o \in Observed(i) : IngestOperation(o)
  \/ ReleaseHold \/ WorkerDies \/ Tick
  \/ \E t \in Turns :
       \/ ReceivePush(t) \/ PollOnce(t) \/ ScheduleWake(t)
       \/ PollAnswers(t) \/ PushNormalized(t) \/ SchedulePlanned(t) \/ TurnFails(t)
       \/ Ingest(t) \/ Materialize(t) \/ Attach(t) \/ FinishTurn(t)

ConnectorSpec == ConnectorInit /\ [][ConnectorNext]_<<cn, turn>>

-----------------------------------------------------------------------------
(* The checkpoint of a poll never passes an item that was neither turned     *)
(* into an Event nor quarantined, whatever fails, races or dies in between.  *)
CheckpointCovers ==
  \A r \in Revs : \A i \in Items :
    i <= cn.poll[r].at => cn.rcpt[<<0, i>>].st \in {"materialized", "quarantined"}

(* The cursor of a schedule only moves forward and, when it is to catch up,  *)
(* over no occurrence that has not become an Event.                          *)
CursorMovesOverFired ==
  [][\A r \in Revs : cn.sched[r].ver > 0 =>
       /\ cn'.sched[r].at >= cn.sched[r].at
       /\ cn.missed = "catch_up" /\ cn.overlap # "skip" =>
            \A x \in Times : cn.sched[r].at < x /\ x <= cn'.sched[r].at => <<r, x>> \in cn.event]_cn

(* "materializes schedule occurrences once": one time fires one Event.       *)
ScheduleFiresOnce ==
  \A x \in Times : Cardinality({r \in Revs : <<r, x>> \in cn.event}) <= 1
=============================================================================
