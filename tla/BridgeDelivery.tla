--------------------------- MODULE BridgeDelivery ---------------------------
(***************************************************************************)
(* The Bridge daemon (floe-bridge/src/daemon.ts) driving the Bus's delivery *)
(* lifecycle (module Delivery).  The Bus pushes delivery_bundle_available   *)
(* and delivery_cancel_requested over one durable, ordered stream; the      *)
(* Bridge handles one Delivery per endpoint at a time, retains the others,  *)
(* gates work on engine readiness, and reports back over HTTP.              *)
(*                                                                          *)
(* handleDelivery is one flow per endpoint, cut at its awaits: work[ep].pc  *)
(* names the call it makes next, and the step that makes the call contains  *)
(* the whole Bus handler and the continuation up to the next await.  Steps  *)
(* of the Bus, of its timers, of the stream and of the engine interleave    *)
(* between them.                                                            *)
(***************************************************************************)
EXTENDS Delivery, SequencesExt

CONSTANTS
  Messages,      \* bound: how many messages people send
  EngineFlaps,   \* bound: how often the engine stops being ready
  MaxCrashes,    \* bound: how often the Bridge process dies
  Stops,         \* bound: how many responses a person stops
  Lapses,        \* bound: leases that lapse while the Bridge holds the bundle
  Asks,          \* bound: how many requests turns make of other endpoints
  Declines,      \* bound: how often the adapter finds an Actor unconfigured
  Reattaches     \* bound: how often a Workspace message or a reconnection
                 \*        makes the Bridge attach its Workspaces again

ASSUME BridgeAssumption ==
  /\ Messages \in Nat /\ EngineFlaps \in Nat /\ MaxCrashes \in Nat
  /\ Stops \in Nat /\ Lapses \in Nat /\ Asks \in Nat
  /\ Declines \in Nat /\ Reattaches \in Nat

VARIABLES
  boot,       \* "down", then start(): "register", "attach", "claim", "up"; a
              \* message that attaches again: "reattach", "reclaim"
  pass,       \* the endpoints attachKnownWorkspaces has yet to register
  attached,   \* endpointRuntime: the endpoints this process registered
  stream,     \* pushed frames this Bridge has not acknowledged
  work,       \* the Delivery each endpoint is processing, and its next step
  waiting,    \* pendingDeliveries
  cancelled,  \* cancelledDeliveries
  held,       \* heldForEngine
  idleCalls,  \* endpoint "idle" reports sent and not yet handled by the Bus
  engine,     \* the engine's phase is "ready"
  ran,        \* history: what the runtime did for each bundle
  budget      \* what is left of the bounds

bridge == <<boot, pass, attached, stream, work, waiting, cancelled, held, idleCalls>>
vars == <<db, bridge, engine, ran, budget>>

NoWork == [d |-> 0, pc |-> "none"]

-----------------------------------------------------------------------------
(* The Bus side: what a handler pushes is read off the rows it wrote.       *)

Frame(kind, d) == [kind |-> kind, d |-> d]

Pushed == IF db'.nb > db.nb THEN <<Frame("available", db'.nb)>> ELSE <<>>

Bus(A) == A /\ stream' = stream \o Pushed

(* ran changes only where the runtime starts or ends a turn. *)
Quiet == UNCHANGED <<engine, ran, budget>>

Spend(what) == budget[what] > 0 /\ budget' = [budget EXCEPT ![what] = @ - 1]

Person ==
  /\ UNCHANGED <<boot, pass, attached, work, waiting, cancelled, held, idleCalls>>
  /\ \/ /\ Spend("messages")
        /\ \E ep \in Endpoints : Bus(SubmitEvent(ep, None))
        /\ UNCHANGED <<engine, ran>>
     \/ /\ Spend("stops")
        /\ \E d \in Existing :
             /\ CancelRuntimeDelivery(d)
             /\ stream' = stream \o <<Frame("cancel", d)>> \o Pushed
        /\ UNCHANGED <<engine, ran>>

(* A bundle a previous Bridge process took and this one never hears of: it  *)
(* is not handled, not retained, not on the stream and no longer claimable. *)
Forgotten(d) ==
  /\ \A ep \in Endpoints : work[ep].d # d /\ d \notin ToSet(waiting[ep])
  /\ Frame("available", d) \notin ToSet(stream)
  /\ db.bundle[d].state # "reserved"

Clock ==
  /\ UNCHANGED <<boot, pass, attached, work, waiting, cancelled, held, idleCalls, engine, ran>>
  /\ \/ /\ \E d \in Existing :
             /\ LeaseLapses(d)
             /\ IF boot = "down" \/ Forgotten(d) THEN UNCHANGED budget ELSE Spend("lapses")
        /\ UNCHANGED stream
     \/ LeaseTimer /\ UNCHANGED <<stream, budget>>
     \/ LeaseTimerDone /\ UNCHANGED <<stream, budget>>
     \/ Bus(\E d \in Existing : RequeueExpired(d)) /\ UNCHANGED budget

-----------------------------------------------------------------------------
(* start(): register, attach, claim.  A lease timer that is due fires before *)
(* a restarted process is up again.                                         *)

BridgeDies ==
  /\ boot # "down" /\ Free /\ Spend("crashes")
  /\ boot' = "down" /\ pass' = {} /\ attached' = {} /\ cancelled' = {} /\ held' = {} /\ idleCalls' = {}
  /\ work' = [ep \in Endpoints |-> NoWork]
  /\ waiting' = [ep \in Endpoints |-> <<>>]
  /\ ran' = [d \in Bundles |-> IF ran[d] = "running" THEN "lost" ELSE ran[d]]
  /\ UNCHANGED <<db, stream, engine>>

(* dispatchDelivery: one Delivery at a time per endpoint, the rest retained. *)
Dispatch(w, q, d) ==
  IF w.pc = "none" THEN [w |-> [d |-> d, pc |-> "start"], q |-> q]
  ELSE IF w.d = d \/ d \in ToSet(q) THEN [w |-> w, q |-> q]
  ELSE [w |-> w, q |-> Append(q, d)]

(* The flow of ep unwinds: the oldest retained Delivery is dispatched. *)
Unwind(ep) ==
  IF waiting[ep] = <<>>
  THEN work' = [work EXCEPT ![ep] = NoWork] /\ UNCHANGED waiting
  ELSE /\ work' = [work EXCEPT ![ep] = [d |-> Head(waiting[ep]), pc |-> "start"]]
       /\ waiting' = [waiting EXCEPT ![ep] = Tail(@)]

Goto(ep, pc) == work' = [work EXCEPT ![ep].pc = pc] /\ UNCHANGED waiting

(* What claimDeliveries returns for ep and the process does not hold yet,    *)
(* oldest first.                                                            *)
OldestFirst(S) ==
  CHOOSE q \in [1 .. Cardinality(S) -> S] :
    \A i, j \in 1 .. Cardinality(S) : i < j => q[i] < q[j]

Unheld(ep) ==
  {d \in Existing : /\ Owned(d) /\ EndpointOf(db, d) = ep
                    /\ db.bundle[d].state = "reserved"
                    /\ d # work[ep].d /\ d \notin ToSet(waiting[ep])}

(* dispatchDelivery for each of them: an idle endpoint starts on the first,  *)
(* and the rest is retained.                                                *)
Starts(ep, ds) == work[ep].pc = "none" /\ ds # <<>>

ProcessDeliveries ==
  LET claimed == [ep \in Endpoints |-> OldestFirst(Unheld(ep))]
  IN  /\ ClaimDeliveries
      /\ work' = [ep \in Endpoints |->
                    IF Starts(ep, claimed[ep])
                    THEN [d |-> Head(claimed[ep]), pc |-> "start"] ELSE work[ep]]
      /\ waiting' = [ep \in Endpoints |->
                       waiting[ep] \o IF Starts(ep, claimed[ep])
                                      THEN Tail(claimed[ep]) ELSE claimed[ep]]

(* registerBridge fails what a previous process left in a runtime.          *)
Register ==
  \/ /\ boot = "down" /\ Lapsed = {} /\ RegisterBridge
     /\ boot' = "register"
     /\ UNCHANGED <<pass, attached, work, waiting, stream>>
  \/ /\ boot = "register" /\ Bus(AbandonTurn)
     /\ UNCHANGED <<boot, pass, attached, work, waiting>>
  \/ /\ boot = "register" /\ RegisterBridgeDone
     /\ boot' = "attach" /\ pass' = Endpoints
     /\ UNCHANGED <<attached, work, waiting, stream>>

(* attachKnownWorkspaces registers the endpoints one call after another. *)
Attach ==
  /\ boot \in {"attach", "reattach"}
  /\ \E ep \in pass :
       /\ Bus(RegisterEndpoint(ep, "idle"))
       /\ attached' = attached \cup {ep} /\ pass' = pass \ {ep}
       /\ boot' = IF pass' # {} THEN boot
                  ELSE IF boot = "attach" THEN "claim" ELSE "reclaim"
  /\ UNCHANGED <<work, waiting>>

Claim ==
  /\ boot \in {"claim", "reclaim"} /\ ProcessDeliveries
  /\ boot' = "up"
  /\ UNCHANGED <<pass, attached, stream>>

Start == Quiet /\ UNCHANGED <<cancelled, held, idleCalls>> /\ (Register \/ Attach \/ Claim)

(* caught_up, or a message that a Workspace or a runtime binding changed:   *)
(* the stream waits until the Workspaces are attached again.                *)
Reattach ==
  /\ boot = "up" /\ Spend("reattaches")
  /\ boot' = "reattach" /\ pass' = Endpoints
  /\ UNCHANGED <<db, attached, stream, work, waiting, cancelled, held, idleCalls, engine, ran>>

-----------------------------------------------------------------------------
(* handleEventStreamMessage.                                                *)

(* adapter.cancelDelivery interrupts a turn already running. *)
Interrupt(d) ==
  LET ep == EndpointOf(db, d)
  IN  /\ cancelled' = cancelled \cup {d}
      /\ IF work[ep].d = d /\ work[ep].pc = "run"
         THEN work' = [work EXCEPT ![ep].pc = "interrupted"] ELSE UNCHANGED work
      /\ UNCHANGED <<db, waiting>>

Take(d) ==
  LET ep == EndpointOf(db, d)
      to == Dispatch(work[ep], waiting[ep], d)
  IN  /\ ep \in attached
      /\ work' = [work EXCEPT ![ep] = to.w]
      /\ waiting' = [waiting EXCEPT ![ep] = to.q]
      /\ UNCHANGED <<db, cancelled>>

Handle ==
  /\ boot \in {"attach", "claim", "up"} /\ stream # <<>> /\ Free
  /\ stream' = Tail(stream)
  /\ Quiet /\ UNCHANGED <<boot, pass, attached, held, idleCalls>>
  /\ LET f == Head(stream)
     IN  \/ f.kind = "cancel" /\ Interrupt(f.d)
         \/ f.kind = "available" /\ Take(f.d)
         \/ /\ f.kind = "available" /\ EndpointOf(db, f.d) \notin attached
            /\ ProcessDeliveries /\ UNCHANGED cancelled

-----------------------------------------------------------------------------
(* handleDelivery, one step per await.                                      *)

Flow(ep, pc) == boot # "down" /\ work[ep].pc = pc
Local == UNCHANGED <<db, stream>>
Still == UNCHANGED <<boot, pass, attached, held, idleCalls, engine>>
Same == Still /\ UNCHANGED budget

Begin(ep) ==
  LET d == work[ep].d
  IN  /\ Flow(ep, "start") /\ Local /\ Same /\ UNCHANGED ran
      /\ cancelled' = cancelled \ {d}
      /\ Goto(ep, IF d \in cancelled THEN "end" ELSE "gate")

(* engineAdmits: a Delivery for an engine that is not ready is handed back. *)
Gate(ep) ==
  /\ Flow(ep, "gate") /\ Local /\ UNCHANGED <<boot, pass, attached, cancelled, idleCalls, engine, ran, budget>>
  /\ held' = IF engine THEN held ELSE held \cup {ep}
  /\ Goto(ep, IF engine THEN "prepare" ELSE "defer")

Report(ep, A, pc) ==
  /\ IF IsActive(db, work[ep].d) THEN Bus(A) ELSE Free /\ Local
  /\ Goto(ep, pc)

Defer(ep) ==
  /\ Flow(ep, "defer") /\ Same /\ UNCHANGED <<cancelled, ran>>
  /\ Report(ep, ReportDeferred(work[ep].d), "recheck")

(* releaseHeldWork sends an idle report for every endpoint it held. *)
Recheck(ep) ==
  /\ Flow(ep, "recheck") /\ Local /\ UNCHANGED <<boot, pass, attached, cancelled, engine, ran, budget>>
  /\ idleCalls' = IF engine THEN idleCalls \cup held ELSE idleCalls
  /\ held' = IF engine THEN {} ELSE held
  /\ Unwind(ep)

IdleCall(ep) ==
  /\ ep \in idleCalls /\ idleCalls' = idleCalls \ {ep}
  /\ IF db.bridge[ep] THEN Bus(ReportEndpointStatus(ep, "idle")) ELSE Free /\ Local
  /\ Quiet /\ UNCHANGED <<boot, pass, attached, work, waiting, cancelled, held>>

(* Mutant: the refusal of runtime-prepare is not looked at. *)
Prepare_IgnoresRefusal(ep) ==
  LET d == work[ep].d
  IN  /\ Flow(ep, "prepare") /\ Same /\ UNCHANGED <<ran, cancelled>>
      /\ IF IsActive(db, d) /\ Owned(d) THEN Bus(PrepareRuntimeDelivery(d, TRUE))
         ELSE Free /\ Local
      /\ Goto(ep, "inject")

Prepare(ep) ==
  LET d == work[ep].d
      refused == \/ ~IsActive(db, d) \/ ~Owned(d)
                 \/ db.bundle[d].state = "reserved" /\ db.bundle[d].lease # "running"
  IN  /\ Flow(ep, "prepare") /\ Same /\ UNCHANGED ran
      /\ IF refused
         THEN /\ Free /\ Local
              /\ cancelled' = cancelled \ {d}
              /\ Goto(ep, IF d \in cancelled THEN "end" ELSE "fail")
         ELSE /\ Bus(PrepareRuntimeDelivery(d, TRUE))
              /\ Goto(ep, "inject") /\ UNCHANGED cancelled

(* The answer to the injected report is not looked at. *)
Inject(ep) ==
  /\ Flow(ep, "inject") /\ Same /\ UNCHANGED <<cancelled, ran>>
  /\ Report(ep, ReportInjected(work[ep].d), "adapt")

(* handleBundle: the adapter finds the Actor's profile, model or credential  *)
(* missing and declines (RuntimeAuthError), or the turn begins.              *)
BeginTurn(ep) ==
  /\ Flow(ep, "adapt") /\ Local /\ Same /\ UNCHANGED cancelled
  /\ ran' = [ran EXCEPT ![work[ep].d] = "running"]
  /\ Goto(ep, "run")

Decline(ep) ==
  LET d == work[ep].d
  IN  /\ Flow(ep, "adapt") /\ Spend("declines") /\ Local /\ Still /\ UNCHANGED ran
      /\ cancelled' = cancelled \ {d}
      /\ Goto(ep, IF d \in cancelled THEN "end" ELSE "hand_back")

HandBack(ep) ==
  /\ Flow(ep, "hand_back") /\ Same /\ UNCHANGED <<cancelled, ran>>
  /\ IF IsActive(db, work[ep].d) THEN Bus(ReportDeferred(work[ep].d)) ELSE Free /\ Local
  /\ Unwind(ep)

(* The turn asks another endpoint for work. *)
AskActor(ep) ==
  /\ Flow(ep, "run") /\ Spend("asks")
  /\ UNCHANGED <<boot, pass, attached, work, waiting, cancelled, held, idleCalls, engine, ran>>
  /\ Bus(\E to \in Endpoints \ {ep} : SubmitRequest(work[ep].d, to))

(* finalizeTurn records the completion; a refusal fails the turn. *)
Complete(ep) ==
  LET d == work[ep].d
  IN  /\ Flow(ep, "run") /\ Same
      /\ ran' = [ran EXCEPT ![d] = "completed"]
      /\ IF ResultRefused(db, d)
         THEN /\ Free /\ Local
              /\ cancelled' = cancelled \ {d}
              /\ Goto(ep, IF d \in cancelled THEN "end" ELSE "fail")
         ELSE /\ Bus(RecordResult(d, "completed"))
              /\ Goto(ep, "ack") /\ UNCHANGED cancelled

FailTurn(ep) ==
  LET d == work[ep].d
  IN  /\ Flow(ep, "run") \/ Flow(ep, "interrupted")
      /\ Local /\ Same
      /\ ran' = [ran EXCEPT ![d] = "failed"]
      /\ cancelled' = cancelled \ {d}
      /\ Goto(ep, IF d \in cancelled THEN "end" ELSE "fail")

Acknowledge(ep) ==
  LET d == work[ep].d
  IN  /\ Flow(ep, "ack") /\ Same /\ UNCHANGED ran
      /\ cancelled' = cancelled \ {d}
      /\ IF d \in cancelled THEN Free /\ Local /\ Goto(ep, "end")
         ELSE Report(ep, ReportAcknowledged(d), "end")

DeadLetter(ep) ==
  /\ Flow(ep, "fail") /\ Same /\ UNCHANGED <<cancelled, ran>>
  /\ Report(ep, ReportDeadLettered(work[ep].d), "record_failure")

(* Mutant: a failed turn is dead-lettered and nothing is recorded. *)
RecordFailure_Skipped(ep) ==
  /\ Flow(ep, "record_failure") /\ Same /\ UNCHANGED <<cancelled, ran>>
  /\ Free /\ Local /\ Goto(ep, "end")

RecordFailure(ep) ==
  LET d == work[ep].d
  IN  /\ Flow(ep, "record_failure") /\ Same /\ UNCHANGED <<cancelled, ran>>
      /\ IF ResultRefused(db, d) \/ ~Owned(d) THEN Free /\ Local
         ELSE Bus(RecordResult(d, "failed"))
      /\ Goto(ep, "end")

(* Mutant: the end of a turn is not reported. *)
End_Unreported(ep) ==
  /\ Flow(ep, "end") /\ Same /\ UNCHANGED <<cancelled, ran>>
  /\ Free /\ Local /\ Unwind(ep)

End(ep) ==
  /\ Flow(ep, "end") /\ Same /\ UNCHANGED <<cancelled, ran>>
  /\ IF db.bridge[ep] THEN Bus(TurnEnd(ep)) ELSE Free /\ Local
  /\ Unwind(ep)

HandleDelivery(ep) ==
  \/ Begin(ep) \/ Gate(ep) \/ Defer(ep) \/ Recheck(ep)
  \/ Prepare(ep) \/ Inject(ep) \/ BeginTurn(ep) \/ Decline(ep) \/ HandBack(ep)
  \/ Complete(ep) \/ FailTurn(ep)
  \/ Acknowledge(ep) \/ DeadLetter(ep) \/ RecordFailure(ep) \/ End(ep)

-----------------------------------------------------------------------------
(* The engine signs out and becomes ready again (EngineControl.onReady).    *)

EngineLost ==
  /\ engine /\ Spend("flaps") /\ engine' = FALSE
  /\ UNCHANGED <<db, bridge, ran>>

EngineReady ==
  /\ ~engine /\ engine' = TRUE
  /\ idleCalls' = idleCalls \cup held /\ held' = {}
  /\ UNCHANGED <<db, boot, pass, attached, stream, work, waiting, cancelled, ran, budget>>

-----------------------------------------------------------------------------
BridgeInit ==
  /\ Init
  /\ boot = "down" /\ pass = {} /\ attached = {} /\ stream = <<>> /\ cancelled = {}
  /\ work = [ep \in Endpoints |-> NoWork]
  /\ waiting = [ep \in Endpoints |-> <<>>]
  /\ held = {} /\ idleCalls = {} /\ engine = TRUE
  /\ ran = [d \in Bundles |-> "no"]
  /\ budget = [messages |-> Messages, flaps |-> EngineFlaps, crashes |-> MaxCrashes,
                stops |-> Stops, lapses |-> Lapses, asks |-> Asks,
                declines |-> Declines, reattaches |-> Reattaches]

BridgeNext ==
  \/ Person \/ Clock \/ Start \/ Reattach \/ Handle \/ BridgeDies \/ EngineLost \/ EngineReady
  \/ \E ep \in Endpoints : HandleDelivery(ep) \/ AskActor(ep) \/ IdleCall(ep)

BridgeSpec == BridgeInit /\ [][BridgeNext]_vars

(* The processes keep running: timers fire, frames arrive, calls are          *)
(* answered, a turn ends, a dead Bridge is started again, and an engine that  *)
(* went away comes back.  Nobody is obliged to send, stop, crash or ask.      *)
Fairness ==
  /\ WF_vars(Clock) /\ WF_vars(Start) /\ WF_vars(Handle) /\ WF_vars(EngineReady)
  /\ \A ep \in Endpoints : WF_vars(HandleDelivery(ep)) /\ WF_vars(IdleCall(ep))

FairBridgeSpec == BridgeSpec /\ Fairness

-----------------------------------------------------------------------------
(* Properties.                                                                *)

(* Once a Delivery enters a runtime it is never silently replayed: the        *)
(* runtime runs at most one turn for a row.                                   *)
RunOnce ==
  \A d, e \in Existing :
     d # e /\ db.bundle[d].row = db.bundle[e].row => ran[d] = "no" \/ ran[e] = "no"

(* A cancellation the Bridge has received keeps the bundle out of the runtime. *)
StoppedNeverStarts ==
  [][\A d \in Bundles : ran[d] = "no" /\ ran'[d] = "running" => d \notin cancelled]_vars

(* The natural completion of a turn the Bus still counts as under way is     *)
(* what the direct Context shows for its trigger.                             *)
CompletionStored ==
  [][\A d \in Bundles :
        ran[d] = "running" /\ ran'[d] = "completed" /\ IsActive(db, d)
           => db'.row[db.bundle[d].row].result = "completed"]_vars

(* An endpoint has one Delivery under way at a time. *)
OneDeliveryAtATime ==
  \A d, e \in Existing :
     d # e /\ IsActive(db, d) /\ IsActive(db, e) => EndpointOf(db, d) # EndpointOf(db, e)

(* Every queued Event reaches an end: it is acknowledged, dead-lettered or    *)
(* stopped, and never waits for ever.                                         *)
QueuedIsSettled ==
  \A r \in Rows : db.row[r].state = "queued"
     ~> db.row[r].state \in {"acknowledged", "dead_lettered", "cancelled"}

(* The Bus owns the return path of a request and resumes the requester.       *)
RequestReturns ==
  \A r \in Rows : db.row[r].kind = "request" /\ db.row[r].pending = "pending"
     ~> db.row[r].pending # "pending"

(* A response a person stopped stays stopped: whatever the Bridge reports     *)
(* late, the Bus publishes no completion for its trigger.                     *)
StoppedSaysNothing ==
  \A r \in Rows : db.row[r].state = "cancelled" => db.row[r].result = "none"

(* What people are promised of a message, over the rows and the turns run     *)
(* for them (module DeliveryContract).                                        *)
Item ==
  [r \in Rows |->
     IF db.row[r].state = "none" THEN "new"
     ELSE IF db.row[r].state = "queued" THEN "waiting"
     ELSE IF db.row[r].state \notin ActiveStates THEN "concluded"
     ELSE IF ran[db.row[r].delivery] # "no" THEN "entered" ELSE "offered"]

Promise == INSTANCE DeliveryContract WITH Items <- Rows, item <- Item

(* The Bridge and the Bus together keep the contract: a message is offered,   *)
(* perhaps again, until it enters a runtime; then it is concluded and never   *)
(* offered again.                                                             *)
KeepsContract == Promise!Spec

-----------------------------------------------------------------------------
(* The inductive invariant behind RunOnce and KeepsContract, for Bridges that *)
(* let no lease of theirs lapse (Lapses = 0).                                 *)

Steps == {"none", "start", "gate", "defer", "recheck", "prepare", "inject", "adapt",
          "hand_back", "run", "interrupted", "ack", "fail", "record_failure", "end"}

Boots == {"down", "register", "attach", "claim", "up", "reattach", "reclaim"}
Flows == [d: 0 .. MaxBundles, pc: Steps]
Frames == [kind: {"available", "cancel"}, d: Bundles]
Allowances == {"messages", "flaps", "crashes", "stops", "lapses", "asks", "declines", "reattaches"}

BridgeTypeOK ==
  /\ boot \in Boots
  /\ pass \subseteq Endpoints
  /\ stream \in Seq(Frames)
  /\ work \in [Endpoints -> Flows]
  /\ waiting \in [Endpoints -> Seq(Bundles)]
  /\ cancelled \subseteq Bundles
  /\ ran \in [Bundles -> {"no", "running", "completed", "failed", "lost"}]
  /\ budget \in [Allowances -> Nat] /\ budget["lapses"] = 0

(* A process holds bundles of the endpoint it holds them for, and holds none  *)
(* before it has registered.                                                  *)
HeldOK ==
  /\ \A ep \in Endpoints :
       /\ work[ep].pc = "none" => work[ep].d = 0
       /\ work[ep].pc # "none" => work[ep].d \in Existing /\ EndpointOf(db, work[ep].d) = ep
       /\ \A d \in ToSet(waiting[ep]) : d \in Existing /\ EndpointOf(db, d) = ep
  /\ \A f \in ToSet(stream) : f.d \in Existing
  /\ boot \in {"down", "register"} =>
       \A ep \in Endpoints : work[ep].pc = "none" /\ waiting[ep] = <<>>

(* A lease runs out only on a bundle no process will come back to. *)
LeasesOK == boot # "down" => \A d \in Lapsed : Forgotten(d)

(* What the Bridge takes for stopped is stopped. *)
StopsOK ==
  /\ \A d \in cancelled : db.bundle[d].state = "cancelled"
  /\ \A f \in ToSet(stream) : f.kind = "cancel" => db.bundle[f.d].state = "cancelled"

(* A runtime was given only bundles after which the row is not tried again;   *)
(* a live one is still held by the flow that runs it, or its process is gone  *)
(* and registerBridge has yet to settle it.                                   *)
TurnsOK ==
  /\ \A d \in Bundles : ran[d] # "no" => d \in Existing /\ Conclusive(db.bundle[d])
  /\ \A d \in Bundles : ran[d] # "no" /\ IsActive(db, d) =>
       \/ boot \in {"down", "register"}
       \/ \E ep \in Endpoints :
            work[ep].d = d /\ work[ep].pc \in {"run", "interrupted", "ack", "fail"}
  /\ \A ep \in Endpoints :
       /\ work[ep].pc = "inject" => IsActive(db, work[ep].d) \/ Conclusive(db.bundle[work[ep].d])
       /\ work[ep].pc = "adapt" => Conclusive(db.bundle[work[ep].d])
       /\ work[ep].pc \in {"run", "interrupted"} => ran[work[ep].d] # "no"
  /\ \A d \in Existing : db.bundle[d].entered => Owned(d)

BridgeInv ==
  /\ HistoryInv /\ BridgeTypeOK /\ HeldOK /\ LeasesOK /\ StopsOK /\ TurnsOK

=============================================================================
