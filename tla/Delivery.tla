------------------------------ MODULE Delivery ------------------------------
(***************************************************************************)
(* The Bus's durable delivery lifecycle (floe-bus/src/store.ts): endpoints, *)
(* event_queue rows and delivery_bundles for direct conversations, with the *)
(* leases, status reports, turn results, requests, cancellation,            *)
(* registration and retirement that change them.                            *)
(*                                                                          *)
(* The store is synchronous, so a handler runs to its end before another    *)
(* starts: one action is one handler, and a handler that calls another is   *)
(* the composition of their operators on the database record.  The two      *)
(* handlers that loop over bundles and commit each iteration on its own     *)
(* (registerBridge, requeueExpiredDeliveryLeases) take one step per         *)
(* iteration while db.job keeps every other handler out.  Between two       *)
(* statements of a handler, \E s1 \in {...} names the database as the first  *)
(* leaves it.                                                               *)
(*                                                                          *)
(* Callers are unconstrained: a Bridge or a client may send any call it is  *)
(* allowed to send, at any time, any number of times.  What holds here      *)
(* holds however late, duplicated or reordered the calls of a Bridge are.   *)
(***************************************************************************)
EXTENDS Integers

CONSTANTS
  Endpoints,    \* endpoint ids of one Workspace
  Clients,      \* the endpoints whose turns an attached client executes
  Askers,       \* the endpoints whose messages expect a response
  None,         \* SQL NULL where an endpoint id is expected
  Bindings,     \* the runtime-binding states the environment moves through
  ActorStates,  \* the Actor states the environment moves through
  Holds,        \* whether the Workspace may have been restored on hold
  MaxAttempts,  \* transport attempts before a dead letter (3 in the code)
  MaxRows,      \* bound: event_queue rows ever inserted
  MaxBundles    \* bound: delivery_bundles ever inserted

ASSUME DeliveryAssumption ==
  /\ Clients \subseteq Endpoints /\ Askers \subseteq Endpoints
  /\ None \notin Endpoints
  /\ Bindings \subseteq {"none", "resolved", "unresolved"}
  /\ ActorStates \subseteq {"active", "retired"}
  /\ Holds \subseteq BOOLEAN
  /\ MaxAttempts \in Nat \ {0}
  /\ MaxRows \in Nat
  /\ MaxBundles \in Nat

VARIABLE db

Rows    == 1 .. MaxRows       \* numbered in created_at order
Bundles == 1 .. MaxBundles

ActiveStates   == {"reserved", "delivered_to_bridge", "injected_to_runtime"}
TerminalStates == {"acknowledged", "failed", "dead_lettered", "deferred", "cancelled"}
Statuses == {"idle", "queued", "waiting", "active", "error",
             "runtime_unconfigured", "retired"}

(* An event_queue row with what its Event says of it.  kind "request" asks  *)
(* dest for work on behalf of asker, from inside the turn of bundle parent; *)
(* cont is the request that turn is itself answering (metadata              *)
(* request_continuation_event_id), 0 if none.  A "return" row carries the   *)
(* answer of the request it answers back to the asker.  pending is the request's         *)
(* pending_responses row and result the turn result keyed by this row's     *)
(* endpoint and event.                                                      *)
Row ==
  [dest: Endpoints \cup {None}, kind: {"message", "request", "return"},
   state: ActiveStates \cup {"none", "queued", "acknowledged", "dead_lettered",
                             "cancelled", "deleted"},
   delivery: 0 .. MaxBundles, attempts: 0 .. MaxAttempts,
   asker: Endpoints \cup {None}, parent: 0 .. MaxBundles,
   cont: 0 .. MaxRows, answers: 0 .. MaxRows,
   pending: {"none", "pending", "resolved", "cancelled"},
   result: {"none", "completed", "failed"}]

(* A delivery_bundles row.  lease: NULL, running, or past its time with the *)
(* timer still to fire.  sid: operation_authority_session_id is set; live:  *)
(* how many sessions issued for this Delivery are not revoked.  entered     *)
(* records that the bundle was reported injected_to_runtime.                *)
Bundle ==
  [row: 0 .. MaxRows, state: ActiveStates \cup TerminalStates \cup {"none"},
   attempts: 0 .. MaxAttempts, lease: {"null", "running", "lapsed"},
   sid: BOOLEAN, live: Nat, entered: BOOLEAN]

NoRow ==
  [dest |-> None, kind |-> "message", state |-> "none", delivery |-> 0,
   attempts |-> 0, asker |-> None, parent |-> 0, cont |-> 0, answers |-> 0,
   pending |-> "none", result |-> "none"]

NoBundle ==
  [row |-> 0, state |-> "none", attempts |-> 0, lease |-> "null",
   sid |-> FALSE, live |-> 0, entered |-> FALSE]

(* binding and actor are the Actor runtime binding of the endpoint and the  *)
(* status of the Actor it serves; hold is the Workspace's restore hold.     *)
Database ==
  [status: [Endpoints -> Statuses \cup {"absent"}], bridge: [Endpoints -> BOOLEAN],
   binding: [Endpoints -> {"none", "resolved", "unresolved"}],
   actor: [Endpoints -> {"active", "retired"}],
   row: [Rows -> Row], bundle: [Bundles -> Bundle],
   nr: 0 .. MaxRows, nb: 0 .. MaxBundles,
   hold: BOOLEAN, job: {"none", "abandon", "expire"}]

-----------------------------------------------------------------------------
(* Helpers shared by the handlers.                                          *)

IsActive(s, d) == s.bundle[d].state \in ActiveStates
EndpointOf(s, d) == s.row[s.bundle[d].row].dest

QueuedFor(s, ep) == {r \in Rows : s.row[r].dest = ep /\ s.row[r].state = "queued"}
Oldest(S) == CHOOSE r \in S : \A x \in S : r <= x

SetStatus(s, ep, st) ==
  IF s.status[ep] = "absent" THEN s ELSE [s EXCEPT !.status[ep] = st]

(* resolveDestinations lets a Delivery go to every endpoint but a retired one. *)
Addressable(s, ep) == s.status[ep] # "retired"

(* Mutant: queueEvent lists a busy endpoint as queued. *)
QueueEvent_Overwrites(s, r) ==
  SetStatus([s EXCEPT !.nr = @ + 1, !.row[s.nr + 1] = r], r.dest, "queued")

(* queueEvent: insert the row; an endpoint that is busy or unconfigured     *)
(* keeps its status, any other is listed as queued.                         *)
QueueEvent(s, r) ==
  LET ep == r.dest
      st == IF s.status[ep] \in {"active", "runtime_unconfigured"}
            THEN s.status[ep] ELSE "queued"
  IN  SetStatus([s EXCEPT !.nr = @ + 1, !.row[s.nr + 1] = r], ep, st)

(* Mutant: the restore hold is not looked at. *)
CanDeliver_IgnoresHold(s, ep) ==
  /\ s.status[ep] \notin {"absent", "active", "error", "runtime_unconfigured"}
  /\ s.bridge[ep] \/ ep \in Clients

CanDeliver(s, ep) ==
  /\ s.status[ep] \notin {"absent", "active", "error", "runtime_unconfigured"}
  /\ s.bridge[ep] \/ ep \in Clients
  /\ ~s.hold

(* The row and the bundle of a reservation, in the code's statement order.  *)
Reserved(w, d) ==
  [w EXCEPT !.state = "reserved", !.delivery = d, !.attempts = w.attempts + 1]

ReserveRow(s, r) == [s EXCEPT !.row[r] = Reserved(s.row[r], s.nb + 1)]

(* A client's Delivery has no lease: a person may take days. *)
NewBundle(r, attempts, leased) ==
  [row |-> r, state |-> "reserved", attempts |-> attempts,
   lease |-> IF leased THEN "running" ELSE "null",
   sid |-> FALSE, live |-> 0, entered |-> FALSE]

InsertBundle(s, ep, r) ==
  [s EXCEPT !.nb = @ + 1, !.status[ep] = "active",
            !.bundle[s.nb + 1] = NewBundle(r, s.row[r].attempts, s.bridge[ep])]

TryCreateDeliveryForEndpoint(s, ep) ==
  IF CanDeliver(s, ep) /\ QueuedFor(s, ep) # {}
  THEN LET r == Oldest(QueuedFor(s, ep)) IN InsertBundle(ReserveRow(s, r), ep, r)
  ELSE s

UpdateEndpointStatus(s, ep, st) ==
  LET shown == IF /\ s.actor[ep] = "retired"
                  /\ st \in {"idle", "waiting", "queued", "runtime_unconfigured"}
               THEN "retired" ELSE st
      s1 == SetStatus(s, ep, shown)
  IN  IF shown \in {"idle", "waiting"} THEN TryCreateDeliveryForEndpoint(s1, ep) ELSE s1

RuntimeConfigurationStatus(s, ep, fallback) ==
  CASE s.binding[ep] = "none"       -> fallback
    [] s.binding[ep] # "none" /\ s.actor[ep] = "retired" -> "retired"
    [] s.binding[ep] = "unresolved" /\ s.actor[ep] # "retired" -> "runtime_unconfigured"
    [] OTHER -> IF fallback = "runtime_unconfigured" THEN "idle" ELSE fallback

OpenPending(s, ep) ==
  \E r \in Rows : s.row[r].asker = ep /\ s.row[r].pending = "pending"

Unsettled(s, ep) ==
  \E r \in Rows : s.row[r].dest = ep /\ s.row[r].state \in ActiveStates \cup {"queued"}

(* reportTurnEnd names the endpoint, not the Delivery whose turn ended.     *)
ReportTurnEnd(s, ep) ==
  IF s.status[ep] = "runtime_unconfigured" THEN s
  ELSE LET st == IF OpenPending(s, ep) THEN "waiting"
                 ELSE IF Unsettled(s, ep) THEN "queued" ELSE "idle"
           s1 == UpdateEndpointStatus(s, ep, st)
       IN  IF st = "queued" THEN TryCreateDeliveryForEndpoint(s1, ep) ELSE s1

(* Mutant: no trigger revokes the session of a settled bundle. *)
Ended_KeepsSession(b, st) == [b EXCEPT !.state = st, !.lease = "null"]

(* A bundle enters a terminal state; the terminal trigger revokes the       *)
(* recorded authority session in the same statement.                        *)
Ended(b, st) ==
  [b EXCEPT !.state = st, !.lease = "null",
            !.live = IF b.sid /\ b.live > 0 THEN b.live - 1 ELSE b.live]

Settle(s, d, st) == [s EXCEPT !.bundle[d] = Ended(s.bundle[d], st)]

Requeued(w, refund) ==
  [w EXCEPT !.state = "queued", !.delivery = 0,
            !.attempts = IF w.attempts > refund THEN w.attempts - refund ELSE 0]

(* UPDATE event_queue ... WHERE delivery_id = d. *)
SetRowState(s, d, st) ==
  LET r == s.bundle[d].row
  IN  IF s.row[r].delivery = d
      THEN [s EXCEPT !.row[r] = [s.row[r] EXCEPT !.state = st]] ELSE s

RequeueRow(s, d, refund) ==
  LET r == s.bundle[d].row
  IN  IF s.row[r].delivery = d
      THEN [s EXCEPT !.row[r] = Requeued(s.row[r], refund)] ELSE s

-----------------------------------------------------------------------------
(* Turn results and requests.                                               *)

(* The request a turn triggered by row t answers, 0 if none. *)
Continuation(s, t) ==
  CASE s.row[t].kind = "request" -> t
    [] s.row[t].kind = "return"  -> s.row[t].cont
    [] OTHER                     -> 0

MadeChildRequest(s, d) ==
  \E r \in Rows : /\ s.row[r].kind = "request"
                  /\ s.row[r].parent = d
                  /\ s.row[r].asker = EndpointOf(s, d)

ExactRequest(s, d) ==
  LET c == Continuation(s, s.bundle[d].row)
  IN  /\ c # 0
      /\ s.row[c].pending = "pending"
      /\ ~MadeChildRequest(s, d)
      /\ s.row[c].dest = EndpointOf(s, d)

(* Mutant: a late result is always accepted. *)
ResultRefused_Never(s, d) == FALSE

(* A late result cannot complete a response that was cancelled. *)
ResultRefused(s, d) ==
  s.bundle[d].state = "cancelled" /\ s.row[s.bundle[d].row].result = "none"

(* Mutant: the answer is queued and the request left open. *)
ResolveRequest_Forgotten(s, c) == s

ResolveRequest(s, c) == [s EXCEPT !.row[c].pending = "resolved"]

(* recordRuntimeTurnResult: the first result of this endpoint and trigger   *)
(* wins and every later one returns it unchanged.  A turn that made a child *)
(* request leaves its own inbound request open; otherwise the exact         *)
(* correlated request is resolved and its answer queued for the asker.  A   *)
(* message that expected a response is satisfied without a reply.           *)
RecordRuntimeTurnResult(s, d, outcome) ==
  LET t == s.bundle[d].row
      c == Continuation(s, t)
      s1 == [s EXCEPT !.row[t].result = outcome]
      heard == IF s.row[t].kind # "request" /\ s.row[t].pending = "pending"
               THEN "resolved" ELSE s.row[t].pending
      answer == [NoRow EXCEPT !.dest = s.row[c].asker, !.kind = "return",
                              !.state = "queued", !.answers = c,
                              !.cont = s.row[c].cont]
  IN  IF s.row[t].result # "none" THEN s
      ELSE IF ExactRequest(s, d)
      THEN TryCreateDeliveryForEndpoint(
             QueueEvent(ResolveRequest(s1, c), answer),
             s.row[c].asker)
      ELSE [s1 EXCEPT !.row[t].pending = heard]

(* Mutant: a turn whose runtime is gone is queued again. *)
LoseRuntime_Requeues(s, d) ==
  SetStatus(RequeueRow(Settle(s, d, "failed"), d, 0), EndpointOf(s, d), "idle")

(* failUnknownRuntimeDelivery: the transaction that settles a turn whose    *)
(* runtime is gone, then the failed result its Context shows.               *)
LoseRuntime(s, d) ==
  SetStatus(SetRowState(Settle(s, d, "dead_lettered"), d, "dead_lettered"),
            EndpointOf(s, d), "error")

FailUnknownRuntimeDelivery(s, d) ==
  \E s1 \in {LoseRuntime(s, d)} : db' = RecordRuntimeTurnResult(s1, d, "failed")

-----------------------------------------------------------------------------
(* Handlers.  Each is one route of the Bus or one timer callback.           *)

Free     == db.job = "none"
RowRoom  == db.nr < MaxRows
BundleRoom == db.nb < MaxBundles
Existing == 1 .. db.nb

(* Routes that name a Delivery or an endpoint check that the calling Bridge *)
(* owns it.                                                                 *)
Owned(d) == db.status[EndpointOf(db, d)] # "absent" /\ db.bridge[EndpointOf(db, d)]

(* Every open wait of ep is answered by a message to it; a request is not:  *)
(* its wait is correlated.                                                  *)
ResolvePendingResponsesForIncoming(s, ep) ==
  [s EXCEPT !.row = [r \in Rows |->
     IF s.row[r].asker = ep /\ s.row[r].kind = "message" /\ s.row[r].pending = "pending"
     THEN [s.row[r] EXCEPT !.pending = "resolved"] ELSE s.row[r]]]

(* submitEvent: a message to ep, sent by asker when a response is expected. *)
SubmitEvent(ep, asker) ==
  /\ Free /\ RowRoom /\ BundleRoom
  /\ Addressable(db, ep)
  /\ LET r == [NoRow EXCEPT !.dest = ep, !.state = "queued", !.asker = asker,
                            !.pending = IF asker = None THEN "none" ELSE "pending"]
         s1 == QueueEvent(db, r)
     IN  \E s2 \in {ResolvePendingResponsesForIncoming(s1, ep)} :
            db' = TryCreateDeliveryForEndpoint(s2, ep)

(* The request tool of a running turn: one dependency per processing cycle. *)
SubmitRequest(d, ep) ==
  /\ Free /\ RowRoom /\ BundleRoom
  /\ db.bundle[d].entered /\ ~MadeChildRequest(db, d)
  /\ Addressable(db, ep)
  /\ LET t == db.bundle[d].row
         r == [NoRow EXCEPT !.dest = ep, !.kind = "request", !.state = "queued",
                            !.asker = EndpointOf(db, d), !.parent = d,
                            !.cont = Continuation(db, t), !.pending = "pending"]
     IN  db' = TryCreateDeliveryForEndpoint(QueueEvent(db, r), ep)

(* Every reserved bundle in D and its row becomes delivered_to_bridge. *)
Claimed(s, D) ==
  LET taken == {d \in D : s.bundle[d].state = "reserved"}
  IN  [s EXCEPT
        !.bundle = [d \in Bundles |-> IF d \in taken
           THEN [s.bundle[d] EXCEPT !.state = "delivered_to_bridge"] ELSE s.bundle[d]],
        !.row = [r \in Rows |->
           IF s.row[r].delivery \in taken /\ s.row[r].state = "reserved"
           THEN [s.row[r] EXCEPT !.state = "delivered_to_bridge"] ELSE s.row[r]]]

ClaimDeliveries ==
  /\ Free /\ ~db.hold
  /\ db' = Claimed(db, {d \in Existing : Owned(d)})

ClaimClientDeliveries(ep) ==
  /\ Free /\ ~db.hold
  /\ ep \in Clients /\ db.status[ep] # "absent" /\ ~db.bridge[ep]
  /\ db' = Claimed(db, {d \in Existing : EndpointOf(db, d) = ep})

RecordClientTurnResult(d, outcome) ==
  /\ Free /\ RowRoom /\ db.nb + 2 <= MaxBundles
  /\ EndpointOf(db, d) \in Clients
  /\ ~ResultRefused(db, d)
  /\ \E s1 \in {RecordRuntimeTurnResult(db, d, outcome)} :
     \E s2 \in {SetRowState(Settle(s1, d, "acknowledged"), d, "acknowledged")} :
        db' = ReportTurnEnd(s2, EndpointOf(db, d))

Authorised(b, issue) ==
  LET revoked == IF b.sid /\ b.live > 0 THEN 1 ELSE 0
  IN  [b EXCEPT !.sid = issue, !.live = b.live - revoked + (IF issue THEN 1 ELSE 0)]

(* prepareRuntimeDelivery: claim a pushed reservation whose lease still     *)
(* runs, revoke the recorded authority session and issue another when the   *)
(* Actor holds live grants.                                                 *)
PrepareRuntimeDelivery(d, grants) ==
  /\ Free
  /\ Owned(d) /\ IsActive(db, d)
  /\ db.bundle[d].state = "reserved" => db.bundle[d].lease = "running" /\ ~db.hold
  /\ LET renewal == db.bundle[d].state = "injected_to_runtime"
         issue == grants /\ (~renewal \/ db.bundle[d].sid)
         s1 == Claimed(db, {d})
     IN  db' = [s1 EXCEPT !.bundle[d] = Authorised(s1.bundle[d], issue)]

(* reportDeliveryStatus: a late report of a settled bundle is ignored. *)
ReportDeferred(d) ==
  /\ Free /\ Owned(d) /\ IsActive(db, d)
  /\ LET ep == EndpointOf(db, d)
         s1 == RequeueRow(Settle(db, d, "deferred"), d, 1)
     IN  db' = IF db.bridge[ep] THEN SetStatus(s1, ep, "runtime_unconfigured") ELSE s1

(* Mutant: a failed turn is offered to a runtime again. *)
FailInjectedRuntimeDelivery_Retries(s, d) ==
  SetStatus(RequeueRow(Settle(s, d, "failed"), d, 0), EndpointOf(s, d), "error")

FailInjectedRuntimeDelivery(s, d) ==
  SetStatus(SetRowState(Settle(s, d, "failed"), d, "dead_lettered"),
            EndpointOf(s, d), "error")

(* Mutant: a failure gives its attempt back. *)
GiveUpBeforeTurn_Refunds(s, d) ==
  IF s.bundle[d].attempts >= MaxAttempts
  THEN SetRowState(Settle(s, d, "dead_lettered"), d, "dead_lettered")
  ELSE RequeueRow(Settle(s, d, "failed"), d, 1)

(* A bundle given up before its turn: requeued until its attempts run out. *)
GiveUpBeforeTurn(s, d) ==
  IF s.bundle[d].attempts >= MaxAttempts
  THEN SetRowState(Settle(s, d, "dead_lettered"), d, "dead_lettered")
  ELSE RequeueRow(Settle(s, d, "failed"), d, 0)

ReportFailed(d) ==
  /\ Free /\ Owned(d) /\ IsActive(db, d)
  /\ db' = IF db.bundle[d].state = "injected_to_runtime"
           THEN FailInjectedRuntimeDelivery(db, d) ELSE GiveUpBeforeTurn(db, d)

ReportDeadLettered(d) ==
  /\ Free /\ Owned(d) /\ IsActive(db, d)
  /\ db' = SetRowState(Settle(db, d, "dead_lettered"), d, "dead_lettered")

ReportInjected(d) ==
  /\ Free /\ Owned(d) /\ IsActive(db, d)
  /\ db' = [SetRowState(db, d, "injected_to_runtime") EXCEPT
              !.bundle[d] = [db.bundle[d] EXCEPT !.state = "injected_to_runtime",
                               !.lease = "running", !.entered = TRUE]]

(* Mutant: a late acknowledgement of a settled bundle is applied. *)
ReportAcknowledged_Late(d) ==
  /\ Free /\ Owned(d)
  /\ db' = SetRowState(Settle(db, d, "acknowledged"), d, "acknowledged")

ReportAcknowledged(d) ==
  /\ Free /\ Owned(d) /\ IsActive(db, d)
  /\ db' = SetRowState(Settle(db, d, "acknowledged"), d, "acknowledged")

TurnEnd(ep) ==
  /\ Free /\ BundleRoom
  /\ db.bridge[ep]
  /\ db' = ReportTurnEnd(db, ep)

RecordResult(d, outcome) ==
  /\ Owned(d)
  /\ Free /\ RowRoom /\ BundleRoom
  /\ ~ResultRefused(db, d)
  /\ db' = RecordRuntimeTurnResult(db, d, outcome)

ClosePending(s, closed) ==
  [s EXCEPT !.row = [r \in Rows |->
     IF r \in closed THEN [s.row[r] EXCEPT !.pending = "cancelled"] ELSE s.row[r]]]

(* cancelRuntimeDelivery: a completion that already won is kept. *)
CancelRuntimeDelivery(d) ==
  /\ Free /\ BundleRoom
  /\ IsActive(db, d)
  /\ db.row[db.bundle[d].row].result = "none"
  /\ LET t == db.bundle[d].row
         ep == EndpointOf(db, d)
         c == IF db.row[t].kind = "return" THEN db.row[t].cont ELSE 0
         closed == {r \in Rows : /\ db.row[r].pending = "pending"
                                 /\ \/ r = t /\ db.row[t].delivery = d
                                    \/ r = c /\ db.row[t].delivery = d /\ db.row[r].dest = ep}
         s1 == SetRowState(Settle(db, d, "cancelled"), d, "cancelled")
     IN  \E s2 \in {ClosePending(s1, closed)} : db' = ReportTurnEnd(s2, ep)

(* Time passes a lease; telemetry of a running turn renews it. *)
LeaseLapses(d) ==
  /\ Free /\ IsActive(db, d)
  /\ db.bundle[d].lease = "running"
  /\ db' = [db EXCEPT !.bundle[d].lease = "lapsed"]

RenewRuntimeDeliveryLease(d) ==
  /\ Free /\ Owned(d)
  /\ db.bundle[d].state = "injected_to_runtime"
  /\ db' = [db EXCEPT !.bundle[d].lease = "running"]

Lapsed == {d \in Existing : IsActive(db, d) /\ db.bundle[d].lease = "lapsed"}

(* The lease timer fires (requeueExpiredDeliveryLeases). *)
LeaseTimer ==
  /\ Free /\ Lapsed # {}
  /\ db' = [db EXCEPT !.job = "expire"]

RequeueExpired(d) ==
  /\ db.job = "expire" /\ RowRoom /\ BundleRoom
  /\ d \in Lapsed
  /\ IF db.bundle[d].state = "injected_to_runtime"
     THEN FailUnknownRuntimeDelivery(db, d)
     ELSE \E s1 \in {GiveUpBeforeTurn(db, d)} :
            db' = IF s1.bundle[d].state = "failed"
                  THEN UpdateEndpointStatus(s1, EndpointOf(db, d), "idle") ELSE s1

LeaseTimerDone ==
  /\ db.job = "expire" /\ Lapsed = {}
  /\ db' = [db EXCEPT !.job = "none"]

(* A (re)started Bridge registers: turns injected by its previous process   *)
(* are settled as unknown, oldest first.                                    *)
Abandoned == {d \in Existing : Owned(d) /\ db.bundle[d].state = "injected_to_runtime"}

RegisterBridge ==
  /\ Free
  /\ db' = [db EXCEPT !.job = "abandon"]

AbandonTurn ==
  /\ db.job = "abandon" /\ RowRoom /\ BundleRoom
  /\ Abandoned # {}
  /\ FailUnknownRuntimeDelivery(db, Oldest(Abandoned))

RegisterBridgeDone ==
  /\ db.job = "abandon" /\ Abandoned = {}
  /\ db' = [db EXCEPT !.job = "none"]

(* registerEndpoint from the Bridge: rediscovery refreshes attachment and   *)
(* keeps the outcome of existing work.                                      *)
RegisterEndpoint(ep, requested) ==
  /\ Free /\ BundleRoom
  /\ ep \notin Clients
  /\ LET kept == /\ db.bridge[ep]
                 /\ db.status[ep] \in {"active", "waiting", "error", "retired"}
         reported == IF kept THEN db.status[ep] ELSE requested
         st == IF reported \in {"idle", "waiting", "runtime_unconfigured"}
               THEN RuntimeConfigurationStatus(db, ep, reported) ELSE reported
     IN  db' = TryCreateDeliveryForEndpoint(
                 [db EXCEPT !.status[ep] = st, !.bridge[ep] = TRUE], ep)

RegisterClientEndpoint(ep) ==
  /\ Free /\ BundleRoom
  /\ ep \in Clients
  /\ db' = TryCreateDeliveryForEndpoint([db EXCEPT !.status[ep] = "idle"], ep)

(* The Bridge's status route and the runtime-binding routes. *)
ReportEndpointStatus(ep, st) ==
  /\ Free /\ BundleRoom
  /\ db.bridge[ep]
  /\ db' = UpdateEndpointStatus(db, ep, st)

RetireEndpoint(ep) ==
  /\ Free
  /\ db.status[ep] \in {"idle", "error", "runtime_unconfigured", "retired"}
  /\ db' = [db EXCEPT !.status[ep] = "retired", !.bridge[ep] = FALSE]

DeleteEndpoint(ep) ==
  /\ Free
  /\ db.status[ep] # "absent"
  /\ db' = [db EXCEPT !.status[ep] = "absent", !.bridge[ep] = FALSE,
              !.row = [r \in Rows |-> IF db.row[r].dest = ep
                 THEN [db.row[r] EXCEPT !.state = "deleted", !.delivery = 0] ELSE db.row[r]]]

(* The Actor an endpoint serves is retired or reactivated. *)
SetActorStatus(ep, st) ==
  /\ Free /\ BundleRoom
  /\ db.actor[ep] # st
  /\ LET s1 == [db EXCEPT !.actor[ep] = st]
     IN  db' = CASE st = "retired" /\ db.status[ep] # "retired"
                      -> UpdateEndpointStatus(s1, ep, "retired")
                 [] st = "active" /\ db.status[ep] = "retired"
                      -> UpdateEndpointStatus(s1, ep, RuntimeConfigurationStatus(s1, ep, "idle"))
                 [] OTHER -> s1

(* The Actor's runtime binding changes; the retained binding is observed. *)
SetActorBinding(ep, b) ==
  /\ Free /\ BundleRoom
  /\ db.binding[ep] # b
  /\ LET s1 == [db EXCEPT !.binding[ep] = b]
         st == IF b = "none" THEN "runtime_unconfigured"
               ELSE RuntimeConfigurationStatus(s1, ep, db.status[ep])
     IN  db' = IF /\ db.bridge[ep]
                  /\ db.status[ep] \in {"idle", "waiting", "runtime_unconfigured"}
                  /\ st # db.status[ep]
               THEN UpdateEndpointStatus(s1, ep, st) ELSE s1

ReleaseRestoreHold ==
  /\ Free /\ db.hold
  /\ db' = [db EXCEPT !.hold = FALSE]

-----------------------------------------------------------------------------
Init ==
  /\ db \in [status: {[ep \in Endpoints |-> "absent"]},
             bridge: {[ep \in Endpoints |-> FALSE]},
             binding: {[ep \in Endpoints |-> "none"]},
             actor: {[ep \in Endpoints |-> "active"]},
             row: {[r \in Rows |-> NoRow]}, bundle: {[d \in Bundles |-> NoBundle]},
             nr: {0}, nb: {0}, hold: Holds, job: {"none"}]

BundleStep(d) ==
  \/ \E ep \in Endpoints : SubmitRequest(d, ep)
  \/ \E g \in BOOLEAN : PrepareRuntimeDelivery(d, g)
  \/ \E o \in {"completed", "failed"} : RecordClientTurnResult(d, o) \/ RecordResult(d, o)
  \/ ReportDeferred(d) \/ ReportFailed(d) \/ ReportDeadLettered(d)
  \/ ReportInjected(d) \/ ReportAcknowledged(d)
  \/ CancelRuntimeDelivery(d)
  \/ LeaseLapses(d) \/ RenewRuntimeDeliveryLease(d) \/ RequeueExpired(d)

EndpointStep(ep) ==
  \/ \E a \in Askers \cup {None} : SubmitEvent(ep, a)
  \/ TurnEnd(ep)
  \/ \E st \in {"idle", "runtime_unconfigured"} :
        RegisterEndpoint(ep, st) \/ ReportEndpointStatus(ep, st)
  \/ RetireEndpoint(ep) \/ DeleteEndpoint(ep)
  \/ \E st \in ActorStates : SetActorStatus(ep, st)
  \/ \E b \in Bindings : SetActorBinding(ep, b)

ClientStep(ep) == RegisterClientEndpoint(ep) \/ ClaimClientDeliveries(ep)

Next ==
  \/ \E d \in Existing : BundleStep(d)
  \/ \E ep \in Endpoints : EndpointStep(ep)
  \/ \E ep \in Clients : ClientStep(ep)
  \/ ClaimDeliveries
  \/ LeaseTimer \/ LeaseTimerDone
  \/ RegisterBridge \/ AbandonTurn \/ RegisterBridgeDone
  \/ ReleaseRestoreHold

Spec == Init /\ [][Next]_db

-----------------------------------------------------------------------------
(* Properties.                                                              *)

TypeOK == db \in Database

(* The queue and the bundles never disagree about who owns a row: a row out  *)
(* for delivery names the one bundle that holds it, in the same state, and a *)
(* live bundle still holds its row unless the endpoint was deleted under it. *)
QueueAgrees ==
  /\ \A r \in Rows : db.row[r].state \in ActiveStates =>
        LET d == db.row[r].delivery
        IN  d \in Existing /\ db.bundle[d].row = r /\ db.bundle[d].state = db.row[r].state
  /\ \A d \in Existing : IsActive(db, d) =>
        LET r == db.bundle[d].row
        IN  \/ db.row[r].delivery = d /\ db.row[r].state = db.bundle[d].state
            \/ db.row[r].state = "deleted"

(* Work that entered a runtime is never silently replayed: no second bundle  *)
(* is created for a row once a bundle of it was injected, unless the Bridge  *)
(* handed that one back (deferred) before its turn began.                    *)
NeverReplayed ==
  \A d, e \in Existing :
     d < e /\ db.bundle[d].row = db.bundle[e].row /\ db.bundle[d].entered
        => db.bundle[d].state = "deferred"

(* Handing work back before it starts costs no attempt, and everything else  *)
(* does: the bundles of one row that were not deferred carry increasing      *)
(* attempt numbers, so a row is tried at most MaxAttempts times.             *)
AttemptsSpent ==
  \A d, e \in Existing :
     (/\ d < e /\ db.bundle[d].row = db.bundle[e].row
      /\ db.bundle[d].state # "deferred" /\ db.bundle[e].state # "deferred")
        => db.bundle[d].attempts < db.bundle[e].attempts

(* The operation authority of a Delivery ends with it: at most one session   *)
(* is live while the Delivery is, none once it is settled.                   *)
AuthorityConfined ==
  \A d \in Existing : db.bundle[d].live <= (IF IsActive(db, d) THEN 1 ELSE 0)

(* The Bus returns at most one answer to a request, and marks a request      *)
(* resolved exactly when that answer was queued for its asker.               *)
AnsweredOnce ==
  LET answersOf(c) == {r \in Rows : db.row[r].answers = c}
  IN  \A c \in Rows : db.row[c].kind = "request" =>
        /\ \A x, y \in answersOf(c) : x = y
        /\ (answersOf(c) # {}) <=> (db.row[c].pending = "resolved")
        /\ \A x \in answersOf(c) : db.row[x].dest = db.row[c].asker

(* A settled bundle stays as it was settled, a row that was acknowledged,    *)
(* dead-lettered or cancelled is never taken up again, and a recorded turn   *)
(* result is never replaced, whatever calls arrive late.                     *)
SettledForGood ==
  [][/\ \A d \in Bundles : db.bundle[d].state \in TerminalStates
                              => db'.bundle[d].state = db.bundle[d].state
     /\ \A r \in Rows : db.row[r].state \in {"acknowledged", "dead_lettered", "cancelled"}
                              => db'.row[r].state \in {db.row[r].state, "deleted"}
     /\ \A r \in Rows : db.row[r].result # "none" => db'.row[r].result = db.row[r].result]_db

(* A retired Endpoint receives no new Delivery (endpoint.md). *)
RetiredReceivesNothing ==
  [][\A d \in Bundles :
        db.bundle[d].state = "none" /\ db'.bundle[d].state # "none"
           => LET ep == db'.row[db'.bundle[d].row].dest
              IN  db.status[ep] # "retired" \/ db.actor[ep] # "retired"]_db

(* A restored Workspace starts nothing until its hold is released: messages,  *)
(* registrations, binding changes and turn ends leave its queue alone.        *)
RestoredStartsNothing == db.hold => db.nb = 0

-----------------------------------------------------------------------------
(* The inductive invariant behind QueueAgrees, NeverReplayed, AttemptsSpent   *)
(* and AuthorityConfined, one part for each thing that can go wrong.          *)

(* Rows and bundles are numbered without gaps. *)
Numbered(s) ==
  /\ \A r \in Rows :
       /\ r <= s.nr => s.row[r].dest \in Endpoints /\ s.row[r].state # "none"
       /\ r > s.nr  => s.row[r].dest = None /\ s.row[r].state = "none"
  /\ \A d \in Bundles :
       /\ d <= s.nb => s.bundle[d].state # "none" /\ s.bundle[d].row \in 1 .. s.nr
       /\ d > s.nb  => s.bundle[d].state = "none"

(* A row names a bundle only while or after that bundle held it, and is       *)
(* queued only with an attempt to spare.                                      *)
RowsLinked(s) ==
  \A r \in Rows :
    LET w == s.row[r]
    IN  /\ w.state \in ActiveStates =>
             w.delivery # 0 /\ s.bundle[w.delivery].state = w.state
        /\ w.state \in {"none", "queued", "deleted"} => w.delivery = 0
        /\ w.state = "queued" => w.attempts < MaxAttempts
        /\ w.delivery # 0 =>
             /\ w.delivery \in 1 .. s.nb
             /\ s.bundle[w.delivery].row = r
             /\ s.bundle[w.delivery].attempts = w.attempts

(* A bundle after which its row is not tried again: it entered a runtime and  *)
(* was not handed back, or it was stopped.                                    *)
Conclusive(b) == b.state = "cancelled" \/ (b.entered /\ b.state # "deferred")

(* A bundle that is live or conclusive is its row's latest and still holds    *)
(* the row unless the row was deleted.                                        *)
BundlesLinked(s) ==
  \A d \in 1 .. s.nb :
    LET b == s.bundle[d]
        w == s.row[b.row]
    IN  /\ b.state \in ActiveStates \/ Conclusive(b) =>
             /\ w.state = "deleted" \/ w.delivery = d
             /\ \A e \in 1 .. s.nb : s.bundle[e].row = b.row => e <= d
        /\ b.state \in ActiveStates => w.state = "deleted" \/ w.state = b.state
        /\ b.state \in {"reserved", "delivered_to_bridge"} => ~b.entered

(* Attempts only go up, except that a deferred bundle gives its own back.     *)
AttemptsOrdered(s) ==
  \A d \in 1 .. s.nb : s.bundle[d].state # "deferred" =>
    /\ 1 <= s.bundle[d].attempts
    /\ s.bundle[d].attempts <= s.row[s.bundle[d].row].attempts
    /\ \A e \in 1 .. s.nb :
         d < e /\ s.bundle[e].row = s.bundle[d].row /\ s.bundle[e].state # "deferred"
           => s.bundle[d].attempts < s.bundle[e].attempts

(* A request has an asker to return to, and a turn continues only a request. *)
RequestsLinked(s) ==
  \A r \in Rows :
    /\ s.row[r].kind = "request" => s.row[r].asker \in Endpoints
    /\ s.row[r].cont # 0 => s.row[r].cont <= s.nr /\ s.row[s.row[r].cont].kind = "request"

(* No Bridge owns a client's endpoint, so nothing takes its work back. *)
ClientsWait(s) ==
  /\ \A ep \in Clients : s.bridge[ep] = FALSE
  /\ \A d \in 1 .. s.nb : s.row[s.bundle[d].row].dest \in Clients =>
       /\ s.bundle[d].lease = "null"
       /\ s.bundle[d].state \in {"reserved", "delivered_to_bridge", "acknowledged", "cancelled"}

(* The session a bundle records is live exactly while the bundle is. *)
SessionsMatch(s) ==
  \A d \in Bundles :
    s.bundle[d].live = IF s.bundle[d].sid /\ s.bundle[d].state \in ActiveStates THEN 1 ELSE 0

Consistent(s) ==
  /\ s \in Database
  /\ Numbered(s) /\ RowsLinked(s) /\ BundlesLinked(s)
  /\ AttemptsOrdered(s) /\ RequestsLinked(s) /\ ClientsWait(s) /\ SessionsMatch(s)

(* The database stays consistent between any two handlers, and between any    *)
(* two iterations of the handlers that loop.                                  *)
DeliveryInv == Consistent(db)

-----------------------------------------------------------------------------
(* The inductive invariant behind AnsweredOnce and SettledForGood: what the   *)
(* Consistent database says of its own past.                                  *)

(* An answer answers a resolved request, for its asker, and is the only one.  *)
Answered(s) ==
  /\ \A x \in Rows : s.row[x].answers # 0 =>
       LET c == s.row[x].answers
       IN  /\ c <= s.nr /\ x <= s.nr
           /\ s.row[c].kind = "request" /\ s.row[c].pending = "resolved"
           /\ s.row[x].dest = s.row[c].asker
  /\ \A x, y \in Rows :
       s.row[x].answers # 0 /\ s.row[x].answers = s.row[y].answers => x = y
  /\ \A c \in Rows :
       c <= s.nr /\ s.row[c].kind = "request" /\ s.row[c].pending = "resolved"
          => \E x \in Rows : s.row[x].answers = c

(* Nothing is known of a row before it is inserted. *)
Blank(s) ==
  \A r \in Rows : r > s.nr => s.row[r].result = "none" /\ s.row[r].kind = "message"

(* A client's row is given one bundle, which it follows; a turn that was      *)
(* stopped has no result.                                                     *)
OneTry(s) ==
  \A d \in 1 .. s.nb :
    LET w == s.row[s.bundle[d].row]
    IN  w.dest \in Clients =>
          /\ w.state # "queued"
          /\ \A e \in 1 .. s.nb : s.bundle[e].row = s.bundle[d].row => e = d
          /\ s.bundle[d].state = "cancelled" => w.result = "none"
          /\ w.delivery = d => w.state = s.bundle[d].state

Historic(s) == Answered(s) /\ Blank(s) /\ OneTry(s)

(* Between any two handlers the history agrees with the database. *)
HistoryInv == DeliveryInv /\ Historic(db)

=============================================================================
