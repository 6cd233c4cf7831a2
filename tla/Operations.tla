------------------------------ MODULE Operations ------------------------------
(***************************************************************************)
(* A governed semantic operation (floe-bus: operations.ts invoke, the       *)
(* invocation ledger, operation-governance-control-plane.ts, budgets.ts,    *)
(* approvals.ts): one idempotency key, its receipt, Policy evaluation,      *)
(* Budget reservation, approvals and audit record.                          *)
(*                                                                          *)
(* The Bus is one event loop.  What invoke does from the ledger's begin to  *)
(* the call of the handler awaits only values that are already there, so no *)
(* other request runs in between; the same holds from the handler's end to  *)
(* the last ledger update.  These two stretches are cut where a statement   *)
(* commits, because the process may die there; while one is under way       *)
(* (step.pc # "idle") nothing but its next statement or a crash happens.    *)
(* Handlers themselves are asynchronous and run beside everything else.     *)
(***************************************************************************)
EXTENDS Integers, FiniteSets

CONSTANTS
  Invocations,   \* ledger keys: boundary, principal, operation, idempotency key
  Requirements,  \* the approval requirements of a Policy that asks for approval
  Decisions,     \* what the current Policy may decide
  Limit,         \* maximum of the Budget's metric operation.count in one window
  Windows,       \* bound: Budget windows (days) that pass
  MaxCrashes,    \* bound: times the Bus dies
  CrashPoints,   \* the values of step.pc at which it may die
  MaxFaults,     \* bound: times governance throws
  PidReuse       \* may the pid of a dead Bus belong to a live process?

(* Where the stretch of invoke under way has got to, after each statement.  *)
Steps == {"idle", "admit", "evaluated", "approve", "decide", "refuse", "await",
          "authorize", "enter", "repair", "recover", "record"}

ASSUME OperationsAssumption ==
  /\ IsFiniteSet(Invocations) /\ Invocations # {}
  /\ Decisions \subseteq {"allow", "require_approval", "deny"}
  /\ Limit \in Nat /\ Windows \in Nat \ {0}
  /\ MaxCrashes \in Nat /\ MaxFaults \in Nat
  /\ CrashPoints \subseteq Steps
  /\ PidReuse \in BOOLEAN

VARIABLES
  inv,      \* what the database holds for each key
  step,     \* the stretch of invoke that is under way
  active,   \* keys whose handler runs in this process
  epoch,    \* which Bus process this is
  mistaken, \* dead processes whose pid is in use again
  now,      \* the current Budget window
  faults    \* throws of governance so far

vars == <<inv, step, active, epoch, mistaken, now, faults>>

Terminal == {"completed", "refused"}
Charged  == {"reserved", "outcome_unknown"}

Evidence == [resv: BOOLEAN, reqs: BOOLEAN]
NoEvidence == [resv |-> FALSE, reqs |-> FALSE]

(* ledger, owner and ev are the receipt (state, execution_owner_id and       *)
(* governance evidence); policy and limited the retained evaluation; resv,  *)
(* window and booked the reservation and its usage entry; audit the audit    *)
(* record; req and rcpt the approval requests and receipts, used the         *)
(* receipts that were consumed.  entered counts handler calls and did says   *)
(* what is known of their effects; cleared that a person reconciled them.    *)
(* "completed" also stands for accepted, which settles alike, and "closed"   *)
(* for a request that was rejected, cancelled or invalidated.                *)
Invocation ==
  [ledger: Terminal \cup {"none", "running", "awaiting_approval", "outcome_unknown"},
   owner: 0 .. MaxCrashes + 1, ev: Evidence,
   policy: {"none", "allow", "require_approval", "deny"}, limited: BOOLEAN,
   resv: Charged \cup {"none", "committed", "exceeded", "released"},
   window: 0 .. Windows, booked: 0 .. Windows,
   audit: Terminal \cup {"none", "open", "outcome_unknown"},
   req: [Requirements -> {"none", "pending", "approved", "closed"}],
   rcpt: [Requirements -> {"none", "issued", "revoked"}],
   used: SUBSET Requirements,
   entered: Nat, did: {"nothing", "maybe", "refused"}, cleared: BOOLEAN]

NoInvocation ==
  [ledger |-> "none", owner |-> 0, ev |-> NoEvidence, policy |-> "none",
   limited |-> FALSE, resv |-> "none", window |-> 0, booked |-> 0, audit |-> "none",
   req |-> [q \in Requirements |-> "none"], rcpt |-> [q \in Requirements |-> "none"],
   used |-> {}, entered |-> 0, did |-> "nothing", cleared |-> FALSE]

Idle == [k |-> CHOOSE k \in Invocations : TRUE, pc |-> "idle",
         ev |-> NoEvidence, out |-> "none"]

-----------------------------------------------------------------------------
(* Helpers.                                                                  *)

At(k, pc) == step.pc = pc /\ step.k = k
Goto(pc) == step' = [step EXCEPT !.pc = pc]
Return == step' = Idle
Set(k, r) == inv' = [inv EXCEPT ![k] = r]
Steady == UNCHANGED <<active, epoch, mistaken, now, faults>>

(* committedAmount and reservedAmount of a window; every operation counts 1. *)
Committed(w) == Cardinality({k \in Invocations : inv[k].booked = w})
Reserved(w)  == Cardinality({k \in Invocations : inv[k].resv \in Charged /\ inv[k].window = w})

(* completeAudit leaves an outcome alone. *)
Audited(r, o) ==
  IF r.audit \in {"none", "open"} THEN [r EXCEPT !.audit = o] ELSE r

BeginAudit(r) == IF r.audit = "none" THEN [r EXCEPT !.audit = "open"] ELSE r

(* releaseReservation: only what is still reserved. *)
Released(r, ev) ==
  IF ev.resv /\ r.resv = "reserved" THEN [r EXCEPT !.resv = "released"] ELSE r

Refused(r, ev) == Audited(Released(r, ev), "refused")

(* Mutant: any owner a receipt names is taken to be alive. *)
MayStillRun_AnyOwner(owner) == owner # 0

(* ownerMayStillBeRunning: this process, or one whose pid is in use. *)
MayStillRun(owner) == owner = epoch \/ owner \in mistaken

-----------------------------------------------------------------------------
(* invoke, up to the handler.                                                *)

(* Mutant: a running receipt of a dead owner is taken up again. *)
Begin_Resumes(k) ==
  /\ step.pc = "idle" /\ Steady
  /\ \/ inv[k].ledger \in {"none", "awaiting_approval"}
     \/ inv[k].ledger = "running" /\ ~MayStillRun(inv[k].owner)
  /\ Set(k, IF inv[k].ledger # "awaiting_approval"
            THEN [inv[k] EXCEPT !.ledger = "running", !.owner = epoch] ELSE inv[k])
  /\ step' = [k |-> k, pc |-> "admit", ev |-> inv[k].ev, out |-> "none"]

(* ledger.begin: the first call inserts the receipt, a call for a receipt    *)
(* that awaits approval goes on from it.  Every other call replays.          *)
Begin(k) ==
  /\ step.pc = "idle" /\ Steady
  /\ inv[k].ledger \in {"none", "awaiting_approval"}
  /\ Set(k, IF inv[k].ledger = "none"
            THEN [inv[k] EXCEPT !.ledger = "running", !.owner = epoch] ELSE inv[k])
  /\ step' = [k |-> k, pc |-> "admit", ev |-> inv[k].ev, out |-> "none"]

(* Mutant: recovery gives the reservation of lost work back. *)
RecoverBudget_Releases(k) ==
  LET r == inv[k]
      lost == r.ledger = "running" /\ ~MayStillRun(r.owner)
  IN  /\ step.pc = "idle" /\ Steady
      /\ lost \/ r.ledger = "outcome_unknown"
      /\ Set(k, Released(r, r.ev))
      /\ step' = [k |-> k, pc |-> "repair", ev |-> r.ev, out |-> IF lost THEN "lost" ELSE "none"]

(* A replay finds the owner dead, or the outcome unknown and perhaps not     *)
(* settled: governance.recover marks the reservation the receipt names.      *)
RecoverBudget(k) ==
  LET r == inv[k]
      lost == r.ledger = "running" /\ ~MayStillRun(r.owner)
  IN  /\ step.pc = "idle" /\ Steady
      /\ lost \/ r.ledger = "outcome_unknown"
      /\ Set(k, IF r.ev.resv /\ r.resv = "reserved"
                THEN [r EXCEPT !.resv = "outcome_unknown"] ELSE r)
      /\ step' = [k |-> k, pc |-> "repair", ev |-> r.ev, out |-> IF lost THEN "lost" ELSE "none"]

(* ... and completes the audit record, if one was begun. *)
RecoverAudit(k) ==
  /\ At(k, "repair") /\ Steady
  /\ Set(k, IF inv[k].audit = "open" THEN [inv[k] EXCEPT !.audit = "outcome_unknown"]
            ELSE inv[k])
  /\ IF step.out = "lost" THEN Goto("recover") ELSE Return

RecoverLedger(k) ==
  /\ At(k, "recover") /\ Steady /\ Return
  /\ Set(k, [inv[k] EXCEPT !.ledger = "outcome_unknown", !.owner = 0])

(* completeRefusal: boundary, target, revision or input is refused before    *)
(* governance, or governance threw.  The receipt keeps its evidence.         *)
CompleteRefusal(k) ==
  /\ At(k, "admit") /\ Steady /\ Return
  /\ Set(k, [inv[k] EXCEPT !.ledger = "refused", !.owner = 0])

GovernanceThrows(k) ==
  /\ step.k = k /\ step.pc \in {"evaluated", "approve", "decide"}
  /\ faults < MaxFaults /\ faults' = faults + 1
  /\ UNCHANGED <<active, epoch, mistaken, now>> /\ Return
  /\ Set(k, [inv[k] EXCEPT !.ledger = "refused", !.owner = 0])

(* prepare: provenance, or the evaluation retained while approval was        *)
(* pending, does not hold any more.                                          *)
EvaluationFails(k) ==
  /\ At(k, "admit") /\ Steady /\ Goto("refuse")
  /\ Set(k, Refused(inv[k], step.ev))

(* The first evaluation is retained with the limits that bear on the         *)
(* operation (those of a denial never do); a later one agrees with it.       *)
Evaluate(k, decision, limited) ==
  /\ At(k, "admit") /\ Steady /\ Goto("evaluated")
  /\ limited => decision # "deny"
  /\ IF inv[k].policy = "none"
     THEN Set(k, [inv[k] EXCEPT !.policy = decision, !.limited = limited])
     ELSE inv[k].policy = decision /\ inv[k].limited = limited /\ UNCHANGED inv

(* The Policy denies, or (pre_effect_refusal, restore hold) the operation is *)
(* not available now: refused with the empty evidence.                       *)
RefuseBeforeEffects(k) ==
  /\ At(k, "evaluated") /\ Steady
  /\ Set(k, Audited(inv[k], "refused"))
  /\ step' = [step EXCEPT !.pc = "refuse", !.ev = NoEvidence]

(* Mutant: uncertain use no longer counts. *)
Fits_ForgetsUnknown(w) ==
  Committed(w) + Cardinality({k \in Invocations : inv[k].resv = "reserved" /\ inv[k].window = w})
     + 1 <= Limit

Fits(w) == Committed(w) + Reserved(w) + 1 <= Limit

(* BudgetStore.reserve, once per invocation: a retry keeps its reservation. *)
Reserve(k) ==
  LET r == inv[k]
  IN  /\ At(k, "evaluated") /\ Steady
      /\ r.policy # "deny"
      /\ IF r.limited /\ ~step.ev.resv
         THEN /\ Fits(now)
              /\ Set(k, [r EXCEPT !.resv = "reserved", !.window = now])
              /\ step' = [step EXCEPT !.pc = "approve", !.ev.resv = TRUE]
         ELSE UNCHANGED inv /\ Goto("approve")

BudgetExceeded(k) ==
  /\ At(k, "evaluated") /\ Steady
  /\ inv[k].policy # "deny" /\ inv[k].limited /\ ~step.ev.resv /\ ~Fits(now)
  /\ Set(k, Audited(inv[k], "refused"))
  /\ step' = [step EXCEPT !.pc = "refuse", !.ev = NoEvidence]

Allow(k) ==
  /\ At(k, "approve") /\ Steady /\ Goto("authorize")
  /\ inv[k].policy = "allow"
  /\ Set(k, BeginAudit(inv[k]))

(* prepareApprovals: create the requests or load the retained ones, begin    *)
(* the audit, and invalidate the pending ones that are not current.          *)
RequestApprovals(k, stale) ==
  LET r == inv[k]
      req == IF step.ev.reqs THEN r.req ELSE [q \in Requirements |-> "pending"]
  IN  /\ At(k, "approve") /\ Steady
      /\ r.policy = "require_approval"
      /\ stale \subseteq {q \in Requirements : req[q] = "pending"}
      /\ Set(k, [BeginAudit(r) EXCEPT !.req =
                   [q \in Requirements |-> IF q \in stale THEN "closed" ELSE req[q]]])
      /\ step' = [step EXCEPT !.pc = "decide", !.ev.reqs = TRUE]

(* A request cannot be created or is not found again. *)
RequestsFail(k) ==
  /\ At(k, "approve") /\ Steady
  /\ inv[k].policy = "require_approval"
  /\ Set(k, Refused(inv[k], step.ev))
  /\ step' = [step EXCEPT !.pc = "refuse", !.ev.reqs = FALSE]

Pending(r)  == \E q \in Requirements : r.req[q] = "pending"
Approved(r) == \A q \in Requirements : r.req[q] = "approved"
Current(r)  == \A q \in Requirements : r.rcpt[q] = "issued" /\ q \notin r.used

StillPending(k) ==
  /\ At(k, "decide") /\ Steady /\ UNCHANGED inv /\ Goto("await")
  /\ Pending(inv[k])

NotApproved(k) ==
  /\ At(k, "decide") /\ Steady /\ Goto("refuse")
  /\ ~Pending(inv[k]) /\ ~Approved(inv[k])
  /\ Set(k, Refused(inv[k], step.ev))

(* verifyReceipt refuses a receipt that expired or was revoked or used, and  *)
(* revokes the first whose action or approver is no longer current.          *)
VerifyFails(k, stale) ==
  LET r == inv[k]
  IN  /\ At(k, "decide") /\ Steady /\ Goto("refuse")
      /\ Approved(r)
      /\ Cardinality(stale) <= 1 /\ \A q \in stale : r.rcpt[q] = "issued"
      /\ Set(k, Refused([r EXCEPT !.rcpt = [q \in Requirements |->
                            IF q \in stale THEN "revoked" ELSE r.rcpt[q]]], step.ev))

(* consumeReceipt for every receipt, in one savepoint. *)
Consume(k) ==
  /\ At(k, "decide") /\ Steady /\ Goto("authorize")
  /\ Approved(inv[k]) /\ Current(inv[k])
  /\ Set(k, [inv[k] EXCEPT !.used = Requirements])

(* ledger.update with the outcome of the preparation. *)
UpdatePrepared(k, pc, state, owner) ==
  /\ At(k, pc) /\ Steady
  /\ Set(k, [inv[k] EXCEPT !.ledger = state, !.owner = owner, !.ev = step.ev])

RecordRefused(k)    == UpdatePrepared(k, "refuse", "refused", 0) /\ Return
RecordAwaiting(k)   == UpdatePrepared(k, "await", "awaiting_approval", 0) /\ Return
RecordAuthorized(k) == UpdatePrepared(k, "authorize", "running", epoch) /\ Goto("enter")

EnterHandler(k) ==
  /\ At(k, "enter") /\ Return
  /\ active' = active \cup {k}
  /\ Set(k, [inv[k] EXCEPT !.entered = @ + 1, !.did = "maybe"])
  /\ UNCHANGED <<epoch, mistaken, now, faults>>

-----------------------------------------------------------------------------
(* The handler ends.                                                         *)

(* commit books the use in the current window and compares it with the       *)
(* window of the reservation, where its own estimate stands for its use.     *)
Commit(r) ==
  LET total == Committed(r.window) + Reserved(r.window)
  IN  [r EXCEPT !.resv = IF total > Limit THEN "exceeded" ELSE "committed", !.booked = now]

SettleBudget(r, out) ==
  IF ~r.ev.resv THEN r
  ELSE CASE out = "completed" -> Commit(r)
         [] out = "refused"   -> [r EXCEPT !.resv = "released"]
         [] OTHER             -> [r EXCEPT !.resv = "outcome_unknown"]

(* commit, release and markOutcomeUnknown throw for a reservation that was   *)
(* released or settled otherwise.                                            *)
CanSettle(r, out) ==
  \/ ~r.ev.resv
  \/ r.resv = "reserved"
  \/ r.resv = "released" /\ out = "refused"
  \/ r.resv = "outcome_unknown" /\ out # "refused"

(* settle: Budget and audit in one savepoint. *)
Settle(r, out) == Audited(SettleBudget(r, out), out)

(* The handler completes or refuses, or throws or returns an                 *)
(* invalid result (outcome_unknown).                                         *)
HandlerEnds(k, out) ==
  /\ step.pc = "idle" /\ k \in active
  /\ CanSettle(inv[k], out)
  /\ active' = active \ {k}
  /\ Set(k, Settle([inv[k] EXCEPT !.did = IF out = "refused" THEN "refused" ELSE @], out))
  /\ step' = [k |-> k, pc |-> "record", ev |-> inv[k].ev, out |-> out]
  /\ UNCHANGED <<epoch, mistaken, now, faults>>

(* settle throws: after a refusal the exception leaves invoke; otherwise the *)
(* outcome becomes unknown, whether or not settling that works.              *)
SettleThrows(k, out, again) ==
  /\ step.pc = "idle" /\ k \in active
  /\ IF CanSettle(inv[k], out) THEN faults < MaxFaults /\ faults' = faults + 1
     ELSE UNCHANGED faults
  /\ again => CanSettle(inv[k], "outcome_unknown")
  /\ active' = active \ {k}
  /\ IF out = "refused"
     THEN Set(k, [inv[k] EXCEPT !.did = "refused"]) /\ UNCHANGED step
     ELSE /\ Set(k, IF again THEN Settle(inv[k], "outcome_unknown") ELSE inv[k])
          /\ step' = [k |-> k, pc |-> "record", ev |-> inv[k].ev, out |-> "outcome_unknown"]
  /\ UNCHANGED <<epoch, mistaken, now>>

RecordOutcome(k) ==
  /\ At(k, "record") /\ Steady /\ Return
  /\ Set(k, [inv[k] EXCEPT !.ledger = step.out, !.owner = 0])

-----------------------------------------------------------------------------
(* People, time and crashes.                                                 *)

(* decideApprovalRequest, approval.cancel and the sweep of stale requests;   *)
(* approving issues the receipt.                                             *)
DecideRequest(k, q, status) ==
  /\ step.pc = "idle" /\ Steady /\ UNCHANGED step
  /\ inv[k].req[q] = "pending"
  /\ Set(k, [inv[k] EXCEPT !.req[q] = status,
                           !.rcpt[q] = IF status = "approved" THEN "issued" ELSE @])

RevokeReceipt(k, q) ==
  /\ step.pc = "idle" /\ Steady /\ UNCHANGED step
  /\ inv[k].rcpt[q] = "issued"
  /\ Set(k, [inv[k] EXCEPT !.rcpt[q] = "revoked"])

(* reconcileNoEffect: a person proved that the uncertain work did nothing. *)
ReconcileNoEffect(k) ==
  /\ step.pc = "idle" /\ Steady /\ UNCHANGED step
  /\ inv[k].resv = "outcome_unknown"
  /\ Set(k, [inv[k] EXCEPT !.resv = "released", !.cleared = TRUE])

NextWindow ==
  /\ step.pc = "idle" /\ now < Windows /\ now' = now + 1
  /\ UNCHANGED <<inv, step, active, epoch, mistaken, faults>>

BusDies ==
  /\ step.pc \in CrashPoints
  /\ epoch <= MaxCrashes /\ epoch' = epoch + 1
  /\ active' = {} /\ Return
  /\ mistaken' \in {mistaken} \cup (IF PidReuse THEN {mistaken \cup {epoch}} ELSE {})
  /\ UNCHANGED <<inv, now, faults>>

-----------------------------------------------------------------------------
Init ==
  /\ inv = [k \in Invocations |-> NoInvocation]
  /\ step = Idle /\ active = {} /\ epoch = 1 /\ mistaken = {}
  /\ now = 1 /\ faults = 0

(* The next statement of the stretch that is under way. *)
Continue(k) ==
  \/ RecoverAudit(k) \/ RecoverLedger(k)
  \/ CompleteRefusal(k) \/ GovernanceThrows(k) \/ EvaluationFails(k)
  \/ \E d \in Decisions, l \in BOOLEAN : Evaluate(k, d, l)
  \/ RefuseBeforeEffects(k) \/ Reserve(k) \/ BudgetExceeded(k)
  \/ Allow(k) \/ RequestsFail(k) \/ \E S \in SUBSET Requirements : RequestApprovals(k, S)
  \/ StillPending(k) \/ NotApproved(k)
  \/ \E S \in SUBSET Requirements : VerifyFails(k, S)
  \/ Consume(k)
  \/ RecordRefused(k) \/ RecordAwaiting(k) \/ RecordAuthorized(k)
  \/ EnterHandler(k) \/ RecordOutcome(k)

HandlerStep(k) ==
  \E out \in {"completed", "refused", "outcome_unknown"} :
     HandlerEnds(k, out) \/ \E again \in BOOLEAN : SettleThrows(k, out, again)

People(k) ==
  \/ \E q \in Requirements :
       \/ \E status \in {"approved", "closed"} : DecideRequest(k, q, status)
       \/ RevokeReceipt(k, q)
  \/ ReconcileNoEffect(k)

Next ==
  \/ \E k \in Invocations :
       Begin(k) \/ RecoverBudget(k) \/ Continue(k) \/ HandlerStep(k) \/ People(k)
  \/ NextWindow \/ BusDies

Spec == Init /\ [][Next]_vars

(* The Bus goes on, handlers end, and a client that has no answer asks       *)
(* again; nobody is obliged to decide, revoke or reconcile.                  *)
Fairness ==
  \A k \in Invocations :
     WF_vars(Continue(k)) /\ WF_vars(HandlerStep(k)) /\ SF_vars(RecoverBudget(k))

FairSpec == Spec /\ Fairness

-----------------------------------------------------------------------------
(* Properties.                                                               *)

TypeOK ==
  /\ inv \in [Invocations -> Invocation]
  /\ step \in [k: Invocations, pc: Steps, ev: Evidence,
               out: Terminal \cup {"none", "lost", "outcome_unknown"}]
  /\ active \subseteq Invocations
  /\ epoch \in 1 .. MaxCrashes + 1 /\ mistaken \subseteq 1 .. MaxCrashes
  /\ now \in 1 .. Windows /\ faults \in 0 .. MaxFaults

(* "A retry replays instead of applying twice": whatever retries, decisions  *)
(* and crashes happen, the handler of one key is entered at most once.       *)
AppliedOnce == \A k \in Invocations : inv[k].entered <= 1

(* Where the Policy asks for approval the handler runs only on approvals it  *)
(* consumed, and they are consumed all together or not at all.               *)
ConsumedBeforeEffect ==
  \A k \in Invocations :
    /\ inv[k].entered > 0 /\ inv[k].policy = "require_approval"
         => inv[k].used = Requirements /\ Approved(inv[k])
    /\ inv[k].used # {} => inv[k].used = Requirements

(* Work that may have had effects stays charged to its Budget until it is    *)
(* booked, until the handler says it did nothing, or until a person proves   *)
(* it.                                                                       *)
UncertainStaysCharged ==
  \A k \in Invocations :
    inv[k].did = "maybe" /\ inv[k].limited /\ ~inv[k].cleared
       => inv[k].resv \in Charged \cup {"committed", "exceeded"}

(* Concurrent work cannot oversubscribe a limit: the reservations made in a  *)
(* window, open, uncertain or booked, never pass the maximum.                *)
ReservedWithinLimit ==
  \A w \in 1 .. Windows :
    Cardinality({k \in Invocations :
       inv[k].window = w /\ inv[k].resv \in Charged \cup {"committed", "exceeded"}}) <= Limit

(* What is booked in a window passes the maximum only where a reservation    *)
(* says so.                                                                  *)
BookedWithinLimit ==
  \A w \in 1 .. Windows :
    Committed(w) > Limit =>
      \E k \in Invocations : inv[k].booked = w /\ inv[k].resv = "exceeded"

(* A client reconnects to the receipt instead of guessing: the receipt, the  *)
(* audit record and the Budget never contradict one another or the handler,  *)
(* wherever the Bus died.                                                    *)
RecordsAgree ==
  \A k \in Invocations :
    LET r == inv[k]
    IN  /\ r.ledger = "completed" =>
             /\ r.did = "maybe" /\ r.audit = "completed"
             /\ r.resv \in {"none", "committed", "exceeded"}
        /\ r.ledger = "refused" =>
             /\ r.did # "maybe" /\ r.audit \in {"none", "open", "refused"}
             /\ r.booked = 0
        /\ r.audit = "refused" => r.did # "maybe"
        /\ r.booked # 0 => r.audit = "completed"

(* An invocation whose Bus died does not stay running: a client that asks    *)
(* again learns that its outcome is unknown.                                 *)
LostIsReported ==
  \A k \in Invocations :
    inv[k].ledger = "running" /\ inv[k].owner # epoch ~> inv[k].ledger # "running"

=============================================================================
