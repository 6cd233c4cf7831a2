---------------------------- MODULE Approvals ------------------------------
(* Approval requests of a Workspace: who may decide them                     *)
(* (actor-role-authority.ts, capability grants, identity authority), the     *)
(* votes and the receipt they lead to (approvals.ts), the decision that      *)
(* continues a waiting Node of a Scope (store.ts) and the tool call of an    *)
(* engine that a Bridge holds until its approvals are answered               *)
(* (engine-tool-gate.ts).  Requests that operations wait for are in          *)
(* Operations.                                                               *)
EXTENDS Policies, FiniteSets, FiniteSetsExt

CONSTANTS
  Deciders,       \* the principals that vote
  Operator,       \* the one of them that is the host's operator
  StandIns,       \* those that start as admitted people; the others start with a role
  Outcomes,       \* the decisions a voter may take, of DecisionValues
  MaxChanges,     \* bound on the changes of anyone's authority
  MaxRequests,    \* bound on the requests ever made
  MaxBallots      \* bound on the votes on one request

VARIABLES
  au,             \* what each decider holds; a piece of authority is held while it is odd
  req,            \* approval_requests with their decisions, receipt and uses
  node,           \* the NodeExecution a gate waits in, and what was published from it
  turn,           \* the Delivery of the tool call: running, or over
  call            \* the tool call, as its Bridge holds it

approvalVars == <<au, req, node, turn, call>>

Held(n) == n % 2 = 1
Pieces == {"grant", "person", "actor", "role"}
Begun(p) == [f \in Pieces |->
               IF f = "grant" \/ (p # Operator /\ (f = "person" <=> p \in StandIns)) THEN 1 ELSE 0]
NoCall == [st |-> "none", reqs |-> {}, chain |-> <<>>, pushed |-> FALSE, out |-> "none",
           stopped |-> FALSE]

(* The rules are published and in force, and everyone may decide. *)
InForce(order) ==
  /\ pol = [st |-> "active", head |-> Len(order),
            revs |-> [r \in DOMAIN order |-> [pub |-> TRUE, base |-> r - 1, content |-> order[r]]]]
  /\ bound = [r \in DOMAIN order |-> [rev |-> r, st |-> "active"]]

NothingAsked ==
  /\ au = [p \in Deciders |-> Begun(p)] /\ req = <<>>
  /\ node = [st |-> "waiting", published |-> <<>>] /\ turn = "running" /\ call = NoCall

ApprovalInit == (\E order \in SetToSeqs(Asking) : InForce(order)) /\ NothingAsked

-----------------------------------------------------------------------------
(* Authority.                                                                *)

(* resolveApprovalDecisionAuthority: the grants of approval.decide, and the  *)
(* evidence of roles.  A person whose authority can decide stands in for the *)
(* operator.                                                                 *)
Grants(p) == IF Held(au[p].grant) THEN {au[p].grant} ELSE {}
StandIn(p) == IF Held(au[p].person) /\ Grants(p) # {} THEN {<<"operator", au[p].person, 0>>} ELSE {}
ResolveCurrent(p) ==
  IF Held(au[p].actor) /\ Held(au[p].role) THEN {<<"reviewer", au[p].actor, au[p].role>>} ELSE {}
DecisionAuthority(p) == [grants |-> Grants(p), roles |-> StandIn(p) \cup ResolveCurrent(p)]

(* The approvers a rule selects: "any" one reviewer or the operator, a       *)
(* "quorum" of two of them, or "named": the operator alone, by name.         *)
RolesOf(mode) == IF mode = "named" THEN {} ELSE {"reviewer"}

(* eligibleDecisionAuthority: the evidence a vote is recorded with *)
RoleEvidence(mode, p) ==
  {e \in DecisionAuthority(p).roles : e[1] \in RolesOf(mode) \/ (p # Operator /\ e[1] = "operator")}
Eligible(mode, p) ==
  Grants(p) # {} /\ (p = Operator \/ RoleEvidence(mode, p) # {})

Changes == MapThenSumSet(LAMBDA p : MapThenSumSet(LAMBDA f : au[p][f] - Begun(p)[f], Pieces), Deciders)
Toggle(p, field) ==
  /\ Changes < MaxChanges
  /\ au' = [au EXCEPT ![p] = [@ EXCEPT ![field] = @ + 1]]

-----------------------------------------------------------------------------
(* Requests: what is still current.                                          *)

Pending(k) == req[k].st = "pending"
ActiveVotes(k) ==
  {i \in DOMAIN req[k].votes : \A j \in DOMAIN req[k].votes : req[k].votes[j].sup # i}

(* Mutant: the roles a vote rested on are not looked at again. *)
DecisionAuthorityIsCurrent_GrantsOnly(v) ==
  v.grants # {} /\ v.grants \subseteq DecisionAuthority(v.by).grants

DecisionAuthorityIsCurrent(v) ==
  /\ v.grants # {} /\ v.grants \subseteq DecisionAuthority(v.by).grants
  /\ v.roles \subseteq DecisionAuthority(v.by).roles

(* runtimeToolPolicyInputs: the Delivery of the call is still under way. *)
TurnRuns == turn = "running"

(* evaluateToolFacts: the rules in force ask for a decision on the call. *)
ToolAsks == Evaluation.decision = "require_approval"

(* toolApprovalIsCurrent: the turn runs and the call would ask for the same *)
ToolApprovalIsCurrent(k) ==
  /\ TurnRuns /\ ToolAsks
  /\ Evaluation.revs = req[k].eval.revs /\ Evaluation.needs = req[k].eval.needs

ActionIsCurrent(k) ==
  IF req[k].kind = "tool" THEN ToolApprovalIsCurrent(k)
  ELSE Evaluation = req[k].eval /\ Evaluation.decision = "require_approval"

StillValid(k) ==
  ActionIsCurrent(k) /\ \A i \in ActiveVotes(k) : DecisionAuthorityIsCurrent(req[k].votes[i])

(* Mutant: any Node of the Workspace will do. *)
DecisionBindingIsCurrent_Any(k) == req[k].kind = "gate" => node.st # "ended"

(* validateApprovalDecisionBinding *)
DecisionBindingIsCurrent(k) == req[k].kind = "gate" => node.st = "waiting"

(* refreshRequestValidity on the pending requests in K *)
Refreshed(R, K) ==
  [k \in DOMAIN R |-> IF k \in K /\ R[k].st = "pending" /\ ~StillValid(k)
                      THEN [R[k] EXCEPT !.st = "invalidated"] ELSE R[k]]
FinishPending(k, st) == [req EXCEPT ![k].st = st]
InvalidateRequest(k) == FinishPending(k, "invalidated")
CancelRequest(k) == FinishPending(k, "cancelled")

(* What the Bridge is told of: a waiting call hears of a changed request. *)
Told(before, after) ==
  [call EXCEPT !.pushed = @ \/ \E k \in call.reqs : before[k].st = "pending" /\ after[k].st # "pending"]

-----------------------------------------------------------------------------
(* Changes of authority.                                                     *)

BindPrincipal(p) == ~Held(au[p].actor) /\ Toggle(p, "actor")
RevokePrincipalBinding(p) == Held(au[p].actor) /\ Toggle(p, "actor")

BindPrincipalActor(p) == BindPrincipal(p) /\ UNCHANGED <<req, call>>
(* ensureTrustedRuntimeSelfBinding: never after a revocation *)
EnsureRuntimeSelfBinding(p) == au[p].actor = 0 /\ BindPrincipal(p) /\ UNCHANGED <<req, call>>
RevokePrincipalActor(p) == RevokePrincipalBinding(p) /\ UNCHANGED <<req, call>>
AssignActorRole(p) ==
  /\ ~Held(au[p].role) /\ Toggle(p, "role") /\ UNCHANGED <<req, call>>
RevokeActorRole(p) ==
  /\ Held(au[p].role) /\ Toggle(p, "role") /\ UNCHANGED <<req, call>>
GrantDecide(p) ==
  /\ ~Held(au[p].grant) /\ Toggle(p, "grant") /\ UNCHANGED <<req, call>>

(* A grant ends, alone or with the authority of the person it belongs to:    *)
(* settlePendingApprovals looks at every pending request under the new       *)
(* authority.                                                                *)
LoseGrant(p, withAuthority) ==
  /\ Held(au[p].grant) /\ Changes < MaxChanges
  /\ withAuthority => Held(au[p].person)
  /\ au' = [au EXCEPT ![p].grant = @ + 1, ![p].person = IF withAuthority THEN @ + 1 ELSE @]
  /\ LET lost(k) == \E i \in ActiveVotes(k) : req[k].votes[i].by = p
         after == [k \in DOMAIN req |->
                     IF Pending(k) /\ (lost(k) \/ ~StillValid(k))
                     THEN [req[k] EXCEPT !.st = "invalidated"] ELSE req[k]]
     IN  req' = after /\ call' = Told(req, after)
AdmitPerson(p) ==
  /\ p # Operator /\ ~Held(au[p].person) /\ Toggle(p, "person") /\ UNCHANGED <<req, call>>

AuthorityChange ==
  /\ \E p \in Deciders :
       \/ BindPrincipalActor(p) \/ EnsureRuntimeSelfBinding(p) \/ RevokePrincipalActor(p)
       \/ AssignActorRole(p) \/ RevokeActorRole(p) \/ GrantDecide(p)
       \/ \E w \in BOOLEAN : LoseGrant(p, w)
       \/ AdmitPerson(p)
  /\ UNCHANGED <<node, turn>>

-----------------------------------------------------------------------------
(* Requests and votes.                                                       *)

NewRequest(kind, mode) ==
  [kind |-> kind, mode |-> mode, eval |-> Evaluation, st |-> "pending", votes |-> <<>>,
   receipt |-> "none", uses |-> {}, late |-> FALSE]

(* resolveApprovalDecisionPolicy of the Bus: one of the rules that ask now *)
SelectsRequirement(r) ==
  Evaluation.decision = "require_approval" /\ r \in ToSet(Evaluation.needs)

(* createApprovalRequestRecord, with a decision_binding *)
CreateApprovalRequestRecord(r) ==
  /\ node.st = "waiting" /\ SelectsRequirement(r)
  /\ req' = Append(req, NewRequest("gate", pol.revs[r].content))

RequestApproval ==
  /\ Len(req) < MaxRequests
  /\ \E r \in DOMAIN pol.revs : CreateApprovalRequestRecord(r)
  /\ UNCHANGED <<au, node, turn, call>>

(* resolveApprovalDecisionPolicy over the active votes V *)
Credited(v) == IF \E e \in v.roles : e[1] = "operator" THEN Operator ELSE v.by
Resolution(mode, V) ==
  LET yes == {Credited(v) : v \in V}
      no  == {v \in V : v.dec # "approved"}
  IN  IF no # {} THEN (CHOOSE v \in no : TRUE).dec
      ELSE CASE mode = "any"    -> IF yes # {} THEN "approved" ELSE "open"
             [] mode = "quorum" -> IF Cardinality(yes) >= 2 THEN "approved" ELSE "open"
             [] mode = "named"  -> IF Operator \in yes THEN "approved" ELSE "open"

(* decideRequest: the vote is added and the request resolved with it. *)
Voted(k, vote) ==
  LET votes == Append(req[k].votes, vote)
      active == {votes[i] : i \in (ActiveVotes(k) \ {vote.sup}) \cup {Len(votes)}}
      res == Resolution(req[k].mode, active)
  IN  [req[k] EXCEPT !.votes = votes,
                     !.st = IF res = "open" THEN "pending"
                            ELSE IF res = "approved" THEN "approved" ELSE "rejected",
                     !.receipt = IF res = "approved" THEN "live" ELSE "none"]

OwnVote(k, p) == {i \in ActiveVotes(k) : req[k].votes[i].by = p}

(* The Node the request is bound to is continued with the decision. *)
Continued(k, done) ==
  IF req[k].kind = "gate" /\ done.st # "pending"
  THEN [st |-> "completed", published |-> Append(node.published, [by |-> k, as |-> done.st])]
  ELSE node

(* decideApprovalRequest.  A first vote, or one that supersedes the voter's  *)
(* own: anything else is refused or repeats the vote that stands.            *)
DecideApprovalRequest(k, p, d) ==
  LET own  == OwnVote(k, p)
      vote == [by |-> p, dec |-> d, grants |-> Grants(p), roles |-> RoleEvidence(req[k].mode, p),
               sup |-> IF own = {} THEN 0 ELSE CHOOSE i \in own : TRUE]
      done == Voted(k, vote)
  IN  /\ Pending(k) /\ ~req[k].late /\ Len(req[k].votes) < MaxBallots
      /\ DecisionBindingIsCurrent(k) /\ StillValid(k) /\ Eligible(req[k].mode, p)
      /\ req' = [req EXCEPT ![k] = done]
      /\ node' = Continued(k, done)
      /\ call' = Told(req, req')

DecideApproval(k) ==
  (\E p \in Deciders, d \in Outcomes : DecideApprovalRequest(k, p, d)) /\ UNCHANGED <<au, turn>>

(* The decision finds the request stale and closes it instead. *)
DecideFindsStale(k) ==
  /\ Pending(k) /\ ~(DecisionBindingIsCurrent(k) /\ StillValid(k))
  /\ req' = InvalidateRequest(k) /\ call' = Told(req, req')
  /\ UNCHANGED <<au, node, turn>>

(* approval.cancel: nobody is told *)
CancelApproval(k) ==
  /\ Pending(k) /\ req' = CancelRequest(k)
  /\ UNCHANGED <<au, node, turn, call>>

RevokeApprovalReceipt(k) ==
  /\ req[k].receipt = "live" /\ req' = [req EXCEPT ![k].receipt = "revoked"]
  /\ UNCHANGED <<au, node, turn, call>>

RequestExpires(k) ==
  /\ ~req[k].late /\ req' = [req EXCEPT ![k].late = TRUE]
  /\ UNCHANGED <<au, node, turn, call>>

(* The ScopeExecution of the gate is stopped. *)
GateNodeEnds ==
  /\ node.st = "waiting" /\ node' = [node EXCEPT !.st = "ended"]
  /\ UNCHANGED <<au, req, turn, call>>

VoteChange ==
  \E k \in DOMAIN req :
    \/ DecideApproval(k) \/ DecideFindsStale(k) \/ CancelApproval(k) \/ RevokeApprovalReceipt(k) \/ RequestExpires(k)

GateChange == RequestApproval \/ GateNodeEnds

-----------------------------------------------------------------------------
(* The tool call: evaluated by the Bus, held by the Bridge.                  *)

(* verifyReceipt and consumeReceipt: a use already made is repeated without  *)
(* another look.                                                             *)
ReceiptHolds(k) ==
  /\ req[k].receipt = "live" /\ ~req[k].late /\ req[k].uses = {}
  /\ ActionIsCurrent(k)
  /\ \A i \in ActiveVotes(k) : DecisionAuthorityIsCurrent(req[k].votes[i])
MayConsume(k) == "call" \in req[k].uses \/ ReceiptHolds(k)

(* evaluateRuntimeToolCall: one request for every rule that asks *)
EvaluateRuntimeToolCall ==
  LET asked == ToSet(Evaluation.needs)
      order == SetToSeq(asked)
      made == [i \in DOMAIN order |-> NewRequest("tool", pol.revs[order[i]].content)]
  IN  /\ call.st = "none" /\ TurnRuns /\ ToolAsks
      /\ Len(req) + Cardinality(asked) <= MaxRequests
      /\ req' = req \o made
      /\ call' = [NoCall EXCEPT !.st = "waiting", !.chain = <<"none">>,
                                !.reqs = Len(req) + 1 .. Len(req) + Len(made)]
      /\ UNCHANGED <<au, node, turn>>

(* toolApprovalOutcome *)
ToolApprovalOutcome(R) ==
  LET is(st) == \E k \in call.reqs : R[k].st = st
  IN  IF is("rejected") THEN "denied" ELSE IF is("cancelled") THEN "cancelled"
      ELSE IF is("invalidated") THEN "unavailable" ELSE IF is("pending") THEN "pending"
      ELSE "allowed"

(* resolveRuntimeToolApproval: the pending requests are closed or looked at, *)
(* then the receipts are used together or not at all.                        *)
ResolveRuntimeToolApproval(abandon) ==
  LET settled == IF abandon = "none" THEN Refreshed(req, call.reqs)
                 ELSE [k \in DOMAIN req |-> IF k \in call.reqs /\ Pending(k)
                                            THEN [req[k] EXCEPT !.st = "cancelled"] ELSE req[k]]
      found == ToolApprovalOutcome(settled)
      used == [k \in DOMAIN settled |->
                 IF k \in call.reqs THEN [settled[k] EXCEPT !.uses = {"call"}] ELSE settled[k]]
      holds == \A k \in call.reqs : MayConsume(k)
  IN  IF found = "allowed"
      THEN [req |-> IF holds THEN used ELSE settled, out |-> IF holds THEN "allowed" ELSE "unavailable"]
      ELSE [req |-> settled,
            out |-> IF abandon # "none" /\ found = "cancelled" THEN abandon ELSE found]

Answered(out) == [call EXCEPT !.st = "done", !.out = out, !.chain = <<>>, !.pushed = FALSE]

(* EngineToolGate.check: the answer arrives. *)
CheckAnswered ==
  /\ call.st = "waiting" /\ call.chain # <<>>
  /\ LET r == ResolveRuntimeToolApproval(Head(call.chain))
     IN  /\ req' = r.req
         /\ call' = IF r.out = "pending" THEN [call EXCEPT !.chain = Tail(@)] ELSE Answered(r.out)
  /\ UNCHANGED <<au, node, turn>>

(* Mutant: a failed check is forgotten even when the call was given up. *)
CheckFails_KeepsWaiting(applied) ==
  /\ call.st = "waiting" /\ call.chain # <<>>
  /\ req' = IF applied THEN ResolveRuntimeToolApproval(Head(call.chain)).req ELSE req
  /\ call' = [call EXCEPT !.chain = Tail(@)]
  /\ UNCHANGED <<au, node, turn>>

(* The request or its answer is lost: a call that was given up ends refused, *)
(* any other waits on.                                                       *)
CheckFails(applied) ==
  /\ call.st = "waiting" /\ call.chain # <<>>
  /\ req' = IF applied THEN ResolveRuntimeToolApproval(Head(call.chain)).req ELSE req
  /\ call' = IF Head(call.chain) = "none" THEN [call EXCEPT !.chain = Tail(@)]
             ELSE Answered("unavailable")
  /\ UNCHANGED <<au, node, turn>>

Queued(abandon) == [call EXCEPT !.chain = Append(@, abandon)]
ApprovalChanged ==               \* the push arrives
  /\ call.st = "waiting" /\ call.pushed /\ Len(call.chain) < 2
  /\ call' = [Queued("none") EXCEPT !.pushed = FALSE]
  /\ UNCHANGED <<au, req, node, turn>>
ApprovalPushLost ==
  /\ call.st = "waiting" /\ call.pushed /\ call' = [call EXCEPT !.pushed = FALSE]
  /\ UNCHANGED <<au, req, node, turn>>
(* cancelDelivery of the adapter; the Bus may still hold the turn as running *)
AbandonDelivery ==
  /\ call.st = "waiting" /\ ~call.stopped
  /\ call' = [Queued("cancelled") EXCEPT !.stopped = TRUE]
  /\ UNCHANGED <<au, req, node, turn>>
(* The timer of the waiter, at the expiry of the session. *)
WaiterTimesOut ==
  /\ call.st = "waiting" /\ \A i \in DOMAIN call.chain : call.chain[i] # "unavailable"
  /\ req' = [k \in DOMAIN req |-> IF k \in call.reqs THEN [req[k] EXCEPT !.late = TRUE] ELSE req[k]]
  /\ call' = Queued("unavailable")
  /\ UNCHANGED <<au, node, turn>>
TurnEnds ==
  /\ turn = "running" /\ call.st # "none" /\ turn' = "over"
  /\ UNCHANGED <<au, req, node, call>>

ToolChange ==
  \/ EvaluateRuntimeToolCall \/ CheckAnswered \/ \E applied \in BOOLEAN : CheckFails(applied)
  \/ ApprovalChanged \/ ApprovalPushLost \/ AbandonDelivery \/ WaiterTimesOut \/ TurnEnds

-----------------------------------------------------------------------------
ApprovalNext ==
  \/ (BindPolicy \/ RevokePolicyBinding) /\ UNCHANGED approvalVars
  \/ (AuthorityChange \/ VoteChange \/ GateChange \/ ToolChange) /\ UNCHANGED policyVars

(* A timer fires, and a check that was begun ends, answered or not. *)
ApprovalFairness ==
  /\ WF_<<policyVars, approvalVars>>(WaiterTimesOut /\ UNCHANGED policyVars)
  /\ WF_<<policyVars, approvalVars>>((CheckAnswered \/ \E a \in BOOLEAN : CheckFails(a)) /\ UNCHANGED policyVars)

ApprovalSpec == ApprovalInit /\ [][ApprovalNext]_<<policyVars, approvalVars>>

-----------------------------------------------------------------------------
(* Properties.                                                               *)

(* The voters whose last word on request k is yes and who could still give   *)
(* it: one person counts once, and anyone who answers for the operator       *)
(* counts as the operator.                                                   *)
LastWord(k, p) == {i \in DOMAIN req[k].votes : req[k].votes[i].by = p
                     /\ \A j \in i + 1 .. Len(req[k].votes) : req[k].votes[j].by # p}
Standing(k) ==
  {Credited(req[k].votes[i]) : i \in {j \in UNION {LastWord(k, p) : p \in Deciders} :
      LET v == req[k].votes[j]
      IN  v.dec = "approved" /\ Held(au[v.by].grant) /\ v.grants = {au[v.by].grant}
            /\ \A e \in v.roles : IF e[1] = "operator" THEN e[2] = au[v.by].person
                                  ELSE e[2] = au[v.by].actor /\ e[3] = au[v.by].role}}

(* An approval is used only while enough people who gave it still have the   *)
(* authority they gave it with, nobody's last word is no, the rule that      *)
(* asked is still in force and the turn it is for still runs; and it is used *)
(* once.  (approvals.ts verifyReceipt, consumeReceipt)                       *)
UsedOnlyIfStanding ==
  \A k \in DOMAIN req : req'[k].uses # req[k].uses =>
       /\ Cardinality(Standing(k)) >= (IF req[k].mode = "quorum" THEN 2 ELSE 1)
       /\ \A i \in DOMAIN req[k].votes :
            req[k].votes[i].dec # "approved" => i \notin LastWord(k, req[k].votes[i].by)
       /\ turn = "running" /\ Evaluation.needs = req[k].eval.needs

(* The decision that continues a Scope is published once, from the request   *)
(* that was decided and as it was decided, however many requests and votes   *)
(* race for the waiting Node.  (store.ts decideApprovalRequest)              *)
GatePublishesOnce ==
  /\ Len(node.published) = (IF node.st = "completed" THEN 1 ELSE 0)
  /\ \A i \in DOMAIN node.published : LET o == node.published[i] IN req[o.by].st = o.as

(* A call that waits for an approval is answered in the end, whatever is     *)
(* lost on the way.  (engine-tool-gate.ts waitForAnswer, check)              *)
ToolCallAnswered == call.st = "waiting" ~> call.st = "done"

(* "The Delivery stopped: its waiting calls are answered as cancelled"       *)
(* (engine-tool-gate.ts): no call is allowed after its Delivery was given    *)
(* up.  Violated: an approval that is already given, or used by a check      *)
(* whose answer was lost, still allows the call.                             *)
StoppedCallIsRefused == call.stopped => call.out # "allowed"
=============================================================================
