----------------------------- MODULE Policies ------------------------------
(* One Policy of a Workspace (policies.ts, policy-operations.ts): its draft  *)
(* and published revisions, the bindings that put a revision in force, and   *)
(* what an evaluation of the bindings decides.  A revision holds one rule;   *)
(* every fact matches it.  A refused call changes nothing and is no step.    *)
EXTENDS Naturals, Sequences, SequencesExt

CONSTANTS
  Contents,       \* the rules: "allow", "deny", or who must approve
  MaxPolicyRevs,  \* bound on the revisions of the Policy
  MaxBindings     \* bound on the bindings ever made

VARIABLES
  pol,            \* the row of policies: its status, its head (0: none) and policy_revisions
  bound           \* policy_bindings, oldest first

policyVars == <<pol, bound>>

Asking == Contents \ {"allow", "deny"}

PolicyInit == pol = [st |-> "none", head |-> 0, revs |-> <<>>] /\ bound = <<>>

-----------------------------------------------------------------------------
(* PolicyStore.                                                              *)

OpenDrafts == {r \in DOMAIN pol.revs : ~pol.revs[r].pub}
PublishedRevisions == DOMAIN pol.revs \ OpenDrafts
InsertRevision(content) ==
  [pol EXCEPT !.revs = Append(@, [pub |-> FALSE, base |-> pol.head, content |-> content])]

StoreCreatePolicy(content) ==
  pol.st = "none" /\ pol' = [InsertRevision(content) EXCEPT !.st = "active"]

StoreCreateDraft(content) ==
  /\ pol.st = "active" /\ OpenDrafts = {} /\ Len(pol.revs) < MaxPolicyRevs
  /\ pol' = InsertRevision(content)

(* A retired Policy's draft can still be edited. *)
StoreReplaceDraft(r, content) ==
  r \in OpenDrafts /\ pol' = [pol EXCEPT !.revs[r].content = content]

StorePublishRevision(r) ==
  /\ pol.st = "active" /\ r \in OpenDrafts /\ pol.revs[r].base = pol.head
  /\ pol' = [pol EXCEPT !.revs[r].pub = TRUE, !.head = r]

(* The status of the Policy is not looked at. *)
StoreRollback(r) ==
  r \in PublishedRevisions /\ pol.head # 0 /\ pol' = [pol EXCEPT !.head = r]

(* Any published revision, not only the head. *)
StoreBindRevision(r) ==
  /\ pol.st = "active" /\ r \in PublishedRevisions /\ Len(bound) < MaxBindings
  /\ bound' = Append(bound, [rev |-> r, st |-> "active"])

StoreRevokeBinding(b) ==
  bound[b].st = "active" /\ bound' = [bound EXCEPT ![b].st = "revoked"]

StoreRetirePolicy ==
  /\ pol.st = "active" /\ \A b \in DOMAIN bound : bound[b].st = "revoked"
  /\ pol' = [pol EXCEPT !.st = "retired"]

StoreReactivatePolicy == pol.st = "retired" /\ pol' = [pol EXCEPT !.st = "active"]

-----------------------------------------------------------------------------
(* The operations: each is one call of the store.                            *)

CreatePolicy == (\E c \in Contents : StoreCreatePolicy(c)) /\ UNCHANGED bound
CreatePolicyDraft == (\E c \in Contents : StoreCreateDraft(c)) /\ UNCHANGED bound
ReplacePolicyDraft ==
  (\E r \in OpenDrafts, c \in Contents : StoreReplaceDraft(r, c)) /\ UNCHANGED bound
PublishPolicy == (\E r \in OpenDrafts : StorePublishRevision(r)) /\ UNCHANGED bound
RollbackPolicy == (\E r \in PublishedRevisions : StoreRollback(r)) /\ UNCHANGED bound
BindPolicy == (\E r \in PublishedRevisions : StoreBindRevision(r)) /\ UNCHANGED pol
RevokePolicyBinding == (\E b \in DOMAIN bound : StoreRevokeBinding(b)) /\ UNCHANGED pol
PolicyLifecycle == (StoreRetirePolicy \/ StoreReactivatePolicy) /\ UNCHANGED bound

-----------------------------------------------------------------------------
(* Evaluation.                                                               *)

(* listApplicableBindings, by the revision each one names *)
ApplicableBindings ==
  LET live == SelectSeq(bound, LAMBDA b : b.st = "active" /\ pol.st = "active" /\ pol.revs[b.rev].pub)
  IN  [i \in DOMAIN live |-> live[i].rev]

(* What an evaluation retains: evaluated_policy_revision_ids and             *)
(* approval_requirements, one for every binding whose rule asks.             *)
Evaluation ==
  LET live == ApplicableBindings
      said(r) == pol.revs[r].content
  IN  [revs |-> ToSet(live),
       needs |-> SelectSeq(live, LAMBDA r : said(r) \in Asking),
       decision |-> IF \E r \in ToSet(live) : said(r) = "deny" THEN "deny"
                    ELSE IF \E r \in ToSet(live) : said(r) \in Asking THEN "require_approval"
                    ELSE "allow"]

PolicyNext ==
  \/ CreatePolicy \/ CreatePolicyDraft \/ ReplacePolicyDraft \/ PublishPolicy \/ RollbackPolicy
  \/ BindPolicy \/ RevokePolicyBinding \/ PolicyLifecycle
PolicySpec == PolicyInit /\ [][PolicyNext]_policyVars

(* What was put in force stays in force: an active binding is evaluated, by  *)
(* the rule that was published, whatever is published, rolled back or        *)
(* retired after it was made.                                                *)
BoundIsInForce ==
  \A b \in DOMAIN bound : bound[b].st = "active" =>
    bound[b].rev \in Evaluation.revs /\ pol.revs[bound[b].rev].pub
=============================================================================
