---------------------------- MODULE MCGovernance ----------------------------
(***************************************************************************)
(* What governs the work of a Workspace: definitions and their revisions,   *)
(* the runtime an Actor is bound to, Contexts and the roles in them, the     *)
(* policies in force and the approvals they ask for. The components share    *)
(* no state here, so a behaviour is one of a single part, chosen at its      *)
(* start; a part too large to explore whole is explored by question.         *)
(***************************************************************************)
EXTENDS Definitions

CONSTANTS ActorIds, SpareAddresses, Ctxs, Roles

VARIABLES
  part,
  actor, bound, endpoint, profile, secret, access, legacy, binds,
  cx, asg, alive, ev, queue, pend, waiting, wasRetired, removedAt,
  pol, inForce, au, req, node, turn, call

Bind == INSTANCE RuntimeBindings WITH OperatorId <- "a", FreeAddresses <- SpareAddresses, MaxBinds <- 2
Talk == INSTANCE Contexts WITH
  Actors <- {"a"}, DefaultRole <- "p", MaxAssignments <- 3, MaxEvents <- 2
(* A gate of a Scope on a quorum of two, and two requests racing for it; a   *)
(* tool call on a quorum; a tool call under two policies, one of which names *)
(* who must approve.                                                         *)
Gate == INSTANCE Approvals WITH
  bound <- inForce, Contents <- {"quorum"}, MaxPolicyRevs <- 2, MaxBindings <- 1,
  Deciders <- {"op", "ann"}, Operator <- "op", StandIns <- {}, Outcomes <- {"approved", "rejected"},
  MaxChanges <- 1, MaxRequests <- 2, MaxBallots <- 2
Tool == INSTANCE Approvals WITH
  bound <- inForce, Contents <- {"quorum"}, MaxPolicyRevs <- 2, MaxBindings <- 1,
  Deciders <- {"op", "ann"}, Operator <- "op", StandIns <- {}, Outcomes <- {"approved", "rejected"},
  MaxChanges <- 1, MaxRequests <- 1, MaxBallots <- 3
Named == INSTANCE Approvals WITH
  bound <- inForce, Contents <- {"any", "named"}, MaxPolicyRevs <- 2, MaxBindings <- 2,
  Deciders <- {"op", "ann"}, Operator <- "op", StandIns <- {"ann"}, Outcomes <- {"approved"},
  MaxChanges <- 1, MaxRequests <- 2, MaxBallots <- 1
Rules == INSTANCE Policies WITH
  bound <- inForce, Contents <- {"allow", "deny", "any"}, MaxPolicyRevs <- 3, MaxBindings <- 3

ASSUME Bind!BindingAssumption /\ Talk!ContextAssumption

bindingVars == <<actor, bound, endpoint, profile, secret, access, legacy, binds>>
contextVars == <<cx, asg, alive, ev, queue, pend, waiting, wasRetired, removedAt>>
policyVars == <<pol, inForce>>
approvalVars == <<au, req, node, turn, call>>
governanceVars == <<part, defVars, bindingVars, contextVars, policyVars, approvalVars>>

Init ==
  /\ part \in {"definitions", "addresses", "readiness", "roles", "history", "gate", "tool",
               "named", "rules"}
  /\ DefinitionInit /\ (part = "definitions" \/ kind = "scope")
  /\ Bind!BindingInit /\ Talk!ContextInit
  /\ CASE part = "tool" -> Tool!ApprovalInit
       [] part = "named" -> Named!ApprovalInit
       [] part = "rules" -> Rules!PolicyInit /\ Gate!NothingAsked
       [] OTHER -> Gate!ApprovalInit

(* Of a Scope only one client writes.                                        *)
DefinitionStep ==
  /\ part = "definitions" /\ DefinitionNext
  /\ kind = "scope" => view'["c2"] = view["c2"]
  /\ UNCHANGED <<part, bindingVars, contextVars, policyVars, approvalVars>>

(* Addresses: who is bound to what, while nothing reports work and no model  *)
(* or credential is missing. Readiness: everything, of one Actor at one       *)
(* address.                                                                  *)
BindingStep ==
  /\ \/ /\ part = "addresses" /\ Bind!AddressNext /\ UNCHANGED access
        /\ \A a \in ActorIds : bound'[a].model = "profile" /\ bound'[a].why = {}
        /\ \A e \in DOMAIN endpoint : endpoint'[e].st \notin {"waiting", "error", "active"}
        /\ endpoint'["b"].bridge => endpoint["b"].bridge
     \/ /\ part = "readiness" /\ Bind!BindingNext
        /\ actor'["a"] = actor["a"] /\ \A e \in ActorIds : endpoint'[e] = endpoint[e]
  /\ UNCHANGED <<part, defVars, contextVars, policyVars, approvalVars>>

(* Roles: who comes and goes in one Context. History: what happens to the    *)
(* Events of two, with one participant.                                      *)
ContextStep ==
  /\ \/ /\ part = "roles" /\ (Talk!LifecycleNext \/ Talk!MembershipNext)
        /\ \A c \in Ctxs \ {"c"} : cx'[c] = cx[c]
     \/ part = "history" /\ (Talk!LifecycleNext \/ Talk!HistoryNext) /\ Len(asg') <= 1
  /\ UNCHANGED <<part, defVars, bindingVars, policyVars, approvalVars>>

(* Bindings of policies come and go while requests are decided.              *)
PolicyStep ==
  /\ \/ part = "rules" /\ Rules!PolicyNext
     \/ part \in {"gate", "tool"} /\ (Gate!BindPolicy \/ Gate!RevokePolicyBinding)
  /\ UNCHANGED <<part, defVars, bindingVars, contextVars, approvalVars>>

ApprovalStep ==
  /\ \/ part = "gate" /\ (Gate!AuthorityChange \/ Gate!VoteChange \/ Gate!GateChange)
     \/ part = "tool" /\ (Tool!AuthorityChange \/ Tool!VoteChange \/ Tool!ToolChange)
     \/ part = "named" /\ (Named!AuthorityChange \/ Named!VoteChange \/ Named!ToolChange)
  /\ UNCHANGED <<part, defVars, bindingVars, contextVars, policyVars>>

Next == DefinitionStep \/ BindingStep \/ ContextStep \/ PolicyStep \/ ApprovalStep

Spec == Init /\ [][Next]_governanceVars

(* Work sent to an Actor is never pinned to another Actor's definition, and  *)
(* a retired Actor is not available (RuntimeBindings).                       *)
ActorsApart == Bind!HostedApart /\ Bind!RetiredIsNotAvailable

(* Role evidence ends when its participant leaves, a usable Context has a    *)
(* participant or a Scope, and clearing, compacting and destroying history   *)
(* leave no work without its Event and nothing that refers to a destroyed    *)
(* Context (Contexts).                                                       *)
ContextsHold ==
  /\ Talk!EvidenceEnds /\ Talk!ContextIsAnchored
  /\ Talk!WorkHasItsEvent /\ Talk!TombstoneIsFinal

(* A gate is published once, as it was decided (Approvals), and the rule     *)
(* that asked for the decision stays in force while it is bound, whatever is *)
(* published, rolled back or retired after (Policies).                       *)
GatePublishesOnce == Gate!GatePublishesOnce /\ Rules!BoundIsInForce

(* Nobody acts on what no longer stands: no draft is replaced and no head    *)
(* moved that the client had not read (Definitions), and an approval is used *)
(* only while those who gave it could still give it and the rule that asked  *)
(* for it is in force (Approvals).                                           *)
ActsOnWhatStands ==
  /\ NothingUnseen
  /\ [][/\ part = "tool" => Tool!UsedOnlyIfStanding
        /\ part = "named" => Named!UsedOnlyIfStanding]_governanceVars
=============================================================================
