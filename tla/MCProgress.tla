----------------------------- MODULE MCProgress -----------------------------
(***************************************************************************)
(* Waits that must end: the pause of a Scope execution whose turns answer    *)
(* late, a tool call that waits for approvals, and a command that waits for  *)
(* another start of the same home. They share no state here, so a behaviour  *)
(* is one of a single part, chosen at its start; what is fair in a part is   *)
(* not enabled in the others.                                                *)
(***************************************************************************)
EXTENDS ScopeExecution

VARIABLES part, pol, bound, au, req, node, turn, call,
  starting, sock, rec, proc, foreign, stages, harmed, begun, faults

(* An external Command, whose output joins the ingress Event.                *)
MCInPorts == [command |-> {"in"}, join |-> {"left", "right"}]
MCRequired == [command |-> {"y"}, join |-> {"z", "w"}]
MCEdges == {<<"ingress", "go", "command", "in">>, <<"ingress", "go", "join", "left">>,
            <<"command", "y", "join", "right">>}

Ask == INSTANCE Approvals WITH
  Contents <- {"any"}, MaxPolicyRevs <- 2, MaxBindings <- 1, Deciders <- {"op"}, Operator <- "op",
  StandIns <- {}, Outcomes <- {"approved", "rejected"}, MaxChanges <- 1, MaxRequests <- 1,
  MaxBallots <- 1
Start == INSTANCE Startup WITH
  run <- starting, Runs <- {"s1", "s2"}, Versions <- {1, 2},
  Kinds <- {"start", "ensure", "restart", "switch", "stop"}, Platform <- "posix",
  StartOnDemand <- TRUE, MaxProcs <- 2, MaxBegins <- 2, MaxStartFaults <- 1

askVars == <<pol, bound, au, req, node, turn, call>>
startVars == <<starting, sock, rec, proc, foreign, stages, harmed, begun, faults>>

Init ==
  /\ part \in {"pause", "ask", "start"}
  /\ ScopeInit /\ Ask!ApprovalInit /\ Start!StartInit

PauseStep == part = "pause" /\ ScopeNextStep /\ UNCHANGED <<part, askVars, startVars>>

AskStep ==
  /\ part = "ask"
  /\ \/ (Ask!BindPolicy \/ Ask!RevokePolicyBinding) /\ UNCHANGED <<au, req, node, turn, call>>
     \/ (Ask!AuthorityChange \/ Ask!VoteChange \/ Ask!ToolChange) /\ UNCHANGED <<pol, bound>>
  /\ UNCHANGED <<part, sx, startVars>>

StartStep == part = "start" /\ Start!StartNext /\ UNCHANGED <<part, sx, askVars>>

Next == PauseStep \/ AskStep \/ StartStep

Spec ==
  /\ Init /\ [][Next]_<<part, sx, askVars, startVars>>
  /\ ScopeFairness /\ Ask!ApprovalFairness /\ Start!StartFairness

(* A call that waits for an approval is answered in the end (Approvals), and *)
(* a command that waits for another start goes on (Startup).                 *)
WaitsEnd == Ask!ToolCallAnswered /\ Start!WaitersContinue
=============================================================================
