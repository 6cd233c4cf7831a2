------------------------------- MODULE MCScope -------------------------------
(***************************************************************************)
(* Scopes: an execution of three steps, and the compositions, legacy graphs  *)
(* and simulations that executions are made from. They share no state here,  *)
(* so a behaviour is one of a single part, chosen at its start.              *)
(***************************************************************************)
EXTENDS ScopeExecution

VARIABLES part, scope, graph, subs, work, revs, portable, boot, boots, bootCrashes, sim

(* An Actor and a Command feed a join.                                       *)
MCInPorts == [actor |-> {"in"}, command |-> {"in"}, join |-> {"left", "right"}]
MCRequired == [actor |-> {"x"}, command |-> {"y"}, join |-> {"z", "w"}]
MCEdges == {<<"ingress", "go", "actor", "in">>, <<"ingress", "go", "command", "in">>,
            <<"actor", "x", "join", "left">>, <<"command", "y", "join", "right">>}

(* Compositions of an Event, an Actor and a Command, with every choice of     *)
(* the Edges between them, each enabled or not.                              *)
Placed(n, k, m) == [id |-> n, kind |-> k, act |-> [mode |-> m, col |-> "", mem |-> ""], ctx |-> "new"]
PortOf(i, n, d, min) == [id |-> i, node |-> n, dir |-> d, types |-> {"x"}, min |-> min, max |-> 1]
EdgeOf(i, s, t, on, p) == [id |-> i, src |-> s, tgt |-> t, on |-> on, prio |-> p]
Base ==
  [nodes |-> <<Placed("e", "event", ""), Placed("n", "actor", "per_delivery"),
               Placed("m", "command", "all_required_ports")>>,
   ports |-> <<PortOf("eo", "e", "output", 0), PortOf("ni", "n", "input", 0),
               PortOf("no", "n", "output", 0), PortOf("mi", "m", "input", 1),
               PortOf("mo", "m", "output", 0)>>,
   edges |-> <<>>]
PlanEdges == <<EdgeOf("1", "eo", "ni", TRUE, 0), EdgeOf("2", "eo", "mi", TRUE, 0),
           EdgeOf("3", "no", "ni", TRUE, 0), EdgeOf("4", "no", "mi", TRUE, 0),
           EdgeOf("5", "mo", "ni", TRUE, 0), EdgeOf("6", "mo", "mi", TRUE, 0)>>
Drawn(f) == [Base EXCEPT !.edges =
  SelectSeq([i \in 1..6 |-> [PlanEdges[i] EXCEPT !.on = f[i] = "on"]],
            LAMBDA e : \E i \in 1..6 : PlanEdges[i].id = e.id /\ f[i] # "no")]
SimPlans == {Drawn(f) : f \in [1..6 -> {"no", "on", "off"}]}
Ordered == [Base EXCEPT !.edges = <<EdgeOf("1", "eo", "ni", TRUE, 0), EdgeOf("2", "no", "mi", TRUE, 1)>>]
Wrong == [Base EXCEPT !.ports = <<PortOf("eo", "e", "output", 0), PortOf("ni", "n", "input", 2),
                                  PortOf("no", "n", "output", 0)>>]

(* Legacy graphs of two Triggers and two Actors, perhaps at one address, with *)
(* or without a Command.                                                     *)
GraphOf(at, be, bt, k) ==
  <<[id |-> "t", kind |-> "trigger", ep |-> "", types |-> {}, type |-> "x"],
    [id |-> "u", kind |-> "trigger", ep |-> "", types |-> {}, type |-> "y"],
    [id |-> "a", kind |-> "actor", ep |-> "e1", types |-> at, type |-> ""],
    [id |-> "b", kind |-> "actor", ep |-> be, types |-> bt, type |-> ""]>> \o
  (IF k THEN <<[id |-> "k", kind |-> "command", ep |-> "e3", types |-> {"x"}, type |-> "y"]>> ELSE <<>>)
Graphs == {GraphOf(at, be, bt, k) : at \in {{"*"}, {"x"}}, be \in {"e1", "e2"},
                                    bt \in {{"*"}, {"y"}, {}}, k \in BOOLEAN}

Simulated == INSTANCE ScopePlans WITH
  Contents <- SimPlans, LegacyGraphs <- {<<>>}, GraphInputs <- {}, FireKeys <- {},
  MaxPlanRevs <- 1, MaxBoots <- 0, MaxBootCrashes <- 0
Kept == INSTANCE ScopePlans WITH
  Contents <- {Ordered, Wrong}, LegacyGraphs <- {<<>>} \cup Graphs, GraphInputs <- Graphs,
  FireKeys <- {"k1"}, MaxPlanRevs <- 2, MaxBoots <- 1, MaxBootCrashes <- 1

ASSUME Simulated!PlanAssumption /\ Kept!PlanAssumption

planVars == <<scope, graph, subs, work, revs, portable, boot, boots, bootCrashes, sim>>

Init ==
  /\ part \in {"execution", "simulated", "kept", "fired"}
  /\ ScopeInit
  /\ Kept!PlanInit /\ (part \in {"kept", "fired"} \/ graph = <<>>)

ExecutionStep == part = "execution" /\ ScopeNextStep /\ UNCHANGED <<part, planVars>>

(* Revisions are kept and migrated apart from the work that Triggers fire.   *)
PlanStep ==
  /\ \/ part = "simulated" /\ (Simulated!RevisionNext \/ Simulated!SimulationNext \/ Simulated!BootNext)
     \/ part = "kept" /\ (Kept!RevisionNext \/ Kept!BootNext \/ Kept!ScopeRowNext \/ Kept!GraphNext)
     \/ part = "fired" /\ (Kept!FireNext \/ Kept!BootNext \/ Kept!ScopeRowNext \/ Kept!GraphNext)
  /\ UNCHANGED <<part, sx>>

Next == ExecutionStep \/ PlanStep

Spec == Init /\ [][Next]_<<part, sx, planVars>>

(* A simulation reports what an Event can reach and nothing else; the        *)
(* projection of a legacy graph is valid and keeps its routes; and work      *)
(* fired into the graph of a retired Scope is stopped (ScopePlans).          *)
GraphsKeepTheirMeaning ==
  /\ Simulated!SimulationIsReachability
  /\ Kept!ProjectionKeepsRoutes /\ Kept!RetiredIsStopped
=============================================================================
