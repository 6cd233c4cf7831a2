----------------------------- MODULE ScopePlans -----------------------------
(***************************************************************************)
(* The plans of one Scope: what makes a composition of Nodes, Ports and    *)
(* Edges valid, what a simulation of it reports, how a revision is kept,   *)
(* exported and imported, and how the graph of an older version of Floe    *)
(* becomes the Scope's first plan when the Bus starts                      *)
(* (scope-compositions.ts, scope-composition-migration.ts,                 *)
(* scope-graphs.ts, scopes/store.ts, store.ts).                            *)
(*                                                                         *)
(* Definitions.tla models who may publish which revision; here a revision  *)
(* has content.  A digest is a hash of the canonical JSON of the content,  *)
(* so it is the content itself, the order of its lists included.  Labels,  *)
(* bindings, schemas and the shape of identifiers are left out.            *)
(***************************************************************************)
EXTENDS Naturals, Sequences, FiniteSets, SequencesExt

CONSTANTS
    Contents,        \* the compositions a client may submit
    LegacyGraphs,    \* node lists an earlier version may have left, or <<>>
    GraphInputs,     \* node lists a client may submit for a graph
    FireKeys,        \* the idempotency keys a Trigger is fired with
    MaxPlanRevs,     \* bound on the revisions of the Scope
    MaxBoots,        \* bound on the restarts of the Bus
    MaxBootCrashes   \* bound on the crashes while it starts

\* A composition is [nodes, ports, edges], three sequences of records; a Port
\* without an upper bound has max = Unbounded.
Unbounded == 99
PlanAssumption ==
    /\ MaxPlanRevs \in Nat /\ MaxBoots \in Nat /\ MaxBootCrashes \in Nat
    /\ \A c \in Contents : DOMAIN c = {"nodes", "ports", "edges"}
    /\ \A g \in LegacyGraphs \cup GraphInputs : g \in Seq(ToSet(g))

VARIABLES
    scope,     \* the row of the Scope: [status, pub], pub = 0 or a revision
    graph,     \* the nodes of its legacy graph, <<>> when it has none
    subs,      \* the subscriptions of the graph's Context: [ep, types]
    work,      \* the Deliveries fired into that Context: [key, ep, st]
    revs,      \* the retained revisions: [content, digest, mode, pub]
    portable,  \* what an export returned, {} or {[mode, digest, content]}
    boot,      \* "up", or where the start of the Bus stands
    boots, bootCrashes,
    sim        \* the simulation that runs, or its report

planVars == <<scope, graph, subs, work, revs, portable, boot, boots, bootCrashes, sim>>

-----------------------------------------------------------------------------
(* Validation *)

UniqueIds(s) == \A i, j \in DOMAIN s : s[i].id = s[j].id => i = j
PortOf(c, id) == CHOOSE p \in ToSet(c.ports) : p.id = id
PortsOf(c, n, dir) == {p \in ToSet(c.ports) : p.node = n /\ p.dir = dir}

ContractsOverlap(left, right) ==
    \/ left = {} \/ right = {}
    \/ "*" \in left \cup right
    \/ left \cap right # {}

\* `port.max_count ?? 1`: an unbounded Port is measured against 1.
CountsValid(p) == (IF p.max = Unbounded THEN 1 ELSE p.max) >= p.min

EdgeValid(c, e) ==
    LET ids == {p.id : p \in ToSet(c.ports)} IN
    /\ e.src \in ids /\ e.tgt \in ids
    /\ PortOf(c, e.src).dir = "output" /\ PortOf(c, e.tgt).dir = "input"
    /\ ContractsOverlap(PortOf(c, e.src).types, PortOf(c, e.tgt).types)

\* keyed_gather with expected members names a collection Port that takes
\* exactly one version and a member Port without a bound.
MembersValid(act, inputs) ==
    \E col, mem \in inputs :
        /\ col.id = act.col /\ mem.id = act.mem /\ col # mem
        /\ col.min >= 1 /\ col.max = 1 /\ mem.max = Unbounded

ActivationValid(n, inputs) ==
    LET required == \E p \in inputs : p.min > 0 IN
    \/ n.act.mode = "per_delivery"
    \/ n.act.mode = "all_required_ports" /\ required
    \/ /\ n.act.mode = "keyed_gather"
       /\ IF n.act.col = "" THEN required ELSE MembersValid(n.act, inputs)

NodeValid(c, n, mode) ==
    /\ IF mode = "legacy_subscription" THEN n.act.mode = "legacy_subscription"
       ELSE /\ n.act.mode # "legacy_subscription"
            /\ (n.kind \in {"actor", "command"} \/ n.act.mode # "") =>
                  ActivationValid(n, PortsOf(c, n.id, "input"))
    /\ n.kind \in {"actor", "command", "event"} => n.ctx # ""

ValidateScopeComposition(c, mode) ==
    /\ c.nodes # <<>>
    /\ UniqueIds(c.nodes) /\ UniqueIds(c.ports) /\ UniqueIds(c.edges)
    /\ \A p \in ToSet(c.ports) :
          (\E n \in ToSet(c.nodes) : n.id = p.node) /\ CountsValid(p)
    /\ \A e \in ToSet(c.edges) : EdgeValid(c, e)
    /\ \A n \in ToSet(c.nodes) : NodeValid(c, n, mode)

-----------------------------------------------------------------------------
(* Keeping a revision *)

Digest(c) == <<c.nodes, c.ports, c.edges>>

\* Rows are read back in the order they were written, Edges by priority first.
Stored(c) ==
    LET before(i, j) == \/ c.edges[i].prio < c.edges[j].prio
                        \/ c.edges[i].prio = c.edges[j].prio /\ i < j
        order == SetToSortSeq(DOMAIN c.edges, before)
    IN [c EXCEPT !.edges = [k \in DOMAIN order |-> c.edges[order[k]]]]

\* createDraft: validation, then one transaction.
CreateRevision(c, mode) ==
    /\ Len(revs) < MaxPlanRevs
    /\ ValidateScopeComposition(c, mode)
    /\ revs' = Append(revs, [content |-> Stored(c), digest |-> Digest(c),
                             mode |-> mode, pub |-> FALSE])

-----------------------------------------------------------------------------
(* The legacy graph.  A node is [id, kind, ep, types, type]: an Actor or a  *)
(* Command placed for an endpoint subscribes it to types; a Trigger emits   *)
(* type and a Command answers with it.                                      *)

GraphValid(g) == UniqueIds(g)
Subscribers(g) == {n \in ToSet(g) : n.kind \in {"actor", "command"}}
CommandEndpoints(g) == {n.ep : n \in {m \in ToSet(g) : m.kind = "command"}}
Duplicated(g) == {n.ep : n \in {m \in Subscribers(g) :
                     \E o \in Subscribers(g) : o # m /\ o.ep = m.ep}}
Matches(types, type) == "*" \in types \/ type \in types

\* The nodes whose output Events the graph itself declares, in its order.
EventSources(g) ==
    SelectSeq(g, LAMBDA n : \/ n.kind = "trigger"
                            \/ n.kind = "command" /\ n.ep \notin Duplicated(g))

LegacyPorts(n) ==
    LET port(id, dir, types) == [id |-> id, node |-> n.id, dir |-> dir, types |-> types,
                                 min |-> 0, max |-> Unbounded]
    IN (IF n.kind = "trigger" THEN <<>>
        ELSE <<port(<<n.id, "in">>, "input", n.types)>>) \o
       (IF n.kind = "actor" THEN <<>>
        ELSE <<port(<<n.id, "out">>, "output", {n.type})>>)

LegacyPlacement(n) ==
    [id |-> n.id, kind |-> IF n.kind = "trigger" THEN "event" ELSE n.kind,
     act |-> [mode |-> "legacy_subscription", col |-> "", mem |-> ""], ctx |-> "fixed"]

\* For every subscriber in turn, one Edge from every matching source.
LegacyEdges(g) ==
    LET routes(n) == SelectSeq(EventSources(g), LAMBDA s :
                        /\ n.kind # "trigger" /\ n.ep \notin Duplicated(g)
                        /\ Matches(n.types, s.type))
        pairs == FlattenSeq([i \in DOMAIN g |->
                    [j \in DOMAIN routes(g[i]) |-> <<routes(g[i])[j].id, g[i].id>>]])
    IN [k \in DOMAIN pairs |->
          [id |-> <<pairs[k][1], pairs[k][2], k>>, src |-> <<pairs[k][1], "out">>,
           tgt |-> <<pairs[k][2], "in">>, on |-> TRUE, prio |-> k - 1]]

ProjectLegacyScopeGraph(g) ==
    [nodes |-> [i \in DOMAIN g |-> LegacyPlacement(g[i])],
     ports |-> FlattenSeq([i \in DOMAIN g |-> LegacyPorts(g[i])]),
     edges |-> LegacyEdges(g)]

\* One subscription per endpoint: the last placement of it upserted the row.
UpsertedSubs(g, kinds) ==
    {[ep |-> g[i].ep, types |-> g[i].types] : i \in {j \in DOMAIN g :
        g[j].kind \in kinds /\ \A k \in j + 1..Len(g) : g[k].kind \in kinds => g[k].ep # g[j].ep}}

\* The endpoints a Trigger wakes: the Context's subscriptions decide.
Woken(t) == {s.ep : s \in {x \in subs : /\ x.ep \notin CommandEndpoints(graph)
                                        /\ Matches(x.types, t.type)}}

-----------------------------------------------------------------------------
(* The Bus serves *)

Quiet == boot = "up" /\ sim.queue = <<>>
NoSim == [plan |-> [nodes |-> <<>>, ports |-> <<>>, edges |-> <<>>], start |-> "",
          queue |-> <<>>, seen |-> {}, nodes |-> {}, edges |-> {}, ends |-> {}, steps |-> {}]

CreateScope ==
    /\ Quiet /\ scope.status = "none"
    /\ scope' = [status |-> "active", pub |-> 0]
    /\ UNCHANGED <<work, graph, subs, revs, portable, boot, boots, bootCrashes, sim>>

\* Only a Scope without Contexts is deleted; its revisions are not touched.
DeleteScope ==
    /\ Quiet /\ scope.status # "none" /\ graph = <<>>
    /\ scope' = [status |-> "none", pub |-> 0]
    /\ UNCHANGED <<work, graph, subs, revs, portable, boot, boots, bootCrashes, sim>>

\* The first graph upserts a subscription per Actor node; a later one replaces
\* them all and fails on two for one endpoint.
ReplacedSubs_Kept(g) == subs \cup {[ep |-> n.ep, types |-> n.types] : n \in Subscribers(g)}

ReplacedSubs(g) == {[ep |-> n.ep, types |-> n.types] : n \in Subscribers(g)}

CreateScopeGraph(g) ==
    /\ Quiet /\ scope.status # "none"
    /\ GraphValid(g) /\ CommandEndpoints(g) = {} /\ CommandEndpoints(graph) = {}
    /\ \/ graph = <<>> /\ subs' = UpsertedSubs(g, {"actor"}) /\ UNCHANGED scope
       \/ /\ graph # <<>> /\ Duplicated(g) = {}
          /\ subs' = ReplacedSubs(g)
          /\ scope' = [scope EXCEPT !.status = "active"]
    /\ graph' = g
    /\ UNCHANGED <<work, revs, portable, boot, boots, bootCrashes, sim>>

\* Firing a Trigger queues its Event once per key and endpoint woken.
Fired(t, key) ==
    {[key |-> key, ep |-> ep, st |-> "queued"] :
        ep \in {e \in Woken(t) : \A w \in work : ~(w.key = key /\ w.ep = e)}}

FireScopeGraphTrigger(t, key) ==
    /\ Quiet /\ scope.status = "active" /\ t.kind = "trigger"
    /\ work' = work \cup Fired(t, key)
    /\ UNCHANGED <<scope, graph, subs, revs, portable, boot, boots, bootCrashes, sim>>

\* The Delivery of the Event is claimed by a Bridge, and ends (Delivery.tla).
WorkMoves(w) ==
    /\ w.st \in {"queued", "active"}
    /\ work' = (work \ {w}) \cup
                  {[w EXCEPT !.st = IF @ = "queued" THEN "active" ELSE "done"]}
    /\ UNCHANGED <<scope, graph, subs, revs, portable, boot, boots, bootCrashes, sim>>

\* Retirement drops the subscriptions of the graph's Context and cancels its
\* queued and active Deliveries.
Cancelled(w) == IF w.st \in {"queued", "active"} THEN [w EXCEPT !.st = "cancelled"] ELSE w

RetireScope ==
    /\ Quiet /\ scope.status = "active"
    /\ scope' = [scope EXCEPT !.status = "retired"]
    /\ subs' = {}
    /\ work' = {Cancelled(w) : w \in work}
    /\ UNCHANGED <<graph, revs, portable, boot, boots, bootCrashes, sim>>

CreateDraft(c) ==
    /\ Quiet /\ scope.status # "none"
    /\ CreateRevision(c, "edge")
    /\ UNCHANGED <<work, scope, graph, subs, portable, boot, boots, bootCrashes, sim>>

PublishDraft(i) ==
    /\ Quiet /\ scope.status # "none" /\ ~revs[i].pub
    /\ ValidateScopeComposition(revs[i].content, revs[i].mode)
    /\ revs' = [revs EXCEPT ![i].pub = TRUE]
    /\ scope' = [scope EXCEPT !.pub = i]
    /\ UNCHANGED <<work, graph, subs, portable, boot, boots, bootCrashes, sim>>

CloneRevision(i) ==
    /\ Quiet /\ scope.status # "none"
    /\ CreateRevision(revs[i].content, revs[i].mode)
    /\ UNCHANGED <<work, scope, graph, subs, portable, boot, boots, bootCrashes, sim>>

ExportRevision(i) ==
    /\ Quiet
    /\ portable' = {[mode |-> revs[i].mode, digest |-> revs[i].digest, content |-> revs[i].content]}
    /\ UNCHANGED <<work, scope, graph, subs, revs, boot, boots, bootCrashes, sim>>

\* An import refuses a digest that is not the content's.
Importable(p) ==
    /\ ValidateScopeComposition(p.content, p.mode)
    /\ Digest(p.content) = p.digest

ImportRevision ==
    /\ Quiet /\ scope.status # "none"
    /\ \E p \in portable : Importable(p) /\ CreateRevision(p.content, p.mode)
    /\ UNCHANGED <<work, scope, graph, subs, portable, boot, boots, bootCrashes, sim>>

-----------------------------------------------------------------------------
(* Simulation: one step is one turn of the loop over the queue of Ports.    *)
(* The order among the Edges of a Port is not kept: no result depends on it. *)

EnabledFrom(c, port) == {e \in ToSet(c.edges) : e.on /\ e.src = port}
TargetNode(c, e) == PortOf(c, e.tgt).node

SimulateRevision(i, n, p) ==
    /\ Quiet
    /\ revs[i].mode = "edge"
    /\ ValidateScopeComposition(revs[i].content, "edge")
    /\ n \in ToSet(revs[i].content.nodes) /\ n.kind = "event"
    /\ p \in PortsOf(revs[i].content, n.id, "output")
    /\ sim' = [NoSim EXCEPT !.plan = revs[i].content, !.start = p.id,
                            !.queue = <<[port |-> p.id, depth |-> 0]>>, !.nodes = {n.id}]
    /\ UNCHANGED <<work, scope, graph, subs, revs, portable, boot, boots, bootCrashes>>

Followers(c, out, depth) ==
    SetToSeq({[port |-> q.id, depth |-> depth] :
        q \in UNION {PortsOf(c, TargetNode(c, e), "output") : e \in out}})

\* The next Ports go to the end of the queue.
Enqueued(queue, more) == queue \o more

SimulateStep ==
    /\ boot = "up" /\ sim.queue # <<>>
    /\ LET at == Head(sim.queue)
           out == EnabledFrom(sim.plan, at.port)
       IN sim' = IF at.port \in sim.seen THEN [sim EXCEPT !.queue = Tail(@)]
                 ELSE [sim EXCEPT !.seen = @ \cup {at.port},
                          !.queue = Enqueued(Tail(@), Followers(sim.plan, out, at.depth + 1)),
                          !.nodes = @ \cup {TargetNode(sim.plan, e) : e \in out},
                          !.edges = @ \cup {e.id : e \in out},
                          !.ends = IF out = {} THEN @ \cup {at.port} ELSE @,
                          !.steps = @ \cup {<<e.id, at.depth + 1>> : e \in out}]
    /\ UNCHANGED <<work, scope, graph, subs, revs, portable, boot, boots, bootCrashes>>

-----------------------------------------------------------------------------
(* The Bus stops and starts: the schema step corrects the digests, later in  *)
(* the start the graph of a Scope without revisions becomes a draft, which   *)
(* is published in a transaction of its own.                                 *)

StopBus ==
    /\ Quiet /\ boots < MaxBoots
    /\ boot' = "down" /\ boots' = boots + 1 /\ sim' = NoSim
    /\ UNCHANGED <<work, scope, graph, subs, revs, portable, bootCrashes>>

ApplyScopeCompositionSchema ==
    /\ boot = "down"
    /\ revs' = [i \in DOMAIN revs |-> [revs[i] EXCEPT !.digest = Digest(revs[i].content)]]
    /\ boot' = "schema"
    /\ UNCHANGED <<work, scope, graph, subs, portable, boots, bootCrashes, sim>>

ImportLegacyDraft ==
    /\ boot = "schema" /\ graph # <<>> /\ revs = <<>>
    /\ CreateRevision(ProjectLegacyScopeGraph(graph), "legacy_subscription")
    /\ boot' = "draft"
    /\ UNCHANGED <<work, scope, graph, subs, portable, boots, bootCrashes, sim>>

ImportLegacyPublish ==
    /\ boot = "draft"
    /\ revs' = [revs EXCEPT ![Len(revs)].pub = TRUE]
    /\ scope' = [scope EXCEPT !.pub = Len(revs)]
    /\ boot' = "up"
    /\ UNCHANGED <<work, graph, subs, portable, boots, bootCrashes, sim>>

NothingToImport ==
    /\ boot = "schema" /\ (graph = <<>> \/ revs # <<>>)
    /\ boot' = "up"
    /\ UNCHANGED <<work, scope, graph, subs, revs, portable, boots, bootCrashes, sim>>

CrashAtStart ==
    /\ boot \in {"schema", "draft"} /\ bootCrashes < MaxBootCrashes
    /\ boot' = "down" /\ bootCrashes' = bootCrashes + 1
    /\ UNCHANGED <<work, scope, graph, subs, revs, portable, boots, sim>>

-----------------------------------------------------------------------------
\* A database of this version, or one an earlier version left behind.
PlanInit ==
    /\ graph \in LegacyGraphs /\ GraphValid(graph)
    /\ subs = UpsertedSubs(graph, {"actor", "command"})
    /\ scope = [status |-> "active", pub |-> 0]
    /\ work = {} /\ revs = <<>> /\ portable = {} /\ boot = "down"
    /\ boots = 0 /\ bootCrashes = 0 /\ sim = NoSim

ScopeRowNext == CreateScope \/ DeleteScope \/ RetireScope
FireNext ==
    \/ \E t \in ToSet(graph), key \in FireKeys : FireScopeGraphTrigger(t, key)
    \/ \E w \in work : WorkMoves(w)
GraphNext == \E g \in GraphInputs : CreateScopeGraph(g)
RevisionNext ==
    \/ \E c \in Contents : CreateDraft(c)
    \/ \E i \in DOMAIN revs : PublishDraft(i)
    \/ \E i \in DOMAIN revs : CloneRevision(i)
    \/ \E i \in DOMAIN revs : ExportRevision(i)
    \/ ImportRevision
SimulationNext ==
    \/ \E i \in DOMAIN revs : \E n \in ToSet(revs[i].content.nodes) :
          \E p \in ToSet(revs[i].content.ports) : SimulateRevision(i, n, p)
    \/ SimulateStep
BootNext ==
    \/ StopBus
    \/ ApplyScopeCompositionSchema
    \/ ImportLegacyDraft
    \/ ImportLegacyPublish
    \/ NothingToImport
    \/ CrashAtStart

PlanNext == ScopeRowNext \/ FireNext \/ GraphNext \/ RevisionNext \/ SimulationNext \/ BootNext

PlanSpec == PlanInit /\ [][PlanNext]_planVars

-----------------------------------------------------------------------------
(* Properties *)

\* What a simulation should say: the Ports within k Edges of the first one.
Within(c, port) ==
    LET w[k \in 0..Len(c.ports)] ==
        IF k = 0 THEN {port}
        ELSE w[k - 1] \cup {q.id : q \in UNION {PortsOf(c, TargetNode(c, e), "output") :
                e \in UNION {EnabledFrom(c, o) : o \in w[k - 1]}}}
    IN w

\* A finished simulation (simulateScopeComposition) reports exactly the Edges
\* an Event can be routed along from its ingress, each once and at its least
\* distance, and as terminal exactly the Ports reached that lead nowhere.
SimulationIsReachability ==
    (sim.start # "" /\ sim.queue = <<>>) =>
        LET w == Within(sim.plan, sim.start)
            all == w[Len(sim.plan.ports)]
            edges == UNION {EnabledFrom(sim.plan, o) : o \in all}
        IN /\ sim.edges = {e.id : e \in edges}
           /\ sim.steps = {<<e.id, 1 + CHOOSE k \in DOMAIN w :
                 e.src \in w[k] /\ \A j \in 0..k - 1 : e.src \notin w[j]>> : e \in edges}
           /\ sim.ends = {o \in all : EnabledFrom(sim.plan, o) = {}}
           /\ \A e \in edges : TargetNode(sim.plan, e) \in sim.nodes

\* The plan a legacy graph is projected to is always valid, so that the Bus
\* can start, and connects a Trigger to exactly the Actors that firing it
\* wakes (fireScopeGraphTrigger), those placed more than once left out.
ProjectionKeepsRoutes ==
    (graph # <<>> /\ scope.status = "active") =>
        LET c == ProjectLegacyScopeGraph(graph)
            drawn(t) == {n.ep : n \in {m \in Subscribers(graph) :
                            /\ m.kind = "actor"
                            /\ \E e \in ToSet(c.edges) :
                                  e.src = <<t.id, "out">> /\ e.tgt = <<m.id, "in">>}}
        IN /\ ValidateScopeComposition(c, "legacy_subscription")
           /\ \A t \in {n \in ToSet(graph) : n.kind = "trigger"} :
                 drawn(t) = Woken(t) \ Duplicated(graph)

\* Nothing fired into the graph of a retired Scope is queued or running: its
\* work.stopped Event says that no queued or active delivery will be resumed.
RetiredIsStopped ==
    scope.status = "retired" => \A w \in work : w.st \notin {"queued", "active"}

\* Every revision can be exported and imported again: the comment of
\* applyScopeCompositionSchema says that an exported or cloned composition
\* keeps its semantic identity.
ExportsCanBeImported == \A p \in portable : Importable(p)

\* A started Bus has published the plan of every Scope it took a draft of a
\* legacy graph for: importLegacyScopeGraph imports and publishes a snapshot.
MigratedIsPublished ==
    boot = "up" => \A i \in DOMAIN revs :
        (i = 1 /\ revs[i].mode = "legacy_subscription") => revs[i].pub
=============================================================================
