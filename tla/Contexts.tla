------------------------------ MODULE Contexts ------------------------------
(***************************************************************************)
(* Contexts of one Workspace: who takes part, which authority record each  *)
(* participant's role rests on, what history a Context holds, and when its *)
(* content may be destroyed (contexts/store.ts, context-operations.ts,     *)
(* context-operation-backend.ts, the Context routes of server.ts and the   *)
(* role assignments of actor-role-authority.ts).                           *)
(*                                                                         *)
(* Every operation names the revision it was decided on and is refused     *)
(* without effect when the Context has moved on, so an operation here is   *)
(* one that was decided on the current state; the revision itself is left  *)
(* out.  A participant's access level is one of two values: it matters     *)
(* only because an unchanged role and access end the operation early.      *)
(***************************************************************************)
EXTENDS Integers, Sequences, FiniteSetsExt

CONSTANTS
    Ctxs,            \* identities a Context can be created under
    Actors,          \* Actor identities, each with an Endpoint of the same name
    Roles,           \* roles a participant can hold
    DefaultRole,     \* the role of a participant added by routing
    MaxAssignments,  \* bound: role assignments ever recorded
    MaxEvents        \* bound: Events ever recorded

ContextAssumption ==
    /\ DefaultRole \in Roles
    /\ MaxAssignments \in Nat /\ MaxEvents \in Nat

NoContext == "none"
NoActor == "nobody"
Outsider == "other"      \* an Endpoint that takes part in none of the Contexts
AccessLevels == {"read", "contribute"}
Absent == [role |-> "none", access |-> "none", asg |-> 0]

VARIABLES
    cx,        \* the Context rows with their participants and subscriptions
    asg,       \* role assignments at a Context boundary, in order
    alive,     \* the active Actors
    ev,        \* Events, in order; a removed one is marked
    queue,     \* queue rows of the Events
    pend,      \* Events whose answer is awaited
    waiting,   \* Endpoints waiting for an answer
    wasRetired,\* Actors that were retired at some time
    removedAt  \* number of assignments when an Actor last left a Context

ctxVars == <<cx, asg, alive, ev, queue, pend, waiting, wasRetired, removedAt>>
historyVars == <<ev, queue, pend, waiting>>

ContextInit ==
    /\ cx = [c \in Ctxs |-> [st |-> NoContext, scope |-> FALSE, parent |-> NoContext,
                             mem |-> [a \in Actors |-> Absent], subs |-> {}, bound |-> FALSE]]
    /\ asg = << >>
    /\ alive = Actors
    /\ ev = << >> /\ queue = {} /\ pend = {} /\ waiting = {}
    /\ wasRetired = {}
    /\ removedAt = [c \in Ctxs |-> [a \in Actors |-> 0]]

Members(c) == {a \in Actors : cx[c].mem[a] # Absent}
EventsOf(c) == {e \in 1..Len(ev) : ev[e].c = c /\ ev[e].on}

-----------------------------------------------------------------------------
(* Role assignments.  An assignment list L and an identity in it stand for  *)
(* the retained rows; 0 is SQL's NULL.                                      *)

HoldsRole(L, c, a, r) == {n \in 1..Len(L) : L[n] = [c |-> c, a |-> a, role |-> r, on |-> TRUE]}

AssignRole(L, c, a, r) ==
    IF HoldsRole(L, c, a, r) # {}
    THEN [list |-> L, id |-> CHOOSE n \in HoldsRole(L, c, a, r) : TRUE]
    ELSE [list |-> Append(L, [c |-> c, a |-> a, role |-> r, on |-> TRUE]), id |-> Len(L) + 1]

RevokeRoleAssignment(L, n) == IF n = 0 THEN L ELSE [L EXCEPT ![n].on = FALSE]

ReplaceContextParticipantRole(L, c, a, r, previous) ==
    IF previous # 0 /\ previous \in HoldsRole(L, c, a, r)
    THEN [list |-> L, id |-> previous]
    ELSE AssignRole(RevokeRoleAssignment(L, previous), c, a, r)

\* Only an active Actor gets an assignment; for any other the row's
\* reference becomes NULL and what it referred to is left as it is.
EnsureContextRoleAssignment(L, c, a, r, previous) ==
    IF a \in alive
    THEN ReplaceContextParticipantRole(L, c, a, r, previous)
    ELSE [list |-> L, id |-> 0]

\* A participant row inserted with a role, unless the row is there already.
Joined(x, c, a, r, access) ==
    IF x.mem[a] # Absent THEN x
    ELSE LET g == EnsureContextRoleAssignment(x.list, c, a, r, 0)
         IN  [list |-> g.list,
              mem  |-> [x.mem EXCEPT ![a] = [role |-> r, access |-> access, asg |-> g.id]]]

AllJoined(c, mem, S, r) ==
    FoldSet(LAMBDA a, x : Joined(x, c, a, r, "contribute"), [list |-> asg, mem |-> mem], S)

\* The bound on assignments, for a step that leaves the list L.
WithinAssignments(L) == Len(L) <= MaxAssignments

-----------------------------------------------------------------------------
(* Membership and lifecycle.                                                *)

Inserted(c, S, r, scoped, p, bound) ==
    LET x == AllJoined(c, [a \in Actors |-> Absent], S, r)
    IN  /\ WithinAssignments(x.list)
        /\ asg' = x.list
        /\ cx' = [cx EXCEPT ![c] = [st |-> "active", scope |-> scoped, parent |-> p,
                                    mem |-> x.mem, subs |-> {}, bound |-> bound]]
        /\ UNCHANGED <<alive, historyVars, wasRetired, removedAt>>

CreateContext(c, S, r, scoped, p) ==
    /\ cx[c].st = NoContext
    /\ scoped \/ S # {}
    /\ p # NoContext => cx[p].st \in {"active", "archived"}
    /\ Inserted(c, S, r, scoped, p, FALSE)

\* A node of a Scope execution works in its Context: the first time the
\* Context is created with the Actor in it and bound to the node, after that
\* the Actor is added to the one bound if it is still active.
ResolveExecutionContext(c, a) ==
    \/ cx[c].st = NoContext /\ Inserted(c, {a}, DefaultRole, TRUE, NoContext, TRUE)
    \/ /\ cx[c].st = "active" /\ cx[c].bound /\ a \notin Members(c)
       /\ LET x == AllJoined(c, cx[c].mem, {a}, DefaultRole)
          IN  /\ WithinAssignments(x.list)
              /\ asg' = x.list
              /\ cx' = [cx EXCEPT ![c].mem = x.mem]
       /\ UNCHANGED <<alive, historyVars, wasRetired, removedAt>>

SetParticipantAccess(c, a, r, access) ==
    LET row == cx[c].mem[a]
        g == EnsureContextRoleAssignment(asg, c, a, r, row.asg)
    IN  /\ ~(row.role = r /\ row.access = access)
        /\ WithinAssignments(g.list)
        /\ asg' = g.list
        /\ cx' = [cx EXCEPT ![c].mem[a] = [role |-> r, access |-> access, asg |-> g.id]]

\* Every Actor has an Endpoint, so a retired one is a participant to choose.
SetContextParticipantAccess(c, a, r, access) ==
    /\ cx[c].st = "active"
    /\ SetParticipantAccess(c, a, r, access)
    /\ UNCHANGED <<alive, historyVars, wasRetired, removedAt>>

RemoveParticipantAccess(c, a) ==
    /\ ~(~cx[c].scope /\ Members(c) = {a})
    /\ asg' = RevokeRoleAssignment(asg, cx[c].mem[a].asg)
    /\ cx' = [cx EXCEPT ![c].mem[a] = Absent]

RemoveContextParticipant(c, a) ==
    /\ cx[c].st = "active" /\ a \in Members(c)
    /\ RemoveParticipantAccess(c, a)
    /\ removedAt' = [removedAt EXCEPT ![c][a] = Len(asg)]
    /\ UNCHANGED <<alive, historyVars, wasRetired>>

ApplyContextSubscriptions(c, entries, only) ==
    LET x == AllJoined(c, cx[c].mem, entries \union only, DefaultRole)
    IN  /\ cx[c].st = "active"
        /\ WithinAssignments(x.list)
        /\ asg' = x.list
        /\ cx' = [cx EXCEPT ![c].mem = x.mem, ![c].subs = @ \union entries]

PostSubscriptionsBatch(c, entries, only) ==
    /\ ApplyContextSubscriptions(c, entries, only)
    /\ UNCHANGED <<alive, historyVars, wasRetired, removedAt>>

SubscribeToContext(c, a) ==
    /\ cx[c].st = "active"
    /\ cx' = [cx EXCEPT ![c].subs = @ \union {a}]
    /\ UNCHANGED <<asg, alive, historyVars, wasRetired, removedAt>>

UnsubscribeFromContext(c, a) ==
    /\ cx[c].st # NoContext
    /\ cx' = [cx EXCEPT ![c].subs = @ \ {a}]
    /\ UNCHANGED <<asg, alive, historyVars, wasRetired, removedAt>>

\* Retiring an Actor retires its Endpoint: nothing is routed to it.
ResolveDestinations(c, to) ==
    (IF to # NoActor THEN {to} ELSE IF cx[c].st = "active" THEN cx[c].subs ELSE {}) \intersect alive

AssignContextScope(c) ==
    /\ cx[c].st # NoContext /\ ~cx[c].scope
    /\ Members(c) # {}
    /\ Len(ev) < MaxEvents
    /\ cx' = [cx EXCEPT ![c].scope = TRUE]
    /\ ev' = Append(ev, [c |-> c, asker |-> NoActor, on |-> TRUE])
    /\ queue' = queue \union {[e |-> Len(ev) + 1, to |-> a, st |-> "queued"]
                                 : a \in ResolveDestinations(c, NoActor)}
    /\ UNCHANGED <<asg, alive, pend, waiting, wasRetired, removedAt>>

ArchiveContext(c) == cx[c].st = "active" /\ cx' = [cx EXCEPT ![c].st = "archived"]

RestoreContext(c) == cx[c].st = "archived" /\ cx' = [cx EXCEPT ![c].st = "active"]

ContextLifecycle(c) ==
    /\ ArchiveContext(c) \/ RestoreContext(c)
    /\ UNCHANGED <<asg, alive, historyVars, wasRetired, removedAt>>

-----------------------------------------------------------------------------
(* Communication and history.                                               *)

\* An Event recorded in c for the Endpoints to; an asker waits for an answer.
Recorded(c, asker, to) ==
    /\ Len(ev) < MaxEvents
    /\ ev' = Append(ev, [c |-> c, asker |-> asker, on |-> TRUE])
    /\ queue' = queue \union {[e |-> Len(ev) + 1, to |-> a, st |-> "queued"] : a \in to}
    /\ pend' = IF asker = NoActor THEN pend ELSE pend \union {Len(ev) + 1}
    /\ waiting' = waiting \union ({asker} \ {NoActor})
    /\ UNCHANGED <<cx, asg, alive, wasRetired, removedAt>>

SubmitPrincipalContextCommunication(c, to) ==
    /\ cx[c].st = "active"
    /\ to # NoActor => to \in Members(c)
    /\ Recorded(c, NoActor, ResolveDestinations(c, to))

EmitDirectContextCommunication(c, to) ==
    /\ to # NoActor => to \in alive
    /\ SubmitPrincipalContextCommunication(c, to)

EmitContextCommunication(c, to) ==
    /\ cx[c].st = "active"
    /\ to # NoActor => to \in Members(c)
    /\ EmitDirectContextCommunication(c, to)

AskInContext(c, from, to) ==
    /\ cx[c].st = "active"
    /\ from \in Members(c) \intersect alive
    /\ from \notin waiting /\ from # to
    /\ to \in alive \union {Outsider}
    /\ Recorded(c, from, {to})

Moves == [queued |-> "active", active |-> "done"]

\* A queue row waits (reserved for a Delivery or not), its Delivery runs and
\* ends; the answer to a request is given by the turn that ends.
WorkMoves(q) ==
    /\ q \in queue /\ q.st # "done"
    /\ queue' = (queue \ {q}) \union {[q EXCEPT !.st = Moves[q.st]]}
    /\ IF q.st = "active" /\ q.e \in pend
       THEN pend' = pend \ {q.e} /\ waiting' = waiting \ {ev[q.e].asker}
       ELSE UNCHANGED <<pend, waiting>>
    /\ UNCHANGED <<cx, asg, alive, ev, wasRetired, removedAt>>

\* Clearing that leaves the answers awaited where they are.
Erased_KeepsPending(E) ==
    /\ queue' = {q \in queue : q.e \notin E}
    /\ pend' = pend

\* The history below is gone: the Events, their queue rows and the answers
\* awaited, whatever Delivery held them.
Erased(E) ==
    /\ queue' = {q \in queue : q.e \notin E}
    /\ pend' = pend \ E

DeliveryActive == \E q \in queue : q.st = "active"

\* The Events E are marked as removed in a list of Events.
Without(E) == [e \in DOMAIN ev |-> IF e \in E THEN [ev[e] EXCEPT !.on = FALSE] ELSE ev[e]]

ClearContextHistory(c) == ev' = Without(EventsOf(c)) /\ Erased(EventsOf(c))

\* Everything before one Event of the Context, or everything; a summary is
\* recorded in its place, and routed to nobody.
CompactContext(c, from) ==
    LET old == {e \in EventsOf(c) : e < from}
    IN  /\ ev' = Append(Without(old), [c |-> c, asker |-> NoActor, on |-> TRUE])
        /\ Erased(old)

PostClearHistory(c) ==
    /\ cx[c].st # NoContext /\ ~DeliveryActive
    /\ ClearContextHistory(c)
    /\ UNCHANGED <<cx, asg, alive, waiting, wasRetired, removedAt>>

PostCompact(c, from) ==
    /\ cx[c].st # NoContext /\ ~DeliveryActive
    /\ Len(ev) < MaxEvents
    /\ CompactContext(c, from)
    /\ UNCHANGED <<cx, asg, alive, waiting, wasRetired, removedAt>>

-----------------------------------------------------------------------------
(* Destruction.                                                             *)

\* The records that keep a Context's content: children that are not
\* tombstoned, the node bound to it, and queue rows and requests of its
\* Events, open or settled.
RetainedReferences(c) ==
    \/ \E d \in Ctxs : cx[d].parent = c /\ cx[d].st \in {"active", "archived"}
    \/ cx[c].bound
    \/ \E q \in queue : q.e \in EventsOf(c)
    \/ pend \intersect EventsOf(c) # {}

TombstoneContext(c) ==
    /\ asg' = [n \in DOMAIN asg |->
                 IF \E a \in Actors : cx[c].mem[a].asg = n THEN [asg[n] EXCEPT !.on = FALSE] ELSE asg[n]]
    /\ ClearContextHistory(c)
    /\ cx' = [cx EXCEPT ![c] = [@ EXCEPT !.st = "tombstoned", !.scope = FALSE, !.parent = NoContext,
                                         !.mem = [a \in Actors |-> Absent], !.subs = {}]]

GuardedTombstone(c) == ~RetainedReferences(c) /\ TombstoneContext(c)

DestroyContextPermanently(c) ==
    /\ cx[c].st \in {"active", "archived"}
    /\ GuardedTombstone(c)
    /\ removedAt' = [removedAt EXCEPT ![c] = [a \in Actors |-> Len(asg)]]
    /\ UNCHANGED <<alive, waiting, wasRetired>>

-----------------------------------------------------------------------------
(* What happens around a Context.                                           *)

SetActorStatus(a) ==
    /\ alive' = IF a \in alive THEN alive \ {a} ELSE alive \union {a}
    /\ wasRetired' = wasRetired \union (alive \intersect {a})
    /\ UNCHANGED <<cx, asg, historyVars, removedAt>>

\* The operation that revokes a role assignment accepts one of a Context.
RevokeRole(n) ==
    /\ asg[n].on
    /\ asg' = RevokeRoleAssignment(asg, n)
    /\ UNCHANGED <<cx, alive, historyVars, wasRetired, removedAt>>

Unattached == {p \in Ctxs \X Actors : cx[p[1]].mem[p[2]] # Absent /\ cx[p[1]].mem[p[2]].asg = 0}

Conflicting(p) == HoldsRole(asg, p[1], p[2], cx[p[1]].mem[p[2]].role) # {}

\* Every start of the Bus gives each participant row without an assignment
\* a new one, whatever the Actor's status.  Two active assignments of one
\* role are refused by the table, and with them the start.
BusStarts ==
    /\ Unattached # {}
    /\ \A p \in Unattached : ~Conflicting(p)
    /\ \E order \in {o \in [1..Cardinality(Unattached) -> Unattached] :
                       \A i, j \in DOMAIN o : i # j => o[i] # o[j]} :
         LET place(p) == Len(asg) + (CHOOSE i \in DOMAIN order : order[i] = p)
         IN  /\ asg' = asg \o [i \in DOMAIN order |->
                                 [c |-> order[i][1], a |-> order[i][2],
                                  role |-> cx[order[i][1]].mem[order[i][2]].role, on |-> TRUE]]
             /\ WithinAssignments(asg')
             /\ cx' = [c \in Ctxs |-> [cx[c] EXCEPT !.mem = [a \in Actors |->
                         IF <<c, a>> \in Unattached THEN [cx[c].mem[a] EXCEPT !.asg = place(<<c, a>>)]
                                                    ELSE cx[c].mem[a]]]]
    /\ UNCHANGED <<alive, historyVars, wasRetired, removedAt>>

\* Who takes part, in which role, and what the role rests on.
MembershipNext ==
    \/ \E c \in Ctxs, a \in Actors :
          \/ \E r \in Roles, l \in AccessLevels : SetContextParticipantAccess(c, a, r, l)
          \/ ResolveExecutionContext(c, a)
    \/ \E a \in Actors : SetActorStatus(a)
    \/ \E n \in DOMAIN asg : RevokeRole(n)
    \/ BusStarts

\* What is said, and what becomes of it.
HistoryNext ==
    \/ \E c \in Ctxs : \/ \E S, T \in SUBSET Actors : PostSubscriptionsBatch(c, S, T)
                       \/ \E a \in Actors : SubscribeToContext(c, a)
                       \/ \E a \in Actors : UnsubscribeFromContext(c, a)
                       \/ AssignContextScope(c)
                       \/ \E to \in Actors \union {NoActor} : EmitContextCommunication(c, to)
                       \/ \E a \in Actors, b \in Actors \union {Outsider} : AskInContext(c, a, b)
                       \/ PostClearHistory(c)
                       \/ \E e \in EventsOf(c) \union {Len(ev) + 1} : PostCompact(c, e)
    \/ \E q \in queue : WorkMoves(q)

LifecycleNext ==
    \E c \in Ctxs : \/ \E S \in SUBSET Actors, r \in Roles, scoped \in BOOLEAN,
                            p \in {NoContext} \union Ctxs : CreateContext(c, S, r, scoped, p)
                    \/ \E a \in Actors : RemoveContextParticipant(c, a)
                    \/ ContextLifecycle(c)
                    \/ DestroyContextPermanently(c)

ContextNext == LifecycleNext \/ MembershipNext \/ HistoryNext

ContextSpec == ContextInit /\ [][ContextNext]_ctxVars

-----------------------------------------------------------------------------
(* Properties.                                                              *)

\* An assignment is current evidence of a participant's role when the
\* participant's row names it and it stands (contextAssignmentIsCurrent).
Current(n) ==
    LET row == cx[asg[n].c].mem[asg[n].a]
    IN  /\ asg[n].on /\ asg[n].a \in alive
        /\ cx[asg[n].c].st = "active"
        /\ row.asg = n /\ row.role = asg[n].role

\* Role evidence recorded before a participant left a Context never counts
\* as current again, not even when the participant comes back in the same
\* role: the removal revoked the assignment and a return records a new one
\* (removeParticipantAccess, tombstoneContext; Actors that were never
\* retired meanwhile).
EvidenceEnds ==
    \A n \in DOMAIN asg : Current(n) /\ asg[n].a \notin wasRetired
                            => n > removedAt[asg[n].c][asg[n].a]

\* The same for every Actor.  It fails: the role of a participant whose Actor
\* is retired is changed without revoking the assignment of the old role.
EvidenceAlwaysEnds ==
    \A n \in DOMAIN asg : Current(n) => n > removedAt[asg[n].c][asg[n].a]

\* A start of the Bus finds no participant row without an assignment whose
\* role its Actor already holds: the table would refuse the second one and
\* the Bus would not come up.
BusCanStart == \A p \in Unattached : ~Conflicting(p)

\* What is queued, delivered or awaited names an Event that is still there,
\* through clearing, compaction and destruction of history
\* (clearContextHistory, compactContext, tombstoneContext).
WorkHasItsEvent ==
    /\ \A q \in queue : ev[q.e].on
    /\ \A e \in pend : ev[e].on

\* An Endpoint that waits for an answer has a request that can be answered.
\* It fails: clearing or compacting history removes the request and leaves
\* the asker waiting.
WaiterHasRequest == \A a \in waiting : \E e \in pend : ev[e].asker = a

\* A Context that was permanently destroyed is referred to by nothing that
\* lives: no child, no node bound to it, no work on its Events; and nobody
\* took part in it or listens to it since (destroyContextPermanently).
TombstoneIsFinal ==
    \A c \in Ctxs : cx[c].st = "tombstoned" =>
        /\ \A d \in Ctxs : cx[d].parent = c => cx[d].st = "tombstoned"
        /\ ~cx[c].bound
        /\ \A q \in queue : ev[q.e].c # c
        /\ \A e \in pend : ev[e].c # c
        /\ Members(c) = {} /\ cx[c].subs = {}

\* A Context that can be used has somebody in it or a Scope it belongs to,
\* however participants come and go.
ContextIsAnchored ==
    \A c \in Ctxs : cx[c].st \in {"active", "archived"} => cx[c].scope \/ Members(c) # {}
=============================================================================
