-------------------------- MODULE RuntimeBindings --------------------------
(***************************************************************************)
(* Which Endpoint serves which Actor, on which runtime, and how the Bus    *)
(* lists it: the bindings of runtime-profiles.ts and their operations, the *)
(* Endpoint rows of store.ts, the reconciliation of bindings with a        *)
(* credential, the one-step set-up of an Actor and the operator's Actor.   *)
(*                                                                         *)
(* One Workspace, one published runtime profile revision and one credential*)
(* it names.  An Actor's own id is its default address.  The microtask that*)
(* follows a binding change runs before any other request and is part of   *)
(* the action that changed the binding.                                    *)
(***************************************************************************)
EXTENDS Integers, FiniteSets, Sequences

CONSTANTS
  ActorIds,       \* the Actors that may be created
  OperatorId,     \* the one the Bus seeds when a Workspace is registered
  FreeAddresses,  \* addresses that are no Actor's id
  MaxBinds        \* bound on the bindings ever made

BindingAssumption ==
  /\ OperatorId \in ActorIds
  /\ ActorIds \cap FreeAddresses = {}
  /\ MaxBinds \in Nat

VARIABLES
  actor,      \* actor[a]: its status and whether a definition is published
  bound,      \* bound[a]: the current binding of a, number 0 when there is none
  endpoint,   \* endpoint[e]: its Bridge and the status it is listed with
  profile,    \* status of the runtime profile
  secret,     \* whether the credential the profile names is connected
  access,     \* the Actors whose definition holds the grant to use it
  legacy,     \* the Endpoints, and "workspace", with a configured model
  binds       \* the number of bindings made so far

bindVars == <<actor, bound, endpoint, profile, secret, access, legacy, binds>>

Addresses == ActorIds \cup FreeAddresses
NoModel   == "profile"
Models    == {NoModel, "own"}
Bare      == [id |-> 0, ep |-> "none", model |-> NoModel, st |-> "none", why |-> {}]
NoEndpoint == [bridge |-> FALSE, st |-> "absent"]
Available == {"idle", "waiting", "queued", "runtime_unconfigured"}

BindingInit ==
  /\ actor    = [a \in ActorIds |-> [st |-> "none", pub |-> FALSE]]
  /\ bound    = [a \in ActorIds |-> Bare]
  /\ endpoint = [e \in Addresses |-> NoEndpoint]
  /\ profile  = "active"
  /\ secret   = FALSE
  /\ access   = {}
  /\ legacy   = {}
  /\ binds    = 0

(* --- Reading a state: the tables are passed, so that one handler can      *)
(* --- read what an earlier part of it wrote.                               *)

IsBound(b, a)      == b[a].id # 0
BoundTo(b, e)      == {a \in ActorIds : IsBound(b, a) /\ b[a].ep = e}
Retired(A, a)      == a \in ActorIds /\ A[a].st = "retired"

(* Several Actors cannot be bound to one address, see BoundOnce; the query  *)
(* takes the latest.                                                        *)
CurrentActorBindingForEndpoint(b, e) ==
  CHOOSE a \in BoundTo(b, e) : \A o \in BoundTo(b, e) : b[o].id <= b[a].id

RuntimeConfigurationStatus(A, b, e, fallback) ==
  IF BoundTo(b, e) = {} THEN fallback
  ELSE LET a == CurrentActorBindingForEndpoint(b, e)
       IN CASE A[a].st = "retired"      -> "retired"
            [] b[a].st # "resolved"     -> "runtime_unconfigured"
            [] fallback = "runtime_unconfigured" -> "idle"
            [] OTHER                    -> fallback

EndpointActorIds(b, e) ==
  IF BoundTo(b, e) = {} THEN {e} ELSE {CurrentActorBindingForEndpoint(b, e)}

EndpointServesRetiredActor(A, b, e) == \E a \in EndpointActorIds(b, e) : Retired(A, a)

(* The table of Endpoints after a status is reported or derived for e.      *)
UpdateEndpointStatus(A, b, E, e, st) ==
  IF E[e].st = "absent" THEN E
  ELSE [E EXCEPT ![e].st =
          IF st \in Available /\ EndpointServesRetiredActor(A, b, e) THEN "retired" ELSE st]

(* What the listing of a changed binding does to the old and the new        *)
(* address: only Endpoints a Bridge attached and that do no work change.    *)
BindingChanged(A, b, E, eps) ==
  [e \in Addresses |->
     LET idle == /\ e \in eps /\ E[e].bridge
                 /\ E[e].st \in {"idle", "waiting", "runtime_unconfigured"}
         st   == IF BoundTo(b, e) = {} THEN "runtime_unconfigured"
                 ELSE RuntimeConfigurationStatus(A, b, e, E[e].st)
     IN IF idle /\ st # E[e].st THEN UpdateEndpointStatus(A, b, E, e, st)[e] ELSE E[e]]

ReflectActorStatusOnEndpoints(A, b, E, a) ==
  LET eps == {a} \cup (IF IsBound(b, a) THEN {b[a].ep} ELSE {})
  IN [e \in Addresses |->
        CASE e \notin eps \/ E[e].st = "absent" -> E[e]
          [] A[a].st = "retired" -> [E[e] EXCEPT !.st = "retired"]
          [] A[a].st # "retired" /\ E[e].st = "retired" ->
               UpdateEndpointStatus(A, b, E, e, RuntimeConfigurationStatus(A, b, e, "idle"))[e]
          [] OTHER -> E[e]]

(* --- Bindings. *)

NormalizedReasons(st, why) ==
  /\ st = "unresolved" => why # {}
  /\ st = "resolved" => why = {}

OwnedByAnother(A, b, a, e) ==
  \/ BoundTo(b, e) \ {a} # {}
  \/ e \in ActorIds \ {a} /\ A[e].st # "none"

(* The mistake: nobody asks whose the address is.                           *)
CanBindActor_AnyAddress(A, b, a, e, st, why) ==
  A[a].st = "active" /\ NormalizedReasons(st, why)

CanBindActor(A, b, a, e, st, why) ==
  /\ A[a].st = "active"
  /\ NormalizedReasons(st, why)
  /\ ~ OwnedByAnother(A, b, a, e)

BoundAs(b, a, n, e, model, st, why) ==
  [b EXCEPT ![a] = [id |-> n, ep |-> e, model |-> model, st |-> st, why |-> why]]

(* bindActor with the listing that follows it.                              *)
BindActor(a, e, model, st, why) ==
  /\ binds < MaxBinds
  /\ CanBindActor(actor, bound, a, e, st, why)
  /\ bound' = BoundAs(bound, a, binds + 1, e, model, st, why)
  /\ binds' = binds + 1
  /\ endpoint' = BindingChanged(actor, bound', endpoint,
                                {e} \cup (IF IsBound(bound, a) THEN {bound[a].ep} ELSE {}))

BindingInputs == {<<"resolved", {}>>, <<"disabled", {}>>}
                   \cup {<<"unresolved", {r}>> : r \in {"credential", "other"}}

(* A fresh binding of an Actor that has none; its own id unless an address  *)
(* is named.                                                                *)
BindUnboundActor(a, e, model, in) ==
  /\ ~ IsBound(bound, a)
  /\ profile = "active"
  /\ BindActor(a, e, model, in[1], in[2])

CreateActorRuntimeBinding ==
  /\ \E a \in ActorIds, e \in Addresses, model \in Models, in \in BindingInputs :
       /\ actor[a].st = "active"
       /\ BindUnboundActor(a, e, model, in)
  /\ UNCHANGED <<actor, profile, secret, access, legacy>>

(* Replacing the current binding; an input that names no address, or no     *)
(* model, keeps the previous one.                                           *)
ReplaceActorRuntimeBinding ==
  /\ profile = "active"
  /\ \E a \in ActorIds, in \in BindingInputs :
       /\ IsBound(bound, a)
       /\ \E e \in Addresses, model \in Models :
            /\ e \in FreeAddresses \cup {a, bound[a].ep}
            /\ BindActor(a, e, model, in[1], in[2])
  /\ UNCHANGED <<actor, profile, secret, access, legacy>>

(* --- Actors, as far as their addresses go. *)

(* An id that is taken is refused; whether another Actor is bound to it as  *)
(* an address is not asked.                                                 *)
CreateActor(a) ==
  /\ actor[a].st = "none"
  /\ actor' = [actor EXCEPT ![a].st = "active"]
  /\ UNCHANGED <<bound, endpoint, profile, secret, access, legacy, binds>>

PublishActor(a) ==
  /\ actor[a].st # "none" /\ ~ actor[a].pub
  /\ actor' = [actor EXCEPT ![a].pub = TRUE]
  /\ UNCHANGED <<bound, endpoint, profile, secret, access, legacy, binds>>

SetActorStatus(a, st) ==
  /\ actor[a].st \in {"active", "retired"} \ {st}
  /\ actor' = [actor EXCEPT ![a].st = st]
  /\ endpoint' = ReflectActorStatusOnEndpoints(actor', bound, endpoint, a)
  /\ UNCHANGED <<bound, profile, secret, access, legacy, binds>>

SetUp(a, model) ==
  LET A == [actor EXCEPT ![a] = [st |-> "active", pub |-> TRUE]]
  IN /\ actor[a].st = "none"
     /\ profile = "active" /\ binds < MaxBinds
     /\ CanBindActor(A, bound, a, a, "resolved", {})
     /\ actor' = A
     /\ bound' = BoundAs(bound, a, binds + 1, a, model, "resolved", {})
     /\ binds' = binds + 1
     /\ endpoint' = BindingChanged(A, bound', endpoint, {a})

(* Create, bind, give access and publish: all of it or, when any part is    *)
(* refused, none of it.                                                     *)
SetupActorOperation ==
  \E a \in ActorIds, model \in Models, S \in {{}, {"credential"}} :
    /\ SetUp(a, model)
    /\ access' = IF S = {} THEN access ELSE access \cup {a}
    /\ UNCHANGED <<profile, secret, legacy>>

SetProfileStatus ==
  /\ profile' \in {"active", "retired"} \ {profile}
  /\ UNCHANGED <<actor, bound, endpoint, secret, access, legacy, binds>>

(* --- Endpoint rows. *)

(* Registration by the Bridge keeps what is known of running work and asks  *)
(* the binding; registration by the host, without a Bridge, takes the       *)
(* status as given.                                                         *)
RegisteredAs(A, b, E, e, bridge, requested) ==
  LET reported == IF /\ bridge /\ E[e].bridge
                     /\ requested \in {"idle", "runtime_unconfigured"}
                     /\ E[e].st \in {"active", "waiting", "error", "retired"}
                  THEN E[e].st ELSE requested
      st == IF bridge /\ reported \in {"idle", "waiting", "runtime_unconfigured"}
            THEN RuntimeConfigurationStatus(A, b, e, reported) ELSE reported
  IN [bridge |-> bridge, st |-> st]

RegisterEndpoint(e, bridge, requested) ==
  /\ endpoint' = [endpoint EXCEPT ![e] =
                    RegisteredAs(actor, bound, endpoint, e, bridge, requested)]
  /\ UNCHANGED <<actor, bound, profile, secret, access, legacy, binds>>

(* Only the Bridge that attached an Endpoint reports on it.                 *)
ReportEndpointStatus(e, st) ==
  /\ endpoint[e].bridge
  /\ endpoint' = UpdateEndpointStatus(actor, bound, endpoint, e, st)
  /\ UNCHANGED <<actor, bound, profile, secret, access, legacy, binds>>

RetireEndpoint(e) ==
  /\ endpoint[e].st \in {"idle", "offline", "error", "runtime_unconfigured", "retired"}
  /\ endpoint' = [endpoint EXCEPT ![e] = [bridge |-> FALSE, st |-> "retired"]]
  /\ legacy' = legacy \ {e}
  /\ UNCHANGED <<actor, bound, profile, secret, access, binds>>

DeleteEndpoint(e) ==
  /\ endpoint[e].st # "absent"
  /\ endpoint' = [endpoint EXCEPT ![e] = NoEndpoint]
  /\ UNCHANGED <<actor, bound, profile, secret, access, legacy, binds>>

(* The operator's Actor: seeded once, its Endpoint row put back whenever it *)
(* is missing.                                                              *)
EnsureOperatorActor ==
  LET o == OperatorId
      E == [endpoint EXCEPT ![o] = [bridge |-> FALSE, st |-> "idle"]]
  IN \/ /\ actor[o].st = "none" /\ binds < MaxBinds
        /\ actor' = [actor EXCEPT ![o] = [st |-> "active", pub |-> TRUE]]
        /\ CanBindActor(actor', bound, o, o, "resolved", {})
        /\ bound' = BoundAs(bound, o, binds + 1, o, NoModel, "resolved", {})
        /\ binds' = binds + 1
        /\ endpoint' = E
        /\ UNCHANGED <<profile, secret, access, legacy>>
     \/ /\ actor[o].st # "none" /\ endpoint[o].st = "absent"
        /\ endpoint' = E
        /\ UNCHANGED <<actor, bound, profile, secret, access, legacy, binds>>

(* When the Bus opens, Endpoints of retired Actors are listed as retired.   *)
ListEndpointsOfRetiredActorsAsRetired ==
  /\ endpoint' = [e \in Addresses |->
       IF endpoint[e].st # "absent"
          /\ \E a \in ActorIds : /\ Retired(actor, a)
                                 /\ e = a \/ (IsBound(bound, a) /\ bound[a].ep = e)
       THEN [endpoint[e] EXCEPT !.st = "retired"] ELSE endpoint[e]]
  /\ UNCHANGED <<actor, bound, profile, secret, access, legacy, binds>>

(* --- The older per-Endpoint and per-Workspace runtime configuration. *)

HasModel(e, m) == {e, "workspace"} \cap m # {}

UpsertRuntimeBinding(k, withModel) ==
  /\ legacy' = IF withModel THEN legacy \cup {k} ELSE legacy \ {k}
  /\ endpoint' = [e \in Addresses |->
       IF /\ endpoint[e].st = "runtime_unconfigured"
          /\ e = k \/ (k = "workspace" /\ endpoint[e].bridge)
          /\ HasModel(e, legacy')
       THEN UpdateEndpointStatus(actor, bound, endpoint, e, "idle")[e] ELSE endpoint[e]]
  /\ UNCHANGED <<actor, bound, profile, secret, access, binds>>

ClearRuntimeBinding(k) ==
  /\ legacy' = legacy \ {k}
  /\ endpoint' = [e \in Addresses |->
       IF e = k \/ (k = "workspace" /\ endpoint[e].bridge)
       THEN UpdateEndpointStatus(actor, bound, endpoint, e, "runtime_unconfigured")[e]
       ELSE endpoint[e]]
  /\ UNCHANGED <<actor, bound, profile, secret, access, binds>>

(* --- The credential and the bindings that rest on it. *)

CredentialReasons(a, s, g) ==
  (bound[a].why \ {"credential", "authority"})
    \cup (IF ~ s THEN {"credential"} ELSE IF a \notin g THEN {"authority"} ELSE {})

(* The active Actors whose binding must change, given the credential s and  *)
(* the grants g.                                                            *)
OutOfDate(s, g) ==
  {a \in ActorIds : /\ actor[a].st = "active" /\ actor[a].pub
                    /\ IsBound(bound, a) /\ bound[a].st # "disabled"
                    /\ \/ bound[a].why # CredentialReasons(a, s, g)
                       \/ (bound[a].st = "resolved") # (CredentialReasons(a, s, g) = {})}

Resolution(why) == IF why = {} THEN "resolved" ELSE "unresolved"

(* The Actors are rebound one after the other in the order they were made,  *)
(* which is not kept here: any.  The first refusal of bindActor ends the    *)
(* walk.  No model is passed on.                                            *)
ReconcileCredentialBinding(s, g) ==
  LET late    == OutOfDate(s, g)
      refused == {a \in late : OwnedByAnother(actor, bound, a, bound[a].ep)}
  IN \E done \in SUBSET late :
       /\ IF refused = {} THEN done = late ELSE done \cap refused = {}
       /\ binds + Cardinality(done) <= MaxBinds
       /\ binds' = binds + Cardinality(done)
       /\ bound' = [a \in ActorIds |->
            IF a \in done
            THEN LET why == CredentialReasons(a, s, g)
                 IN [id |-> binds + Cardinality({o \in done : bound[o].id <= bound[a].id}),
                     ep |-> bound[a].ep, model |-> NoModel,
                     st |-> Resolution(why), why |-> why]
            ELSE bound[a]]
       /\ endpoint' = BindingChanged(actor, bound', endpoint, {bound[a].ep : a \in done})

(* Connecting, rotating, refreshing or disconnecting the credential.        *)
CredentialChanged(s) ==
  /\ secret' = s
  /\ ReconcileCredentialBinding(s, access)
  /\ UNCHANGED <<actor, profile, access, legacy>>

GrantRuntimeCredentialAccess(a) ==
  /\ actor[a].st = "active" /\ secret /\ a \notin access
  /\ access' = access \cup {a}
  /\ UNCHANGED <<actor, bound, endpoint, profile, secret, legacy, binds>>

RevokeRuntimeCredentialAccess(a) ==
  /\ a \in access
  /\ access' = access \ {a}
  /\ ReconcileCredentialBinding(secret, access')
  /\ UNCHANGED <<actor, profile, secret, legacy>>

(* --- What a Bridge is told to host, and what a Delivery is pinned to. *)

ListRuntimeEndpoints ==
  {a \in ActorIds :
     /\ actor[a].st = "active" /\ actor[a].pub
     /\ IsBound(bound, a) /\ bound[a].st # "disabled"
     /\ endpoint[bound[a].ep].st # "retired"
     /\ profile = "active"}

ResolveDeliveryRuntimePins(e) ==
  LET a == IF BoundTo(bound, e) # {} THEN CurrentActorBindingForEndpoint(bound, e) ELSE e
  IN IF /\ a \in ActorIds /\ IsBound(bound, a) /\ bound[a].st = "resolved"
        /\ actor[a].st = "active" /\ actor[a].pub
     THEN {a} ELSE {}

AddressNext ==
  \/ CreateActorRuntimeBinding
  \/ ReplaceActorRuntimeBinding
  \/ SetupActorOperation
  \/ EnsureOperatorActor
  \/ ListEndpointsOfRetiredActorsAsRetired
  \/ \E a \in ActorIds : CreateActor(a)
  \/ \E a \in ActorIds : PublishActor(a)
  \/ \E a \in ActorIds, st \in {"active", "retired"} : SetActorStatus(a, st)
  \/ \E e \in Addresses, br \in BOOLEAN, st \in {"idle", "runtime_unconfigured"} :
       RegisterEndpoint(e, br, st)
  \/ \E e \in Addresses, st \in {"idle", "waiting", "active", "error"} :
       ReportEndpointStatus(e, st)
  \/ \E e \in Addresses : RetireEndpoint(e)
  \/ \E e \in Addresses : DeleteEndpoint(e)

ReadinessNext ==
  \/ SetProfileStatus
  \/ \E k \in FreeAddresses \cup {"workspace"}, m \in BOOLEAN : UpsertRuntimeBinding(k, m)
  \/ \E k \in FreeAddresses \cup {"workspace"} : ClearRuntimeBinding(k)
  \/ \E s \in BOOLEAN : CredentialChanged(s)
  \/ \E a \in ActorIds : GrantRuntimeCredentialAccess(a)
  \/ \E a \in ActorIds : RevokeRuntimeCredentialAccess(a)

BindingNext == AddressNext \/ ReadinessNext

BindingSpec == BindingInit /\ [][BindingNext]_bindVars

(* --- Properties. *)

(* Two Actors a Bridge is told to host never share an Endpoint, so work     *)
(* sent to one is never pinned to the other's definition and runtime.       *)
HostedApart ==
  /\ \A a, b \in ListRuntimeEndpoints : bound[a].ep = bound[b].ep => a = b
  /\ \A a \in ListRuntimeEndpoints :
       bound[a].st = "resolved" => ResolveDeliveryRuntimePins(bound[a].ep) = {a}

(* store.ts: "A retired Actor is listed as retired, never as available".    *)
(* Whatever order bindings, retirements, registrations and reports come in, *)
(* an Endpoint that a Bridge attached for a retired Actor's binding is not  *)
(* available.                                                               *)
RetiredIsNotAvailable ==
  \A a \in ActorIds :
    Retired(actor, a) /\ IsBound(bound, a) /\ endpoint[bound[a].ep].bridge
      => endpoint[bound[a].ep].st \notin Available

(* runtime-profiles.ts: "An endpoint address is another Actor's when that   *)
(* Actor is currently bound to it or when it is that Actor's own ID".       *)
AddressHasOneOwner ==
  \A a, b \in ActorIds :
    IsBound(bound, a) /\ actor[b].st # "none" /\ bound[a].ep = b => a = b

(* An Actor's own model leaves its binding only when somebody rebinds the   *)
(* Actor, not because a credential was connected or rotated.                *)
ModelKept ==
  [][secret' # secret =>
       \A a \in ActorIds : bound'[a].model = bound[a].model]_bindVars

(* After a credential is disconnected no active Actor that was told of it   *)
(* stays resolved.                                                          *)
DisconnectedIsUnresolved ==
  [][secret /\ ~ secret' =>
       \A a \in ActorIds : actor[a].st = "active" /\ actor[a].pub
                             => bound'[a].st # "resolved"]_bindVars
=============================================================================
