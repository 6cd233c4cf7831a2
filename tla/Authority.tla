----------------------------- MODULE Authority -----------------------------
(* Access to one Workspace: capability grants and what depends on them       *)
(* (capability-grants.ts), the sessions that pin them                        *)
(* (operation-authority-sessions.ts), the durable authority of an admitted   *)
(* person (client-identity-store.ts, identity-workspace-authority.ts), the   *)
(* passes of their browsers (browser-pass.ts, browser-connections.ts), the   *)
(* access of Actors (actor-authority-adoption.ts) and the approvals that     *)
(* wait on any of it (store.ts).  Targets of grants are left out.            *)
EXTENDS Integers, Sequences, FiniteSets, SequencesExt

CONSTANTS
  People,         \* the identities that can be admitted
  Bots,           \* the Actors of the Workspace
  MaxGrants,      \* bound on the grants ever issued
  MaxSessions,    \* bound on the authority sessions that are not revoked
  MaxPasses,      \* bound on the browser passes ever issued
  MaxTime,        \* bound on the clock
  Lifetimes       \* the expiries a caller may ask for; Forever is until revoked

Forever == MaxTime + 1

ASSUME AuthorityAssumption ==
  /\ People \cap Bots = {} /\ IsFiniteSet(Bots)
  /\ {"floe", "host", "none"} \cap (People \cup Bots) = {}
  /\ {MaxGrants, MaxSessions, MaxPasses, MaxTime} \subseteq Nat
  /\ Lifetimes \subseteq 1 .. Forever

VARIABLES
  now,            \* the clock
  grants,         \* capability_grants with their delegations, oldest first
  sessions,       \* operation_authority_sessions; a revoked one is as good as none
  authority,      \* identity_workspace_authorities: the row of each person
  admitted,       \* the people admitted and not revoked
  members,        \* client_identity_workspaces
  passes,         \* browser_passes
  pairing,        \* BrowserConnections.pending, in memory
  waiting,        \* the pending approval requests, each by the grants it would use
  defined         \* the capability_grant_ids of each Actor's current definition

authVars == <<now, grants, sessions, authority, admitted, members, passes, pairing,
              waiting, defined>>

AllOps == {"use", "delegate"}     \* an ordinary operation; capability.grant.delegate
AskedOps == {AllOps, {"use"}}     \* the sets of operations a caller asks for
GrantIds == DOMAIN grants
Granted(prin, issuer, ops, exp, src, perm, only) ==
  [prin |-> prin, issuer |-> issuer, ops |-> ops, exp |-> exp, src |-> src, perm |-> perm,
   only |-> only, revoked |-> FALSE]

NoSession == [prin |-> "none", gids |-> {}, exp |-> 0, pass |-> 0, person |-> "none"]
Session(prin, gids, exp, pass, person) ==
  [prin |-> prin, gids |-> gids, exp |-> exp, pass |-> pass, person |-> person]

(* Every Actor starts with access that Floe issued on nobody's behalf. *)
AuthorityInit ==
  /\ now = 0 /\ sessions = [s \in 1 .. MaxSessions |-> NoSession] /\ passes = <<>> /\ pairing = "none" /\ waiting = {}
  /\ grants = [i \in 1 .. Cardinality(Bots) |->
                 Granted(SetToSeq(Bots)[i], "floe", AllOps, 1, 0, 0, FALSE)]
  /\ defined = [b \in Bots |-> {i \in 1 .. Cardinality(Bots) : SetToSeq(Bots)[i] = b}]
  /\ authority = [p \in People |-> [st |-> "none", root |-> 0]]
  /\ admitted = {} /\ members = {}

-----------------------------------------------------------------------------
(* The grants.                                                               *)

(* grantReferenceFailure is null *)
ReferenceHolds(g, prin) ==
  grants[g].prin = prin /\ ~grants[g].revoked /\ grants[g].exp > now

(* Mutant: only the grant's own source is looked at. *)
DelegationIsActive_Shallow(g) ==
  grants[g].src # 0 => ReferenceHolds(grants[g].src, grants[g].issuer)

(* A grant's source and its delegation permission are older than it is. *)
DelegationIsActive(g) ==
  LET active[i \in GrantIds] ==
        grants[i].src # 0 => \A p \in {grants[i].src, grants[i].perm} :
                                ReferenceHolds(p, grants[i].issuer) /\ active[p]
  IN  active[g]

IsActiveGrant(g) == ReferenceHolds(g, grants[g].prin) /\ DelegationIsActive(g)

EffectiveExpiry(g) ==
  LET ends[i \in GrantIds] ==
        LET own == grants[i].exp
            up == IF grants[i].src = 0 THEN {} ELSE {ends[grants[i].src], ends[grants[i].perm]}
        IN  CHOOSE e \in {own} \cup up : \A f \in {own} \cup up : e <= f
  IN  ends[g]

(* The grants in S and what was delegated from them or under their authority. *)
DependentGrantIds(S) ==
  LET lost[i \in GrantIds] ==
        i \in S \/ (grants[i].src # 0 /\ (lost[grants[i].src] \/ lost[grants[i].perm]))
  IN  {i \in GrantIds : lost[i]}

(* inspectSessionGrantIds and resolveSessionAuthority, at the request. *)
ActiveGrants(s) == {g \in sessions[s].gids : ReferenceHolds(g, sessions[s].prin)
                                               /\ DelegationIsActive(g)}
ApplicableGrants(s) == {g \in ActiveGrants(s) : ~grants[g].only}
Resolved(s) == UNION {grants[g].ops : g \in ApplicableGrants(s)}

(* verifyBearerToken *)
Live(s) == sessions[s].exp > now
LiveSessions == {s \in DOMAIN sessions : Live(s)}
FreeSlots == {s \in DOMAIN sessions : sessions[s] = NoSession}
Opened(session) ==        \* issueSession
  [sessions EXCEPT ![CHOOSE s \in FreeSlots : \A t \in FreeSlots : s <= t] = session]
ActsAs(prin, op) == \E s \in LiveSessions : sessions[s].prin = prin /\ op \in Resolved(s)

-----------------------------------------------------------------------------
(* Revocation.                                                               *)

Mark(G, S) == [i \in DOMAIN G |-> IF i \in S THEN [G[i] EXCEPT !.revoked = TRUE] ELSE G[i]]

(* browserPassStore.revoke: the pass, its grant and every session it minted. *)
PassesOf(G) == {i \in DOMAIN passes : passes[i].st = "active" /\ passes[i].grant \in G}
EndPasses(P) == [i \in DOMAIN passes |-> IF i \in P THEN [passes[i] EXCEPT !.st = "revoked", !.ses = 0]
                                          ELSE passes[i]]
EndSessions(S, P) ==
  [s \in DOMAIN sessions |->
     IF s \in S \/ sessions[s].pass \in P THEN NoSession ELSE sessions[s]]

(* revokeGrant on R with its hooks, and the passes P and the sessions S that *)
(* the caller ends: revokeWhereAuthorityEnded ends the passes whose access   *)
(* is gone, and settleApprovalsAfterRevocation the approvals waiting on it.  *)
Revoke(R, S, P) ==
  LET lost  == DependentGrantIds(R \cup {passes[i].grant : i \in P})
      stale == {i \in DOMAIN passes : passes[i].st = "active" /\ ~IsActiveGrant(passes[i].grant)}
      ended == P \cup PassesOf(lost) \cup (IF R \cup P # {} THEN stale ELSE {})
  IN  /\ grants' = Mark(grants, R \cup {passes[i].grant : i \in ended})
      /\ passes' = EndPasses(ended)
      /\ sessions' = EndSessions(S, ended)
      /\ waiting' = {w \in waiting : w \cap DependentGrantIds(R \cup {passes[i].grant : i \in ended}) = {}}

-----------------------------------------------------------------------------
(* People: admission, authentication and the end of their access.            *)

Root(p) == authority[p].root
Active(p) == authority[p].st = "active"       \* getActive: by status alone
SessionsOf(p) == {s \in DOMAIN sessions : sessions[s].person = p}

(* POST /v1/identities: admitIdentity, addWorkspaceMembership and            *)
(* ensureIdentityWorkspaceAuthority, which keeps an active row as it is.     *)
Admit(p, e) ==
  /\ e > now
  /\ admitted' = admitted \cup {p} /\ members' = members \cup {p}
  /\ IF Active(p)
       THEN UNCHANGED <<grants, authority>>
       ELSE /\ Len(grants) < MaxGrants
            /\ grants' = Append(grants, Granted(p, "host", AllOps, e, 0, 0, FALSE))
            /\ authority' = [authority EXCEPT ![p] = [st |-> "active", root |-> Len(grants) + 1]]
  /\ UNCHANGED <<now, sessions, passes, pairing, waiting, defined>>

(* POST /v1/identity/authenticate: a fresh challenge, a member, and an       *)
(* authority that is active and not expired.  The session is recorded.       *)
Authenticate(p) ==
  /\ p \in admitted /\ p \in members /\ Active(p) /\ grants[Root(p)].exp > now
  /\ FreeSlots # {} /\ IsActiveGrant(Root(p))
  /\ sessions' = Opened(Session(p, {Root(p)}, now + 1, 0, p))
  /\ UNCHANGED <<now, grants, authority, admitted, members, passes, pairing, waiting, defined>>

(* IdentityWorkspaceAuthorityStore.stop with on_revoked                      *)
(* (endIdentityWorkspaceAccess) of the store.                                *)
Stop(p) ==
  /\ Revoke({Root(p)}, SessionsOf(p), {})
  /\ authority' = [authority EXCEPT ![p].st = "revoked"]

RevokeIdentity(p) ==      \* DELETE /v1/clients/:identity_id
  /\ p \in admitted /\ admitted' = admitted \ {p}
  /\ IF Active(p) THEN Stop(p) ELSE UNCHANGED <<grants, passes, sessions, waiting, authority>>
  /\ UNCHANGED <<now, members, pairing, defined>>

EndMembership(p) ==       \* DELETE /v1/clients/:identity_id/workspaces/:workspace_id
  /\ p \in members /\ members' = members \ {p}
  /\ IF Active(p) THEN Stop(p) ELSE UNCHANGED <<grants, passes, sessions, waiting, authority>>
  /\ UNCHANGED <<now, admitted, pairing, defined>>

GiveUp(p) ==              \* identity.workspace-authority.revoke
  /\ ActsAs(p, "use") /\ Active(p) /\ Stop(p)
  /\ UNCHANGED <<now, admitted, members, pairing, defined>>

RevokeOneSession(s) ==    \* DELETE .../sessions/:authority_session_id
  /\ s \in LiveSessions /\ sessions[s].person # "none"
  /\ sessions' = EndSessions({s}, {})
  /\ UNCHANGED <<now, grants, authority, admitted, members, passes, pairing, waiting, defined>>

(* identity.workspace-authority.replace: a root within the old one, issued   *)
(* before the old one stops; the person's sessions end with the old root.    *)
Replace(p, ops, e) ==
  LET old == Root(p)
      lost == DependentGrantIds({old})
      ended == PassesOf(lost)
  IN  /\ ActsAs(p, "use") /\ Active(p) /\ Len(grants) < MaxGrants
      /\ ops \subseteq grants[old].ops /\ now < e /\ e <= grants[old].exp
      /\ grants' = Append(Mark(grants, {old} \cup {passes[i].grant : i \in ended}),
                          Granted(p, p, ops, e, 0, 0, FALSE))
      /\ authority' = [authority EXCEPT ![p].root = Len(grants) + 1]
      /\ passes' = EndPasses(ended) /\ sessions' = EndSessions(SessionsOf(p), ended)
      /\ waiting' = {w \in waiting : w \cap lost = {}}
      /\ UNCHANGED <<now, admitted, members, pairing, defined>>

-----------------------------------------------------------------------------
(* Actors: delegation, adoption and the sessions of their turns.             *)

Permissions(s) == {g \in ApplicableGrants(s) : "delegate" \in grants[g].ops}

(* capability.grant.delegate: a source and a permission that are active now, *)
(* both of this session, the permission that lasts longest; no more          *)
(* operations or time than they have.                                        *)
Delegate(s, b, src, perm, ops, only, e) ==
  /\ s \in LiveSessions /\ Len(grants) < MaxGrants
  /\ src \in ActiveGrants(s) /\ perm \in Permissions(s)
  /\ \A q \in Permissions(s) : grants[q].exp <= grants[perm].exp
  /\ ops \subseteq grants[src].ops
  /\ now < e /\ e <= grants[src].exp /\ e <= grants[perm].exp
  /\ grants' = Append(grants, Granted(b, sessions[s].prin, ops, e, src, perm, only))
  /\ UNCHANGED <<now, sessions, authority, admitted, members, passes, pairing, waiting, defined>>

Withdraw(s, g) ==         \* capability.grant.revoke, by whoever delegated it
  /\ s \in LiveSessions /\ "use" \in Resolved(s)
  /\ grants[g].src # 0 /\ grants[g].issuer = sessions[s].prin /\ grants[g].prin \in Bots
  /\ ~grants[g].revoked /\ Revoke({g}, {}, {})
  /\ UNCHANGED <<now, authority, admitted, members, pairing, defined>>

(* A published definition names the grants of its own Actor. *)
Define(b, g) ==
  /\ grants[g].prin = b /\ g \notin defined[b]
  /\ defined' = [defined EXCEPT ![b] = @ \cup {g}]
  /\ UNCHANGED <<now, grants, sessions, authority, admitted, members, passes, pairing, waiting>>

(* movableGrants: live, issued by Floe, on nobody's root. *)
Movable(b) == {g \in defined[b] : grants[g].src = 0 /\ grants[g].issuer = "floe" /\ IsActiveGrant(g)}

(* actor.access.adopt: the access moves onto the person's root, or an Actor  *)
(* with none gets the default; the definition follows in the same savepoint. *)
Adopt(p, b) ==
  LET moved == Movable(b)
      ops == IF moved # {} THEN UNION {grants[g].ops : g \in moved} ELSE {"use"}
      kept == ops \cap grants[Root(p)].ops
      next == Append(grants, Granted(b, p, kept, Forever, Root(p), Root(p), FALSE))
      lost == DependentGrantIds(moved)
  IN  /\ ActsAs(p, "use") /\ Active(p) /\ Cardinality(moved) <= 1
      /\ moved # {} \/ \A g \in defined[b] : ~IsActiveGrant(g)
      /\ Len(grants) < MaxGrants /\ IsActiveGrant(Root(p))      \* issueDependentGrant
      /\ grants' = Mark(next, moved)
      /\ defined' = [defined EXCEPT ![b] = (@ \ moved) \cup {Len(grants) + 1}]
      /\ waiting' = {w \in waiting : w \cap lost = {}}
      /\ UNCHANGED <<now, sessions, authority, admitted, members, passes, pairing>>

(* prepareRuntimeDelivery: a turn's session pins what the definition names   *)
(* and is live.                                                              *)
StartTurn(b) ==
  LET live == {g \in defined[b] : ReferenceHolds(g, b) /\ DelegationIsActive(g)}
  IN  /\ live # {} /\ FreeSlots # {}
      /\ sessions' = Opened(Session(b, live, now + 1, 0, "none"))
      /\ UNCHANGED <<now, grants, authority, admitted, members, passes, pairing, waiting, defined>>

(* A governed call waits for approval on the grants it would use; one at a   *)
(* time is enough, as requests are settled one by one.                       *)
AskApproval(s) ==
  /\ waiting = {} /\ s \in LiveSessions /\ "use" \in Resolved(s)
  /\ waiting' = waiting \cup {ApplicableGrants(s)}
  /\ UNCHANGED <<now, grants, sessions, authority, admitted, members, passes, pairing, defined>>

-----------------------------------------------------------------------------
(* Browsers: pairing, and the pass that outlives the process.                *)

Pair ==                   \* start
  /\ pairing = "none" /\ Len(passes) < MaxPasses /\ pairing' = "asked"
  /\ UNCHANGED <<now, grants, sessions, authority, admitted, members, passes, waiting, defined>>

(* browser.pass.approve: a dependent of the person's root. *)
Approve(p, ops, e) ==
  /\ pairing = "asked" /\ ActsAs(p, "use") /\ Active(p)
  /\ Len(grants) < MaxGrants /\ IsActiveGrant(Root(p))
  /\ ops \subseteq grants[Root(p)].ops
  /\ now < e /\ (e # Forever => e <= EffectiveExpiry(Root(p)))
  /\ grants' = Append(grants, Granted(p, p, ops, e, Root(p), Root(p), FALSE))
  /\ passes' = Append(passes, [grant |-> Len(grants) + 1, by |-> p, st |-> "active",
                               claimed |-> FALSE, ses |-> 0])
  /\ pairing' = "approved"
  /\ UNCHANGED <<now, sessions, authority, admitted, members, waiting, defined>>

Claim ==                  \* the approved pass is the newest
  /\ pairing = "approved" /\ pairing' = "none"
  /\ passes' = [passes EXCEPT ![Len(passes)].claimed = TRUE]
  /\ UNCHANGED <<now, grants, sessions, authority, admitted, members, waiting, defined>>

(* use: the cookie of a claimed pass, answered with the pass's session. *)
UsePass(i) ==
  LET pass == passes[i]
      ends == EffectiveExpiry(pass.grant)
      next == Session(pass.by, {pass.grant}, IF ends < now + 1 THEN ends ELSE now + 1, i, "none")
  IN  /\ pass.st = "active" /\ pass.claimed
      /\ IF ~IsActiveGrant(pass.grant) THEN Revoke({}, {}, {i})
         ELSE /\ pass.ses # 0 => ~Live(pass.ses)
              /\ pass.ses = 0 => FreeSlots # {}
              /\ sessions' = IF pass.ses = 0 THEN Opened(next) ELSE [sessions EXCEPT ![pass.ses] = next]
              /\ passes' = IF pass.ses # 0 THEN passes
                           ELSE [passes EXCEPT ![i].ses = CHOOSE s \in FreeSlots : \A t \in FreeSlots : s <= t]
              /\ UNCHANGED <<grants, waiting>>
      /\ UNCHANGED <<now, authority, admitted, members, pairing, defined>>

EndPass(i) ==             \* browser.pass.revoke, or the browser's disconnect
  /\ passes[i].st = "active" /\ Revoke({}, {}, {i})
  /\ pairing' = IF pairing = "approved" /\ i = Len(passes) THEN "none" ELSE pairing
  /\ UNCHANGED <<now, authority, admitted, members, defined>>

(* prune: a connection five minutes old is forgotten, its pass never claimed. *)
Prune ==
  /\ pairing # "none" /\ pairing' = "none"
  /\ IF pairing = "approved" /\ passes[Len(passes)].st = "active"
       THEN Revoke({}, {}, {Len(passes)})
       ELSE UNCHANGED <<grants, sessions, passes, waiting>>
  /\ UNCHANGED <<now, authority, admitted, members, defined>>

(* A restart: the memory is gone, and revokeUnclaimed ends what no cookie can *)
(* reach.                                                                     *)
Restart ==
  LET unclaimed == {i \in DOMAIN passes : passes[i].st = "active" /\ ~passes[i].claimed}
      kept == [i \in DOMAIN passes |-> [passes[i] EXCEPT !.ses = 0]]
  IN  /\ pairing # "none" \/ passes # kept
      /\ pairing' = "none"
      /\ grants' = Mark(grants, {passes[i].grant : i \in unclaimed})
      /\ passes' = [i \in DOMAIN passes |-> IF i \in unclaimed THEN [kept[i] EXCEPT !.st = "revoked"] ELSE kept[i]]
      /\ sessions' = EndSessions({}, unclaimed)
      /\ UNCHANGED <<now, authority, admitted, members, waiting, defined>>

TimePasses ==
  /\ now < MaxTime /\ now' = now + 1
  /\ UNCHANGED <<grants, sessions, authority, admitted, members, passes, pairing, waiting, defined>>

-----------------------------------------------------------------------------
PersonSteps ==
  \E p \in People :
     \/ \E e \in Lifetimes : Admit(p, e)
     \/ Authenticate(p) \/ RevokeIdentity(p) \/ EndMembership(p) \/ GiveUp(p)
     \/ \E ops \in AskedOps, e \in Lifetimes : Replace(p, ops, e) \/ Approve(p, ops, e)
     \/ \E b \in Bots : Adopt(p, b)

SessionSteps ==
  \E s \in DOMAIN sessions :
     \/ RevokeOneSession(s) \/ AskApproval(s)
     \/ \E g \in GrantIds : Withdraw(s, g)
     \/ \E b \in Bots, src, perm \in sessions[s].gids, ops \in AskedOps, only \in BOOLEAN :
          \E e \in Lifetimes \cup {grants[src].exp} : Delegate(s, b, src, perm, ops, only, e)

AuthorityNext ==
  \/ PersonSteps \/ SessionSteps
  \/ \E b \in Bots : StartTurn(b) \/ (\E g \in GrantIds : Define(b, g))
  \/ \E i \in DOMAIN passes : UsePass(i) \/ EndPass(i)
  \/ Pair \/ Claim \/ Prune \/ Restart \/ TimePasses

AuthoritySpec == AuthorityInit /\ [][AuthorityNext]_authVars

-----------------------------------------------------------------------------
(* Properties.                                                               *)

(* The grants that g rests on, itself included, by the delegation rows.      *)
RestsOn(g) == {a \in GrantIds : g \in DependentGrantIds({a})}

(* Whatever a live session may do was held, and is still held, by every      *)
(* grant up to the root it came from: delegation narrows, and revoking or    *)
(* outliving any link ends the whole chain (resolveSessionAuthority).        *)
ActsWithinChain ==
  \A s \in LiveSessions : \A op \in Resolved(s) :
     \E g \in sessions[s].gids : op \in grants[g].ops /\
        \A a \in RestsOn(g) : /\ ~grants[a].revoked /\ grants[a].exp > now
                              /\ grants[a].src # 0 => grants[a].ops \subseteq grants[grants[a].src].ops

(* A browser pass ends with the access it rests on, whoever ended it, and    *)
(* with it every session that it minted in this process or an earlier one    *)
(* (revokeWhereAuthorityEnded, revokeSessionsForInteraction).                *)
PassesEndWithAuthority ==
  \A i \in DOMAIN passes :
     /\ passes[i].st = "active" => \A a \in RestsOn(passes[i].grant) : ~grants[a].revoked
     /\ passes[i].st = "revoked" =>
          /\ grants[passes[i].grant].revoked
          /\ \A s \in LiveSessions : sessions[s].pass # i

(* A person's session never outlives the authority it was minted on: after a *)
(* narrowing, a removal or a revocation it is over, and a new admission does *)
(* not bring it back (endIdentityWorkspaceAccess).                           *)
SessionsEndWithAuthority ==
  \A s \in LiveSessions : sessions[s].person # "none" =>
     Active(sessions[s].person) /\ sessions[s].gids = {Root(sessions[s].person)}

(* No approval waits on access that was taken away, at any distance          *)
(* (settleApprovalsAfterRevocation).                                         *)
ApprovalsRestOnAccess ==
  \A w \in waiting : \A g \in w : \A a \in RestsOn(g) : ~grants[a].revoked

(* Whatever a live session may do is still held by every grant up to the     *)
(* root of its delegation; browser passes, the sessions of people and        *)
(* pending approvals end with the access they rest on, whoever took it away  *)
(* (resolveSessionAuthority and endIdentityWorkspaceAccess).                 *)
AccessIsHeld ==
  /\ ActsWithinChain /\ PassesEndWithAuthority
  /\ SessionsEndWithAuthority /\ ApprovalsRestOnAccess
=============================================================================
