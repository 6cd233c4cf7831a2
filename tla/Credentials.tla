---------------------------- MODULE Credentials ----------------------------
(* One SecretRef and the host's credential broker (credential-broker.ts):    *)
(* binding, use, rotation, refresh and revocation, each audited; the grants  *)
(* that permit them; the one-time ingress sessions that carry the material   *)
(* (credential-ingress.ts); the operations that ask for it                   *)
(* (credential-operations.ts) and the runtime's point of use (store.ts).     *)
EXTENDS Integers, Sequences, FiniteSets, SequencesExt

CONSTANTS
  Calls,        \* calls of the broker service, each made once
  Boundaries,   \* the authority boundaries that hold a grant for the SecretRef
  Owner,        \* the owner of the SecretRef: a boundary, or "host"
  Transfers     \* the ingress sessions that can be issued

CredentialAssumption == "host" \notin Boundaries /\ Owner \in Boundaries \cup {"host"}

VARIABLES
  ref,          \* secret_refs: the locator ("none" when unresolved) and the generation
  vault,        \* the broker: the call that wrote the material under a locator, or "none"
  audit,        \* secret_access_audit: the outcome of each call
  grant,        \* the boundaries whose capability grant is active
  ingress,      \* the ingress sessions, in memory
  call,         \* the calls, in memory
  tails,        \* mutationTails: the waiting mutations of a key, first come first served
  actor         \* the runtime binding of the Actor that uses the SecretRef

credVars == <<ref, vault, audit, grant, ingress, call, tails, actor>>

Locators == Calls         \* every bind makes a fresh one
Mutations == {"bind", "rotate", "refresh", "revoke"}
Reads == {"use", "health"}
NoCall == [act |-> "none", at |-> "none", pc |-> "idle", gen |-> 0, loc |-> "none"]

(* createSecretRef: unresolved until it is bound. *)
Created == [loc |-> "none", gen |-> 0]

CredentialInit ==
  /\ ref = Created
  /\ vault = [l \in Locators |-> "none"] /\ audit = [c \in Calls |-> "none"]
  /\ grant = Boundaries                                 \* attachGrantConstraint
  /\ ingress = [s \in Transfers |-> "none"]
  /\ call = [c \in Calls |-> NoCall]
  /\ tails = [b \in Boundaries |-> <<>>] /\ actor = "unresolved"

-----------------------------------------------------------------------------
(* Ingress sessions: issue, upload, revoke and expiry. *)

IssueSession(s) ==
  /\ ingress[s] = "none" /\ ingress' = [ingress EXCEPT ![s] = "awaiting_material"]
  /\ UNCHANGED <<ref, vault, audit, grant, call, tails, actor>>

Upload(s) ==
  /\ ingress[s] = "awaiting_material" /\ ingress' = [ingress EXCEPT ![s] = "ready"]
  /\ UNCHANGED <<ref, vault, audit, grant, call, tails, actor>>

EndSession(s) ==      \* revoke, or the expiry that requireActive finds
  /\ ingress[s] \in {"awaiting_material", "ready"} /\ ingress' = [ingress EXCEPT ![s] = "ended"]
  /\ UNCHANGED <<ref, vault, audit, grant, call, tails, actor>>

-----------------------------------------------------------------------------
(* The grants.                                                               *)

RevokeGrant(b) ==
  /\ b \in grant /\ grant' = grant \ {b}
  /\ UNCHANGED <<ref, vault, audit, ingress, call, tails, actor>>

(* inspectSecretAccess *)
AccessDenied(b, act) ==
  \/ b \notin grant
  \/ Owner # "host" /\ Owner # b
  \/ act = "bind" /\ ref.loc # "none"
  \/ act \notin {"bind", "health"} /\ ref.loc = "none"

-----------------------------------------------------------------------------
(* A call arrives. The operations check the expected revision and the grant, *)
(* and take the material of a bind or a rotation from an ingress session or  *)
(* from the legacy source; a runtime asks for use and refresh.               *)

(* runtimeCredentialRequest, and requestFor of an operation: without a grant  *)
(* of this boundary for this SecretRef the call is refused unaudited.         *)
HasGrant(b) == b \in grant /\ Owner \in {"host", b}

(* sourceMaterial: an ingress session is spent by the call that takes it. *)
SourceMaterial(act) ==
  \/ act \in {"bind", "rotate"}
     /\ \E s \in Transfers : ingress[s] = "ready" /\ ingress' = [ingress EXCEPT ![s] = "ended"]
  \/ UNCHANGED ingress

Ask(c, b, act) ==
  /\ call[c].pc = "idle" /\ HasGrant(b)
  /\ act = "bind" \/ ref.gen > 0
  /\ SourceMaterial(act)
  /\ call' = [call EXCEPT ![c] = [NoCall EXCEPT !.act = act, !.at = b, !.pc = "asked"]]
  /\ tails' = IF act \in Mutations THEN [tails EXCEPT ![b] = Append(@, c)] ELSE tails
  /\ UNCHANGED <<ref, vault, audit, grant, actor>>

(* serializeMutation: the tail of the boundary and the SecretRef. *)
Turn(c) ==
  /\ call[c].pc = "asked"
  /\ call[c].act \in Mutations => Head(tails[call[c].at]) = c

Released(c) == [tails EXCEPT ![call[c].at] = SelectSeq(@, LAMBDA d : d # c)]
Settle(c, outcome) ==     \* finishAudit, and the end of the call
  /\ audit' = [audit EXCEPT ![c] = outcome]
  /\ call' = [call EXCEPT ![c].pc = "ended"] /\ tails' = Released(c)

(* recordDeniedAudit *)
RecordDenied(c) == Settle(c, "denied")

(* inspectHealth answers for an unresolved SecretRef without the broker. *)
HealthKnown(c) == call[c].act = "health" /\ ref.loc = "none"

(* requireAccess and startAudit: the SecretRef is read once, here. *)
Begin(c) ==
  LET next == CASE call[c].act = "bind" -> "store" [] call[c].act = "revoke" -> "remove"
                [] OTHER -> "read"
  IN  /\ Turn(c)
      /\ IF AccessDenied(call[c].at, call[c].act) THEN RecordDenied(c)
         ELSE IF HealthKnown(c) THEN Settle(c, "succeeded")
         ELSE /\ audit' = [audit EXCEPT ![c] = "started"]
              /\ call' = [call EXCEPT ![c].pc = next, ![c].gen = ref.gen, ![c].loc = ref.loc]
              /\ UNCHANGED tails
      /\ UNCHANGED <<ref, vault, grant, ingress, actor>>

(* commitBinding and commitUnresolved: a compare and swap on the generation  *)
(* and the binding, with the audit in one savepoint.                         *)
Current(c) == ref.gen = call[c].gen /\ ref.loc = IF call[c].act = "bind" THEN "none" ELSE call[c].loc

Commit(c, loc) ==
  /\ ref' = [loc |-> loc, gen |-> ref.gen + 1]
  /\ audit' = [audit EXCEPT ![c] = "succeeded"]
  /\ call' = [call EXCEPT ![c].pc = "reconcile"] /\ tails' = Released(c)

-----------------------------------------------------------------------------
(* The broker's answers.                                                     *)

(* bindSecretRef: store, verify, commit; a failure removes what was stored.  *)
StoreMaterial(c) ==
  /\ call[c].pc = "store"
  /\ vault' = [vault EXCEPT ![c] = c] /\ call' = [call EXCEPT ![c].pc = "verify", ![c].loc = c]
  /\ UNCHANGED <<ref, audit, grant, ingress, tails, actor>>

VerifyAndCommit(c) ==
  /\ call[c].pc = "verify"
  /\ IF vault[c] = c /\ Current(c) THEN Commit(c, c)
     ELSE call' = [call EXCEPT ![c].pc = "undo"] /\ UNCHANGED <<ref, audit, tails>>
  /\ UNCHANGED <<vault, grant, ingress, actor>>

VerifyFails(c) ==
  /\ call[c].pc = "verify" /\ call' = [call EXCEPT ![c].pc = "undo"]
  /\ UNCHANGED <<ref, vault, audit, grant, ingress, tails, actor>>

(* Mutant: the material that was stored is left behind. *)
Undo_Leaves(c) ==
  /\ call[c].pc = "undo" /\ Settle(c, "failed")
  /\ UNCHANGED <<vault, ref, grant, ingress, actor>>

Undo(c) ==
  /\ call[c].pc = "undo" /\ vault' = [vault EXCEPT ![call[c].loc] = "none"] /\ Settle(c, "failed")
  /\ UNCHANGED <<ref, grant, ingress, actor>>

(* withSecret: a use or a health check reads the material; a replacement     *)
(* reads it before it is replaced. A refresh awaits the provider here.       *)
ReadMaterial(c) ==
  /\ call[c].pc = "read"
  /\ IF vault[call[c].loc] = "none"
     THEN Settle(c, IF call[c].act = "health" THEN "succeeded" ELSE "failed")
     ELSE IF call[c].act \in Reads THEN Settle(c, "succeeded")
     ELSE call' = [call EXCEPT ![c].pc = "replace"] /\ UNCHANGED <<audit, tails>>
  /\ UNCHANGED <<ref, vault, grant, ingress, actor>>

(* replaceSecret: replaceAtomic writes whatever the locator holds by now. *)
ReplaceMaterial(c) ==
  /\ call[c].pc = "replace"
  /\ vault' = [vault EXCEPT ![call[c].loc] = c] /\ call' = [call EXCEPT ![c].pc = "replaced"]
  /\ UNCHANGED <<ref, audit, grant, ingress, tails, actor>>

CommitReplacement(c) ==
  /\ call[c].pc = "replaced"
  /\ IF Current(c) THEN Commit(c, call[c].loc) ELSE Settle(c, "failed") /\ UNCHANGED ref
  /\ UNCHANGED <<vault, grant, ingress, actor>>

(* revokeSecretRef *)
RemoveMaterial(c) ==
  /\ call[c].pc = "remove"
  /\ vault' = [vault EXCEPT ![call[c].loc] = "none"] /\ call' = [call EXCEPT ![c].pc = "removed"]
  /\ UNCHANGED <<ref, audit, grant, ingress, tails, actor>>

CommitRevocation(c) ==
  /\ call[c].pc = "removed"
  /\ IF Current(c) THEN Commit(c, "none") ELSE Settle(c, "failed") /\ UNCHANGED ref
  /\ UNCHANGED <<vault, grant, ingress, actor>>

(* The broker throws before it changed anything, or the provider does. *)
BrokerFails(c) ==
  /\ call[c].pc \in {"store", "read", "replace", "remove"} /\ Settle(c, "failed")
  /\ UNCHANGED <<ref, vault, grant, ingress, actor>>

(* reconcileCredentialBinding, once the broker service has returned. *)
ReconcileBinding(c) ==
  /\ call[c].pc = "reconcile"
  /\ actor' = IF ref.loc # "none" /\ grant # {} THEN "resolved" ELSE "unresolved"
  /\ call' = [call EXCEPT ![c].pc = "ended"]
  /\ UNCHANGED <<ref, vault, audit, grant, ingress, tails>>

(* The Bus dies: sessions, calls and their order are gone. *)
BusDies ==
  /\ \E c \in Calls : call[c].pc \notin {"idle", "ended"}
  /\ call' = [c \in Calls |-> IF call[c].pc = "idle" THEN call[c] ELSE [call[c] EXCEPT !.pc = "ended"]]
  /\ ingress' = [s \in Transfers |-> IF ingress[s] = "none" THEN "none" ELSE "ended"]
  /\ tails' = [b \in Boundaries |-> <<>>]
  /\ UNCHANGED <<ref, vault, audit, grant, actor>>

-----------------------------------------------------------------------------
CredentialNext ==
  \/ \E s \in Transfers : IssueSession(s) \/ Upload(s) \/ EndSession(s)
  \/ \E b \in Boundaries : RevokeGrant(b)
  \/ BusDies
  \/ \E c \in Calls :
       \/ \E b \in Boundaries, act \in Mutations \cup Reads : Ask(c, b, act)
       \/ Begin(c) \/ StoreMaterial(c) \/ VerifyAndCommit(c) \/ VerifyFails(c) \/ Undo(c)
       \/ ReadMaterial(c) \/ ReplaceMaterial(c) \/ CommitReplacement(c)
       \/ RemoveMaterial(c) \/ CommitRevocation(c) \/ BrokerFails(c) \/ ReconcileBinding(c)

CredentialSpec == CredentialInit /\ [][CredentialNext]_credVars

-----------------------------------------------------------------------------
(* The material a resolved SecretRef serves was written by a call that        *)
(* succeeded or whose outcome is open: never by one that reported failure.    *)
ServedIsCommitted ==
  ref.loc # "none" /\ vault[ref.loc] # "none" => audit[vault[ref.loc]] \in {"started", "succeeded"}

(* What the vault holds beside the material of the SecretRef belongs to calls *)
(* whose audit is still open: a revoked or abandoned secret is gone.          *)
NothingLeftBehind ==
  \A l \in Locators : vault[l] # "none" /\ l # ref.loc => audit[vault[l]] = "started"
=============================================================================
