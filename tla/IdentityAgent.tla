---------------------------- MODULE IdentityAgent ----------------------------
(***************************************************************************)
(* The identity agent: the process of the CLI that holds the person's      *)
(* unlocked key and gets bearers for the surfaces connected to it          *)
(* (floe-cli/src/identity/agent.ts, held-identities.ts, identity-file.ts,  *)
(* running-turns-watch.ts).                                                *)
(*                                                                         *)
(* Operations on the identity run one at a time (serial); the sessions,    *)
(* the connections and the timers do not, and everything that waits for    *)
(* the vault or for the Bus may be interleaved with them.  An identity is  *)
(* a number, 0 is none; a key is the identity it belongs to.  Names,       *)
(* recovery phrases and wrong passphrases are left out.                    *)
(***************************************************************************)
EXTENDS Naturals, Sequences, FiniteSets

CONSTANTS
    Surfaces,        \* the surfaces that may connect
    SessionIds,      \* the sessions they may start
    MaxIdentities,   \* bound on the identities made
    MaxFlights,      \* bound on the authentications started
    MaxAsked,        \* bound on the operations asked of the agent
    MaxAgentFaults   \* bound on failures of the vault and of the Bus

AgentAssumption ==
    /\ {MaxIdentities, MaxFlights, MaxAsked, MaxAgentFaults} \subseteq Nat
    /\ IsFiniteSet(Surfaces) /\ IsFiniteSet(SessionIds)

VARIABLES
    idFile,    \* the current identity file: [id, prot]
    aside,     \* the files set aside
    vaultKey,  \* the vault holds this home's device key
    held,      \* the unlocked key in memory, 0 when locked
    conns,     \* the connected surfaces
    idleArmed, \* the idle timer runs
    asked,     \* operations waiting for their turn
    doing,     \* the operation that has it: [kind, step, id, prot]
    identities, askedCount, agentFaults,
    sess,      \* [SessionIds -> [st, conn, auth, timer]]
    flight,    \* authentications: [1..MaxFlights -> [st, s, who, auth]]
    idBus,     \* the Bus: [admitted, revoked, live, minted]
    revoking,  \* bearer revocations under way: [auth, s]
    turnRuns,  \* a turn executes somewhere on this host
    watching   \* the watch of running turns: [on, stream, asked, read, pushed, told]

agentVars == <<idFile, aside, vaultKey, held, conns, idleArmed, asked, doing, identities,
               askedCount, agentFaults, sess, flight, idBus, revoking>>
watchVars == <<turnRuns, watching>>

NoFile == [id |-> 0, prot |-> ""]
NoOp == [kind |-> "", step |-> "", id |-> 0, prot |-> ""]
Present(s) == sess[s].st \notin {"new", "gone"}
Faulty == agentFaults < MaxAgentFaults /\ agentFaults' = agentFaults + 1
NoFault == UNCHANGED agentFaults

-----------------------------------------------------------------------------
(* Sessions end, and their bearers are revoked in the background *)

Ended(S) == [s \in SessionIds |-> IF s \in S THEN [sess[s] EXCEPT !.st = "gone", !.timer = FALSE]
                                  ELSE sess[s]]
Revocations(S) == {[auth |-> sess[s].auth, s |-> ""] : s \in {x \in S : sess[x].auth # 0}}

EndSessions(S) == sess' = Ended(S) /\ revoking' = revoking \cup Revocations(S)

\* lock: every session ends, the key is wiped, the idle timer is cancelled.
Lock == /\ EndSessions({s \in SessionIds : Present(s)})
        /\ held' = 0 /\ idleArmed' = FALSE

Attach(c) ==
    /\ c \notin conns
    /\ conns' = conns \cup {c} /\ idleArmed' = FALSE
    /\ UNCHANGED <<idFile, aside, vaultKey, held, asked, doing, identities, askedCount,
                   agentFaults, sess, flight, idBus, revoking>>

Detach(c) ==
    /\ c \in conns
    /\ conns' = conns \ {c}
    /\ EndSessions({s \in SessionIds : Present(s) /\ sess[s].conn = c})
    /\ idleArmed' = IF conns' = {} /\ held # 0 THEN TRUE ELSE idleArmed
    /\ UNCHANGED <<idFile, aside, vaultKey, held, asked, doing, identities, askedCount,
                   agentFaults, flight, idBus>>

IdleLock ==
    /\ idleArmed /\ Lock
    /\ UNCHANGED <<idFile, aside, vaultKey, conns, asked, doing, identities, askedCount,
                   agentFaults, flight, idBus>>

EndOwnSession(s) ==
    /\ Present(s) /\ EndSessions({s})
    /\ UNCHANGED <<idFile, aside, vaultKey, held, conns, idleArmed, asked, doing, identities,
                   askedCount, agentFaults, flight, idBus>>

\* The person revokes a session: the bearer first, the session when that is
\* answered.
RevokeSession(s) ==
    /\ Present(s)
    /\ IF sess[s].auth = 0 THEN sess' = Ended({s}) /\ UNCHANGED revoking
       ELSE revoking' = revoking \cup {[auth |-> sess[s].auth, s |-> s]} /\ UNCHANGED sess
    /\ UNCHANGED <<idFile, aside, vaultKey, held, conns, idleArmed, asked, doing, identities,
                   askedCount, agentFaults, flight, idBus>>

\* The Bus answers a revocation or does not; a failure is only logged.
RevocationEnds(r) ==
    /\ \/ NoFault /\ idBus' = [idBus EXCEPT !.live = {b \in @ : b.auth # r.auth}]
       \/ Faulty /\ UNCHANGED idBus
    /\ revoking' = revoking \ {r}
    /\ sess' = Ended({s \in SessionIds : s = r.s /\ Present(s)})
    /\ UNCHANGED <<idFile, aside, vaultKey, held, conns, idleArmed, asked, doing, identities,
                   askedCount, flight>>

-----------------------------------------------------------------------------
(* Authentication of a session *)

Free == {f \in 1..MaxFlights : flight[f].st = "free"}

Queued(f, s) == [flight EXCEPT ![f] = [st |-> "queued", s |-> s, who |-> 0, auth |-> 0]]

StartSession(c, s, f) ==
    /\ c \in conns /\ sess[s].st = "new" /\ idFile.id # 0 /\ f \in Free
    /\ sess' = [sess EXCEPT ![s] = [st |-> "starting", conn |-> c, auth |-> 0, timer |-> FALSE]]
    /\ flight' = Queued(f, s)
    /\ UNCHANGED <<idFile, aside, vaultKey, held, conns, idleArmed, asked, doing, identities,
                   askedCount, agentFaults, idBus, revoking>>

SelectWorkspace(s, f) ==
    /\ Present(s) /\ f \in Free
    /\ flight' = Queued(f, s)
    /\ UNCHANGED <<idFile, aside, vaultKey, held, conns, idleArmed, asked, doing, identities,
                   askedCount, agentFaults, sess, idBus, revoking>>

\* ensureUnlocked: the key in memory, or the vault is asked for a device file.
Begun(s) ==
    [st |-> IF held # 0 THEN "sent" ELSE IF idFile.prot = "device" THEN "opening" ELSE "over",
     s |-> s, who |-> IF held # 0 THEN held ELSE idFile.id, auth |-> 0]

\* authenticateSession, as far as its first wait.
Authenticates(s, f) ==
    /\ flight' = [flight EXCEPT ![f] = Begun(s)]
    /\ sess' = [sess EXCEPT ![s].timer = FALSE,
                            ![s].st = IF Begun(s).st = "over" THEN "error" ELSE @]

BeginFlight(f) ==
    /\ flight[f].st = "queued"
    /\ IF Present(flight[f].s) THEN Authenticates(flight[f].s, f)
       ELSE flight' = [flight EXCEPT ![f].st = "over"] /\ UNCHANGED sess
    /\ UNCHANGED <<idFile, aside, vaultKey, held, conns, idleArmed, asked, doing, identities,
                   askedCount, agentFaults, idBus, revoking>>

RenewalTimer(s, f) ==
    /\ Present(s) /\ sess[s].timer /\ f \in Free
    /\ Authenticates(s, f)
    /\ UNCHANGED <<idFile, aside, vaultKey, held, conns, idleArmed, asked, doing, identities,
                   askedCount, agentFaults, idBus, revoking>>

\* The vault answers: the key of the file that was read is adopted.
Opened(f) ==
    /\ flight[f].st = "opening"
    /\ \/ /\ vaultKey /\ NoFault
          /\ held' = flight[f].who
          /\ idleArmed' = (idleArmed \/ conns = {})
          /\ flight' = [flight EXCEPT ![f].st = "sent"] /\ UNCHANGED sess
       \/ /\ IF vaultKey THEN Faulty ELSE NoFault
          /\ flight' = [flight EXCEPT ![f].st = "over"]
          /\ sess' = [s \in SessionIds |-> IF s = flight[f].s /\ Present(s)
                                           THEN [sess[s] EXCEPT !.st = "error"] ELSE sess[s]]
          /\ UNCHANGED <<held, idleArmed>>
    /\ UNCHANGED <<idFile, aside, vaultKey, conns, asked, doing, identities, askedCount,
                   idBus, revoking>>

\* The Bus checks the proof: a bearer, a choice of Workspaces, or no admission.
BusAuthenticates(f) ==
    /\ flight[f].st = "sent" /\ flight[f].s \in SessionIds
    /\ \/ /\ flight[f].who \in idBus.admitted
          /\ idBus' = [idBus EXCEPT !.minted = @ + 1,
                          !.live = @ \cup {[auth |-> idBus.minted + 1, who |-> flight[f].who]}]
          /\ flight' = [flight EXCEPT ![f].st = "ready", ![f].auth = idBus.minted + 1]
       \/ /\ flight[f].who \in idBus.admitted
          /\ flight' = [flight EXCEPT ![f].st = "selection_required"] /\ UNCHANGED idBus
       \/ /\ flight[f].who \notin idBus.admitted
          /\ flight' = [flight EXCEPT ![f].st = "needs_workspace"] /\ UNCHANGED idBus
    /\ UNCHANGED <<idFile, aside, vaultKey, held, conns, idleArmed, asked, doing, identities,
                   askedCount, agentFaults, sess, revoking>>

\* The answer is for a session that may have ended meanwhile: it is dropped.
AnswerFor(s) == Present(s)

AnswerArrives(f) ==
    /\ flight[f].st \in {"ready", "selection_required", "needs_workspace"}
    /\ \/ /\ NoFault
          /\ sess' = [s \in SessionIds |->
                IF s # flight[f].s \/ ~AnswerFor(s) THEN sess[s]
                ELSE IF flight[f].st = "ready"
                     THEN [sess[s] EXCEPT !.st = "ready", !.auth = flight[f].auth, !.timer = TRUE]
                     ELSE [sess[s] EXCEPT !.st = flight[f].st]]
       \/ /\ Faulty
          /\ sess' = [s \in SessionIds |->
                IF s = flight[f].s /\ Present(s) THEN [sess[s] EXCEPT !.st = "error"] ELSE sess[s]]
    /\ flight' = [flight EXCEPT ![f].st = "over"]
    /\ UNCHANGED <<idFile, aside, vaultKey, held, conns, idleArmed, asked, doing, identities,
                   askedCount, idBus, revoking>>

\* joinFolder, listWorkspaces and workspaceForFolder ask the Bus with the key.
AskBus(f, what) ==
    /\ conns # {} /\ idFile.id # 0 /\ f \in Free
    /\ flight' = [flight EXCEPT ![f] = Begun(what)]
    /\ UNCHANGED <<idFile, aside, vaultKey, held, conns, idleArmed, asked, doing, identities,
                   askedCount, agentFaults, sess, idBus, revoking>>

LookUpEnds(f) ==
    /\ flight[f].st = "sent" /\ flight[f].s = "look_up"
    /\ flight' = [flight EXCEPT ![f].st = "over"]
    /\ UNCHANGED <<idFile, aside, vaultKey, held, conns, idleArmed, asked, doing, identities,
                   askedCount, agentFaults, sess, idBus, revoking>>

\* The identity is admitted to a Workspace, and every session that waits for one
\* is authenticated again.
Joins(f) ==
    /\ flight[f].st = "sent" /\ flight[f].s = "join"
    /\ \/ /\ flight[f].who \notin idBus.revoked
          /\ idBus' = [idBus EXCEPT !.admitted = @ \cup {flight[f].who}]
          /\ \E start \in [{s \in SessionIds : sess[s].st = "needs_workspace"} -> Free] :
                /\ \A s, t \in DOMAIN start : start[s] = start[t] => s = t
                /\ flight' = [g \in 1..MaxFlights |->
                      IF \E s \in DOMAIN start : start[s] = g
                      THEN Begun(CHOOSE s \in DOMAIN start : start[s] = g)
                      ELSE IF g = f THEN [flight[f] EXCEPT !.st = "over"] ELSE flight[g]]
          /\ sess' = [s \in SessionIds |-> IF sess[s].st = "needs_workspace" /\ Begun(s).st = "over"
                                           THEN [sess[s] EXCEPT !.st = "error"] ELSE sess[s]]
       \/ /\ flight[f].who \in idBus.revoked
          /\ flight' = [flight EXCEPT ![f].st = "over"] /\ UNCHANGED <<idBus, sess>>
    /\ UNCHANGED <<idFile, aside, vaultKey, held, conns, idleArmed, asked, doing, identities,
                   askedCount, agentFaults, revoking>>

-----------------------------------------------------------------------------
(* Operations on the identity, one at a time *)

Ask(c, kind, prot) ==
    /\ c \in conns /\ askedCount < MaxAsked
    /\ asked' = Append(asked, [kind |-> kind, step |-> "begin", id |-> 0, prot |-> prot])
    /\ askedCount' = askedCount + 1
    /\ UNCHANGED <<idFile, aside, vaultKey, held, conns, idleArmed, doing, identities,
                   agentFaults, sess, flight, idBus, revoking>>

TakeTurn ==
    /\ doing = NoOp /\ asked # <<>>
    /\ doing' = Head(asked) /\ asked' = Tail(asked)
    /\ UNCHANGED <<idFile, aside, vaultKey, held, conns, idleArmed, identities, askedCount,
                   agentFaults, sess, flight, idBus, revoking>>

SetAside == IF idFile.id = 0 THEN aside ELSE aside \cup {idFile}
Done == doing' = NoOp

\* The next step of an operation that stores identity id.
Storing(id) == doing' = [doing EXCEPT !.step = "store", !.id = id]

Refused ==
    /\ doing.step = "begin"
    /\ \/ doing.kind \in {"unlock", "replace", "delete"} /\ idFile.id = 0
       \/ doing.kind = "create" /\ idFile.id # 0
       \/ doing.kind \in {"create", "replace"} /\ identities = MaxIdentities
       \/ doing.kind = "delete_aside" /\ aside = {}
    /\ Done
    /\ UNCHANGED <<idFile, aside, vaultKey, held, conns, idleArmed, asked, identities,
                   askedCount, agentFaults, sess, flight, idBus, revoking>>

Create ==
    /\ doing.kind = "create" /\ doing.step = "begin" /\ idFile.id = 0 /\ identities < MaxIdentities
    /\ identities' = identities + 1 /\ Storing(identities + 1)
    /\ UNCHANGED <<idFile, aside, vaultKey, held, conns, idleArmed, asked, askedCount,
                   agentFaults, sess, flight, idBus, revoking>>

\* restore: the sessions end and the present file is set aside before the new
\* one is stored.  The phrase may be that of an identity made elsewhere.
Restore(id) ==
    /\ doing.kind = "restore" /\ doing.step = "begin" /\ id <= identities + 1
    /\ Lock /\ aside' = SetAside /\ idFile' = NoFile /\ Storing(id)
    /\ identities' = IF id > identities THEN id ELSE identities
    /\ UNCHANGED <<vaultKey, conns, asked, askedCount, agentFaults, flight, idBus>>

\* importLegacy: the same, but nothing happens for the identity already here.
ImportLegacy(id) ==
    /\ doing.kind = "import" /\ doing.step = "begin" /\ id <= identities + 1
    /\ IF id = idFile.id
       THEN Done /\ UNCHANGED <<idFile, aside, held, idleArmed, sess, revoking>>
       ELSE Lock /\ aside' = SetAside /\ idFile' = NoFile /\ Storing(id)
    /\ identities' = IF id > identities THEN id ELSE identities
    /\ UNCHANGED <<vaultKey, conns, asked, askedCount, agentFaults, flight, idBus>>

\* replace: the Bus lists the admissions, admits the new identity, revokes the
\* old one; each call may fail and ends the operation there.
ReplaceAdmits ==
    /\ doing.kind = "replace" /\ doing.step = "begin" /\ idFile.id # 0 /\ identities < MaxIdentities
    /\ \/ /\ NoFault /\ identities' = identities + 1
          /\ idBus' = IF idFile.id \in idBus.admitted
                      THEN [idBus EXCEPT !.admitted = @ \cup {identities + 1}] ELSE idBus
          /\ doing' = [doing EXCEPT !.step = "revoke", !.id = identities + 1]
       \/ Faulty /\ Done /\ UNCHANGED <<identities, idBus>>
    /\ UNCHANGED <<idFile, aside, vaultKey, held, conns, idleArmed, asked, askedCount, sess,
                   flight, revoking>>

BusRevokes(id) ==
    idBus' = IF id \in idBus.admitted
             THEN [idBus EXCEPT !.admitted = @ \ {id}, !.revoked = @ \cup {id},
                                !.live = {b \in @ : b.who # id}]
             ELSE idBus

ReplaceRevokes ==
    /\ doing.kind = "replace" /\ doing.step = "revoke"
    /\ \/ /\ NoFault /\ BusRevokes(idFile.id)
          /\ Lock /\ aside' = SetAside /\ idFile' = NoFile /\ Storing(doing.id)
       \/ Faulty /\ Done /\ UNCHANGED <<idBus, held, idleArmed, sess, revoking, aside, idFile>>
    /\ UNCHANGED <<vaultKey, conns, asked, identities, askedCount, flight>>

\* store: a device file needs the vault, which is waited for; then the file is
\* written and the key adopted.
Store ==
    /\ doing.step = "store"
    /\ \/ /\ NoFault
          /\ vaultKey' = (vaultKey \/ doing.prot = "device")
          /\ idFile' = [id |-> doing.id, prot |-> doing.prot]
          /\ held' = doing.id
       \/ doing.prot = "device" /\ Faulty /\ UNCHANGED <<vaultKey, idFile, held>>
    /\ Done
    /\ UNCHANGED <<aside, conns, idleArmed, asked, identities, askedCount, sess, flight, idBus,
                   revoking>>

Unlock ==
    /\ doing.kind = "unlock" /\ doing.step = "begin" /\ idFile.id # 0
    /\ \/ /\ idFile.prot = "device" => vaultKey
          /\ NoFault /\ held' = idFile.id /\ idleArmed' = (idleArmed \/ conns = {})
       \/ /\ idFile.prot = "device" /\ Faulty /\ UNCHANGED <<held, idleArmed>>
    /\ Done
    /\ UNCHANGED <<idFile, aside, vaultKey, conns, asked, identities, askedCount, sess, flight,
                   idBus, revoking>>

LockRequested ==
    /\ doing.kind = "lock" /\ Lock /\ Done
    /\ UNCHANGED <<idFile, aside, vaultKey, conns, asked, identities, askedCount, agentFaults,
                   flight, idBus>>

\* delete_identity for the current one, its admissions revoked or not.
DeleteCurrent ==
    /\ doing.kind = "delete" /\ doing.step = "begin" /\ idFile.id # 0
    /\ \/ /\ NoFault /\ (BusRevokes(idFile.id) \/ UNCHANGED idBus)
          /\ Lock /\ idFile' = NoFile /\ doing' = [doing EXCEPT !.step = "forget"]
       \/ Faulty /\ Done /\ UNCHANGED <<idBus, held, idleArmed, sess, revoking, idFile>>
    /\ UNCHANGED <<aside, vaultKey, conns, asked, identities, askedCount, flight>>

DeleteAside(a) ==
    /\ doing.kind = "delete_aside" /\ doing.step = "begin"
    /\ aside' = aside \ {a} /\ doing' = [doing EXCEPT !.step = "forget"]
    /\ UNCHANGED <<idFile, vaultKey, held, conns, idleArmed, asked, identities, askedCount,
                   agentFaults, sess, flight, idBus, revoking>>

\* The device key goes once no identity still held needs it.
AnyNeedsDeviceKey == \E h \in aside \cup {idFile} : h.prot = "device"

ForgetDeviceKey ==
    /\ doing.step = "forget" /\ Done
    /\ \/ NoFault /\ vaultKey' = (vaultKey /\ AnyNeedsDeviceKey)
       \/ ~AnyNeedsDeviceKey /\ Faulty /\ UNCHANGED vaultKey
    /\ UNCHANGED <<idFile, aside, held, conns, idleArmed, asked, identities, askedCount, sess,
                   flight, idBus, revoking>>

-----------------------------------------------------------------------------
(* Whether a version switch would interrupt work, followed by push *)

NoWatch == [on |-> FALSE, stream |-> <<>>, asked |-> FALSE, read |-> "", pushed |-> FALSE,
            told |-> ""]
Says(busy) == IF busy THEN "busy" ELSE "idle"

WatchSwitchReadiness ==
    /\ ~watching.on
    /\ watching' = [NoWatch EXCEPT !.on = TRUE, !.stream = <<"caught_up">>]
    /\ UNCHANGED <<agentVars, turnRuns>>

\* Turns start and end; the Bus pushes each change to the open stream.
TurnsChange ==
    /\ turnRuns' = ~turnRuns /\ Len(watching.stream) < 3
    /\ watching' = IF watching.on THEN [watching EXCEPT !.stream = Append(@, Says(turnRuns'))]
                   ELSE watching
    /\ UNCHANGED agentVars

\* A push is told at once; the end of the replay asks for a snapshot.
StreamMessage ==
    /\ watching.on /\ watching.stream # <<>>
    /\ watching' = IF Head(watching.stream) = "caught_up"
                   THEN [watching EXCEPT !.stream = Tail(@), !.asked = TRUE, !.pushed = FALSE]
                   ELSE [watching EXCEPT !.stream = Tail(@), !.pushed = TRUE,
                                         !.told = Head(watching.stream)]
    /\ UNCHANGED <<agentVars, turnRuns>>

SnapshotRead ==
    /\ watching.asked /\ watching.read = ""
    /\ watching' = [watching EXCEPT !.read = Says(turnRuns)]
    /\ UNCHANGED <<agentVars, turnRuns>>

\* A push that came while the snapshot was read is at least as new.
SnapshotCounts == ~watching.pushed

SnapshotArrives ==
    /\ watching.read # ""
    /\ watching' = [watching EXCEPT !.asked = FALSE, !.read = "",
                                    !.told = IF SnapshotCounts THEN watching.read ELSE @]
    /\ UNCHANGED <<agentVars, turnRuns>>

\* The stream ends, the snapshot fails, or the last follower leaves.
WatchEnds ==
    /\ watching.on /\ watching' = NoWatch
    /\ UNCHANGED <<agentVars, turnRuns>>

-----------------------------------------------------------------------------
AgentInit ==
    /\ idFile = NoFile /\ aside = {} /\ vaultKey = FALSE /\ held = 0 /\ conns = {}
    /\ idleArmed = FALSE /\ asked = <<>> /\ doing = NoOp /\ identities = 0 /\ askedCount = 0
    /\ agentFaults = 0 /\ revoking = {}
    /\ sess = [s \in SessionIds |-> [st |-> "new", conn |-> "", auth |-> 0, timer |-> FALSE]]
    /\ flight = [f \in 1..MaxFlights |-> [st |-> "free", s |-> "", who |-> 0, auth |-> 0]]
    /\ idBus = [admitted |-> {}, revoked |-> {}, live |-> {}, minted |-> 0]
    /\ turnRuns = FALSE /\ watching = NoWatch

ConnectionNext ==
    \/ \E c \in Surfaces : Attach(c) \/ Detach(c)
    \/ IdleLock
    \/ \E c \in Surfaces, prot \in {"device", "passphrase"},
          kind \in {"create", "restore", "import", "replace"} : Ask(c, kind, prot)
    \/ \E c \in Surfaces, kind \in {"unlock", "lock", "delete", "delete_aside"} : Ask(c, kind, "")
SerialNext ==
    \/ TakeTurn \/ Refused \/ Create \/ Store \/ Unlock \/ LockRequested
    \/ ReplaceAdmits \/ ReplaceRevokes
    \/ \E id \in 1..MaxIdentities : Restore(id) \/ ImportLegacy(id)
    \/ DeleteCurrent \/ ForgetDeviceKey
    \/ \E a \in aside : DeleteAside(a)
SessionNext ==
    \/ \E c \in Surfaces, s \in SessionIds, f \in 1..MaxFlights : StartSession(c, s, f)
    \/ \E s \in SessionIds, f \in 1..MaxFlights : SelectWorkspace(s, f) \/ RenewalTimer(s, f)
    \/ \E s \in SessionIds : EndOwnSession(s) \/ RevokeSession(s)
    \/ \E r \in revoking : RevocationEnds(r)
    \/ \E f \in 1..MaxFlights :
          \/ BeginFlight(f) \/ Opened(f) \/ BusAuthenticates(f) \/ AnswerArrives(f)
          \/ AskBus(f, "join") \/ AskBus(f, "look_up") \/ Joins(f) \/ LookUpEnds(f)
WatchNext ==
    \/ WatchSwitchReadiness \/ TurnsChange \/ StreamMessage \/ SnapshotRead \/ SnapshotArrives
    \/ WatchEnds

AgentNext == ((ConnectionNext \/ SerialNext \/ SessionNext) /\ UNCHANGED watchVars) \/ WatchNext

AgentSpec == AgentInit /\ [][AgentNext]_<<agentVars, watchVars>>

-----------------------------------------------------------------------------
(* Properties *)

\* A surface has a ready session only while the key is unlocked: no lock, no
\* disconnection and no answer that arrives late leaves one behind.
ReadyIsUnlocked == \A s \in SessionIds : sess[s].st = "ready" => held # 0

\* The device key stays in the vault as long as an identity that Floe holds,
\* the current one or one set aside, can only be opened with it.
DeviceFilesOpen == \A h \in aside \cup {idFile} : h.prot = "device" => vaultKey

\* What a surface was last told about running work is true once nothing is
\* under way: a snapshot never overwrites a newer push.
ReadinessIsTrue ==
    (watching.on /\ watching.stream = <<>> /\ ~watching.asked) =>
        watching.told = Says(turnRuns)

\* An unlocked key that no surface is connected for is on its way to be locked
\* (the agent's header: it lives until no surface has been connected for the
\* idle period).
KeyIsWatched == (held # 0 /\ conns = {}) => idleArmed

\* The key in memory is the key of the identity file.
KeyIsOfFile == held # 0 => held = idFile.id

\* A bearer that is live at the Bus belongs to a session, or is on its way to
\* one or to its revocation (endSession: a bearer should not outlive the
\* reason it was minted).
BearerHasReason ==
    agentFaults = 0 => \A b \in idBus.live :
        \/ \E s \in SessionIds : Present(s) /\ sess[s].auth = b.auth
        \/ \E f \in 1..MaxFlights : flight[f].st = "ready" /\ flight[f].auth = b.auth
        \/ \E r \in revoking : r.auth = b.auth
=============================================================================
