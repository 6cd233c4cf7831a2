------------------------------ MODULE Transport ------------------------------
(***************************************************************************)
(* Who may call the Bus: the credentials of the two trusted processes, the *)
(* host owner and the Bridge (transport-credentials.ts), and the check     *)
(* every HTTP request passes before its handler (server.ts, preHandler).   *)
(*                                                                         *)
(* A bearer is a number, its hash is the number itself.  One host and one  *)
(* Bridge; Workspace sessions are one bearer per Workspace (their own life *)
(* is in Authority).  A request carries a route class, the Workspace the   *)
(* caller names, and the Workspaces its resources belong to.               *)
(***************************************************************************)
EXTENDS Naturals, Sequences, FiniteSets

CONSTANTS
    Workspaces,        \* the Workspaces of this host
    HostLife,          \* how long a host-control credential lasts (a year)
    BridgeLife,        \* how long a Bridge credential lasts (a day)
    MaxTransportTime,  \* bound on the clock
    MaxCreds,          \* bound on the credentials stored
    MaxBearers         \* bound on the host bearers the vault mints

ASSUME TransportAssumption ==
    /\ {HostLife, BridgeLife, MaxTransportTime, MaxCreds, MaxBearers} \subseteq Nat
    /\ IsFiniteSet(Workspaces)

VARIABLES
    clockT,      \* time
    creds,       \* the rows: [aud, tok, issued, expires, revoked, replaces]
    vaultToken,  \* the host bearer in the vault of the operating system, 0 for none
    bearers,     \* bearers made
    busT,        \* [up, tok, refused]: refused when its last start was
    bridgeT,     \* [run, tok, usable]: usable until the Bridge gives its bearer up
    bound,       \* Workspaces with a current locator binding on this host
    handled      \* the request whose handler ran last

transportVars == <<clockT, creds, vaultToken, bearers, busT, bridgeT, bound, handled>>

Routes == {"public", "registration", "execution", "bridge", "host", "runtime_binding",
           "collaboration", "operation"}
NoRequest == [route |-> "", named |-> {}, of |-> {}, aud |-> "", ws |-> ""]

-----------------------------------------------------------------------------
(* Credentials *)

IsCurrent(c) == ~c.revoked /\ c.issued <= clockT /\ c.expires > clockT

\* The credential a bearer names, by audience: expired and revoked ones name none.
Verified(aud, tok) == \E i \in 1..Len(creds) :
    creds[i].aud = aud /\ creds[i].tok = tok /\ IsCurrent(creds[i])

\* One row for each audience and bearer, whatever its state.
Storable(aud, tok) ==
    ~\E i \in 1..Len(creds) : creds[i].aud = aud /\ creds[i].tok = tok

Issued(rows, aud, tok, life, replaces) ==
    Append(rows, [aud |-> aud, tok |-> tok, issued |-> clockT, expires |-> clockT + life,
                  revoked |-> FALSE, replaces |-> replaces])

Current(aud) == {i \in 1..Len(creds) : creds[i].aud = aud /\ ~creds[i].revoked}
LatestOf(S) == IF S = {} THEN 0 ELSE CHOOSE i \in S : \A j \in S : j <= i

\* The native authority reads the host bearer of the vault, and makes it once.
ProvidesToken(tok) == tok = IF vaultToken # 0 THEN vaultToken ELSE bearers + 1

\* The Bus starts with the bearer it is handed: one already current must be the
\* same, otherwise the bearer is stored.
StartBus(tok) ==
    /\ ~busT.up /\ ProvidesToken(tok) /\ Len(creds) < MaxCreds
    /\ vaultToken # 0 \/ bearers < MaxBearers
    /\ vaultToken' = tok /\ bearers' = IF tok > bearers THEN tok ELSE bearers
    /\ IF \E i \in Current("host_control") : creds[i].expires > clockT
       THEN UNCHANGED creds /\ busT' = IF Verified("host_control", tok)
                                       THEN [up |-> TRUE, tok |-> tok, refused |-> FALSE]
                                       ELSE [up |-> FALSE, tok |-> 0, refused |-> TRUE]
       ELSE IF Storable("host_control", tok)
            THEN /\ creds' = Issued(creds, "host_control", tok, HostLife, 0)
                 /\ busT' = [up |-> TRUE, tok |-> tok, refused |-> FALSE]
            ELSE UNCHANGED creds /\ busT' = [up |-> FALSE, tok |-> 0, refused |-> TRUE]
    /\ UNCHANGED <<clockT, bridgeT, bound, handled>>

StopBus ==
    /\ busT.up /\ busT' = [busT EXCEPT !.up = FALSE]
    /\ UNCHANGED <<clockT, creds, vaultToken, bearers, bridgeT, bound, handled>>

\* The install's bearer is removed from the vault.
ForgetToken ==
    /\ vaultToken # 0 /\ vaultToken' = 0
    /\ UNCHANGED <<clockT, creds, bearers, busT, bridgeT, bound, handled>>

RevokedAll(aud) == [i \in 1..Len(creds) |->
    IF i \in Current(aud) THEN [creds[i] EXCEPT !.revoked = TRUE] ELSE creds[i]]

\* replaceBridgeServiceCredential: every current one is revoked, one is issued.
Replaced(tok) == Issued(RevokedAll("bridge_service"), "bridge_service", tok, BridgeLife,
                        LatestOf(Current("bridge_service")))

\* ensureBridge: a Bridge that answers is used as it is; otherwise one is
\* started with a fresh credential, which host control has to fetch.
EnsureBridge ==
    /\ busT.up /\ ~bridgeT.run /\ Verified("host_control", vaultToken)
    /\ Len(creds) < MaxCreds
    /\ bearers' = bearers + 1
    /\ creds' = Replaced(bearers + 1)
    /\ bridgeT' = [run |-> TRUE, tok |-> bearers + 1, usable |-> TRUE]
    /\ UNCHANGED <<clockT, vaultToken, busT, bound, handled>>

BridgeDies ==
    /\ bridgeT.run /\ bridgeT' = [bridgeT EXCEPT !.run = FALSE]
    /\ UNCHANGED <<clockT, creds, vaultToken, bearers, busT, bound, handled>>

\* rotateCredential and revokeCredential for one credential of the Bridge.
RotateCredential(i) ==
    /\ busT.up /\ creds[i].aud = "bridge_service" /\ ~creds[i].revoked /\ Len(creds) < MaxCreds
    /\ bearers' = bearers + 1
    /\ creds' = Issued([creds EXCEPT ![i].revoked = TRUE], "bridge_service", bearers + 1,
                       BridgeLife, i)
    /\ UNCHANGED <<clockT, vaultToken, busT, bridgeT, bound, handled>>

RevokeCredential(i) ==
    /\ busT.up /\ creds[i].aud = "bridge_service" /\ ~creds[i].revoked
    /\ creds' = [creds EXCEPT ![i].revoked = TRUE]
    /\ UNCHANGED <<clockT, vaultToken, bearers, busT, bridgeT, bound, handled>>

-----------------------------------------------------------------------------
(* The check before every handler *)

\* Every Workspace fact of a request, the one the caller names and those of the
\* resources it refers to; more than one is a conflict.
WorkspaceFacts_NamedFirst(q) == IF q.named # {} THEN q.named ELSE q.of

WorkspaceFacts(q) == q.named \cup q.of

\* Routes that name their caller whatever they are about, and routes of a Workspace.
FixedRequirement == [registration |-> "bridge_or_host", execution |-> "bridge_or_workspace",
                     bridge |-> "bridge_service", host |-> "host_control"]
WorkspaceRequirement == [runtime_binding |-> "bridge_workspace_or_host",
                         collaboration |-> "bridge_or_workspace",
                         operation |-> "workspace_operation"]

\* Public, websocket and ingress routes check their caller in the handler.
Requirement(q) ==
    LET n == Cardinality(WorkspaceFacts(q)) IN
    IF q.route = "public" THEN "public"
    ELSE IF n > 1 THEN "workspace_conflict"
    ELSE IF q.route \in DOMAIN FixedRequirement THEN FixedRequirement[q.route]
    ELSE IF n = 0 THEN "host_control" ELSE WorkspaceRequirement[q.route]

Audiences ==
    [public |-> {}, host_control |-> {"host_control"},
     bridge_service |-> {"bridge_service"},
     bridge_or_host |-> {"bridge_service", "host_control"},
     bridge_or_workspace |-> {"bridge_service", "workspace_operation"},
     workspace_operation |-> {"workspace_operation"},
     bridge_workspace_or_host |-> {"bridge_service", "workspace_operation", "host_control"},
     workspace_conflict |-> {"bridge_service", "workspace_operation", "host_control"}]

\* b is [aud, tok, ws]; the session of a Workspace answers for that Workspace.
Authenticated(b, q) ==
    /\ b.aud \in Audiences[Requirement(q)]
    /\ IF b.aud = "workspace_operation" THEN b.ws \in WorkspaceFacts(q) ELSE Verified(b.aud, b.tok)

Handles(b, q) ==
    \/ Requirement(q) = "public"
    \/ /\ Authenticated(b, q)
       /\ Requirement(q) # "workspace_conflict"
       /\ b.aud = "bridge_service" /\ Requirement(q) # "bridge_or_host"
             => WorkspaceFacts(q) \subseteq bound

\* requestAuthorities holds nothing for a route that was not checked.
Request(b, q) ==
    /\ busT.up /\ Handles(b, q)
    /\ handled' = [route |-> q.route, named |-> q.named, of |-> q.of,
                   aud |-> IF q.route = "public" THEN "" ELSE b.aud, ws |-> b.ws]
    /\ UNCHANGED <<clockT, creds, vaultToken, bearers, busT, bridgeT, bound>>

\* A refused call of the Bridge: it asks once more on a route of its own, and
\* gives its bearer up when that is refused as well.
BridgeRefused ==
    /\ busT.up /\ bridgeT.run /\ bridgeT.usable /\ ~Verified("bridge_service", bridgeT.tok)
    /\ bridgeT' = [bridgeT EXCEPT !.usable = FALSE]
    /\ UNCHANGED <<clockT, creds, vaultToken, bearers, busT, bound, handled>>

\* The folder of a Workspace is bound to this host, or is not any more.
Rebind(w) ==
    /\ bound' = IF w \in bound THEN bound \ {w} ELSE bound \cup {w}
    /\ handled' = NoRequest
    /\ UNCHANGED <<clockT, creds, vaultToken, bearers, busT, bridgeT>>

Tick ==
    /\ clockT < MaxTransportTime /\ clockT' = clockT + 1
    /\ UNCHANGED <<creds, vaultToken, bearers, busT, bridgeT, bound, handled>>

-----------------------------------------------------------------------------
TransportInit ==
    /\ clockT = 0 /\ creds = <<>> /\ vaultToken = 0 /\ bearers = 0 /\ bound = {}
    /\ busT = [up |-> FALSE, tok |-> 0, refused |-> FALSE]
    /\ bridgeT = [run |-> FALSE, tok |-> 0, usable |-> FALSE] /\ handled = NoRequest

Bearers ==
    {[aud |-> "host_control", tok |-> vaultToken, ws |-> ""],
     [aud |-> "bridge_service", tok |-> bridgeT.tok, ws |-> ""]}
    \cup {[aud |-> "workspace_operation", tok |-> 0, ws |-> w] : w \in Workspaces}

CredentialNext ==
    \/ \E tok \in 1..(bearers + 1) : StartBus(tok)
    \/ StopBus \/ ForgetToken \/ EnsureBridge \/ BridgeDies \/ BridgeRefused \/ Tick
    \/ \E i \in 1..Len(creds) : RotateCredential(i) \/ RevokeCredential(i)
RequestNext ==
    \/ \E w \in Workspaces : Rebind(w)
    \/ \E b \in Bearers, r \in Routes, n, o \in SUBSET Workspaces :
          Cardinality(n) <= 1 /\ Request(b, [route |-> r, named |-> n, of |-> o])
TransportNext == CredentialNext \/ RequestNext

TransportSpec == TransportInit /\ [][TransportNext]_transportVars

-----------------------------------------------------------------------------
(* Properties *)

\* At most one credential of each audience is accepted at any time: no restart
\* of the Bus or of the Bridge leaves a second live authority behind.
OneAuthority == \A aud \in {"host_control", "bridge_service"} :
    Cardinality({i \in 1..Len(creds) : creds[i].aud = aud /\ IsCurrent(creds[i])}) <= 1

\* A handler that runs for the session of a Workspace is given no resource of
\* another one, and one that runs for the Bridge none of a Workspace that was
\* not bound to this host when it was checked: a Workspace the caller names is
\* evidence, never precedence.
StaysInWorkspace ==
    /\ handled.aud = "workspace_operation" => handled.of \subseteq {handled.ws}
    /\ (handled.aud = "bridge_service" /\ handled.route # "registration") => handled.of \subseteq bound

\* At most one credential of each audience is accepted, and a handler is given
\* no resource outside the Workspace its caller was checked for
\* (transport-credentials.ts and the guards of server.ts).
BearersConfined == OneAuthority /\ StaysInWorkspace

\* A Bus that the same host bearer opened before is opened by it again
\* (installHostControlCredential: reusing the same bearer is idempotent).
SameBearerOpens == busT.refused =>
    ~\E i \in 1..Len(creds) : creds[i].aud = "host_control" /\ creds[i].tok = vaultToken
                              /\ ~creds[i].revoked

\* A Bridge that runs and that nobody revoked can act at the Bus, so that
\* "floe start" may use it as it is (ensureBridge).
RunningBridgeActs == (bridgeT.run /\ busT.up) =>
    \/ bridgeT.usable
    \/ \E i \in 1..Len(creds) : creds[i].tok = bridgeT.tok /\ creds[i].aud = "bridge_service"
                                /\ creds[i].revoked
=============================================================================
