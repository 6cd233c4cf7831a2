------------------------------- MODULE MCHost -------------------------------
(***************************************************************************)
(* A host and who may act on it: the services that commands start and stop,  *)
(* the database they open, the grants of a Workspace, the bearers of its     *)
(* transport and the agent that holds a person's identity. They keep their   *)
(* state apart, so a behaviour is one of a single part, chosen at its start; *)
(* a part too large to explore whole is explored once for each question.     *)
(***************************************************************************)
EXTENDS Transport, Upgrade, Authority

CONSTANTS Runs, Surfaces, SessionIds, MaxAgentFaults

VARIABLES
  part,
  idFile, aside, vaultKey, held, conns, idleArmed, asked, doing, identities, askedCount,
  agentFaults, sess, flight, idBus, revoking, turnRuns, watching,
  run, sock, rec, proc, foreign, stages, harmed, begun, faults

(* Long chains of delegation that only revocation ends, by the constants of  *)
(* this module; shorter ones with browser passes, which time ends too.       *)
Pairs == INSTANCE Authority WITH
  MaxGrants <- 3, MaxSessions <- 2, MaxTime <- 1, Lifetimes <- {1, 2}, MaxPasses <- 1
(* The files of two identities with one authentication; the sessions of one *)
(* identity with two authentications under way.                             *)
Files == INSTANCE IdentityAgent WITH MaxIdentities <- 2, MaxFlights <- 1, MaxAsked <- 4
Tabs == INSTANCE IdentityAgent WITH MaxIdentities <- 1, MaxFlights <- 2, MaxAsked <- 2
(* Two versions and every command; one version, reused pids and three commands. *)
Staged == INSTANCE Startup WITH
  Versions <- {1, 2}, Kinds <- {"start", "ensure", "restart", "switch", "stop"},
  Platform <- "posix", StartOnDemand <- TRUE, MaxProcs <- 3, MaxBegins <- 2, MaxStartFaults <- 1
Pids == INSTANCE Startup WITH
  Versions <- {1}, Kinds <- {"start", "ensure", "stop"},
  Platform <- "win32", StartOnDemand <- FALSE, MaxProcs <- 2, MaxBegins <- 3, MaxStartFaults <- 1
(* The second and the third build have the same version.                     *)
MCBuilds ==
  {[ver |-> 1, makes |-> {"a"}], [ver |-> 2, makes |-> {"a", "b"}],
   [ver |-> 2, makes |-> {"a", "b", "c"}]}

ASSUME Staged!StartupAssumption /\ Pids!StartupAssumption
ASSUME Pairs!AuthorityAssumption /\ Files!AgentAssumption

agentVars == <<idFile, aside, vaultKey, held, conns, idleArmed, asked, doing, identities,
               askedCount, agentFaults, sess, flight, idBus, revoking>>
watchVars == <<turnRuns, watching>>
startVars == <<run, sock, rec, proc, foreign, stages, harmed, begun, faults>>
hostVars == <<part, transportVars, authVars, agentVars, watchVars, startVars, upgradeVars>>

Init ==
  /\ part \in {"chains", "pairs", "credentials", "requests", "files", "tabs", "watch", "staged", "pids",
               "database"}
  /\ IF part = "pairs" THEN Pairs!AuthorityInit ELSE AuthorityInit
  /\ IF part = "tabs" THEN Tabs!AgentInit ELSE Files!AgentInit
  /\ TransportInit /\ Staged!StartInit
  /\ UpgradeInit /\ (part = "database" \/ file = Fresh)

GrantStep ==
  /\ \/ part = "chains" /\ AuthorityNext
     \/ part = "pairs" /\ Pairs!AuthorityNext
  /\ UNCHANGED <<part, transportVars, agentVars, watchVars, startVars, upgradeVars>>

(* Requests arrive at the first moment of the clock.                         *)
TransportStep ==
  /\ \/ part = "credentials" /\ CredentialNext
     \/ part = "requests" /\ CredentialNext /\ clockT' = 0 /\ Len(creds') <= 2
     \/ part = "requests" /\ RequestNext
  /\ UNCHANGED <<part, authVars, agentVars, watchVars, startVars, upgradeVars>>

AgentStep ==
  /\ \/ part = "files" /\ (Files!ConnectionNext \/ Files!SerialNext)
     \/ part = "tabs" /\ (Tabs!ConnectionNext \/ Tabs!SerialNext \/ Tabs!SessionNext)
  /\ UNCHANGED <<part, authVars, transportVars, watchVars, startVars, upgradeVars>>

WatchStep ==
  /\ part = "watch" /\ Files!WatchNext
  /\ UNCHANGED <<part, authVars, transportVars, agentVars, startVars, upgradeVars>>

StartStep ==
  /\ \/ part = "staged" /\ Staged!StartNext
     \/ part = "pids" /\ Pids!StartNext
  /\ UNCHANGED <<part, authVars, transportVars, agentVars, watchVars, upgradeVars>>

DatabaseStep ==
  /\ part = "database" /\ UpgradeNext
  /\ UNCHANGED <<part, authVars, transportVars, agentVars, watchVars, startVars>>

Next == GrantStep \/ TransportStep \/ AgentStep \/ WatchStep \/ StartStep \/ DatabaseStep

Spec == Init /\ [][Next]_hostVars

(* The processes of the host keep faith. Agent: no session is ready behind a *)
(* locked key, the device key an identity file needs is never dropped, and   *)
(* no surface is left with a wrong word about running work. Commands: only   *)
(* processes that Floe started are ended, and the stage of a service that    *)
(* answers is kept (IdentityAgent and Startup).                              *)
HostKeepsFaith ==
  /\ Files!DeviceFilesOpen /\ Files!ReadinessIsTrue
  /\ part = "tabs" => Tabs!ReadyIsUnlocked
  /\ Staged!OnlyFloeStopped /\ Staged!StageKept
=============================================================================
