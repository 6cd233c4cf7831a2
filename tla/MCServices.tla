----------------------------- MODULE MCServices -----------------------------
(***************************************************************************)
(* The services around the work: Connectors that bring Events in, Pulses     *)
(* that fire them, the credential broker, Artefacts and the transfer of a    *)
(* Workspace to another host. They share no state here, so a behaviour is    *)
(* one of a single part, chosen at its start.                                *)
(***************************************************************************)
EXTENDS Naturals, Sequences, TLC

CONSTANTS Turns, Resources, PulseIds, MaxDelay, Calls, Boundaries, Owner

VARIABLES
  part,
  cn, turn,
  ref, vault, audit, grant, ingress, call, tails, actor,
  pulse, sched, clock, held, wish, starved, early, pulseCrashes,
  artefact, version, content, file, upload, message, export, catalogue, touched, artClock, artFaults,
  srcRow, bundle, wsRow, hold, dep, opLog, known, imported, kept, portTime, portFaults

(* Two turns of the worker on a polled source, a pushed one or a schedule.   *)
Connect == INSTANCE Connectors WITH
  NItems <- 2, Altered <- {1}, Unverified <- {2}, SourceSets <- {{"poll"}, {"push"}, {"wake"}},
  Policies <- {<<"catch_up", "wait">>}, Times <- {1, 2}, CatchUp <- 2, MaxDefRevs <- 2,
  MaxRevs <- 2, MaxWakeRevs <- 1, MaxClock <- 2
Broker == INSTANCE Credentials WITH Transfers <- {"s"}
Pulse == INSTANCE Pulses WITH MaxClock <- 2, MaxPulseCrashes <- 1
(* Three Artefacts and a client that pages through them; two and the bytes   *)
(* of their versions.                                                        *)
Shelf == INSTANCE Artefacts WITH
  ArtefactIds <- {1, 2, 3}, Digests <- {"d"}, UploadIds <- {}, IntentKeys <- {"k1", "k2", "k3"},
  PageLimit <- 1, MaxPending <- 0, MaxArtClock <- 2, MaxVersions <- 0, MaxArtFaults <- 0
Bytes == INSTANCE Artefacts WITH
  ArtefactIds <- {1, 2}, Digests <- {"d"}, UploadIds <- {"u", "v"}, IntentKeys <- {"k1", "k2"},
  PageLimit <- 1, MaxPending <- 1, MaxArtClock <- 1, MaxVersions <- 2, MaxArtFaults <- 1
(* Operations of both hosts; fewer of them, and a restore that fails.        *)
Transfer == INSTANCE Portability WITH
  MaxBundles <- 2, MaxPortOps <- 2, MaxPortTime <- 2, MaxRowRevs <- 1, MaxPortFaults <- 0
Failing == INSTANCE Portability WITH
  MaxBundles <- 2, MaxPortOps <- 1, MaxPortTime <- 2, MaxRowRevs <- 1, MaxPortFaults <- 1

ASSUME Connect!ConnectorAssumption /\ Broker!CredentialAssumption /\ Pulse!PulseAssumption
ASSUME Shelf!ArtefactAssumption /\ Bytes!ArtefactAssumption /\ Transfer!PortabilityAssumption

connectorVars == <<cn, turn>>
brokerVars == <<ref, vault, audit, grant, ingress, call, tails, actor>>
pulseVars == <<pulse, sched, clock, held, wish, starved, early, pulseCrashes>>
artefactVars == <<artefact, version, content, file, upload, message, export, catalogue, touched,
                  artClock, artFaults>>
transferVars == <<srcRow, bundle, wsRow, hold, dep, opLog, known, imported, kept, portTime,
                  portFaults>>
serviceVars == <<part, connectorVars, brokerVars, pulseVars, artefactVars, transferVars>>

WorkerTurns == Permutations(Turns)

Init ==
  /\ part \in {"connectors", "broker", "pulses", "shelf", "bytes", "transfer", "failing"}
  /\ Connect!ConnectorInit /\ (part = "connectors" \/ cn.sources = {"poll"})
  /\ Pulse!PulseInit /\ (part = "pulses" \/ ~held)
  /\ IF part = "bytes" THEN Bytes!ArtefactInit ELSE Shelf!ArtefactInit
  /\ Broker!CredentialInit /\ Transfer!PortInit

(* The definition is revised, and health reported, of pushed sources only.   *)
ConnectorStep ==
  /\ part = "connectors" /\ Connect!ConnectorNext
  /\ cn.sources # {"push"} => cn'.defHead = cn.defHead /\ cn'.health = cn.health
  /\ UNCHANGED <<part, brokerVars, pulseVars, artefactVars, transferVars>>

BrokerStep ==
  /\ part = "broker" /\ Broker!CredentialNext
  /\ UNCHANGED <<part, connectorVars, pulseVars, artefactVars, transferVars>>

PulseStep ==
  /\ part = "pulses" /\ Pulse!PulseNext
  /\ UNCHANGED <<part, connectorVars, brokerVars, artefactVars, transferVars>>

ArtefactStep ==
  /\ \/ part = "shelf" /\ Shelf!CatalogueNext
     \/ /\ part = "bytes"
        /\ \/ \E i \in {1, 2}, k \in {"k1", "k2"} : Bytes!CreateArtefact(i, k)
           \/ Bytes!VersionNext \/ Bytes!MessageNext \/ Bytes!FileNext
  /\ UNCHANGED <<part, connectorVars, brokerVars, pulseVars, transferVars>>

(* Bundles are restored in the order they were exported.                     *)
TransferStep ==
  /\ \/ part = "transfer" /\ (Transfer!SourceNext \/ Transfer!BindNext)
     \/ part = "failing" /\ (Failing!SourceNext \/ Failing!BindNext)
     \/ \E n \in DOMAIN bundle :
          /\ n >= hold.b
          /\ IF part = "transfer" THEN Transfer!RestoreNext(n) ELSE Failing!RestoreNext(n)
  /\ UNCHANGED <<part, connectorVars, brokerVars, pulseVars, artefactVars>>

Next == ConnectorStep \/ BrokerStep \/ PulseStep \/ ArtefactStep \/ TransferStep

Spec == Init /\ [][Next]_serviceVars

(* A connector passes nothing over: the checkpoint of a poll no item that    *)
(* became neither an Event nor a quarantined one, and the cursor of a        *)
(* schedule that catches up no occurrence that has not fired (Connectors).   *)
NothingPassedOver == []Connect!CheckpointCovers /\ Connect!CursorMovesOverFired

(* What a SecretRef serves was written by a call that did not fail, and the  *)
(* vault holds nothing else that a finished call wrote (Credentials).        *)
SecretsAccounted == Broker!ServedIsCommitted /\ Broker!NothingLeftBehind

(* An active pulse waits in the scheduler for its time, and the timer for    *)
(* the nearest one (Pulses).                                                 *)
PulseWaits == Pulse!PulseWaits

(* A client that pages through the catalogue misses nothing and sees nothing *)
(* twice; failures, retries and crashes leave every committed version its    *)
(* bytes, and an upload goes into one message (Artefacts).                   *)
ContentAccounted ==
  /\ Shelf!CatalogueComplete
  /\ part = "bytes" => Bytes!ContentRetained /\ Bytes!UploadSentOnce

(* Restored work is released only when every binding was resolved, and by    *)
(* evidence of this host (Portability).                                      *)
RestoredIsBoundHere == Transfer!HeldUntilResolved /\ Transfer!EvidenceIsLocal
=============================================================================
