------------------------------ MODULE Portability ------------------------------
(* A Workspace carried to another host (workspace-portability.ts): bundles      *)
(* exported by the source host, their restoration here under a hold, the local  *)
(* bindings that must be validated anew, and the release of the hold. The       *)
(* source goes on working between exports and its clock is its own.             *)
EXTENDS Integers, Sequences, FiniteSets

CONSTANTS
  Resources,      \* kinds of dependency, with one resource of each
  MaxBundles, MaxPortOps, MaxPortTime, MaxRowRevs, MaxPortFaults  \* bounds

(* kinds of dependency (WorkspaceBundleDependency) *)
ByOperation == {"secret_ref", "actor_runtime", "connector_runtime", "content"}
ByObservation == {"endpoint_attachment", "command_runtime"}
(* rows that a local binding changes, so that the bundle's row no longer equals them *)
RowsRebound == {"secret_ref", "actor_runtime", "endpoint_attachment"}

PortabilityAssumption ==
  /\ Resources \subseteq ByOperation \cup ByObservation
  /\ {MaxBundles, MaxPortOps, MaxPortTime, MaxRowRevs, MaxPortFaults} \subseteq Nat

VARIABLES
  srcRow,    \* revision of each resource at the source; 0 for none
  bundle,    \* the exported bundles, in order
  wsRow,     \* the resource here: revision (0: none), bound now, since when, changed here
  hold,      \* workspace_restore_holds: bundle number (0: none), state, restored_at
  dep,       \* workspace_portability_dependencies by bundle and resource
  opLog,     \* operations of both hosts: what, completed_at, host, state
  known,     \* ids of the operations in the ledger here
  imported,  \* workspace_portability_imported_operation_receipts by bundle
  kept,      \* the file of the content resource: none, good, partial
  portTime, portFaults

portVars == <<srcRow, bundle, wsRow, hold, dep, opLog, known, imported, kept, portTime, portFaults>>

NoWsRow == [rev |-> 0, bound |-> FALSE, at |-> 0, touched |-> FALSE]
NoDep == [st |-> "none", by |-> 0]

PortInit ==
  /\ srcRow = [i \in Resources |-> 0] /\ bundle = <<>>
  /\ wsRow = [i \in Resources |-> NoWsRow]
  /\ hold = [b |-> 0, st |-> "none", at |-> 0]
  /\ dep = [n \in 1 .. MaxBundles |-> [i \in Resources |-> NoDep]]
  /\ opLog = <<>> /\ known = {} /\ imported = [n \in 1 .. MaxBundles |-> {}]
  /\ kept = "none" /\ portTime = 1 /\ portFaults = 0

PortFault == portFaults < MaxPortFaults /\ portFaults' = portFaults + 1
NewOp(i, t, host, st) == Append(opLog, [what |-> i, at |-> t, host |-> host, st |-> st])

-----------------------------------------------------------------------------
(* The source host.                                                          *)

SourceChanges(i) ==
  /\ srcRow[i] < MaxRowRevs
  /\ srcRow' = [srcRow EXCEPT ![i] = @ + 1]
  /\ UNCHANGED <<bundle, wsRow, hold, dep, opLog, known, imported, kept, portTime, portFaults>>

(* A binding operation there; completed_at is the time of that host. *)
SourceOperates(i, t) ==
  /\ i \in ByOperation \ {"content"} /\ srcRow[i] > 0 /\ Len(opLog) < MaxPortOps
  /\ opLog' = NewOp(i, t, "source", "completed")
  /\ UNCHANGED <<srcRow, bundle, wsRow, hold, dep, known, imported, kept, portTime, portFaults>>

(* selectWorkspaceRecords: the rows, and the ledger of the Workspace *)
SelectedRecords == [rows |-> srcRow,
                    ops |-> {o \in DOMAIN opLog : opLog[o].host = "source"}]
(* exportContent: bytes that are missing, changed or not portable are left unresolved *)
ContentDependencies(rows, included) ==
  {i \in Resources \cap {"content"} : rows[i] > 0 /\ ~included}
(* bindingDependencies: what belonged to the source host *)
BindingDependencies(rows) == {i \in Resources \ {"content"} : rows[i] > 0}

ExportWorkspace(included) ==
  /\ Len(bundle) < MaxBundles /\ \E i \in Resources : srcRow[i] > 0
  /\ bundle' = Append(bundle, [rows |-> SelectedRecords.rows, ops |-> SelectedRecords.ops,
                               included |-> included, ok |-> TRUE,
                               deps |-> BindingDependencies(srcRow) \cup ContentDependencies(srcRow, included)])
  /\ UNCHANGED <<srcRow, wsRow, hold, dep, opLog, known, imported, kept, portTime, portFaults>>

(* A file of the package is damaged on its way. *)
PackageDamaged(n) ==
  /\ PortFault /\ bundle[n].ok
  /\ bundle' = [bundle EXCEPT ![n].ok = FALSE]
  /\ UNCHANGED <<srcRow, wsRow, hold, dep, opLog, known, imported, kept, portTime>>

-----------------------------------------------------------------------------
(* Restoration.                                                              *)

(* validateBundle: digests of the manifest, of the records and of the content *)
ValidateBundle(n) == bundle[n].ok
FindExisting(i) == wsRow[i].rev > 0
(* findCollision: a retained row with the same key and other data *)
Collides(n, i) ==
  /\ bundle[n].rows[i] > 0 /\ FindExisting(i)
  /\ \/ wsRow[i].rev # bundle[n].rows[i]
     \/ i \in RowsRebound /\ wsRow[i].touched

(* prepareRestoredRows: credentials, Endpoints and runtimes come unbound; a     *)
(* Connector comes enabled with the health the source observed.                *)
RestoredRow(n, i) ==
  [rev |-> bundle[n].rows[i], bound |-> i = "connector_runtime", at |-> 0, touched |-> FALSE]

(* Mutant: a hold keeps its state whatever bundle is restored. *)
HoldAfter_KeepsState(n) ==
  IF hold.b = 0 THEN [b |-> n, st |-> "held", at |-> portTime]
  ELSE [hold EXCEPT !.b = n]
(* ON CONFLICT: the same bundle keeps its state, another one is held again *)
HoldAfter(n) ==
  IF hold.b = n THEN hold ELSE [b |-> n, st |-> "held", at |-> portTime]

Restorable(n) ==
  /\ ValidateBundle(n) /\ \A i \in Resources : ~Collides(n, i)
  /\ bundle[n].included => kept # "partial"

RestoreWorkspace(n) ==
  /\ Restorable(n)
  /\ wsRow' = [i \in Resources |->
                 IF bundle[n].rows[i] > 0 /\ ~FindExisting(i) THEN RestoredRow(n, i) ELSE wsRow[i]]
  /\ kept' = IF bundle[n].included THEN "good" ELSE kept
  /\ hold' = HoldAfter(n)
  /\ dep' = [dep EXCEPT ![n] = [i \in Resources |->
               IF i \in bundle[n].deps /\ @[i].st = "none" THEN [st |-> "unresolved", by |-> 0] ELSE @[i]]]
  /\ known' = known \cup bundle[n].ops
  /\ imported' = [imported EXCEPT ![n] = @ \cup bundle[n].ops]
  /\ UNCHANGED <<srcRow, bundle, opLog, portTime, portFaults>>

(* The Bus dies in the transaction: the rows roll back, a file may stay,       *)
(* complete or not.                                                           *)
RestoreDies(n, left) ==
  /\ PortFault /\ Restorable(n) /\ bundle[n].included /\ kept = "none"
  /\ kept' = left
  /\ UNCHANGED <<srcRow, bundle, wsRow, hold, dep, opLog, known, imported, portTime>>

-----------------------------------------------------------------------------
(* Local bindings.                                                           *)

(* credential.bind, actor.runtime-binding.replace, connector.health.record *)
LocalOperates(i) ==
  /\ i \in ByOperation \ {"content"} /\ FindExisting(i) /\ Len(opLog) < MaxPortOps
  /\ opLog' = NewOp(i, portTime, "here", "completed") /\ known' = known \cup {Len(opLog) + 1}
  /\ wsRow' = [wsRow EXCEPT ![i].bound = TRUE, ![i].at = portTime, ![i].touched = TRUE]
  /\ UNCHANGED <<srcRow, bundle, hold, dep, imported, kept, portTime, portFaults>>

(* An Endpoint is attached by an online Bridge, a Command worker reports. *)
Attached(i) ==
  /\ i \in ByObservation /\ FindExisting(i) /\ ~wsRow[i].bound
  /\ wsRow' = [wsRow EXCEPT ![i].bound = TRUE, ![i].at = portTime, ![i].touched = TRUE]
  /\ UNCHANGED <<srcRow, bundle, hold, dep, opLog, known, imported, kept, portTime, portFaults>>

(* A credential is revoked, a Bridge leaves, a Connector fails. *)
Unbound(i) ==
  /\ wsRow[i].bound /\ wsRow' = [wsRow EXCEPT ![i].bound = FALSE, ![i].touched = TRUE]
  /\ UNCHANGED <<srcRow, bundle, hold, dep, opLog, known, imported, kept, portTime, portFaults>>

(* supplyContentDependency: the exact bytes, for the current hold only *)
SupplyContent ==
  /\ "content" \in Resources /\ hold.st = "held" /\ kept # "partial" /\ Len(opLog) < MaxPortOps
  /\ dep[hold.b]["content"].st = "unresolved" /\ FindExisting("content")
  /\ kept' = "good"
  /\ opLog' = NewOp("content", portTime, "here", "completed") /\ known' = known \cup {Len(opLog) + 1}
  /\ UNCHANGED <<srcRow, bundle, wsRow, hold, dep, imported, portTime, portFaults>>

-----------------------------------------------------------------------------
(* Reconciliation and release.                                               *)

(* completedWorkspaceOperationReceipt, completedContentSupplyReceipt *)
CompletedReceipts(i) ==
  {o \in known \ imported[hold.b] :
     opLog[o].what = i /\ opLog[o].st = "completed" /\ opLog[o].at >= hold.at}
Newest(os) == CHOOSE o \in os : \A p \in os :
                opLog[o].at > opLog[p].at \/ (opLog[o].at = opLog[p].at /\ o >= p)

(* dependencyResolutionReceipt: the receipt that proves the binding, 0 for none; *)
(* r is the reconciliation itself                                              *)
ResolutionReceipt(i, r) ==
  LET found == CompletedReceipts(i)
  IN  CASE i \in ByObservation -> IF wsRow[i].bound /\ wsRow[i].at >= hold.at THEN r ELSE 0
        [] i = "content" -> IF kept = "good" /\ found # {} THEN Newest(found) ELSE 0
        [] OTHER -> IF wsRow[i].bound /\ found # {} THEN Newest(found) ELSE 0

UnresolvedDependencies == {x \in (1 .. MaxBundles) \X Resources : dep[x[1]][x[2]].st = "unresolved"}

(* The Bus may die after the change and before the receipt is completed. *)
Reconcile(st) ==
  LET r == Len(opLog) + 1
  IN  /\ hold.b # 0 /\ Len(opLog) < MaxPortOps
      /\ IF st = "uncertain" THEN PortFault ELSE UNCHANGED portFaults
      /\ dep' = [dep EXCEPT ![hold.b] = [i \in Resources |->
                   IF @[i].st = "unresolved" /\ ResolutionReceipt(i, r) # 0
                   THEN [st |-> "resolved", by |-> ResolutionReceipt(i, r)] ELSE @[i]]]
      /\ opLog' = NewOp("reconcile", portTime, "here", st) /\ known' = known \cup {r}
      /\ UNCHANGED <<srcRow, bundle, wsRow, hold, imported, kept, portTime>>

(* a resolved dependency whose receipt is not completed *)
IncompleteEvidence == \E i \in Resources : dep[hold.b][i].st = "resolved" /\ opLog[dep[hold.b][i].by].st # "completed"

ReleaseRestoreHold ==
  /\ hold.st = "held" /\ UnresolvedDependencies = {} /\ ~IncompleteEvidence
  /\ hold' = [hold EXCEPT !.st = "released"]
  /\ UNCHANGED <<srcRow, bundle, wsRow, dep, opLog, known, imported, kept, portTime, portFaults>>

PortTick ==
  /\ portTime < MaxPortTime /\ portTime' = portTime + 1
  /\ UNCHANGED <<srcRow, bundle, wsRow, hold, dep, opLog, known, imported, kept, portFaults>>

SourceNext ==
  \/ \E i \in Resources : SourceChanges(i) \/ \E t \in 1 .. MaxPortTime : SourceOperates(i, t)
  \/ \E b \in BOOLEAN : ExportWorkspace(b /\ "content" \in Resources /\ srcRow["content"] > 0)
  \/ \E n \in DOMAIN bundle : PackageDamaged(n)

RestoreNext(n) == RestoreWorkspace(n) \/ \E left \in {"good", "partial"} : RestoreDies(n, left)

BindNext ==
  \/ \E i \in Resources : LocalOperates(i) \/ Attached(i) \/ Unbound(i)
  \/ SupplyContent \/ PortTick
  \/ \E st \in {"completed", "uncertain"} : Reconcile(st)
  \/ ReleaseRestoreHold

PortNext == SourceNext \/ BindNext \/ \E n \in DOMAIN bundle : RestoreNext(n)
PortSpec == PortInit /\ [][PortNext]_portVars

-----------------------------------------------------------------------------
(* Properties.                                                               *)

(* Restored work is not released while a binding of any restored bundle is     *)
(* unresolved, whatever bundles are restored after a release (the result of    *)
(* workspace.bundle.restore always says "held").                               *)
HeldUntilResolved ==
  hold.st = "released" => UnresolvedDependencies = {}

(* A dependency is resolved only by evidence of this host: no receipt that     *)
(* came with a bundle counts, though the source's clock may be ahead.          *)
EvidenceIsLocal ==
  \A n \in 1 .. MaxBundles, i \in Resources :
    dep[n][i].st = "resolved" => opLog[dep[n][i].by].host = "here"

(* A restore that died can be tried again: no partial file blocks it.          *)
RestoreCanBeRetried ==
  \A n \in DOMAIN bundle : ValidateBundle(n) /\ bundle[n].included => kept # "partial"

(* A held Workspace can be released once everything is bound: no dependency    *)
(* rests on a receipt that will never complete.                                *)
ReleaseStaysPossible == hold.st = "held" => ~IncompleteEvidence
=============================================================================
