------------------------------ MODULE Attachment ------------------------------
(* How the files of a Workspace become its canonical configuration: the Bridge *)
(* passes over the Workspaces and attaches them (daemon.ts), the Bus imports   *)
(* the inventory it sends under a receipt (workspace-config-import.ts) and     *)
(* stores the report for the locator binding it was made for                   *)
(* (workspace-identities.ts). One Workspace with one Actor file on one host.   *)
(* People edit the files, the canonical Actor and the binding meanwhile.       *)
(* config_apply_requested and config_snapshot_requested are left out.          *)
EXTENDS Integers, FiniteSets

CONSTANTS
  Locators,        \* the folders the Workspace may be bound to
  FileContents,    \* the valid contents of the configuration files
  MaxLocBindings,  \* bound: locator bindings
  MaxRoots,        \* bound: root grants of a sole person
  MaxAttachMoves,  \* bound: changes by people
  MaxAttachFaults, \* bound: failed requests of the Bridge
  FilesReturn      \* whether files may go back to what they were

AttachmentAssumption ==
  /\ Locators # {} /\ FileContents # {} /\ FilesReturn \in BOOLEAN
  /\ {MaxLocBindings, MaxRoots, MaxAttachMoves, MaxAttachFaults} \subseteq Nat

Invalid == "invalid"     \* files that do not pass validation
Gone == "gone"           \* a folder that cannot be read
NoHash == "none"
PersonGrant == 0         \* a grant of a person; n > 0: the import's, of root n

VARIABLES
  loc,       \* the current locator binding: n, at, status, hash, auth
  disk,      \* what is in each folder
  had,       \* every content each folder has had
  root,      \* the root grant of the sole person, 0 when there is none
  minted,    \* each import grant: "none", "active" or "revoked"
  act,       \* the canonical Actor: st, rev, body, held, author
  prof,      \* its Runtime Profile: st, rev, body
  rt,        \* its runtime binding: rev, st
  own,       \* what the import last wrote, def = 0 when it owns nothing
  receipts,  \* the import receipts
  pass,      \* the attachment pass of the Bridge
  frames,    \* pushes that ask for an attachment, not yet handled
  joined,    \* the call that waits for the materialisation, by binding; 0: none
  moved, attachFaults

busAttach == <<root, minted, act, prof, rt, own, receipts>>
attachVars == <<loc, disk, had, busAttach, pass, frames, joined, moved, attachFaults>>

IdlePass == [pc |-> "idle", n |-> 0, at |-> NoHash, file |-> NoHash, auth |-> FALSE,
             applied |-> FALSE, status |-> "none", again |-> FALSE, waited |-> FALSE]
NoOwner == [def |-> 0, prof |-> 0, rt |-> 0, body |-> NoHash]

(* Bridge.start: the stream is open and the first pass runs. *)
AttachmentInit ==
  /\ \E l \in Locators, a \in BOOLEAN :
       loc = [n |-> 1, at |-> l, status |-> "registered", hash |-> NoHash, auth |-> a]
  /\ disk \in [Locators -> FileContents] /\ had = [l \in Locators |-> {disk[l]}]
  /\ root = 1 /\ minted = [g \in 1 .. MaxRoots |-> "none"]
  /\ act \in {[st |-> "none", rev |-> 0, body |-> NoHash, held |-> {}, author |-> "none"]} \cup
       [st : {"active"}, rev : {1}, body : FileContents, held : {{}, {PersonGrant}},
        author : {"person"}]
  /\ prof = [st |-> "none", rev |-> 0, body |-> NoHash] /\ rt = [rev |-> 0, st |-> "none"]
  /\ own = NoOwner /\ receipts = {}
  /\ pass = [IdlePass EXCEPT !.pc = "list"] /\ frames = 0 /\ joined = 0
  /\ moved = 0 /\ attachFaults = 0

-----------------------------------------------------------------------------
(* The Bus: the locator binding and the receipts under it.                   *)

(* requireCurrentBinding, and the expected binding of updateCurrentBinding *)
BindingIsCurrent(n) == n = loc.n

(* localProductWorkspacePolicy; without it no operation is named for an Actor. *)
PolicyRoot == IF loc.auth THEN root ELSE 0

(* plannedAuthority: the import keeps what it did not give. *)
KeepsGrants == act.rev # 0 /\ (PolicyRoot = 0 \/ PersonGrant \in act.held)
PlannedGrants ==
  IF KeepsGrants THEN act.held ELSE IF PolicyRoot = 0 THEN {} ELSE {PolicyRoot}
IsRevoked(g) == g # PersonGrant /\ minted[g] = "revoked"
UsesPolicy == ~KeepsGrants /\ PolicyRoot # 0

(* Mutant: an import that does not look for changes made elsewhere. *)
ChangedOutside_Never == FALSE
(* preflight: the resources are no longer as the import left them. *)
ChangedOutside == act.rev # own.def \/ prof.rev # own.prof \/ rt.rev # own.rt
Conflicts(c) ==
  \/ own # NoOwner /\ ChangedOutside
  \/ own # NoOwner /\ UsesPolicy /\ \E g \in act.held : IsRevoked(g)
  \/ own = NoOwner /\ act.rev # 0 /\ <<act.body, act.held>> # <<c, PlannedGrants>>
  \/ own = NoOwner /\ prof.rev # 0 /\ prof.body # c
  \/ act.st = "retired" \/ prof.st = "retired" \/ rt.st = "disabled"
  \/ UsesPolicy /\ IsRevoked(PolicyRoot)

ImportedActor(c) ==
  IF act.rev # 0 /\ <<act.body, act.held>> = <<c, PlannedGrants>>
    THEN [act EXCEPT !.author = "import"]
    ELSE [st |-> "active", rev |-> act.rev + 1, body |-> c, held |-> PlannedGrants,
          author |-> "import"]
ImportedProfile(c) ==
  IF prof.body = c THEN prof ELSE [st |-> "active", rev |-> prof.rev + 1, body |-> c]
(* runtimeBindingStatus: without operation authority the binding is unresolved. *)
RuntimeStatus == IF PlannedGrants = {} THEN "unresolved" ELSE "resolved"
ImportedRuntime(c) ==
  IF prof.body = c /\ rt.st = RuntimeStatus THEN rt
  ELSE [rev |-> rt.rev + 1, st |-> RuntimeStatus]
(* ensureGrant *)
GrantsAfter == IF UsesPolicy THEN [minted EXCEPT ![PolicyRoot] = "active"] ELSE minted

ReceiptOf(n, c) == [n |-> n, file |-> c, root |-> PolicyRoot]
Earlier(r) == {x \in receipts : [n |-> x.n, file |-> x.file, root |-> x.root] = r}
StoredAs(r, outcome) ==
  receipts \cup {[n |-> r.n, file |-> r.file, root |-> r.root, applied |-> outcome]}

(* recordRefusal: nothing but the receipt is written. *)
Refuse(r) == receipts' = StoredAs(r, FALSE) /\ UNCHANGED <<loc, root, minted, act, prof, rt, own>>
(* importWorkspaceConfiguration: only an applied receipt advances the hash. *)
Activated(c, applied) == IF applied THEN [loc EXCEPT !.hash = c] ELSE loc

(* import: a receipt of the same inventory under the same policy is replayed; *)
(* files that are not valid or would replace what others made are refused; an *)
(* applied receipt advances the active configuration of the binding.          *)
Import(n, c, applied) ==
  LET r == ReceiptOf(n, c) IN
  \/ /\ Earlier(r) # {} /\ applied = (\E x \in Earlier(r) : x.applied)
     /\ loc' = Activated(c, applied)
     /\ UNCHANGED busAttach
  \/ /\ Earlier(r) = {} /\ (c = Invalid \/ Conflicts(c)) /\ ~applied
     /\ Refuse(r)
  \/ /\ Earlier(r) = {} /\ c # Invalid /\ ~Conflicts(c) /\ applied
     /\ act' = ImportedActor(c) /\ prof' = ImportedProfile(c) /\ rt' = ImportedRuntime(c)
     /\ minted' = GrantsAfter
     /\ own' = [def |-> act'.rev, prof |-> prof'.rev, rt |-> rt'.rev, body |-> c]
     /\ receipts' = StoredAs(r, TRUE) /\ loc' = Activated(c, TRUE)
     /\ UNCHANGED root

(* notifyMaterialization: the call that waits for this binding is answered. *)
Notified(n) == IF joined = n THEN 0 ELSE joined
(* updateCurrentBinding *)
UpdateCurrentBinding(n, status) == BindingIsCurrent(n) /\ loc' = [loc EXCEPT !.status = status]
(* reportAttachment *)
Report(n, status) == UpdateCurrentBinding(n, status) /\ joined' = Notified(n)

-----------------------------------------------------------------------------
(* The pass of the Bridge: one request is in flight at a time. *)

(* attachKnownWorkspaces: what listWorkspaces answers; pushes since then ask again. *)
Listed(p) == [p EXCEPT !.pc = "look", !.n = loc.n, !.at = loc.at, !.auth = loc.auth]
ListWorkspaces ==
  /\ pass.pc = "list" /\ pass' = Listed(pass)
  /\ UNCHANGED <<loc, disk, had, busAttach, frames, joined, moved, attachFaults>>

(* The end of one round: again when a push asked for it. *)
EndOfPass(p) ==
  IF p.again THEN [p EXCEPT !.pc = "list", !.again = FALSE] ELSE IdlePass
(* The frame that waited is done with the last round. *)
RoundEnds ==
  /\ pass' = EndOfPass(pass)
  /\ frames' = IF pass'.pc = "idle" /\ pass.waited THEN frames - 1 ELSE frames

(* attachWorkspace up to its first request: nothing is done for a folder that *)
(* may not be initialised; the files are read before the import is requested. *)
LookAtFolder ==
  /\ pass.pc = "look"
  /\ IF ~pass.auth THEN RoundEnds
     ELSE /\ pass' = IF disk[pass.at] = Gone
                       THEN [pass EXCEPT !.pc = "report", !.status = "workspace_inaccessible"]
                       ELSE [pass EXCEPT !.pc = "import", !.file = disk[pass.at]]
          /\ UNCHANGED frames
  /\ UNCHANGED <<loc, disk, had, busAttach, joined, moved, attachFaults>>

(* importProjectConfiguration; its errors are kept and the attachment goes on. *)
RequestImport ==
  /\ pass.pc = "import"
  /\ \/ /\ BindingIsCurrent(pass.n)
        /\ \E applied \in BOOLEAN :
             /\ Import(pass.n, pass.file, applied)
             /\ pass' = [pass EXCEPT !.pc = "endpoints", !.applied = applied]
        /\ UNCHANGED attachFaults
     \/ /\ ~BindingIsCurrent(pass.n)
        /\ pass' = [pass EXCEPT !.pc = "endpoints", !.applied = FALSE]
        /\ UNCHANGED <<loc, busAttach, attachFaults>>
     \/ /\ attachFaults < MaxAttachFaults /\ attachFaults' = attachFaults + 1
        /\ pass' = [pass EXCEPT !.pc = "endpoints", !.applied = FALSE]
        /\ \/ UNCHANGED <<loc, busAttach>>
           \/ BindingIsCurrent(pass.n) /\ \E applied \in BOOLEAN : Import(pass.n, pass.file, applied)
  /\ UNCHANGED <<disk, had, frames, joined, moved>>

(* listRuntimeEndpoints and their registration, and the status that follows *)
HasRuntime == rt.rev # 0 /\ act.st = "active"
ListEndpoints ==
  /\ pass.pc = "endpoints"
  /\ \/ /\ BindingIsCurrent(pass.n)
        /\ pass' = [pass EXCEPT !.pc = "report",
                      !.status = IF pass.applied \/ HasRuntime THEN "attached" ELSE "config_invalid"]
        /\ UNCHANGED attachFaults
     \/ /\ \/ ~BindingIsCurrent(pass.n) /\ UNCHANGED attachFaults
           \/ attachFaults < MaxAttachFaults /\ attachFaults' = attachFaults + 1
        /\ pass' = [pass EXCEPT !.pc = "report", !.status = "attach_failed"]
  /\ UNCHANGED <<loc, disk, had, busAttach, frames, joined, moved>>

(* A pass that fails: the frame that waits for it fails with it and is sent   *)
(* again after the reconnect; the pass of start takes the Bridge down.        *)
FailedPass ==
  pass' = IF pass.waited THEN IdlePass ELSE [IdlePass EXCEPT !.pc = "exited"]

(* reportOnce, repeated as attach_failed when it cannot be stored *)
SendReport ==
  /\ pass.pc = "report"
  /\ \/ /\ Report(pass.n, pass.status)
        /\ RoundEnds /\ UNCHANGED attachFaults
     \/ /\ attachFaults < MaxAttachFaults /\ attachFaults' = attachFaults + 1
        /\ \/ UNCHANGED <<loc, joined>>
           \/ Report(pass.n, pass.status)
        /\ IF pass.status # "attach_failed"
             THEN pass' = [pass EXCEPT !.status = "attach_failed"] ELSE FailedPass
        /\ UNCHANGED frames
     \/ ~BindingIsCurrent(pass.n) /\ FailedPass /\ UNCHANGED <<loc, joined, frames, attachFaults>>
  /\ UNCHANGED <<disk, had, busAttach, moved>>

(* handleEventStreamMessage: a frame starts a pass, or joins the running one *)
(* and asks it for another round. Frames are handled one after another.      *)
TakeFrame ==
  /\ frames > 0 /\ pass.pc # "exited" /\ ~pass.waited
  /\ pass' = IF pass.pc = "idle" THEN [IdlePass EXCEPT !.pc = "list", !.waited = TRUE]
             ELSE [pass EXCEPT !.again = TRUE, !.waited = TRUE]
  /\ UNCHANGED <<loc, disk, had, busAttach, frames, joined, moved, attachFaults>>

BridgeNext ==
  ListWorkspaces \/ LookAtFolder \/ RequestImport \/ ListEndpoints \/ SendReport \/ TakeFrame

-----------------------------------------------------------------------------
(* People. *)

Moves == moved < MaxAttachMoves /\ moved' = moved + 1

(* registerWorkspace of a folder that is registered already: it may now be *)
(* initialised, and the caller may wait for the result.                    *)
IsSettled(status) == status \in {"attached", "workspace_inaccessible", "config_invalid"}
(* awaitWorkspaceMaterialization: no wait for a result that is there. *)
JoinedAfter == IF IsSettled(loc.status) THEN joined ELSE loc.n
RegisterAgain(waits) ==
  /\ Moves /\ loc' = [loc EXCEPT !.auth = TRUE] /\ frames' = frames + 1
  /\ joined' = IF waits THEN JoinedAfter ELSE joined
  /\ UNCHANGED <<disk, had, busAttach, pass, attachFaults>>
(* The wait ends at its timeout. *)
WaitTimesOut ==
  /\ joined # 0 /\ joined' = 0
  /\ UNCHANGED <<loc, disk, had, busAttach, pass, frames, moved, attachFaults>>

(* rebindLocator *)
RebindWorkspace(l) ==
  /\ Moves /\ loc.n < MaxLocBindings /\ l # loc.at
  /\ \E a \in BOOLEAN :
       loc' = [n |-> loc.n + 1, at |-> l, status |-> "registered", hash |-> NoHash, auth |-> a]
  /\ frames' = frames + 1
  /\ UNCHANGED <<disk, had, busAttach, pass, joined, attachFaults>>

WriteFiles(l, c) ==
  /\ Moves /\ c # disk[l] /\ (c \in had[l] => FilesReturn)
  /\ disk' = [disk EXCEPT ![l] = c] /\ had' = [had EXCEPT ![l] = @ \cup {c}]
  /\ UNCHANGED <<loc, busAttach, pass, frames, joined, attachFaults>>

(* A published edit of the Actor through its own operations. *)
EditActor(c) ==
  /\ Moves /\ act.rev # 0 /\ c # act.body
  /\ act' = [act EXCEPT !.rev = @ + 1, !.body = c, !.author = "person"]
  /\ UNCHANGED <<root, minted, prof, rt, own, receipts>>
SetActorRetired ==
  /\ Moves /\ act.rev # 0
  /\ act' = [act EXCEPT !.st = IF @ = "active" THEN "retired" ELSE "active"]
  /\ UNCHANGED <<root, minted, prof, rt, own, receipts>>
(* Adoption by a person; acceptAuthorityOnlyRevision lets the import go on. *)
AdoptActor ==
  /\ Moves /\ act.st = "active" /\ PersonGrant \notin act.held
  /\ act' = [act EXCEPT !.rev = @ + 1, !.held = {PersonGrant}]
  /\ own' = IF own # NoOwner /\ act.body = own.body THEN [own EXCEPT !.def = act'.rev] ELSE own
  /\ UNCHANGED <<root, minted, prof, rt, receipts>>
ChangeRuntime ==
  /\ Moves /\ rt.rev # 0
  /\ \/ rt' = [rev |-> rt.rev + 1, st |-> "disabled"] /\ UNCHANGED prof
     \/ prof' = [prof EXCEPT !.st = "retired"] /\ UNCHANGED rt
  /\ UNCHANGED <<root, minted, act, own, receipts>>
(* The sole person's authority ends, with the grants that rest on it; or a    *)
(* grant of the import is revoked; or a person has a root again.              *)
ChangeRoot ==
  /\ Moves
  /\ \/ /\ root # 0 /\ root' = 0
        /\ minted' = [minted EXCEPT ![root] = IF @ = "active" THEN "revoked" ELSE @]
     \/ /\ root # 0 /\ minted[root] = "active" /\ minted' = [minted EXCEPT ![root] = "revoked"]
        /\ UNCHANGED root
     \/ root = 0 /\ UNCHANGED minted
        /\ \E g \in 1 .. MaxRoots : minted[g] = "none" /\ root' = g
  /\ UNCHANGED <<act, prof, rt, own, receipts>>

PeopleNext ==
  \/ RegisterAgain(TRUE) \/ RegisterAgain(FALSE) \/ WaitTimesOut
  \/ \E l \in Locators : RebindWorkspace(l)
  \/ \E l \in Locators, c \in FileContents \cup {Invalid, Gone} : WriteFiles(l, c)
  \/ /\ \/ \E c \in FileContents : EditActor(c)
        \/ SetActorRetired \/ AdoptActor \/ ChangeRuntime \/ ChangeRoot
     /\ UNCHANGED <<loc, disk, had, pass, frames, joined, attachFaults>>

AttachmentNext == BridgeNext \/ PeopleNext
AttachmentSpec == AttachmentInit /\ [][AttachmentNext]_attachVars
(* The Bridge takes its frames and goes on with its pass. *)
FairAttachmentSpec == AttachmentSpec /\ WF_attachVars(BridgeNext)

-----------------------------------------------------------------------------
(* A definition a person wrote is never replaced by the files: an import that *)
(* finds the Actor, its Profile or its runtime binding changed since the last *)
(* import is refused, however reports, adoption and retries interleave.       *)
EditedIsKept ==
  [][act.author = "person" /\ act'.author = "import" => act'.body = act.body]_attachVars

(* The active configuration of a binding was read in the folder of that       *)
(* binding: an import of a pass that began before a rebind does not advance   *)
(* the configuration of the new binding.                                      *)
ActiveFromItsFolder == loc.hash # NoHash => loc.hash \in had[loc.at]

(* While the import owns the Actor, the active configuration is what it made  *)
(* of the Actor: only an applied import advances it.                          *)
ActiveIsImported ==
  own # NoOwner /\ ~ChangedOutside /\ loc.hash # NoHash => loc.hash = act.body

(* Every binding that may be initialised is reported on, unless it is replaced *)
(* or the Bridge has exited: a push that arrives during a pass is not lost.   *)
AttachmentFollows ==
  \A n \in 1 .. MaxLocBindings :
    loc.n = n /\ loc.auth ~> loc.n # n \/ loc.status # "registered" \/ pass.pc = "exited"
=============================================================================
