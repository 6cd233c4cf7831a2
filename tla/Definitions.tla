----------------------------- MODULE Definitions -----------------------------
(* The revisioned resources of a Workspace: Actor, Command and runtime       *)
(* profile definitions and Scope compositions (actor-definitions.ts,         *)
(* command-definitions.ts, runtime-profiles.ts, scope-compositions.ts and    *)
(* their operations). A client reads a resource, thinks, and calls with what *)
(* it read; other clients call in between. One resource of any kind.         *)
(* withdrawDraft has no caller and is left out.                              *)
EXTENDS Integers, Sequences, SequencesExt

CONSTANTS
  Kinds,      \* the kinds of the resource: a subset of AllKinds
  Clients,
  Bodies,     \* contents of a definition; a digest tells them apart
  MaxRevs,    \* bound: revisions
  MaxMoves,   \* bound: changes of the head
  Executions  \* the executions that may pin the resource

AllKinds == {"actor", "command", "profile", "scope"}
Revs == 1 .. MaxRevs

ASSUME DefinitionAssumption ==
  Kinds \subseteq AllKinds /\ MaxRevs \in Nat \ {0} /\ MaxMoves \in Nat

VARIABLES
  kind,
  item,       \* status, head (0: none), rev: the revisions, moves: the recorded head changes
  view,       \* what each client read last
  pin         \* the revision each execution is pinned to, and its body then

defVars == <<kind, item, view, pin>>

NoRev == [st |-> "none", body |-> "none", by |-> "operation"]
NoPin == [rev |-> 0, body |-> "none", live |-> FALSE]
Unread == [head |-> 0, body |-> [r \in Revs |-> "none"], impact |-> {}]

DefinitionInit ==
  /\ kind \in Kinds
  /\ item = [status |-> "none", head |-> 0, rev |-> [r \in Revs |-> NoRev], moves |-> <<>>]
  /\ view = [c \in Clients |-> Unread]
  /\ pin = [x \in Executions |-> NoPin]

Exists(r) == item.rev[r].st # "none"
Published(r) == item.rev[r].st = "published"
Free == {r \in Revs : ~Exists(r) /\ \A q \in Revs : q < r => Exists(q)}

(* assessImpact, of a Scope: the active executions pinned to the current plan *)
(* and to the target. The digest also covers what changes between the two.    *)
Impact(r) ==
  {<<"change", item.head, r, item.rev[r].body>>}
  \cup {<<"pinned", x, pin[x].rev, "">> : x \in {y \in Executions :
                                              pin[y].live /\ pin[y].rev \in {item.head, r}}}

-----------------------------------------------------------------------------
(* The stores. An operator is a method: what it requires and how the rows    *)
(* are after it. A refused call changes nothing and is no step.              *)

Change(to) == item' = to /\ UNCHANGED <<kind, view, pin>>

Drafted(r, b) == [item EXCEPT !.rev[r] = [st |-> "draft", body |-> b, by |-> "operation"]]

(* recordHeadChange: the head and the evidence of its change, in one transaction. *)
Moved(r) == [item EXCEPT !.head = r, !.rev[r].st = "published",
                         !.moves = Append(@, [from |-> item.head, to |-> r,
                                              body |-> item.rev[r].body,
                                              by |-> "operation"])]

(* create: the resource and its first draft; a Scope exists before any draft. *)
First(b) == item.status = "none" /\ Change([Drafted(1, b) EXCEPT !.status = "active"])
StoreCreateActor(b) == First(b)
StoreCreateCommand(b) == First(b)
StoreCreateProfile(b) == First(b)

AddDraft(b) == \E r \in Free : Change(Drafted(r, b))
StoreActorDraft(b) == item.status = "active" /\ AddDraft(b)
StoreCommandDraft(b) == item.status = "active" /\ AddDraft(b)
StoreProfileDraft(b) == item.status = "active" /\ AddDraft(b)
StoreScopeDraft(b) == item.status # "none" /\ AddDraft(b)

(* The digest the client gives is that of the revision as it is now. *)
Seen(c, r) == Exists(r) /\ view[c].body[r] = item.rev[r].body

(* Mutant: a replacement of whatever revision has the expected digest. *)
Replaceable_EvenPublished(c, r) == Seen(c, r)

(* replaceDraft: an unpublished draft whose digest is the expected one. *)
Replaceable(c, r) == item.rev[r].st = "draft" /\ Seen(c, r)

StoreActorReplace(c, r, b) == Replaceable(c, r) /\ Change(Drafted(r, b))
StoreCommandReplace(c, r, b) == Replaceable(c, r) /\ Change(Drafted(r, b))
StoreProfileReplace(c, r, b) == Replaceable(c, r) /\ Change(Drafted(r, b))
StoreScopeReplace(r, b) == item.rev[r].st = "draft" /\ Change(Drafted(r, b))

ExpectsHead(c) == view[c].head = item.head /\ Len(item.moves) < MaxMoves

(* moveHead of Actors and of Commands: not of a retired one. *)
ActorMoves(c, r) == item.status = "active" /\ ExpectsHead(c) /\ Change(Moved(r))
CommandMoves(c, r) == item.status = "active" /\ ExpectsHead(c) /\ Change(Moved(r))

(* publishDraft: the draft becomes the head. To publish the head again        *)
(* changes nothing, to publish an older publication is refused.               *)
StoreActorPublish(c, r) == item.rev[r].st = "draft" /\ ActorMoves(c, r)
StoreCommandPublish(c, r) == item.rev[r].st = "draft" /\ CommandMoves(c, r)
(* of a profile, retired or not *)
StoreProfilePublish(c, r) == item.rev[r].st = "draft" /\ ExpectsHead(c) /\ Change(Moved(r))
StoreScopePublish(c, r) ==
  item.rev[r].st = "draft" /\ ExpectsHead(c) /\ view[c].impact = Impact(r) /\ Change(Moved(r))

(* rollback: the head goes back to a retained publication, maybe to itself. *)
StoreActorRollback(c, r) == Published(r) /\ ActorMoves(c, r)
StoreCommandRollback(c, r) == Published(r) /\ CommandMoves(c, r)
StoreProfileRollback(c, r) == Published(r) /\ ExpectsHead(c) /\ Change(Moved(r))
StoreScopeRollback(c, r) ==
  /\ Published(r) /\ r # item.head /\ ExpectsHead(c)
  /\ view[c].impact = Impact(r) /\ Change(Moved(r))

SetStatus(c, to) == view[c].head = item.head /\ Change([item EXCEPT !.status = to])
StoreActorStatus(c, to) == SetStatus(c, to)
StoreCommandStatus(c, to) == SetStatus(c, to)
StoreProfileStatus(c, to) == SetStatus(c, to)

-----------------------------------------------------------------------------
(* The operations. What one client reads, others may change before it calls. *)

(* An operation is available on a resource that exists, in the status it     *)
(* asks for ("any": whichever), and on a revision that exists.               *)
ActorAvailability(need) == kind = "actor" /\ item.status \in (IF need = "any" THEN {"active", "retired"} ELSE {need})
CommandAvailability(need) == kind = "command" /\ item.status \in (IF need = "any" THEN {"active", "retired"} ELSE {need})
ProfileAvailability(need) == kind = "profile" /\ item.status \in (IF need = "any" THEN {"active", "retired"} ELSE {need})
ScopeAvailability == kind = "scope" /\ item.status # "none"
ActorRevision(r) == kind = "actor" /\ Exists(r)
CommandRevision(r) == kind = "command" /\ Exists(r)
ProfileRevision(r) == kind = "profile" /\ Exists(r)
ScopeRevision(r) == kind = "scope" /\ Exists(r)

(* inspect: a client learns the head and the digests of the revisions. *)
Learn(c) ==
  /\ view' = [view EXCEPT ![c].head = item.head, ![c].body = [r \in Revs |-> item.rev[r].body]]
  /\ UNCHANGED <<kind, item, pin>>
InspectActor(c) == ActorAvailability("any") /\ Learn(c)
InspectCommand(c) == CommandAvailability("any") /\ Learn(c)
InspectProfile(c) == ProfileAvailability("any") /\ Learn(c)
InspectScopePlan(c) == ScopeAvailability /\ Learn(c)

(* get: the digest of one revision, and not the head. *)
LearnRevision(c, r) ==
  view' = [view EXCEPT ![c].body[r] = item.rev[r].body] /\ UNCHANGED <<kind, item, pin>>
GetActorDefinition(c, r) == ActorRevision(r) /\ LearnRevision(c, r)
GetCommandDefinition(c, r) == CommandRevision(r) /\ LearnRevision(c, r)
GetProfileRevision(c, r) == ProfileRevision(r) /\ LearnRevision(c, r)
(* What a publication or a rollback to the revision would concern, now. *)
InspectScopeImpact(c, r) ==
  /\ ScopeRevision(r) /\ Seen(c, r)
  /\ view' = [view EXCEPT ![c].impact = Impact(r)] /\ UNCHANGED <<kind, item, pin>>

CreateActor(b) == kind = "actor" /\ StoreCreateActor(b)
CreateCommand(b) == kind = "command" /\ StoreCreateCommand(b)
CreateProfile(b) == kind = "profile" /\ StoreCreateProfile(b)
CreateScope == /\ kind = "scope" /\ item.status = "none"
               /\ Change([item EXCEPT !.status = "active"])

ActorDraft(c, b) == ActorAvailability("active") /\ view[c].head = item.head /\ StoreActorDraft(b)
CommandDraft(c, b) == CommandAvailability("active") /\ view[c].head = item.head /\ StoreCommandDraft(b)
ProfileDraft(c, b) == ProfileAvailability("active") /\ view[c].head = item.head /\ StoreProfileDraft(b)
ScopeDraft(c, b) == ScopeAvailability /\ view[c].head = item.head /\ StoreScopeDraft(b)
(* clone: a draft of the body of another Scope, made without looking at this *)
(* one's head; import: of an exported body, against the head.                *)
ScopeClone(b) == ScopeAvailability /\ StoreScopeDraft(b)
ScopeImport(c, b) == ScopeAvailability /\ view[c].head = item.head /\ StoreScopeDraft(b)

ActorReplace(c, r, b) == ActorRevision(r) /\ StoreActorReplace(c, r, b)
CommandReplace(c, r, b) == CommandRevision(r) /\ StoreCommandReplace(c, r, b)
ProfileReplace(c, r, b) == ProfileRevision(r) /\ StoreProfileReplace(c, r, b)
ScopeReplace(c, r, b) == ScopeRevision(r) /\ Seen(c, r) /\ StoreScopeReplace(r, b)

(* What is published is what the client reviewed. *)
Reviewed(c, r) == Seen(c, r)

ActorPublish(c, r) == ActorRevision(r) /\ Reviewed(c, r) /\ StoreActorPublish(c, r)
CommandPublish(c, r) == CommandRevision(r) /\ Reviewed(c, r) /\ StoreCommandPublish(c, r)
ProfilePublish(c, r) == ProfileRevision(r) /\ Reviewed(c, r) /\ StoreProfilePublish(c, r)
ScopePublish(c, r) == ScopeRevision(r) /\ Reviewed(c, r) /\ StoreScopePublish(c, r)

ActorRollback(c, r) == ActorAvailability("active") /\ StoreActorRollback(c, r)
CommandRollback(c, r) == CommandAvailability("active") /\ StoreCommandRollback(c, r)
ProfileRollback(c, r) == ProfileAvailability("active") /\ StoreProfileRollback(c, r)
ScopeRollback(c, r) == ScopeRevision(r) /\ Reviewed(c, r) /\ StoreScopeRollback(c, r)

Other(to) == IF to = "active" THEN "retired" ELSE "active"
ActorStatus(c, to) == ActorAvailability(Other(to)) /\ StoreActorStatus(c, to)
CommandStatus(c, to) == CommandAvailability(Other(to)) /\ StoreCommandStatus(c, to)
ProfileStatus(c, to) == ProfileAvailability(Other(to)) /\ StoreProfileStatus(c, to)

(* The HTTP routes of Scope compositions check the digest and the head only   *)
(* when the caller sends them: here it does not.                              *)
RouteReplace(r, b) ==
  /\ kind = "scope" /\ item.rev[r].st = "draft" /\ b # item.rev[r].body
  /\ Change([Drafted(r, b) EXCEPT !.rev[r].by = "route"])
RoutePublish(r) ==
  /\ kind = "scope" /\ item.rev[r].st = "draft" /\ Len(item.moves) < MaxMoves
  /\ Change([Moved(r) EXCEPT !.moves[Len(item.moves) + 1].by = "route"])

(* An execution, an attempt or a runtime binding pins the current revision. *)
PinHead(x) ==
  /\ item.head # 0 /\ pin[x].rev = 0
  /\ pin' = [pin EXCEPT ![x] = [rev |-> item.head, body |-> item.rev[item.head].body, live |-> TRUE]]
  /\ UNCHANGED <<kind, item, view>>

EndExecution(x) ==
  pin[x].live /\ pin' = [pin EXCEPT ![x].live = FALSE] /\ UNCHANGED <<kind, item, view>>

ClientStep(c) ==
  \/ InspectActor(c) \/ InspectCommand(c) \/ InspectProfile(c) \/ InspectScopePlan(c)
  \/ \E b \in Bodies : \/ ActorDraft(c, b) \/ CommandDraft(c, b) \/ ProfileDraft(c, b)
                       \/ ScopeDraft(c, b) \/ ScopeImport(c, b)
  \/ \E r \in Revs, b \in Bodies :
       ActorReplace(c, r, b) \/ CommandReplace(c, r, b) \/ ProfileReplace(c, r, b) \/ ScopeReplace(c, r, b)
  \/ \E r \in Revs :
       \/ GetActorDefinition(c, r) \/ GetCommandDefinition(c, r) \/ GetProfileRevision(c, r)
       \/ InspectScopeImpact(c, r)
       \/ ActorPublish(c, r) \/ CommandPublish(c, r) \/ ProfilePublish(c, r) \/ ScopePublish(c, r)
       \/ ActorRollback(c, r) \/ CommandRollback(c, r) \/ ProfileRollback(c, r) \/ ScopeRollback(c, r)
  \/ \E to \in {"active", "retired"} : ActorStatus(c, to) \/ CommandStatus(c, to) \/ ProfileStatus(c, to)

DefinitionNext ==
  \/ \E b \in Bodies : CreateActor(b) \/ CreateCommand(b) \/ CreateProfile(b) \/ ScopeClone(b)
  \/ CreateScope
  \/ \E c \in Clients : ClientStep(c)
  \/ \E r \in Revs : RoutePublish(r) \/ \E b \in Bodies : RouteReplace(r, b)
  \/ \E x \in Executions : PinHead(x) \/ EndExecution(x)

DefinitionSpec == DefinitionInit /\ [][DefinitionNext]_defVars

-----------------------------------------------------------------------------
(* The history stands: the recorded head changes form a chain from nothing to *)
(* the head, and what they published and what executions pinned still has the *)
(* body it had then, whatever drafts were replaced and heads moved since.     *)
HistoryStands ==
  /\ \A i \in DOMAIN item.moves :
       LET m == item.moves[i]
       IN  /\ Published(m.to) /\ item.rev[m.to].body = m.body
           /\ m.from = IF i = 1 THEN 0 ELSE item.moves[i - 1].to
  /\ item.head = IF item.moves = <<>> THEN 0 ELSE Last(item.moves).to
  /\ \A x \in Executions : pin[x].rev # 0 => item.rev[pin[x].rev].body = pin[x].body

(* Nobody overwrites unseen: when an operation replaces a draft, some client  *)
(* had read the very body it replaced; when one moves the head, a client had  *)
(* read the head it moves from, and the very body it publishes; of a Scope    *)
(* the body in any case, and the executions that are concerned. (A rollback   *)
(* of an Actor, a Command or a profile asks for the head alone, so a head     *)
(* that left and came back lets it make current what its caller never read.)  *)
NothingUnseen ==
  [][\A r \in Revs :
       /\ Exists(r) /\ item'.rev[r].body # item.rev[r].body /\ item'.rev[r].by = "operation" =>
            \E c \in Clients : view[c].body[r] = item.rev[r].body
       /\ Len(item'.moves) > Len(item.moves) /\ item'.head = r /\ Last(item'.moves).by = "operation" =>
            \E c \in Clients :
              /\ view[c].head = item.head
              /\ ~Published(r) \/ kind = "scope" => view[c].body[r] = item.rev[r].body
              /\ kind = "scope" => view[c].impact = Impact(r)]_defVars

-----------------------------------------------------------------------------
(* What HistoryStands rests on: the rows have their shape, a resource that    *)
(* was not created has no revisions, and an execution is pinned to a          *)
(* publication, which no call replaces any more.                              *)
Statuses == {"none", "active", "retired"}
Writers == {"operation", "route"}
Texts == Bodies \cup {"none"}
Revisions == [st : {"none", "draft", "published"}, body : Texts, by : Writers]
HeadChanges == [from : Revs \cup {0}, to : Revs, body : Texts, by : Writers]
Pins == [rev : Revs \cup {0}, body : Texts, live : BOOLEAN]

DefinitionTypeOK ==
  /\ kind \in AllKinds
  /\ item \in [status : Statuses, head : Revs \cup {0}, rev : [Revs -> Revisions],
               moves : Seq(HeadChanges)]
  /\ pin \in [Executions -> Pins]

NothingBeforeCreation == item.status = "none" => \A r \in Revs : ~Exists(r)

PinnedIsPublished == \A x \in Executions : pin[x].rev # 0 => Published(pin[x].rev)

DefinitionInv ==
  DefinitionTypeOK /\ NothingBeforeCreation /\ HistoryStands /\ PinnedIsPublished
=============================================================================
