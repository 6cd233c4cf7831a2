-------------------------- MODULE DefinitionProofs --------------------------
(***************************************************************************)
(* Theorems about Definitions, for every set of clients, bodies and          *)
(* executions and every bound. Every step that writes is one of three: it    *)
(* redrafts a revision nobody published, it moves the head to a revision     *)
(* that exists, or it changes the status. The cases are told apart once, in  *)
(* WhatAStepDoes, with what the caller had read; both theorems follow from   *)
(* them.                                                                     *)
(***************************************************************************)
EXTENDS Definitions, SequenceTheorems, TLAPS

(* A revision that nobody published gets a new body; whoever replaces one   *)
(* that exists, through an operation, had read it.                           *)
Redrafts(r, b, s, w) ==
  /\ item.rev[r].st # "published"
  /\ item' = [status |-> s, head |-> item.head,
              rev |-> [item.rev EXCEPT ![r] = [st |-> "draft", body |-> b, by |-> w]],
              moves |-> item.moves]
  /\ w = "operation" /\ Exists(r) => \E c \in Clients : view[c].body[r] = item.rev[r].body

HadRead(r) ==
  \E c \in Clients : /\ view[c].head = item.head
                     /\ ~Published(r) \/ kind = "scope" => view[c].body[r] = item.rev[r].body
                     /\ kind = "scope" => view[c].impact = Impact(r)

(* The head moves to a revision that exists, and the change is recorded.    *)
MovesHead(r, w) ==
  /\ Exists(r)
  /\ item' = [status |-> item.status, head |-> r,
              rev |-> [item.rev EXCEPT ![r] = [st |-> "published", body |-> item.rev[r].body,
                                               by |-> item.rev[r].by]],
              moves |-> Append(item.moves, [from |-> item.head, to |-> r,
                                            body |-> item.rev[r].body, by |-> w])]
  /\ w = "operation" => HadRead(r)

Restates(s) ==
  item' = [status |-> s, head |-> item.head, rev |-> item.rev, moves |-> item.moves]

Repins ==
  \E x \in Executions :
    \/ /\ item.head # 0
       /\ pin' = [pin EXCEPT ![x] = [rev |-> item.head, body |-> item.rev[item.head].body,
                                     live |-> TRUE]]
    \/ pin' = [pin EXCEPT ![x].live = FALSE]

(* The forms of a step.                                                      *)
Writes ==
  \/ \E r \in Revs, b \in Bodies, s \in Statuses \ {"none"}, w \in Writers : Redrafts(r, b, s, w)
  \/ \E r \in Revs, w \in Writers : MovesHead(r, w)
  \/ \E s \in Statuses \ {"none"} : Restates(s)

Form ==
  /\ kind' = kind
  /\ \/ Writes /\ pin' = pin
     \/ Repins /\ item' = item
     \/ item' = item /\ pin' = pin

-----------------------------------------------------------------------------
(* The fields of the row of a definition, read off its type.                *)
LEMMA ItemFields ==
  ASSUME DefinitionTypeOK
  PROVE  /\ item = [status |-> item.status, head |-> item.head, rev |-> item.rev,
                    moves |-> item.moves]
         /\ item.status \in Statuses /\ item.head \in Revs \cup {0}
         /\ item.rev \in [Revs -> Revisions] /\ item.moves \in Seq(HeadChanges)
  BY DEF DefinitionTypeOK

(* Its revisions are records of three fields.                               *)
LEMMA RevisionFields ==
  ASSUME DefinitionTypeOK, NEW r \in Revs
  PROVE  /\ item.rev[r] = [st |-> item.rev[r].st, body |-> item.rev[r].body, by |-> item.rev[r].by]
         /\ item.rev[r].st \in {"none", "draft", "published"}
         /\ item.rev[r].body \in Texts /\ item.rev[r].by \in Writers
  BY ItemFields DEF Revisions

(* Drafted and Moved, which the stores write, by their fields.              *)
LEMMA DraftedIs ==
  ASSUME DefinitionTypeOK, NEW r \in Revs, NEW b
  PROVE  Drafted(r, b) =
           [status |-> item.status, head |-> item.head,
            rev |-> [item.rev EXCEPT ![r] = [st |-> "draft", body |-> b, by |-> "operation"]],
            moves |-> item.moves]
  BY ItemFields DEF Drafted

LEMMA MovedIs ==
  ASSUME DefinitionTypeOK, NEW r \in Revs
  PROVE  Moved(r) =
           [status |-> item.status, head |-> r,
            rev |-> [item.rev EXCEPT ![r] = [st |-> "published", body |-> item.rev[r].body,
                                             by |-> item.rev[r].by]],
            moves |-> Append(item.moves, [from |-> item.head, to |-> r,
                                          body |-> item.rev[r].body, by |-> "operation"])]
<1> DEFINE new == Append(item.moves, [from |-> item.head, to |-> r,
                                      body |-> item.rev[r].body, by |-> "operation"])
           old == item.rev[r]
<1>0. old \in Revisions BY ItemFields
<1>2. Moved(r) = [item EXCEPT !.head = r, !.rev = [item.rev EXCEPT ![r] = [old EXCEPT !.st = "published"]],
                              !.moves = new]
  BY ItemFields DEF Moved
<1> HIDE DEF new, old
<1>1. [old EXCEPT !.st = "published"] = [st |-> "published", body |-> old.body, by |-> old.by]
  BY <1>0 DEF Revisions
<1>3. Moved(r) = [status |-> item.status, head |-> r,
                  rev |-> [item.rev EXCEPT ![r] = [old EXCEPT !.st = "published"]], moves |-> new]
  BY <1>2, ItemFields
<1>4. QED BY <1>1, <1>3 DEF new, old

-----------------------------------------------------------------------------
(* A new draft of a resource that exists or is being created.               *)
LEMMA FirstRedrafts ==
  ASSUME DefinitionInv, NEW b \in Bodies, First(b)
  PROVE  Form
<1>1. 1 \in Revs BY DefinitionAssumption DEF Revs
<1>2. item.rev[1].st = "none" BY <1>1 DEF First, DefinitionInv, NothingBeforeCreation, Exists
<1>3. item' = [status |-> "active", head |-> item.head,
               rev |-> [item.rev EXCEPT ![1] = [st |-> "draft", body |-> b, by |-> "operation"]],
               moves |-> item.moves]
  BY <1>1, DraftedIs DEF First, Change, DefinitionInv
<1>4. Redrafts(1, b, "active", "operation") BY <1>2, <1>3 DEF Redrafts, Exists
<1>5. QED BY <1>1, <1>4 DEF Form, Writes, Statuses, Writers, First, Change

LEMMA AddDraftRedrafts ==
  ASSUME DefinitionInv, NEW b \in Bodies, AddDraft(b), item.status # "none"
  PROVE  Form
<1>1. PICK r \in Free : Change(Drafted(r, b)) BY DEF AddDraft
<1>2. r \in Revs /\ item.rev[r].st = "none" BY DEF Free, Exists
<1>3. Redrafts(r, b, item.status, "operation")
  BY <1>1, <1>2, DraftedIs DEF Redrafts, Exists, Change, DefinitionInv
<1>4. item.status \in Statuses \ {"none"} BY ItemFields DEF DefinitionInv
<1>5. QED BY <1>1, <1>2, <1>3, <1>4 DEF Form, Writes, Writers, Change

(* An operation replaces a draft that its caller read.                      *)
LEMMA ReplaceRedrafts ==
  ASSUME DefinitionInv, NEW c \in Clients, NEW r \in Revs, NEW b \in Bodies,
         item.rev[r].st = "draft", Seen(c, r), Change(Drafted(r, b))
  PROVE  Form
<1>1. Redrafts(r, b, item.status, "operation")
  BY DraftedIs DEF Redrafts, Change, DefinitionInv, Seen
<1>2. item.status \in Statuses \ {"none"}
  BY ItemFields DEF DefinitionInv, NothingBeforeCreation, Exists
<1>3. QED BY <1>1, <1>2 DEF Form, Writes, Writers, Change

(* An operation moves the head that its caller read.                        *)
LEMMA MoveMoves ==
  ASSUME DefinitionInv, NEW c \in Clients, NEW r \in Revs, Exists(r),
         ExpectsHead(c), Change(Moved(r)),
         ~Published(r) \/ kind = "scope" => view[c].body[r] = item.rev[r].body,
         kind = "scope" => view[c].impact = Impact(r)
  PROVE  Form
<1>1. HadRead(r) BY DEF HadRead, ExpectsHead
<1>2. MovesHead(r, "operation") BY <1>1, MovedIs DEF MovesHead, Change, DefinitionInv
<1>3. QED BY <1>2 DEF Form, Writes, Writers, Change

LEMMA StatusRestates ==
  ASSUME DefinitionInv, NEW c \in Clients, NEW to \in {"active", "retired"}, SetStatus(c, to)
  PROVE  Form
<1>1. Restates(to) BY ItemFields DEF Restates, SetStatus, Change, DefinitionInv
<1>2. QED BY <1>1 DEF Form, Writes, Statuses, SetStatus, Change
-----------------------------------------------------------------------------
(* One lemma per operation group: what each does is one of the forms.       *)
LEMMA CreationForm ==
  ASSUME DefinitionInv, NEW b \in Bodies,
         CreateActor(b) \/ CreateCommand(b) \/ CreateProfile(b) \/ ScopeClone(b)
  PROVE  Form
<1>1. CASE First(b) BY <1>1, FirstRedrafts
<1>2. CASE ScopeClone(b)
  BY <1>2, AddDraftRedrafts DEF ScopeClone, StoreScopeDraft
<1>3. QED
  BY <1>1, <1>2 DEF CreateActor, CreateCommand, CreateProfile, StoreCreateActor,
                    StoreCreateCommand, StoreCreateProfile

LEMMA ScopeForm ==
  ASSUME DefinitionInv, CreateScope
  PROVE  Form
<1>1. Restates("active") BY ItemFields DEF Restates, CreateScope, Change, DefinitionInv
<1>2. QED BY <1>1 DEF Form, Writes, Statuses, CreateScope, Change

LEMMA DraftForm ==
  ASSUME DefinitionInv, NEW c \in Clients, NEW b \in Bodies,
         ActorDraft(c, b) \/ CommandDraft(c, b) \/ ProfileDraft(c, b) \/ ScopeDraft(c, b)
           \/ ScopeImport(c, b)
  PROVE  Form
<1>1. AddDraft(b) /\ item.status # "none"
  BY DEF ActorDraft, CommandDraft, ProfileDraft, ScopeDraft, ScopeImport, StoreActorDraft,
         StoreCommandDraft, StoreProfileDraft, StoreScopeDraft
<1>2. QED BY <1>1, AddDraftRedrafts

LEMMA ReplaceForm ==
  ASSUME DefinitionInv, NEW c \in Clients, NEW r \in Revs, NEW b \in Bodies,
         ActorReplace(c, r, b) \/ CommandReplace(c, r, b) \/ ProfileReplace(c, r, b)
           \/ ScopeReplace(c, r, b)
  PROVE  Form
<1>1. item.rev[r].st = "draft" /\ Seen(c, r) /\ Change(Drafted(r, b))
  BY DEF ActorReplace, CommandReplace, ProfileReplace, ScopeReplace, StoreActorReplace,
         StoreCommandReplace, StoreProfileReplace, StoreScopeReplace, Replaceable
<1>2. QED BY <1>1, ReplaceRedrafts

LEMMA PublishForm ==
  ASSUME DefinitionInv, NEW c \in Clients, NEW r \in Revs,
         ActorPublish(c, r) \/ CommandPublish(c, r) \/ ProfilePublish(c, r) \/ ScopePublish(c, r)
  PROVE  Form
<1>1. Exists(r) /\ ExpectsHead(c) /\ Change(Moved(r)) /\ Seen(c, r)
  BY DEF ActorPublish, CommandPublish, ProfilePublish, ScopePublish, StoreActorPublish,
         StoreCommandPublish, StoreProfilePublish, StoreScopePublish, ActorMoves, CommandMoves,
         Reviewed, Seen
<1>2. kind = "scope" => view[c].impact = Impact(r)
  BY DEF ActorPublish, CommandPublish, ProfilePublish, ScopePublish, StoreScopePublish,
         ActorRevision, CommandRevision, ProfileRevision
<1>3. QED BY <1>1, <1>2, MoveMoves DEF Seen

LEMMA RollbackForm ==
  ASSUME DefinitionInv, NEW c \in Clients, NEW r \in Revs,
         ActorRollback(c, r) \/ CommandRollback(c, r) \/ ProfileRollback(c, r) \/ ScopeRollback(c, r)
  PROVE  Form
<1>1. Published(r) /\ ExpectsHead(c) /\ Change(Moved(r))
  BY DEF ActorRollback, CommandRollback, ProfileRollback, ScopeRollback, StoreActorRollback,
         StoreCommandRollback, StoreProfileRollback, StoreScopeRollback, ActorMoves, CommandMoves
<1>2. kind = "scope" => Seen(c, r) /\ view[c].impact = Impact(r)
  BY DEF ActorRollback, CommandRollback, ProfileRollback, ScopeRollback, StoreScopeRollback,
         ActorAvailability, CommandAvailability, ProfileAvailability, Reviewed
<1>3. Exists(r) BY <1>1 DEF Exists, Published
<1>4. QED BY <1>1, <1>2, <1>3, MoveMoves DEF Seen

LEMMA StatusForm ==
  ASSUME DefinitionInv, NEW c \in Clients, NEW to \in {"active", "retired"},
         ActorStatus(c, to) \/ CommandStatus(c, to) \/ ProfileStatus(c, to)
  PROVE  Form
<1>1. SetStatus(c, to)
  BY DEF ActorStatus, CommandStatus, ProfileStatus, StoreActorStatus, StoreCommandStatus,
         StoreProfileStatus
<1>2. QED BY <1>1, StatusRestates

(* What a client reads changes no row.                                      *)
LEMMA ReadForm ==
  ASSUME NEW c \in Clients,
         \/ InspectActor(c) \/ InspectCommand(c) \/ InspectProfile(c) \/ InspectScopePlan(c)
         \/ \E r \in Revs : \/ GetActorDefinition(c, r) \/ GetCommandDefinition(c, r)
                            \/ GetProfileRevision(c, r) \/ InspectScopeImpact(c, r)
  PROVE  Form
  BY DEF Form, InspectActor, InspectCommand, InspectProfile, InspectScopePlan, Learn,
         GetActorDefinition, GetCommandDefinition, GetProfileRevision, LearnRevision,
         InspectScopeImpact

(* To replace the element just appended is to append another.               *)
LEMMA AppendOther ==
  ASSUME NEW s \in Seq(HeadChanges), NEW m \in HeadChanges, NEW w \in HeadChanges
  PROVE  [Append(s, m) EXCEPT ![Len(s) + 1] = w] = Append(s, w)
<1> DEFINE n == Len(s) + 1
           a == Append(s, m)
           c == Append(s, w)
<1>1. n \in Nat /\ n \in 1 .. n BY LenProperties
<1>2. a \in [1 .. n -> HeadChanges] /\ c \in [1 .. n -> HeadChanges] /\ c[n] = w BY AppendProperties, LenProperties
<1>3. \A i \in 1 .. n : i # n => a[i] = s[i] /\ c[i] = s[i] BY AppendProperties, LenProperties
<1> HIDE DEF n, a, c
<1>4. [a EXCEPT ![n] = w] \in [1 .. n -> HeadChanges] BY <1>1, <1>2
<1>5. \A i \in 1 .. n : [a EXCEPT ![n] = w][i] = c[i] BY <1>2, <1>3
<1>6. [a EXCEPT ![n] = w] = c BY <1>2, <1>4, <1>5
<1>7. QED BY <1>6 DEF a, c, n

(* The HTTP routes: no client need have read anything, and the row says so. *)
LEMMA RouteForm ==
  ASSUME DefinitionInv, NEW r \in Revs,
         RoutePublish(r) \/ \E b \in Bodies : RouteReplace(r, b)
  PROVE  Form
<1>1. CASE \E b \in Bodies : RouteReplace(r, b)
  <2>1. PICK b \in Bodies : RouteReplace(r, b) BY <1>1
  <2> DEFINE d == [st |-> "draft", body |-> b, by |-> "operation"]
             w == [st |-> "draft", body |-> b, by |-> "route"]
             one == [item.rev EXCEPT ![r] = d]
             two == [one EXCEPT ![r].by = "route"]
  <2>a. DefinitionTypeOK BY DEF DefinitionInv
  <2>b. two = [item.rev EXCEPT ![r] = w] BY <2>a, ItemFields
  <2>c. Drafted(r, b) = [status |-> item.status, head |-> item.head, rev |-> one,
                         moves |-> item.moves]
    BY <2>a, DraftedIs
  <2>d. item' = [Drafted(r, b) EXCEPT !.rev = two] BY <2>1, <2>c DEF RouteReplace, Change
  <2> HIDE DEF one, two, w
  <2>2. item' = [status |-> item.status, head |-> item.head, rev |-> [item.rev EXCEPT ![r] = w],
                 moves |-> item.moves]
    BY <2>b, <2>c, <2>d
  <2>3. Redrafts(r, b, item.status, "route") BY <2>1, <2>2 DEF RouteReplace, Redrafts, w
  <2>4. item.status \in Statuses \ {"none"}
    BY <2>1, ItemFields DEF DefinitionInv, NothingBeforeCreation, Exists, RouteReplace
  <2>5. QED BY <2>1, <2>3, <2>4 DEF Form, Writes, Writers, RouteReplace, Change
<1>2. CASE RoutePublish(r)
  <2> DEFINE m == [from |-> item.head, to |-> r, body |-> item.rev[r].body, by |-> "operation"]
             w == [from |-> item.head, to |-> r, body |-> item.rev[r].body, by |-> "route"]
             n == Len(item.moves) + 1
             new == Append(item.moves, m)
             alt == [new EXCEPT ![n].by = "route"]
             rev == [item.rev EXCEPT ![r] = [st |-> "published", body |-> item.rev[r].body,
                                             by |-> item.rev[r].by]]
  <2>0. DefinitionTypeOK BY DEF DefinitionInv
  <2>1. Moved(r) = [status |-> item.status, head |-> r, rev |-> rev, moves |-> new]
    BY <2>0, MovedIs
  <2>2. item.moves \in Seq(HeadChanges) /\ m \in HeadChanges /\ w \in HeadChanges
    BY <2>0, ItemFields, RevisionFields DEF HeadChanges, Writers
  <2>3. alt = Append(item.moves, w)
    <3>1. new \in Seq(HeadChanges) /\ Len(new) = n /\ new[n] = m BY <2>2
    <3>2. [new[n] EXCEPT !.by = "route"] = w BY <3>1
    <3>3. [new EXCEPT ![n].by = "route"] = [new EXCEPT ![n] = w] BY <3>1, <3>2
    <3>4. ASSUME NEW a \in HeadChanges, NEW b \in HeadChanges
          PROVE  [Append(item.moves, a) EXCEPT ![Len(item.moves) + 1] = b] = Append(item.moves, b)
      BY <2>2, AppendOther
    <3> HIDE DEF m, w
    <3>5. [new EXCEPT ![n] = w] = Append(item.moves, w) BY <2>2, <3>4
    <3>6. QED BY <3>3, <3>5
  <2>4. item' = [[status |-> item.status, head |-> r, rev |-> rev, moves |-> new]
                   EXCEPT !.moves = alt]
    BY <1>2, <2>1 DEF RoutePublish, Change
  <2> HIDE DEF new, m, n, rev, alt, w
  <2>5. item' = [status |-> item.status, head |-> r, rev |-> rev, moves |-> Append(item.moves, w)]
    BY <2>3, <2>4
  <2>6. MovesHead(r, "route")
    BY <1>2, <2>5 DEF MovesHead, rev, w, RoutePublish, Exists
  <2>7. QED BY <1>2, <2>6 DEF Form, Writes, Writers, RoutePublish, Change
<1>3. QED BY <1>1, <1>2

LEMMA PinForm ==
  ASSUME NEW x \in Executions, PinHead(x) \/ EndExecution(x)
  PROVE  Form
  BY DEF PinHead, EndExecution, Form, Repins

(* Every step has one of the forms.                                         *)
LEMMA WhatAStepDoes ==
  ASSUME DefinitionInv, [DefinitionNext]_defVars
  PROVE  Form
<1>1. CASE UNCHANGED defVars BY <1>1 DEF Form, defVars
<1>2. ASSUME NEW c \in Clients, ClientStep(c) PROVE Form
  BY <1>2, ReadForm, DraftForm, ReplaceForm, PublishForm, RollbackForm, StatusForm DEF ClientStep
<1>3. QED
  BY <1>1, <1>2, CreationForm, ScopeForm, RouteForm, PinForm DEF DefinitionNext
-----------------------------------------------------------------------------
(* The forms keep the invariant.                                             *)

(* A recorded change names a revision.                                      *)
LEMMA RecordedTo ==
  ASSUME DefinitionTypeOK
  PROVE  \A i \in DOMAIN item.moves : item.moves[i].to \in Revs
<1>1. \A i \in DOMAIN item.moves : item.moves[i] \in HeadChanges BY ItemFields
<1>2. QED BY <1>1 DEF HeadChanges

(* A redraft: the revision it changes was never published, so no recorded    *)
(* change and no pin names it.                                               *)
LEMMA RedraftKeeps ==
  ASSUME DefinitionInv, NEW r \in Revs, NEW b \in Bodies, NEW s \in Statuses \ {"none"},
         NEW w \in Writers, Redrafts(r, b, s, w), kind' = kind, pin' = pin
  PROVE  DefinitionInv'
<1>0. DefinitionTypeOK BY DEF DefinitionInv
<1>1. /\ item'.status = s /\ item'.head = item.head /\ item'.moves = item.moves
      /\ item'.rev = [item.rev EXCEPT ![r] = [st |-> "draft", body |-> b, by |-> w]]
  BY DEF Redrafts
<1>2. item'.rev \in [Revs -> Revisions]
  BY <1>0, <1>1, ItemFields DEF Revisions, Texts
<1>3. DefinitionTypeOK'
  BY <1>0, <1>1, <1>2, ItemFields DEF DefinitionTypeOK, Redrafts
<1>4. \A q \in Revs : Published(q) => item'.rev[q] = item.rev[q] /\ Published(q)'
  BY <1>0, <1>1, ItemFields DEF Published, Redrafts
<1>5. NothingBeforeCreation' BY <1>1 DEF NothingBeforeCreation
<1>6. \A i \in DOMAIN item.moves : item.moves[i].to \in Revs
  BY <1>0, RecordedTo
<1>7. HistoryStands'
  BY <1>1, <1>4, <1>6, <1>0 DEF HistoryStands, DefinitionInv, PinnedIsPublished, DefinitionTypeOK, Pins
<1>8. PinnedIsPublished'
  BY <1>0, <1>4 DEF PinnedIsPublished, DefinitionInv, DefinitionTypeOK, Pins
<1>9. QED BY <1>3, <1>5, <1>7, <1>8 DEF DefinitionInv

(* A move of the head: the chain grows by a link from the old head.          *)
LEMMA MoveKeeps ==
  ASSUME DefinitionInv, NEW r \in Revs, NEW w \in Writers, MovesHead(r, w), kind' = kind, pin' = pin
  PROVE  DefinitionInv'
<1> DEFINE m == [from |-> item.head, to |-> r, body |-> item.rev[r].body, by |-> w]
           n == Len(item.moves)
<1>0. DefinitionTypeOK BY DEF DefinitionInv
<1>1. /\ item'.status = item.status /\ item'.head = r /\ item'.moves = Append(item.moves, m)
      /\ item'.rev = [item.rev EXCEPT ![r] = [st |-> "published", body |-> item.rev[r].body,
                                              by |-> item.rev[r].by]]
  BY DEF MovesHead
<1>2. /\ item.rev \in [Revs -> Revisions] /\ item.moves \in Seq(HeadChanges)
      /\ item.rev[r].body \in Texts /\ item.rev[r].by \in Writers
      /\ item.status \in Statuses /\ item.head \in Revs \cup {0}
  BY <1>0, ItemFields, RevisionFields
<1>3. m \in HeadChanges BY <1>2 DEF HeadChanges
<1>4. item'.rev \in [Revs -> Revisions] BY <1>1, <1>2 DEF Revisions
<1>5. item'.moves \in Seq(HeadChanges) BY <1>1, <1>2, <1>3
<1>6. DefinitionTypeOK'
  BY <1>0, <1>1, <1>2, <1>4, <1>5 DEF DefinitionTypeOK, MovesHead
<1>7. item.status # "none" BY DEF MovesHead, DefinitionInv, NothingBeforeCreation
<1>8. \A q \in Revs : /\ item'.rev[q].body = item.rev[q].body
                      /\ Published(q) => item'.rev[q].st = "published"
  BY <1>1, <1>2 DEF Published
<1>9. item'.rev[r].st = "published" BY <1>1, <1>2
<1>10. /\ n \in Nat /\ DOMAIN item.moves = 1 .. n /\ DOMAIN item'.moves = 1 .. (n + 1)
       /\ item'.moves[n + 1] = m /\ \A i \in 1 .. n : item'.moves[i] = item.moves[i]
       /\ Len(item'.moves) = n + 1 /\ item'.moves # <<>>
  BY <1>1, <1>2, <1>3, AppendProperties, LenProperties
<1> HIDE DEF n
<1>11. \A i \in 1 .. n : item.moves[i].to \in Revs
  BY <1>0, <1>10, RecordedTo
<1>12. HistoryStands BY DEF DefinitionInv
<1>13. ASSUME NEW i \in DOMAIN item'.moves
       PROVE  /\ item'.rev[item'.moves[i].to].st = "published"
              /\ item'.rev[item'.moves[i].to].body = item'.moves[i].body
              /\ item'.moves[i].from = IF i = 1 THEN 0 ELSE item'.moves[i - 1].to
  <2>1. CASE i \in 1 .. n
    <3>1. item'.moves[i] = item.moves[i] BY <1>10, <2>1
    <3>2. /\ Published(item.moves[i].to) /\ item.rev[item.moves[i].to].body = item.moves[i].body
          /\ item.moves[i].from = IF i = 1 THEN 0 ELSE item.moves[i - 1].to
      BY <1>10, <1>12, <2>1 DEF HistoryStands
    <3>3. i # 1 => item'.moves[i - 1] = item.moves[i - 1]
      <4>1. n \in Nat /\ i \in 1 .. n BY <1>10, <2>1
      <4>2. i # 1 => i - 1 \in 1 .. n BY <4>1
      <4>3. QED BY <1>10, <4>2
    <3>4. item.moves[i].to \in Revs BY <1>11, <2>1
    <3>5. QED BY <1>8, <3>1, <3>2, <3>3, <3>4
  <2>2. CASE i = n + 1
    <3>1. item'.moves[i] = m BY <1>10, <2>2
    <3>2. item.head = IF n = 0 THEN 0 ELSE item.moves[n].to
      <4>1. item.moves = <<>> <=> n = 0 BY <1>2 DEF n
      <4>2. QED BY <1>12, <4>1, <1>2 DEF HistoryStands, Last, n
    <3>3. i # 1 => item'.moves[i - 1] = item.moves[n] BY <1>10, <2>2
    <3>4. m.from = item.head /\ m.to = r /\ m.body = item.rev[r].body OBVIOUS
    <3>5. QED BY <1>8, <1>9, <1>10, <2>2, <3>1, <3>2, <3>3, <3>4
  <2>3. QED BY <1>10, <2>1, <2>2
<1>14. Last(item'.moves).to = r BY <1>10 DEF Last
<1>15. \A x \in Executions : pin[x].rev # 0 => /\ item'.rev[pin[x].rev].body = pin[x].body
                                               /\ item'.rev[pin[x].rev].st = "published"
  <2>1. \A x \in Executions : pin[x].rev # 0 => pin[x].rev \in Revs
    BY <1>0 DEF DefinitionTypeOK, Pins
  <2>2. QED BY <1>8, <2>1 DEF DefinitionInv, HistoryStands, PinnedIsPublished
<1>16. HistoryStands' BY <1>1, <1>10, <1>13, <1>14, <1>15 DEF HistoryStands, Published
<1>17. NothingBeforeCreation' BY <1>1, <1>7 DEF NothingBeforeCreation
<1>18. PinnedIsPublished' BY <1>15 DEF PinnedIsPublished, Published
<1>19. QED BY <1>6, <1>16, <1>17, <1>18 DEF DefinitionInv

LEMMA RestateKeeps ==
  ASSUME DefinitionInv, NEW s \in Statuses \ {"none"}, Restates(s), kind' = kind, pin' = pin
  PROVE  DefinitionInv'
<1>0. DefinitionTypeOK BY DEF DefinitionInv
<1>1. /\ item'.status = s /\ item'.head = item.head /\ item'.moves = item.moves
      /\ item'.rev = item.rev
  BY DEF Restates
<1>2. DefinitionTypeOK' BY <1>0, <1>1, ItemFields DEF DefinitionTypeOK, Restates
<1>3. HistoryStands' BY <1>1 DEF DefinitionInv, HistoryStands, Published
<1>4. NothingBeforeCreation' BY <1>1 DEF NothingBeforeCreation
<1>5. PinnedIsPublished' BY <1>1 DEF DefinitionInv, PinnedIsPublished, Published
<1>6. QED BY <1>2, <1>3, <1>4, <1>5 DEF DefinitionInv

(* A pin: the head is the last recorded change's, hence published.           *)
LEMMA RepinKeeps ==
  ASSUME DefinitionInv, Repins, item' = item, kind' = kind
  PROVE  DefinitionInv'
<1>0. DefinitionTypeOK /\ HistoryStands /\ PinnedIsPublished BY DEF DefinitionInv
<1>1. item.head # 0 => Published(item.head) /\ item.head \in Revs
  <2>1. item.moves \in Seq(HeadChanges) /\ item.head \in Revs \cup {0} BY <1>0, ItemFields
  <2>2. item.head # 0 => item.moves # <<>> /\ item.head = item.moves[Len(item.moves)].to
    BY <1>0 DEF HistoryStands, Last
  <2>3. item.moves # <<>> => Len(item.moves) \in DOMAIN item.moves BY <2>1
  <2>4. QED BY <1>0, <2>1, <2>2, <2>3 DEF HistoryStands
<1>2. PICK x \in Executions :
        \/ /\ item.head # 0
           /\ pin' = [pin EXCEPT ![x] = [rev |-> item.head, body |-> item.rev[item.head].body,
                                         live |-> TRUE]]
        \/ pin' = [pin EXCEPT ![x].live = FALSE]
  BY DEF Repins
<1>3. pin \in [Executions -> Pins] BY <1>0 DEF DefinitionTypeOK
<1>4. /\ pin' \in [Executions -> Pins]
      /\ \A y \in Executions :
           \/ pin'[y].rev = pin[y].rev /\ pin'[y].body = pin[y].body
           \/ item.head # 0 /\ pin'[y].rev = item.head /\ pin'[y].body = item.rev[item.head].body
  <2>1. CASE /\ item.head # 0
             /\ pin' = [pin EXCEPT ![x] = [rev |-> item.head, body |-> item.rev[item.head].body,
                                           live |-> TRUE]]
    <3>1. item.rev[item.head].body \in Texts BY <1>0, <1>1, <2>1, RevisionFields
    <3>2. QED BY <1>1, <1>3, <2>1, <3>1 DEF Pins
  <2>2. CASE pin' = [pin EXCEPT ![x].live = FALSE]
    BY <1>3, <2>2 DEF Pins
  <2>3. QED BY <1>2, <2>1, <2>2
<1>5. DefinitionTypeOK' BY <1>0, <1>4 DEF DefinitionTypeOK
<1>6. HistoryStands' BY <1>0, <1>4 DEF HistoryStands, Published
<1>7. PinnedIsPublished' BY <1>0, <1>1, <1>4 DEF PinnedIsPublished, Published
<1>8. NothingBeforeCreation' BY DEF DefinitionInv, NothingBeforeCreation, Exists
<1>9. QED BY <1>5, <1>6, <1>7, <1>8 DEF DefinitionInv

LEMMA DefinitionStep ==
  ASSUME DefinitionInv, [DefinitionNext]_defVars
  PROVE  DefinitionInv'
<1>1. Form BY WhatAStepDoes
<1>2. CASE item' = item /\ pin' = pin
  BY <1>1, <1>2 DEF Form, DefinitionInv, DefinitionTypeOK, HistoryStands, NothingBeforeCreation,
                    PinnedIsPublished, Published, Exists
<1>3. CASE Writes /\ pin' = pin
  BY <1>1, <1>3, RedraftKeeps, MoveKeeps, RestateKeeps DEF Form, Writes
<1>4. CASE Repins /\ item' = item
  BY <1>1, <1>4, RepinKeeps DEF Form
<1>5. QED BY <1>1, <1>2, <1>3, <1>4 DEF Form

LEMMA DefinitionStart ==
  ASSUME DefinitionInit
  PROVE  DefinitionInv
<1>1. NoRev \in Revisions BY DEF NoRev, Revisions, Texts, Writers
<1>2. NoPin \in Pins /\ NoPin.rev = 0 BY DEF NoPin, Pins, Texts
<1>3. <<>> \in Seq(HeadChanges) OBVIOUS
<1>4. DefinitionTypeOK
  BY <1>1, <1>2, <1>3, DefinitionAssumption DEF DefinitionInit, DefinitionTypeOK, Statuses
<1>5. /\ item.moves = <<>> /\ item.head = 0 /\ \A r \in Revs : item.rev[r].st = "none"
      /\ \A x \in Executions : pin[x].rev = 0
  BY <1>2 DEF DefinitionInit, NoRev
<1>6. HistoryStands BY <1>5 DEF HistoryStands
<1>7. NothingBeforeCreation /\ PinnedIsPublished
  BY <1>5 DEF NothingBeforeCreation, PinnedIsPublished, Exists
<1>8. QED BY <1>4, <1>6, <1>7 DEF DefinitionInv

(* The invariant holds of every behaviour of the stores, operations, routes  *)
(* and executions.                                                           *)
THEOREM DefinitionsAgree == DefinitionSpec => []DefinitionInv
<1>1. DefinitionInit => DefinitionInv BY DefinitionStart
<1>2. DefinitionInv /\ [DefinitionNext]_defVars => DefinitionInv' BY DefinitionStep
<1>3. QED BY <1>1, <1>2, PTL DEF DefinitionSpec

(* The recorded changes of the head form a chain from nothing to the head,   *)
(* and what was published or pinned keeps the body it had, for any number of *)
(* clients, revisions and changes.                                           *)
THEOREM HistoryIsKept == DefinitionSpec => []HistoryStands
<1>1. DefinitionInv => HistoryStands BY DEF DefinitionInv
<1>2. QED BY <1>1, DefinitionsAgree, PTL

(* A step has one form, and its form says what its caller had read.          *)
LEMMA StepSeen ==
  ASSUME DefinitionInv, [DefinitionNext]_defVars, NEW r \in Revs
  PROVE  /\ (Exists(r) /\ item'.rev[r].body # item.rev[r].body /\ item'.rev[r].by = "operation" =>
               \E c \in Clients : view[c].body[r] = item.rev[r].body)
         /\ (Len(item'.moves) > Len(item.moves) /\ item'.head = r
               /\ Last(item'.moves).by = "operation" => HadRead(r))
<1>0. Form BY WhatAStepDoes
<1>1. /\ item.rev \in [Revs -> Revisions] /\ item.moves \in Seq(HeadChanges)
      /\ Len(item.moves) \in Nat
  BY ItemFields DEF DefinitionInv
<1>2. CASE item' = item BY <1>1, <1>2
<1>3. ASSUME NEW q \in Revs, NEW b \in Bodies, NEW s \in Statuses, NEW w \in Writers,
             Redrafts(q, b, s, w)
      PROVE  /\ (Exists(r) /\ item'.rev[r].body # item.rev[r].body /\ item'.rev[r].by = "operation" =>
                  \E c \in Clients : view[c].body[r] = item.rev[r].body)
             /\ item'.moves = item.moves
  <2>1. /\ item'.moves = item.moves
        /\ item'.rev = [item.rev EXCEPT ![q] = [st |-> "draft", body |-> b, by |-> w]]
    BY <1>3 DEF Redrafts
  <2>2. CASE q # r BY <1>1, <2>1, <2>2
  <2>3. CASE q = r BY <1>1, <1>3, <2>1, <2>3 DEF Redrafts
  <2>4. QED BY <2>1, <2>2, <2>3
<1>4. ASSUME NEW q \in Revs, NEW w \in Writers, MovesHead(q, w)
      PROVE  /\ item'.rev[r].body = item.rev[r].body
             /\ item'.head = r /\ Last(item'.moves).by = "operation" => HadRead(r)
  <2> DEFINE m == [from |-> item.head, to |-> q, body |-> item.rev[q].body, by |-> w]
  <2>1. /\ item'.moves = Append(item.moves, m) /\ item'.head = q
        /\ item'.rev = [item.rev EXCEPT ![q] = [st |-> "published", body |-> item.rev[q].body,
                                                by |-> item.rev[q].by]]
    BY <1>4 DEF MovesHead
  <2>2. m \in HeadChanges
    BY ItemFields, RevisionFields DEF DefinitionInv, HeadChanges
  <2>3. Last(item'.moves) = m BY <1>1, <2>1, <2>2, AppendProperties DEF Last
  <2>4. item'.rev[r].body = item.rev[r].body BY <1>1, <2>1
  <2>5. QED BY <1>4, <2>1, <2>3, <2>4 DEF MovesHead
<1>5. ASSUME NEW s, Restates(s) PROVE item'.rev = item.rev /\ item'.moves = item.moves
  BY <1>5 DEF Restates
<1>6. QED BY <1>0, <1>1, <1>2, <1>3, <1>4, <1>5 DEF Form, Writes

(* No operation replaces a draft, or moves a head, on the word of a caller   *)
(* that had not read what it replaces.                                       *)
THEOREM NothingIsOverwrittenUnseen == DefinitionSpec => NothingUnseen
<1>1. DefinitionInv /\ [DefinitionNext]_defVars =>
        [\A r \in Revs :
           /\ Exists(r) /\ item'.rev[r].body # item.rev[r].body /\ item'.rev[r].by = "operation" =>
                \E c \in Clients : view[c].body[r] = item.rev[r].body
           /\ Len(item'.moves) > Len(item.moves) /\ item'.head = r /\ Last(item'.moves).by = "operation" =>
                \E c \in Clients :
                  /\ view[c].head = item.head
                  /\ ~Published(r) \/ kind = "scope" => view[c].body[r] = item.rev[r].body
                  /\ kind = "scope" => view[c].impact = Impact(r)]_defVars
  BY StepSeen DEF HadRead
<1>2. QED BY <1>1, DefinitionsAgree, PTL DEF DefinitionSpec, NothingUnseen
=============================================================================
