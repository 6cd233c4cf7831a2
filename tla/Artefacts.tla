------------------------------- MODULE Artefacts -------------------------------
(* Artefacts of a Workspace: their versions and lineage and the catalogue      *)
(* (artefacts.ts, artefact-operations.ts), the bytes kept by digest in the     *)
(* Workspace folder (store.ts, artefact-content-resolver.ts), one-use uploads  *)
(* (attachment-ingress.ts) and the message that turns them into versions, and  *)
(* the export of a version to a file (artefact-export.ts). The folder belongs  *)
(* to a person: files change under the Bus at any time.                        *)
EXTENDS Integers, Sequences, FiniteSets, SequencesExt

CONSTANTS
  ArtefactIds,   \* numbers, ordered as the catalogue orders ids
  Digests,       \* contents, each with its digest
  UploadIds,     \* attachment ingress sessions
  IntentKeys,    \* idempotency keys of the callers
  PageLimit,
  MaxPending,    \* maximum_pending_sessions
  MaxArtClock, MaxVersions, MaxArtFaults  \* bounds

ArtefactAssumption ==
  /\ ArtefactIds \subseteq Nat /\ PageLimit \in Nat \ {0}
  /\ {MaxPending, MaxArtClock, MaxVersions, MaxArtFaults} \subseteq Nat

VARIABLES
  artefact,  \* the Artefacts: created_at and key; 0 for none
  version,   \* the versions in the order of their commits
  content,   \* by digest: the file that holds the bytes: none, good or bad
  file,      \* what the file named by a publication holds now
  upload,    \* the ingress sessions, in memory
  message,   \* the committed messages by key: the uploads they carried
  export,    \* an export under way, and the destination file
  catalogue,    \* a client paging through the catalogue
  touched,   \* digests whose kept file a person changed or removed
  artClock, artFaults

artVars == <<artefact, version, content, file, upload, message, export, catalogue, touched, artClock, artFaults>>

NoArtefact == [at |-> 0, key |-> "none"]
NoUpload == [st |-> "none", dig |-> "none"]
NoExport == [st |-> "idle", dig |-> "none"]
NoReader == [st |-> "idle", after |-> 0, seen |-> <<>>, first |-> {}]

ArtefactInit ==
  /\ artefact = [i \in ArtefactIds |-> NoArtefact] /\ version = <<>>
  /\ content = [d \in Digests |-> "none"] /\ file = "none"
  /\ upload = [u \in UploadIds |-> NoUpload] /\ message = [k \in IntentKeys |-> {}]
  /\ export = [job |-> NoExport, dest |-> "none"] /\ catalogue = NoReader
  /\ touched = {} /\ artClock = 1 /\ artFaults = 0

-----------------------------------------------------------------------------
(* The store.                                                                *)

ArtefactExists(i) == artefact[i].at # 0
VersionsOf(i) == {n \in DOMAIN version : version[n].art = i}

KeyUsed(k) == \E i \in ArtefactIds : artefact[i].key = k

(* A retry with the same key and data changes nothing, with other data it is refused. *)
CreateArtefact(i, k) ==
  /\ ~KeyUsed(k) /\ ~ArtefactExists(i)
  /\ artefact' = [artefact EXCEPT ![i] = [at |-> artClock, key |-> k]]
  /\ UNCHANGED <<version, content, file, upload, message, export, catalogue, touched, artClock, artFaults>>

(* publishVersion: lineage names existing versions, supersedes the same Artefact's *)
Publishable(i, k, sup) ==
  /\ ArtefactExists(i) /\ Len(version) < MaxVersions
  /\ \A n \in VersionsOf(i) : version[n].key # k
  /\ sup \subseteq VersionsOf(i)

NewVersion(i, k, sup, d) == [art |-> i, key |-> k, sup |-> sup, dig |-> d]

(* content elsewhere: an external revision or a content-addressed resolver *)
PublishVersion(i, k, sup) ==
  /\ Publishable(i, k, sup)
  /\ version' = Append(version, NewVersion(i, k, sup, "external"))
  /\ UNCHANGED <<artefact, content, file, upload, message, export, catalogue, touched, artClock, artFaults>>

-----------------------------------------------------------------------------
(* The kept bytes.                                                           *)

(* persistContextAttachmentContent, for the digests of one transaction: it     *)
(* throws on a kept file that no longer matches, and names what it created.    *)
Persists(ds) == \A d \in ds : content[d] # "bad"
(* Mutant: every path of the transaction counts as created by it. *)
CreatedContent_All(ds) == ds
CreatedContent(ds) == {d \in ds : content[d] = "none"}
Kept(ds) == [d \in Digests |-> IF d \in ds THEN "good" ELSE content[d]]
(* what remains when the transaction fails after the bytes were written *)
RemovedContent(ds) == [d \in Digests |-> IF d \in ds THEN "none" ELSE content[d]]

(* publishArtefactVersion of a Workspace file: read and verified first *)
PublishFile(i, k, sup, d) ==
  /\ Publishable(i, k, sup) /\ file = d /\ Persists({d})
  /\ version' = Append(version, NewVersion(i, k, sup, d))
  /\ content' = Kept({d})
  /\ UNCHANGED <<artefact, file, upload, message, export, catalogue, touched, artClock, artFaults>>

ArtFault == artFaults < MaxArtFaults /\ artFaults' = artFaults + 1

PublishFileFails(i, k, sup, d) ==
  /\ ArtFault /\ Publishable(i, k, sup) /\ file = d /\ Persists({d})
  /\ content' = RemovedContent(CreatedContent({d}))
  /\ UNCHANGED <<artefact, version, file, upload, message, export, catalogue, touched, artClock>>

-----------------------------------------------------------------------------
(* Uploads and the message that carries them.                                *)

PendingUploads == {u \in UploadIds : upload[u].st \in {"awaiting", "ready"}}

IssueUpload(u) ==
  /\ upload[u].st = "none" /\ Cardinality(PendingUploads) < MaxPending
  /\ upload' = [upload EXCEPT ![u] = [st |-> "awaiting", dig |-> "none"]]
  /\ UNCHANGED <<artefact, version, content, file, message, export, catalogue, touched, artClock, artFaults>>

UploadBytes(u, d) ==
  /\ upload[u].st = "awaiting"
  /\ upload' = [upload EXCEPT ![u] = [st |-> "ready", dig |-> d]]
  /\ UNCHANGED <<artefact, version, content, file, message, export, catalogue, touched, artClock, artFaults>>

(* revoke, or prune of an expired session: its bytes are zeroed *)
EndUpload(u, st) ==
  /\ u \in PendingUploads
  /\ upload' = [upload EXCEPT ![u] = [st |-> st, dig |-> "none"]]
  /\ UNCHANGED <<artefact, version, content, file, message, export, catalogue, touched, artClock, artFaults>>

UploadDigests(us) == {upload[u].dig : u \in us}
Sendable(k, us) ==
  /\ us # {} /\ message[k] = {}
  /\ \A u \in us : upload[u].st = "ready"
  /\ Len(version) + Cardinality(us) <= MaxVersions
FreshIds == SetToSortSeq({i \in ArtefactIds : ~ArtefactExists(i)}, LAMBDA i, j : i < j)

Consumed(us) ==
  [u \in UploadIds |-> IF u \in us THEN [st |-> "consumed", dig |-> "none"] ELSE upload[u]]

(* submitPrincipalContextCommunication in commitMany: a new Artefact and       *)
(* version per upload, the Event, the bytes; the uploads are consumed after    *)
(* the commit. A retry with the key of a committed Event returns that Event.   *)
SendMessage(k, us) ==
  LET ids == FreshIds
      order == SetToSeq(us)
  IN  /\ Sendable(k, us) /\ Persists(UploadDigests(us)) /\ Len(ids) >= Len(order)
      /\ artefact' = [i \in ArtefactIds |->
                        IF \E n \in DOMAIN order : ids[n] = i
                        THEN [at |-> artClock, key |-> order[CHOOSE n \in DOMAIN order : ids[n] = i]]
                        ELSE artefact[i]]
      /\ version' = version \o [n \in DOMAIN order |->
                        NewVersion(ids[n], order[n], {}, upload[order[n]].dig)]
      /\ content' = Kept(UploadDigests(us))
      /\ message' = [message EXCEPT ![k] = us]
      /\ upload' = Consumed(us)
      /\ UNCHANGED <<file, export, catalogue, touched, artClock, artFaults>>

(* The transaction fails, before or after bytes were written. *)
SendFails(k, us) ==
  /\ ArtFault /\ Sendable(k, us)
  /\ content' = IF Persists(UploadDigests(us)) THEN RemovedContent(CreatedContent(UploadDigests(us))) ELSE content
  /\ UNCHANGED <<artefact, version, file, upload, message, export, catalogue, touched, artClock>>

(* The Bus dies, perhaps with bytes written and nothing committed; sessions   *)
(* are memory only.                                                           *)
BusDies(us) ==
  /\ ArtFault
  /\ \/ us = {}
     \/ us # {} /\ \A u \in us : upload[u].st = "ready" /\ Persists({upload[u].dig})
  /\ content' = Kept(UploadDigests(us))
  /\ upload' = [u \in UploadIds |-> IF upload[u].st = "none" THEN NoUpload ELSE [st |-> "lost", dig |-> "none"]]
  /\ export' = [export EXCEPT !.job = NoExport]
  /\ UNCHANGED <<artefact, version, file, message, catalogue, touched, artClock>>

-----------------------------------------------------------------------------
(* Export: verified bytes are staged, then linked to a free name.             *)

Resolvable(n) == version[n].dig # "external" /\ content[version[n].dig] = "good"

ExportStages(n) ==
  /\ export.job.st = "idle" /\ Resolvable(n) /\ export.dest = "none"
  /\ export' = [export EXCEPT !.job = [st |-> "staged", dig |-> version[n].dig]]
  /\ UNCHANGED <<artefact, version, content, file, upload, message, catalogue, touched, artClock, artFaults>>

(* linkSync never replaces a target: what appeared meanwhile stays. *)
Linked(dest, d) == IF dest = "none" THEN d ELSE dest

ExportLinks ==
  /\ export.job.st = "staged"
  /\ export' = [job |-> NoExport, dest |-> Linked(export.dest, export.job.dig)]
  /\ UNCHANGED <<artefact, version, content, file, upload, message, catalogue, touched, artClock, artFaults>>

(* A person edits the file of a publication, the destination, a kept file. *)
PersonEdits(d) ==
  /\ \/ file' = d /\ UNCHANGED <<export, content, touched, artFaults>>
     \/ export' = [export EXCEPT !.dest = d] /\ UNCHANGED <<file, content, touched, artFaults>>
     \/ /\ ArtFault /\ content[d] # "none" /\ touched' = touched \cup {d}
        /\ \E st \in {"none", "bad"} : content' = [content EXCEPT ![d] = st]
        /\ UNCHANGED <<file, export>>
  /\ UNCHANGED <<artefact, version, upload, message, catalogue, artClock>>

-----------------------------------------------------------------------------
(* The catalogue: newest first, a page after the last one seen.               *)

(* i comes after j: ORDER BY created_at DESC, artefact_id DESC *)
Follows(i, j) ==
  \/ artefact[i].at < artefact[j].at
  \/ artefact[i].at = artefact[j].at /\ i < j

SearchArtefacts ==
  LET cursor == catalogue.after
      rows == {i \in ArtefactIds : ArtefactExists(i) /\ (catalogue.st = "more" => Follows(i, cursor))}
      sorted == SetToSortSeq(rows, LAMBDA i, j : artefact[i].at > artefact[j].at
                                                 \/ (artefact[i].at = artefact[j].at /\ i > j))
      page == SubSeq(sorted, 1, IF Len(sorted) < PageLimit THEN Len(sorted) ELSE PageLimit)
      more == Len(sorted) > PageLimit
  IN  /\ catalogue.st # "done"
      /\ catalogue' = [st |-> IF more THEN "more" ELSE "done",
                    after |-> IF more THEN Last(page) ELSE 0,
                    seen |-> catalogue.seen \o page,
                    first |-> IF catalogue.st = "idle" THEN rows ELSE catalogue.first]
      /\ UNCHANGED <<artefact, version, content, file, upload, message, export, touched, artClock, artFaults>>

(* The clock of created_at has the resolution of a millisecond. *)
ArtTick ==
  /\ artClock < MaxArtClock /\ artClock' = artClock + 1
  /\ UNCHANGED <<artefact, version, content, file, upload, message, export, catalogue, touched, artFaults>>

CatalogueNext ==
  \/ \E i \in ArtefactIds, k \in IntentKeys : CreateArtefact(i, k)
  \/ SearchArtefacts \/ ArtTick

VersionNext ==
  \E i \in ArtefactIds, k \in IntentKeys, sup \in SUBSET DOMAIN version :
    \/ PublishVersion(i, k, sup)
    \/ \E d \in Digests : PublishFile(i, k, sup, d) \/ PublishFileFails(i, k, sup, d)

MessageNext ==
  \/ \E u \in UploadIds : \/ IssueUpload(u) \/ EndUpload(u, "revoked") \/ EndUpload(u, "expired")
                          \/ \E d \in Digests : UploadBytes(u, d)
  \/ \E us \in SUBSET UploadIds : BusDies(us) \/ \E k \in IntentKeys : SendMessage(k, us) \/ SendFails(k, us)

FileNext ==
  \/ \E n \in DOMAIN version : ExportStages(n)
  \/ ExportLinks
  \/ \E d \in Digests : PersonEdits(d)

ArtefactNext == CatalogueNext \/ VersionNext \/ MessageNext \/ FileNext
ArtefactSpec == ArtefactInit /\ [][ArtefactNext]_artVars

-----------------------------------------------------------------------------
(* Properties.                                                               *)

(* The bytes of every committed version are kept, whatever failed, retried or  *)
(* died since, unless a person changed them: two versions may share one file.  *)
ContentRetained ==
  \A n \in DOMAIN version :
    version[n].dig # "external" => (content[version[n].dig] = "good" \/ version[n].dig \in touched)

(* The uploaded bytes of a session are in at most one message (one-use).       *)
UploadSentOnce == \A k, l \in IntentKeys : k # l => message[k] \cap message[l] = {}

(* A client that pages to the end of the catalogue gets every Artefact that    *)
(* existed when it began, and none twice, while others are created.            *)
CatalogueComplete ==
  /\ \A m, n \in DOMAIN catalogue.seen : m # n => catalogue.seen[m] # catalogue.seen[n]
  /\ catalogue.st = "done" => catalogue.first \subseteq {catalogue.seen[n] : n \in DOMAIN catalogue.seen}

=============================================================================
