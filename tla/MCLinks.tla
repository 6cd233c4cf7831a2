------------------------------ MODULE MCLinks -------------------------------
(***************************************************************************)
(* What links a Bridge to its Bus: the push stream and the attachment of a   *)
(* Workspace folder. They share no state here, so a behaviour is one of a    *)
(* single part, chosen at its start, and only that part must make progress.  *)
(***************************************************************************)
EXTENDS PushStream

CONSTANTS FileContents, FilesReturn

VARIABLES
  part,
  loc, disk, had, root, minted, act, prof, rt, own, receipts, pass, frames, joined, moved,
  attachFaults

Attach == INSTANCE Attachment WITH
  Locators <- {"l", "m"}, MaxLocBindings <- 2, MaxRoots <- 2, MaxAttachMoves <- 2,
  MaxAttachFaults <- 1

ASSUME Attach!AttachmentAssumption

attachVars == <<loc, disk, had, root, minted, act, prof, rt, own, receipts, pass, frames, joined,
                moved, attachFaults>>

Init ==
  /\ part \in {"push", "attach"} /\ PushInit /\ Attach!AttachmentInit
  /\ part = "push" => /\ loc.at = "l" /\ ~loc.auth /\ act.st = "none"
                      /\ \A l, m \in DOMAIN disk : disk[l] = disk[m]
                      /\ \A l \in DOMAIN disk : disk[l] = CHOOSE c \in FileContents : TRUE

PushStep == part = "push" /\ PushNext /\ UNCHANGED <<part, attachVars>>
AttachStep == part = "attach" /\ Attach!AttachmentNext /\ UNCHANGED <<part, pushVars>>

Next == PushStep \/ AttachStep

(* The fairness of PushStream and of Attachment, each in its part.           *)
Spec ==
  /\ Init /\ [][Next]_<<part, pushVars, attachVars>>
  /\ WF_pushVars(part = "push" /\ Drain) /\ WF_pushVars(part = "push" /\ Connect)
  /\ \A d \in Parcels : WF_pushVars(part = "push" /\ Announce(d))
  /\ \A c \in Conns : /\ WF_pushVars(part = "push" /\ ServerStep(c))
                      /\ WF_pushVars(part = "push" /\ BridgeStep(c))
  /\ WF_attachVars(part = "attach" /\ Attach!BridgeNext)

(* The active configuration of a binding was read in its folder, and a       *)
(* definition that a person wrote is never replaced by files (Attachment).   *)
ConfigurationKept == []Attach!ActiveFromItsFolder /\ Attach!EditedIsKept

(* A Delivery for the Bridge is taken up in the end (PushStream), and every  *)
(* binding that may be initialised is reported on (Attachment).              *)
LinksProgress == ParcelTaken /\ Attach!AttachmentFollows
=============================================================================
