----------------------------- MODULE MCDelivery -----------------------------
(***************************************************************************)
(* Environments in which the Bus's delivery lifecycle is model-checked.     *)
(* Spec of Delivery lets every call arrive at any time; the two below keep  *)
(* only the callers a question is about, so that more rows and endpoints    *)
(* fit. A behaviour stays in the environment it starts in.                  *)
(***************************************************************************)
EXTENDS Delivery

VARIABLE env

Bridged == Endpoints \ Clients

(* Turns of two endpoints of a Bridge ask, answer, are lost with their      *)
(* Bridge (which fails them) and are stopped, in any order, with late and   *)
(* repeated calls: a message to one of the two like endpoints, a request, a *)
(* nested request and both answers.                                         *)
AskingNext ==
  \/ \E d \in Existing :
       \/ \E ep \in Bridged \ {EndpointOf(db, d)} : SubmitRequest(d, ep)
       \/ RecordResult(d, "completed") \/ CancelRuntimeDelivery(d)
       \/ ReportInjected(d) \/ ReportAcknowledged(d)
  \/ \E ep \in Bridged :
       \/ ep \in Askers /\ db.nr = 0 /\ SubmitEvent(ep, None)
       \/ db.bridge[ep] = FALSE /\ RegisterEndpoint(ep, "idle")
       \/ db.status[ep] = "active" /\ TurnEnd(ep)
  \/ RegisterBridge \/ AbandonTurn \/ RegisterBridgeDone

(* What an administrator can do around the work of an endpoint of a Bridge  *)
(* and one of a client; the first Event is a message, the others follow it. *)
(* One row less than in the other environment.                              *)
AdminNext ==
  /\ \/ \E d \in Existing :
          \/ \E ep \in Clients : SubmitRequest(d, ep)
          \/ \E o \in {"completed", "failed"} : RecordClientTurnResult(d, o) \/ RecordResult(d, o)
          \/ ReportInjected(d) \/ ReportAcknowledged(d) \/ CancelRuntimeDelivery(d)
     \/ \E ep \in Askers \cup Clients :
          \/ db.nr = 0 /\ \E a \in (Askers \cup {None}) \ {ep} : SubmitEvent(ep, a)
          \/ RegisterEndpoint(ep, "idle")
          \/ RegisterClientEndpoint(ep) \/ ClaimClientDeliveries(ep)
          \/ TurnEnd(ep)
          \/ RetireEndpoint(ep) \/ DeleteEndpoint(ep)
     \/ \E ep \in Askers :
          \/ \E st \in ActorStates : SetActorStatus(ep, st)
          \/ \E b \in Bindings : SetActorBinding(ep, b)
     \/ ClaimDeliveries \/ ReleaseRestoreHold
  /\ db'.nr < MaxRows

AdminSpec ==
  /\ Init
  /\ (env = "asking" /\ ~db.hold) \/ env = "admin"
  /\ [][/\ (env = "asking" /\ AskingNext) \/ (env = "admin" /\ AdminNext)
        /\ UNCHANGED env]_<<db, env>>
=============================================================================
