------------------------------ MODULE PushStream ------------------------------
(* The push stream from the Bus to one Bridge: the durable ordered ledger and *)
(* the outboxes promoted into it (transport-push-stream.ts), the socket of    *)
(* the Bus (server.ts, /v1/events/stream) and the reconnecting reader of the  *)
(* Bridge (daemon.ts). Either process may die, the connection may break at    *)
(* any time and either side may notice first. The credential of the Bridge is *)
(* valid throughout. An entry of another Workspace is never for this Bridge.  *)
EXTENDS Integers, Sequences, FiniteSets, SequencesExt

CONSTANTS
  Transitions,    \* committed changes the Bus promotes from its outboxes
  Parcels,        \* Deliveries, announced by a push after their commit
  Foreign,        \* those of them that are for other Bridges
  MaxConns,       \* bound: connections the Bridge opens
  MaxStreamFaults,\* bound: crashes, breaks and failed frames
  CloseOvertakes  \* whether a close is seen while frames received before wait

ASSUME PushAssumption ==
  /\ MaxConns \in Nat /\ MaxStreamFaults \in Nat /\ CloseOvertakes \in BOOLEAN
  /\ Transitions \cap Parcels = {} /\ Foreign \subseteq Parcels
  /\ IsFiniteSet(Transitions) /\ "presence" \notin Transitions

Conns == 1 .. MaxConns
NoCursor == -1

VARIABLES
  ledger,     \* log: the entries; ckpt: the Bridge's checkpoint; reg: its registered
              \* socket; due: the Deliveries whose push is still to be appended
  outbox,     \* each transition: "none", "pending" or "pushed"
  parcel,     \* each Delivery: "none", "open" or "taken"
  conn,       \* each connection: both ends and what is on the wire
  reader,     \* the Bridge's stream state
  streamFaults

pushVars == <<ledger, outbox, parcel, conn, reader, streamFaults>>

(* down: the frames the Bridge has not handled, on the wire or waiting in its *)
(* streamMessageChain; up: what the Bus has not read, the last cursor only.   *)
NoConn == [srv |-> "none", down |-> <<>>, up |-> NoCursor, brg |-> "none", seen |-> FALSE]
FreshReader(h) == [sock |-> 0, cursor |-> 0, busy |-> FALSE, avail |-> TRUE, retry |-> TRUE,
                   handled |-> h]

PushInit ==
  /\ ledger = [log |-> <<>>, ckpt |-> 0, reg |-> 0, due |-> {}]
  /\ outbox = [x \in Transitions |-> "none"] /\ parcel = [d \in Parcels |-> "none"]
  /\ conn = [c \in Conns |-> NoConn] /\ reader = FreshReader({}) /\ streamFaults = 0

Frame(k, n) == [k |-> k, n |-> n]
MayReceive(e) == e.to = "bridge"
(* listAfter, filtered as sendPushEntry and the replay filter *)
Replay(log, n) ==
  LET after[i \in 0 .. Len(log) - n] ==
        IF i = 0 THEN <<>>
        ELSE IF MayReceive(log[n + i]) THEN Append(after[i - 1], Frame("entry", n + i))
        ELSE after[i - 1]
  IN  after[Len(log) - n]

-----------------------------------------------------------------------------
(* The Bus.                                                                  *)

(* Promotion acknowledges what it appends in the same transaction. *)
Acked == [x \in Transitions |-> IF outbox[x] = "pending" THEN "pushed" ELSE outbox[x]]

(* drainNodeExecutionStateOutbox and drainActorLifecycleOutbox, then append *)
Promoted(log) ==
  log \o [i \in 1 .. Cardinality({x \in Transitions : outbox[x] = "pending"}) |->
            [of |-> SetToSeq({x \in Transitions : outbox[x] = "pending"})[i], to |-> "bridge"]]

(* sendPushEntry: what the log gained goes to the registered socket; the     *)
(* Bridge looks at no frame of a connection that failed.                     *)
Sent(cs, c, from, log) ==
  IF c # 0 /\ cs[c].brg # "failed" THEN [cs EXCEPT ![c].down = @ \o Replay(log, from)] ELSE cs

(* broadcast(e): drain, append, send; no entry: the drain alone *)
Broadcast(cs, c, es, due) ==
  LET log == Promoted(ledger.log) \o es
  IN  /\ ledger' = [ledger EXCEPT !.log = log, !.reg = c, !.due = due]
      /\ outbox' = Acked
      /\ conn' = Sent(cs, c, Len(ledger.log), log)

(* A transition commits with its outbox record; a Delivery commits alone. *)
CommitTransition(x) ==
  /\ outbox[x] = "none" /\ outbox' = [outbox EXCEPT ![x] = "pending"]
  /\ UNCHANGED <<ledger, parcel, conn, reader, streamFaults>>
CommitParcel(d) ==
  /\ parcel[d] = "none" /\ parcel' = [parcel EXCEPT ![d] = "open"]
  /\ ledger' = [ledger EXCEPT !.due = @ \cup {d}]
  /\ UNCHANGED <<outbox, conn, reader, streamFaults>>

(* onResponse: dispatchPendingNodeStateChanges *)
Drain ==
  /\ \E x \in Transitions : outbox[x] = "pending"
  /\ Broadcast(conn, ledger.reg, <<>>, ledger.due) /\ UNCHANGED <<parcel, reader, streamFaults>>

(* delivery_bundle_available *)
Announce(d) ==
  /\ d \in ledger.due
  /\ Broadcast(conn, ledger.reg, <<[of |-> d, to |-> IF d \in Foreign THEN "other" ELSE "bridge"]>>,
               ledger.due \ {d})
  /\ UNCHANGED <<parcel, reader, streamFaults>>

(* Replay starts at the durable checkpoint, or earlier when the Bridge asks. *)
ReplayFrom(asked) == IF asked = 0 \/ ledger.ckpt < asked THEN ledger.ckpt ELSE asked

Presence == [of |-> "presence", to |-> "bridge"]

(* The authenticate frame: replay, caught_up, registration, the replaced     *)
(* socket closed, presence broadcast.                                        *)
Authenticate(c) ==
  /\ conn[c].srv = "open" /\ conn[c].up # NoCursor
  /\ LET from == ReplayFrom(conn[c].up)
         mine == [conn EXCEPT ![c].up = NoCursor, ![c].srv = "auth",
                    ![c].down = <<Frame("authenticated", from)>> \o Replay(ledger.log, from)
                                \o <<Frame("caught_up", Len(ledger.log))>>]
         old  == ledger.reg
     IN  Broadcast(IF old # 0 THEN [mine EXCEPT ![old].srv = "gone"] ELSE mine, c, <<Presence>>, ledger.due)
  /\ UNCHANGED <<parcel, reader, streamFaults>>

(* acknowledgeBridge: the checkpoint only grows. *)
Acknowledge(c) ==
  /\ conn[c].srv = "auth" /\ conn[c].up # NoCursor
  /\ ledger' = [ledger EXCEPT !.ckpt = IF conn[c].up > @ THEN conn[c].up ELSE @]
  /\ conn' = [conn EXCEPT ![c].up = NoCursor]
  /\ UNCHANGED <<outbox, parcel, reader, streamFaults>>

(* removeSocket, once the other end closed or the wire broke *)
ServerSeesClose(c) ==
  /\ conn[c].srv \in {"open", "auth"} /\ conn[c].brg \in {"failed", "closed"} /\ conn[c].up = NoCursor
  /\ IF ledger.reg = c
     THEN Broadcast([conn EXCEPT ![c].srv = "gone"], 0, <<Presence>>, ledger.due)
     ELSE conn' = [conn EXCEPT ![c].srv = "gone"] /\ UNCHANGED <<ledger, outbox>>
  /\ UNCHANGED <<parcel, reader, streamFaults>>

(* The connections share one streamMessageChain: frames of an earlier one are *)
(* handled first.                                                             *)
Turn(c) == conn[c].down # <<>> /\ \A b \in Conns : b < c => conn[b].down = <<>>

Fault == streamFaults < MaxStreamFaults /\ streamFaults' = streamFaults + 1

(* What the Bridge did not yet receive is lost: it keeps k frames, at least   *)
(* the one it is handling.                                                    *)
Kept(c) == (IF reader.busy /\ Turn(c) THEN 1 ELSE 0) .. Len(conn[c].down)
Cut(cn, k) == [cn EXCEPT !.srv = "gone", !.down = SubSeq(@, 1, k), !.up = NoCursor]

(* The Bus dies: pushes not yet appended are lost. At the restart it drains. *)
BusCrash ==
  /\ Fault
  /\ \E k \in IF ledger.reg = 0 THEN {0} ELSE Kept(ledger.reg) :
       Broadcast([c \in Conns |-> IF conn[c].srv \in {"none", "gone"} THEN conn[c]
                                  ELSE Cut(conn[c], IF c = ledger.reg THEN k ELSE 0)], 0, <<>>, {})
  /\ UNCHANGED <<parcel, reader>>

(* The connection breaks. *)
Break(c) ==
  /\ Fault /\ conn[c].srv \in {"open", "auth"}
  /\ \E k \in Kept(c) :
       LET cut == [conn EXCEPT ![c] = Cut(conn[c], k)]
       IN  IF ledger.reg = c THEN Broadcast(cut, 0, <<Presence>>, ledger.due)
           ELSE conn' = cut /\ UNCHANGED <<ledger, outbox>>
  /\ UNCHANGED <<parcel, reader>>

-----------------------------------------------------------------------------
(* The Bridge.                                                               *)

(* connect and the open event: authenticate from the last cursor. Without an *)
(* authority the socket is closed at once and nothing retries.               *)
Connect ==
  /\ reader.retry
  /\ IF reader.avail
     THEN \E c \in Conns :
            /\ conn[c].srv = "none" /\ \A b \in Conns : b < c => conn[b].srv # "none"
            /\ conn' = [conn EXCEPT ![c].srv = "open", ![c].brg = "open",
                                    ![c].up = reader.cursor]
            /\ reader' = [reader EXCEPT !.sock = c, !.retry = FALSE]
     ELSE reader' = [reader EXCEPT !.retry = FALSE] /\ UNCHANGED conn
  /\ UNCHANGED <<ledger, outbox, parcel, streamFaults>>

Popped(c) == [conn EXCEPT ![c].down = Tail(@)]

(* The frame that authenticates the connection. On a connection that closed   *)
(* since, any other frame is taken for a refusal of the credential.           *)
FrameAtOnce(c) ==
  /\ Turn(c) /\ ~reader.busy /\ conn[c].brg \in {"open", "closed"}
  /\ IF Head(conn[c].down).k = "authenticated"
     THEN conn' = [Popped(c) EXCEPT ![c].brg = "auth"] /\ UNCHANGED reader
     ELSE conn' = Popped(c) /\ reader' = [reader EXCEPT !.avail = FALSE]
  /\ UNCHANGED <<ledger, outbox, parcel, streamFaults>>

FrameBegins(c) ==
  /\ Turn(c) /\ ~reader.busy /\ conn[c].brg = "auth"
  /\ reader' = [reader EXCEPT !.busy = TRUE]
  /\ UNCHANGED <<ledger, outbox, parcel, conn, streamFaults>>

(* Mutant: the end of the catch-up claims nothing. *)
Taken_PushOnly(f) ==
  [d \in Parcels |-> IF f.k = "entry" /\ ledger.log[f.n].of = d THEN "taken" ELSE parcel[d]]

(* attachKnownWorkspaces and processDeliveries take every open Delivery; the *)
(* push of a Delivery takes that one.                                        *)
Taken(f) ==
  [d \in Parcels |->
     IF /\ d \notin Foreign
        /\ \/ f.k = "caught_up" /\ parcel[d] = "open"
           \/ f.k = "entry" /\ ledger.log[f.n].of = d
     THEN "taken" ELSE parcel[d]]

(* Mutant: a failed frame is acknowledged like the others. *)
FrameFails_Acks(c) ==
  /\ Fault /\ Turn(c) /\ reader.busy
  /\ reader' = [reader EXCEPT !.busy = FALSE, !.cursor = Head(conn[c].down).n]
  /\ conn' = [Popped(c) EXCEPT ![c].up = Head(conn[c].down).n]
  /\ UNCHANGED <<ledger, outbox, parcel>>

(* handleEventStreamMessage returns: acknowledged on the current socket only. *)
FrameEnds(c) ==
  /\ Turn(c) /\ reader.busy
  /\ LET f == Head(conn[c].down)
         acks == f.k = "entry" /\ conn[c].brg = "auth" /\ reader.sock = c
     IN  /\ reader' = [reader EXCEPT !.busy = FALSE,
                         !.cursor = IF f.k = "caught_up" \/ acks THEN f.n ELSE @,
                         !.handled = IF f.k = "entry" THEN @ \cup {f.n} ELSE @]
         /\ conn' = IF acks /\ conn[c].srv # "gone" THEN [Popped(c) EXCEPT ![c].up = f.n]
                    ELSE Popped(c)
         /\ parcel' = Taken(f)
  /\ UNCHANGED <<ledger, outbox, streamFaults>>

(* The handler throws: the later frames of this connection are not looked at. *)
FrameFails(c) ==
  /\ Fault /\ Turn(c) /\ reader.busy
  /\ reader' = [reader EXCEPT !.busy = FALSE]
  /\ conn' = [conn EXCEPT ![c].brg = "failed", ![c].down = <<>>]
  /\ UNCHANGED <<ledger, outbox, parcel>>

(* The close event: reconnect with back-off, unless the authority is gone. *)
BridgeSeesClose(c) ==
  /\ conn[c].brg # "none" /\ ~conn[c].seen /\ (conn[c].brg = "failed" \/ conn[c].srv = "gone")
  /\ CloseOvertakes \/ conn[c].down = <<>>
  /\ conn' = [conn EXCEPT ![c].seen = TRUE, ![c].brg = IF @ = "failed" THEN @ ELSE "closed"]
  /\ reader' = [reader EXCEPT !.sock = IF @ = c THEN 0 ELSE @, !.retry = reader.avail]
  /\ UNCHANGED <<ledger, outbox, parcel, streamFaults>>

(* The Bridge dies with what it had read, and starts without a cursor. Its   *)
(* turns are recovered by their leases, not here.                            *)
BridgeCrash ==
  /\ Fault /\ reader.avail
  /\ reader' = FreshReader(reader.handled)
  /\ conn' = [c \in Conns |-> IF conn[c].srv = "none" THEN conn[c]
                ELSE [conn[c] EXCEPT !.brg = "failed", !.seen = TRUE, !.down = <<>>, !.up = NoCursor]]
  /\ UNCHANGED <<ledger, outbox, parcel>>

ServerStep(c) == Authenticate(c) \/ Acknowledge(c) \/ ServerSeesClose(c)
BridgeStep(c) == FrameAtOnce(c) \/ FrameBegins(c) \/ FrameEnds(c) \/ BridgeSeesClose(c)

PushNext ==
  \/ \E x \in Transitions : CommitTransition(x)
  \/ \E d \in Parcels : CommitParcel(d) \/ Announce(d)
  \/ Drain \/ Connect \/ BusCrash \/ BridgeCrash
  \/ \E c \in Conns : ServerStep(c) \/ BridgeStep(c) \/ FrameFails(c) \/ Break(c)

PushSpec == PushInit /\ [][PushNext]_pushVars

(* Sockets and promises make progress; nothing says a change or a fault comes. *)
FairPushSpec ==
  /\ PushSpec
  /\ WF_pushVars(Drain) /\ WF_pushVars(Connect) /\ \A d \in Parcels : WF_pushVars(Announce(d))
  /\ \A c \in Conns : WF_pushVars(ServerStep(c)) /\ WF_pushVars(BridgeStep(c))

-----------------------------------------------------------------------------
Mine(n) == MayReceive(ledger.log[n])

(* Nothing is skipped: the entries for the Bridge that it handled are a      *)
(* prefix of those in the ledger, and everything up to its checkpoint and up *)
(* to its own cursor is among them, across crashes, breaks, failed frames    *)
(* and replaced connections.                                                 *)
NoneSkipped ==
  /\ \A n \in reader.handled : \A m \in 1 .. n : Mine(m) => m \in reader.handled
  /\ \A m \in 1 .. Len(ledger.log) :
       Mine(m) /\ (m <= ledger.ckpt \/ m <= reader.cursor) => m \in reader.handled

(* Each committed transition enters the ledger exactly once, whenever the    *)
(* Bus dies.                                                                 *)
PromotedOnce ==
  \A x \in Transitions :
    Cardinality({n \in DOMAIN ledger.log : ledger.log[n].of = x}) = IF outbox[x] = "pushed" THEN 1 ELSE 0

(* The stream is whole: what the Bridge handled is a prefix of what is for   *)
(* it in the ledger, and every committed transition is there once.           *)
StreamIsWhole == NoneSkipped /\ PromotedOnce

(* A lost connection comes back: a Bridge whose credential is accepted is    *)
(* never left taking it for refused.                                         *)
AuthorityKept == reader.avail

(* A Delivery for the Bridge is taken up in the end, even when the Bus died  *)
(* before it announced it.                                                   *)
ParcelTaken == \A d \in Parcels \ Foreign : parcel[d] # "none" ~> parcel[d] = "taken"

-----------------------------------------------------------------------------
(* What StreamIsWhole rests on, of a ledger g, connections cs and a reader r. *)
Entries == [of : Transitions \cup Parcels \cup {"presence"}, to : {"bridge", "other"}]
Frames == [k : {"authenticated", "entry", "caught_up"}, n : Nat]
Ledgers == [log : Seq(Entries), ckpt : Nat, reg : Conns \cup {0}, due : SUBSET Parcels]
Links == [srv : {"none", "open", "auth", "gone"}, down : Seq(Frames), up : Nat \cup {NoCursor},
          brg : {"none", "open", "auth", "closed", "failed"}, seen : BOOLEAN]
Readers == [sock : Conns \cup {0}, cursor : Nat, busy : BOOLEAN, avail : BOOLEAN, retry : BOOLEAN,
            handled : SUBSET Nat]

TypesOK(g, cs, r) == g \in Ledgers /\ cs \in [Conns -> Links] /\ r \in Readers

(* Whatever is for the Bridge up to n was handled, or is in q before place i. *)
Reached(log, h, q, i, n) ==
  \A m \in 1 .. n : MayReceive(log[m]) =>
    m \in h \/ \E j \in 1 .. (i - 1) : q[j] = Frame("entry", m)

(* No frame of q passes over an entry that was not handled. *)
Covered(log, h, q) ==
  \A i \in 1 .. Len(q) :
    /\ q[i].k = "entry" => q[i].n \in 1 .. Len(log) /\ Reached(log, h, q, i, q[i].n - 1)
    /\ q[i].k = "caught_up" => q[i].n <= Len(log) /\ Reached(log, h, q, i, q[i].n)

Upto(g, r, n) ==
  n <= Len(g.log) /\ \A m \in 1 .. n : MayReceive(g.log[m]) => m \in r.handled

(* A checkpoint, a cursor and what is on its way to become one are true. *)
CursorsOK(g, cs, r) ==
  /\ Upto(g, r, g.ckpt) /\ Upto(g, r, r.cursor)
  /\ \A n \in r.handled : n \in 1 .. Len(g.log) /\ Upto(g, r, n)
  /\ \A c \in Conns : cs[c].up # NoCursor => Upto(g, r, cs[c].up)

(* The two ends of a connection. *)
EndOK(g, c, cn) ==
  /\ cn.srv = "none" <=> cn.brg = "none"
  /\ cn.srv = "none" => cn.down = <<>> /\ cn.up = NoCursor
  /\ cn.srv = "open" => cn.down = <<>> /\ cn.brg \in {"open", "failed"}
  /\ cn.srv = "open" /\ cn.brg = "failed" => cn.up = NoCursor
  /\ cn.srv = "auth" <=> g.reg = c
  /\ cn.srv = "auth" /\ cn.brg = "open" => cn.down # <<>>
  /\ cn.brg = "open" /\ cn.down # <<>> => cn.down[1].k = "authenticated"
  /\ \A i \in 2 .. Len(cn.down) : cn.down[i].k # "authenticated"
  /\ cn.brg = "closed" => cn.srv = "gone"
  /\ cn.brg = "failed" => cn.down = <<>>

EndsOK(g, cs) == \A c \in Conns : EndOK(g, c, cs[c])

(* The Bridge opens a connection when it has seen the end of those before. *)
OneAtATime(cs, r) ==
  /\ \A c \in Conns : cs[c].seen => cs[c].srv = "gone" \/ cs[c].brg = "failed"
  /\ \A b, c \in Conns : b < c /\ cs[c].srv # "none" => cs[b].seen
  /\ r.retry => \A c \in Conns : cs[c].srv # "none" => cs[c].seen

First(cs, c) == cs[c].down # <<>> /\ \A b \in Conns : b < c => cs[b].down = <<>>

(* The frame being handled is the first, of a connection that authenticated. *)
HandlesFirst(cs, r) == r.busy => \E c \in Conns : First(cs, c) /\ cs[c].brg \in {"auth", "closed"}

(* The frames of this connection may still be handled. *)
Counts(cs, r, c) ==
  \/ cs[c].brg \in {"open", "auth"}
  \/ cs[c].down # <<>> /\ cs[c].down[1].k = "authenticated"
  \/ r.busy /\ First(cs, c)

FramesOK(g, cs, r) ==
  /\ \A c \in Conns : Counts(cs, r, c) => Covered(g.log, r.handled, cs[c].down)
  /\ g.reg # 0 /\ cs[g.reg].brg # "failed" =>
       Reached(g.log, r.handled, cs[g.reg].down, Len(cs[g.reg].down) + 1, Len(g.log))

LinksOK(g, cs, r) ==
  /\ TypesOK(g, cs, r) /\ CursorsOK(g, cs, r) /\ EndsOK(g, cs)
  /\ OneAtATime(cs, r) /\ HandlesFirst(cs, r) /\ FramesOK(g, cs, r)

PushInv ==
  /\ LinksOK(ledger, conn, reader) /\ outbox \in [Transitions -> {"none", "pending", "pushed"}]
  /\ PromotedOnce
=============================================================================
