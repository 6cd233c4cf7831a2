--------------------------- MODULE HistoryProofs ----------------------------
(***************************************************************************)
(* What the Bus's delivery lifecycle never undoes: answers, results and     *)
(* settled work, and the hold of a restored Workspace. The proofs follow    *)
(* the handlers as those of DeliveryProofs do, one lemma for each operator  *)
(* on the database, and use that the database stays Consistent.             *)
(***************************************************************************)
EXTENDS DeliveryProofs

-----------------------------------------------------------------------------
(* What a step leaves as it was.                                             *)

SettledStates == {"acknowledged", "dead_lettered", "cancelled", "deleted"}

(* What is settled in s is the same in t, and a hold of s starts nothing. *)
Past(s, t) ==
  /\ t.hold = s.hold /\ (s.hold => t.nb = s.nb)
  /\ \A d \in Bundles : s.bundle[d].state \in TerminalStates
                          => t.bundle[d].state = s.bundle[d].state
  /\ \A r \in Rows : s.row[r].state \in SettledStates => t.row[r].state = s.row[r].state
  /\ \A r \in Rows : s.row[r].result # "none" => t.row[r].result = s.row[r].result

(* Nothing is asked, answered or concluded between s and t. *)
SameRequests(s, t) ==
  /\ t.nr = s.nr
  /\ \A r \in Rows : /\ t.row[r].answers = s.row[r].answers /\ t.row[r].kind = s.row[r].kind
                     /\ t.row[r].asker = s.row[r].asker /\ t.row[r].dest = s.row[r].dest
                     /\ t.row[r].result = s.row[r].result
                     /\ s.row[r].kind = "request" =>
                          (t.row[r].pending = "resolved" <=> s.row[r].pending = "resolved")

LEMMA PastTransitive ==
  ASSUME NEW s, NEW t, NEW u, Past(s, t), Past(t, u)
  PROVE  Past(s, u)
BY DEF Past

(* The answers of a database without new requests or answers. *)
LEMMA SameRequestsOK ==
  ASSUME NEW s, NEW t, s \in Database, SameRequests(s, t), Answered(s), Blank(s)
  PROVE  Answered(t) /\ Blank(t)
<1>1. \A x \in Rows : s.row[x].answers # 0 => s.row[x].answers \in Rows
  <2> SUFFICES ASSUME NEW x \in Rows PROVE s.row[x].answers # 0 => s.row[x].answers \in Rows
    OBVIOUS
  <2>1. s.row[x] \in Row BY DatabaseFields
  <2>2. s.row[x].answers \in 0 .. MaxRows BY <2>1 DEF Row
  <2> QED BY <2>2, BoundsNat DEF Rows
<1>2. Answered(t) BY <1>1 DEF Answered, SameRequests
<1>3. Blank(t) BY DEF Blank, SameRequests
<1> QED BY <1>2, <1>3

(* A handler that writes only endpoint columns. *)
LEMMA SameWorkHistoric ==
  ASSUME NEW s, NEW t, Historic(s), SameWork(s, t), t.hold = s.hold
  PROVE  Historic(t) /\ Past(s, t)
BY DEF Historic, Answered, Blank, OneTry, SameWork, Past

LEMMA SetStatusHistoric ==
  ASSUME NEW s, Consistent(s), Historic(s), NEW ep \in Endpoints, NEW st \in Statuses
  PROVE  Historic(SetStatus(s, ep, st)) /\ Past(s, SetStatus(s, ep, st))
<1>1. SetStatus(s, ep, st).hold = s.hold BY DEF SetStatus, Consistent, Database
<1> QED BY <1>1, SetStatusOK, SameWorkHistoric

(* The rows and the bundle of a reservation. *)
LEMMA ReserveFields ==
  ASSUME NEW s, Consistent(s), s.nb < MaxBundles, NEW ep \in Endpoints, NEW r \in Rows
  PROVE  LET t == InsertBundle(ReserveRow(s, r), ep, r)
         IN  /\ t.nr = s.nr /\ t.nb = s.nb + 1 /\ t.hold = s.hold
             /\ \A x \in Rows :
                  t.row[x] = IF x = r THEN Reserved(s.row[r], s.nb + 1) ELSE s.row[x]
             /\ \A d \in Bundles : d # s.nb + 1 => t.bundle[d] = s.bundle[d]
             /\ t.bundle[s.nb + 1].row = r /\ t.bundle[s.nb + 1].state = "reserved"
<1> DEFINE n == s.nb + 1
           W == Reserved(s.row[r], n)
           u == ReserveRow(s, r)
           B == NewBundle(r, u.row[r].attempts, u.bridge[ep])
           t == InsertBundle(u, ep, r)
<1>0. s \in Database BY DEF Consistent
<1>1. /\ s.row \in [Rows -> Row] /\ s.bundle \in [Bundles -> Bundle]
      /\ s.nb \in 0 .. MaxBundles
  BY <1>0, DatabaseFields
<1>2. n \in Bundles BY <1>1, BoundsNat DEF Bundles
<1>3. B.row = r /\ B.state = "reserved" BY DEF NewBundle
<1>4. u = [s EXCEPT !.row = [s.row EXCEPT ![r] = W]] BY DEF ReserveRow
<1> HIDE DEF W, n
<1>5. u = [status |-> s.status, bridge |-> s.bridge, binding |-> s.binding, actor |-> s.actor,
           row |-> [s.row EXCEPT ![r] = W], bundle |-> s.bundle, nr |-> s.nr, nb |-> s.nb,
           hold |-> s.hold, job |-> s.job]
  BY <1>0, <1>4 DEF Database
<1>6. t = [u EXCEPT !.nb = u.nb + 1, !.status[ep] = "active", !.bundle[u.nb + 1] = B]
  BY DEF InsertBundle
<1> HIDE DEF u, B, t
<1>7. /\ t.nr = s.nr /\ t.nb = n /\ t.hold = s.hold
      /\ t.row = [s.row EXCEPT ![r] = W] /\ t.bundle = [s.bundle EXCEPT ![n] = B]
  BY <1>5, <1>6 DEF n
<1>8. /\ \A x \in Rows : t.row[x] = IF x = r THEN W ELSE s.row[x]
      /\ \A d \in Bundles : t.bundle[d] = IF d = n THEN B ELSE s.bundle[d]
  BY <1>1, <1>2, <1>7
<1> QED BY <1>2, <1>3, <1>7, <1>8 DEF n, W, t, u

(* The row of a reservation was queued, so a client's has no bundle yet. *)
LEMMA ReserveHistoric ==
  ASSUME NEW s, Consistent(s), Historic(s), s.nb < MaxBundles, ~s.hold,
         NEW ep \in Endpoints, NEW r \in Rows, s.row[r].dest = ep, s.row[r].state = "queued"
  PROVE  LET t == InsertBundle(ReserveRow(s, r), ep, r)
         IN  Historic(t) /\ Past(s, t) /\ \A x \in Rows : t.row[x].dest = s.row[x].dest
<1> DEFINE n == s.nb + 1
           W == Reserved(s.row[r], n)
           t == InsertBundle(ReserveRow(s, r), ep, r)
<1>0. s \in Database BY DEF Consistent
<1>1. s.nr \in 0 .. MaxRows /\ s.nb \in 0 .. MaxBundles /\ s.row[r] \in Row
  BY <1>0, DatabaseFields
<1>2. n \in Bundles /\ n \in Nat /\ Bundles \subseteq Nat BY <1>1, BoundsNat DEF Bundles
<1>3. /\ W.dest = ep /\ W.state = "reserved" /\ W.delivery = n /\ W.kind = s.row[r].kind
      /\ W.asker = s.row[r].asker /\ W.answers = s.row[r].answers
      /\ W.result = s.row[r].result /\ W.pending = s.row[r].pending
  BY <1>1 DEF Reserved, Row
<1>4. /\ t.nr = s.nr /\ t.nb = n /\ t.hold = s.hold
      /\ \A x \in Rows : t.row[x] = IF x = r THEN W ELSE s.row[x]
      /\ \A d \in Bundles : d # n => t.bundle[d] = s.bundle[d]
      /\ t.bundle[n].row = r /\ t.bundle[n].state = "reserved"
  BY ReserveFields
<1> HIDE DEF W, t
<1>5. \A d \in 1 .. s.nb : /\ d \in Bundles /\ d # n /\ d # 0 /\ s.bundle[d].row \in Rows
                           /\ t.bundle[d] = s.bundle[d]
  <2>1. \A d \in 1 .. s.nb : d # s.nb + 1 /\ d # 0 BY <1>1
  <2> QED BY <1>4, <2>1, Existence
<1>6. \A d \in 1 .. n : d = n \/ d \in 1 .. s.nb BY <1>1, <1>2
<1>7. SameRequests(s, t)
  BY <1>3, <1>4 DEF SameRequests
<1>8. s.bundle[n].state = "none"
  <2>1. n > s.nb BY <1>1
  <2> QED BY <1>2, <2>1 DEF Consistent, Numbered
<1>9. Past(s, t)
  <2>1. \A d \in Bundles : s.bundle[d].state \in TerminalStates => t.bundle[d].state = s.bundle[d].state
    BY <1>4, <1>8 DEF TerminalStates
  <2>2. \A x \in Rows : s.row[x].state \in SettledStates => t.row[x].state = s.row[x].state
    BY <1>4 DEF SettledStates
  <2>3. \A x \in Rows : t.row[x].result = s.row[x].result BY <1>3, <1>4
  <2> QED BY <1>4, <2>1, <2>2, <2>3 DEF Past
<1>10. \A d \in 1 .. s.nb : ep \in Clients => s.bundle[d].row # r
  BY DEF Historic, OneTry
<1>11. OneTry(t)
  <2> SUFFICES ASSUME NEW d \in 1 .. n, t.row[t.bundle[d].row].dest \in Clients
               PROVE  /\ t.row[t.bundle[d].row].state # "queued"
                      /\ \A e \in 1 .. n : t.bundle[e].row = t.bundle[d].row => e = d
                      /\ t.bundle[d].state = "cancelled" => t.row[t.bundle[d].row].result = "none"
                      /\ t.row[t.bundle[d].row].delivery = d =>
                           t.row[t.bundle[d].row].state = t.bundle[d].state
    BY <1>4 DEF OneTry
  <2>1. CASE d = n
    <3>1. t.bundle[d].row = r /\ t.row[r] = W /\ t.bundle[d].state = "reserved" BY <1>4, <2>1
    <3>2. ep \in Clients BY <1>3, <3>1
    <3>3. \A e \in 1 .. n : t.bundle[e].row = r => e = n BY <1>5, <1>6, <1>10, <3>2
    <3> QED BY <1>3, <2>1, <3>1, <3>3
  <2>2. CASE d \in 1 .. s.nb
    <3>1. t.bundle[d] = s.bundle[d] /\ s.bundle[d].row \in Rows BY <1>5, <2>2
    <3>2. s.bundle[d].row # r
      <4>1. SUFFICES ASSUME s.bundle[d].row = r PROVE FALSE OBVIOUS
      <4>2. ep \in Clients BY <1>3, <1>4, <3>1, <4>1
      <4> QED BY <1>10, <2>2, <4>1, <4>2
    <3>3. t.row[t.bundle[d].row] = s.row[s.bundle[d].row] BY <1>4, <3>1, <3>2
    <3>4. \A e \in 1 .. n : t.bundle[e].row = t.bundle[d].row => e \in 1 .. s.nb /\ t.bundle[e] = s.bundle[e]
      BY <1>4, <1>5, <1>6, <3>1, <3>2
    <3> QED BY <2>2, <3>1, <3>3, <3>4 DEF Historic, OneTry
  <2> QED BY <1>6, <2>1, <2>2
<1>12. \A x \in Rows : t.row[x].dest = s.row[x].dest BY <1>7 DEF SameRequests
<1> QED BY <1>0, <1>7, <1>9, <1>11, <1>12, SameRequestsOK DEF Historic, t

(* tryCreateDeliveryForEndpoint and the two handlers that end with it. *)
LEMMA TryCreateHistoric ==
  ASSUME NEW s, Consistent(s), Historic(s), s.nb < MaxBundles, NEW ep \in Endpoints
  PROVE  LET t == TryCreateDeliveryForEndpoint(s, ep)
         IN  Historic(t) /\ Past(s, t) /\ \A x \in Rows : t.row[x].dest = s.row[x].dest
<1>1. CASE CanDeliver(s, ep) /\ QueuedFor(s, ep) # {}
  <2> DEFINE r == Oldest(QueuedFor(s, ep))
  <2>1. r \in QueuedFor(s, ep)
    BY <1>1, OldestIn, BoundsNat DEF QueuedFor
  <2>2. r \in Rows /\ s.row[r].dest = ep /\ s.row[r].state = "queued"
    BY <2>1 DEF QueuedFor
  <2>3. TryCreateDeliveryForEndpoint(s, ep) = InsertBundle(ReserveRow(s, r), ep, r)
    BY <1>1 DEF TryCreateDeliveryForEndpoint
  <2>4. ~s.hold BY <1>1 DEF CanDeliver
  <2> HIDE DEF r
  <2> QED BY <2>2, <2>3, <2>4, ReserveHistoric
<1>2. CASE ~(CanDeliver(s, ep) /\ QueuedFor(s, ep) # {})
  <2>1. TryCreateDeliveryForEndpoint(s, ep) = s
    BY <1>2 DEF TryCreateDeliveryForEndpoint
  <2> QED BY <2>1 DEF Past
<1> QED BY <1>1, <1>2

LEMMA UpdateEndpointStatusHistoric ==
  ASSUME NEW s, Consistent(s), Historic(s), s.nb < MaxBundles, NEW ep \in Endpoints,
         NEW st \in Statuses
  PROVE  LET t == UpdateEndpointStatus(s, ep, st) IN Historic(t) /\ Past(s, t)
<1> DEFINE shown == IF /\ s.actor[ep] = "retired"
                       /\ st \in {"idle", "waiting", "queued", "runtime_unconfigured"}
                    THEN "retired" ELSE st
           u == SetStatus(s, ep, shown)
<1>1. shown \in Statuses BY DEF Statuses
<1>2. Consistent(u) /\ SameWork(s, u) /\ Historic(u) /\ Past(s, u)
  BY <1>1, SetStatusOK, SetStatusHistoric
<1>3. UpdateEndpointStatus(s, ep, st) =
        IF shown \in {"idle", "waiting"} THEN TryCreateDeliveryForEndpoint(u, ep) ELSE u
  BY DEF UpdateEndpointStatus
<1> HIDE DEF u, shown
<1>4. u.nb < MaxBundles BY <1>2 DEF SameWork
<1>5. /\ Historic(TryCreateDeliveryForEndpoint(u, ep))
      /\ Past(s, TryCreateDeliveryForEndpoint(u, ep))
  BY <1>2, <1>4, TryCreateHistoric, PastTransitive
<1> QED BY <1>2, <1>3, <1>5

LEMMA ReportTurnEndHistoric ==
  ASSUME NEW s, Consistent(s), Historic(s), s.nb < MaxBundles, NEW ep \in Endpoints
  PROVE  LET t == ReportTurnEnd(s, ep) IN Historic(t) /\ Past(s, t)
<1> DEFINE st == IF OpenPending(s, ep) THEN "waiting"
                 ELSE IF Unsettled(s, ep) THEN "queued" ELSE "idle"
           u == UpdateEndpointStatus(s, ep, st)
<1>1. st \in Statuses BY DEF Statuses
<1>2. Consistent(u) /\ (st = "queued" => u.nb = s.nb) BY <1>1, UpdateEndpointStatusOK
<1>3. Historic(u) /\ Past(s, u) BY <1>1, UpdateEndpointStatusHistoric
<1>4. ReportTurnEnd(s, ep) = IF s.status[ep] = "runtime_unconfigured" THEN s
        ELSE IF st = "queued" THEN TryCreateDeliveryForEndpoint(u, ep) ELSE u
  BY DEF ReportTurnEnd
<1> HIDE DEF u, st
<1>5. st = "queued" => /\ Historic(TryCreateDeliveryForEndpoint(u, ep))
                       /\ Past(s, TryCreateDeliveryForEndpoint(u, ep))
  BY <1>2, <1>3, TryCreateHistoric, PastTransitive
<1>6. Past(s, s) BY DEF Past
<1> QED BY <1>3, <1>4, <1>5, <1>6
-----------------------------------------------------------------------------
(* Work that ends.                                                            *)

(* What a row says apart from where its work stands. *)
SaysSame(w, v) ==
  /\ v.answers = w.answers /\ v.kind = w.kind /\ v.asker = w.asker
  /\ v.dest = w.dest /\ v.result = w.result /\ v.pending = w.pending

(* Bundle d ends as B; its row, if d still holds it, becomes W. *)
Ends(s, t, d, st, W) ==
  /\ t.nr = s.nr /\ t.nb = s.nb /\ t.hold = s.hold
  /\ \A e \in Bundles : /\ t.bundle[e].row = s.bundle[e].row
                        /\ t.bundle[e].state = IF e = d THEN st ELSE s.bundle[e].state
  /\ \A x \in Rows : t.row[x] = IF x = s.bundle[d].row /\ s.row[x].delivery = d
                                 THEN W ELSE s.row[x]

LEMMA SettleEnds ==
  ASSUME NEW s, Consistent(s), NEW d \in 1 .. s.nb, NEW st \in TerminalStates, NEW W
  PROVE  LET u == Settle(s, d, st)
             r == s.bundle[d].row
             t == IF s.row[r].delivery = d THEN [u EXCEPT !.row[r] = W] ELSE u
         IN  u.bundle[d].row = r /\ u.row = s.row /\ Ends(s, t, d, st, W)
<1> DEFINE B == Ended(s.bundle[d], st)
           u == Settle(s, d, st)
           r == s.bundle[d].row
           t == IF s.row[r].delivery = d THEN [u EXCEPT !.row[r] = W] ELSE u
           rows == IF s.row[r].delivery = d THEN [s.row EXCEPT ![r] = W] ELSE s.row
<1>0. s \in Database BY DEF Consistent
<1>1. /\ d \in Bundles /\ r \in Rows
      /\ s.row \in [Rows -> Row] /\ s.bundle \in [Bundles -> Bundle]
  BY <1>0, Existence, DatabaseFields
<1>2. /\ u = [s EXCEPT !.bundle = [s.bundle EXCEPT ![d] = B]]
      /\ u.bundle[d] = B /\ u.row = s.row /\ B.row = r /\ B.state = st
  BY SettleFields
<1>3. \A x \in Rows : rows[x] = IF x = r /\ s.row[x].delivery = d THEN W ELSE s.row[x]
  BY <1>1
<1> HIDE DEF B, u, r
<1>4. u = [status |-> s.status, bridge |-> s.bridge, binding |-> s.binding, actor |-> s.actor,
           row |-> s.row, bundle |-> [s.bundle EXCEPT ![d] = B], nr |-> s.nr, nb |-> s.nb,
           hold |-> s.hold, job |-> s.job]
  BY <1>0, <1>2 DEF Database
<1>5. /\ t.row = rows /\ t.bundle = [s.bundle EXCEPT ![d] = B]
      /\ t.nr = s.nr /\ t.nb = s.nb /\ t.hold = s.hold
  BY <1>4
<1> HIDE DEF t, rows
<1>6. \A e \in Bundles : t.bundle[e] = IF e = d THEN B ELSE s.bundle[e]
  BY <1>1, <1>5
<1>7. Ends(s, t, d, st, W) BY <1>2, <1>3, <1>5, <1>6 DEF Ends, r
<1> QED BY <1>2, <1>7 DEF t, u, r

(* The end of a live Delivery, or of a client's that had ended the same way. *)
LEMMA EndsHistoric ==
  ASSUME NEW s, Consistent(s), Historic(s), NEW d \in 1 .. s.nb, NEW t, NEW W,
         NEW st \in TerminalStates, Ends(s, t, d, st, W),
         SaysSame(s.row[s.bundle[d].row], W),
         \/ IsActive(s, d)
         \/ EndpointOf(s, d) \in Clients /\ s.bundle[d].state = st,
         EndpointOf(s, d) \in Clients =>
            /\ W.state = st /\ st # "deferred"
            /\ st = "cancelled" => s.row[s.bundle[d].row].result = "none"
  PROVE  Historic(t) /\ Past(s, t)
<1> DEFINE r == s.bundle[d].row
<1>0. s \in Database BY DEF Consistent
<1>1. d \in Bundles /\ r \in Rows /\ d # 0
  <2>1. s.nb \in Nat /\ d # 0 BY <1>0, DatabaseFields, BoundsNat
  <2> QED BY <2>1, Existence
<1>2. \A e \in 1 .. s.nb : e \in Bundles /\ s.bundle[e].row \in Rows BY Existence
<1>3. \A x \in Rows : SaysSame(s.row[x], t.row[x])
  BY DEF Ends, SaysSame
<1>4. SameRequests(s, t) BY <1>3 DEF SameRequests, SaysSame, Ends
<1>5. s.row[r].delivery = d /\ s.row[r].state \in SettledStates => W.state = s.row[r].state
  <2> SUFFICES ASSUME s.row[r].delivery = d, s.row[r].state \in SettledStates
               PROVE  W.state = s.row[r].state
    OBVIOUS
  <2>1. ~IsActive(s, d)
    <3>1. s.row[r].state # "deleted" BY <1>1 DEF Consistent, RowsLinked
    <3> QED BY <3>1 DEF Consistent, BundlesLinked, IsActive, ActiveStates, SettledStates
  <2>2. EndpointOf(s, d) \in Clients /\ s.bundle[d].state = st BY <2>1
  <2> QED BY <2>2 DEF Historic, OneTry, EndpointOf
<1>6. Past(s, t)
  <2>1. \A e \in Bundles : s.bundle[e].state \in TerminalStates => t.bundle[e].state = s.bundle[e].state
    BY DEF Ends, IsActive, ActiveStates, TerminalStates
  <2>2. \A x \in Rows : s.row[x].state \in SettledStates => t.row[x].state = s.row[x].state
    BY <1>5 DEF Ends
  <2> QED BY <2>1, <2>2, <1>3 DEF Past, Ends, SaysSame
<1>7. OneTry(t)
  <2> SUFFICES ASSUME NEW e \in 1 .. s.nb, t.row[t.bundle[e].row].dest \in Clients
               PROVE  /\ t.row[t.bundle[e].row].state # "queued"
                      /\ \A f \in 1 .. s.nb : t.bundle[f].row = t.bundle[e].row => f = e
                      /\ t.bundle[e].state = "cancelled" => t.row[t.bundle[e].row].result = "none"
                      /\ t.row[t.bundle[e].row].delivery = e =>
                           t.row[t.bundle[e].row].state = t.bundle[e].state
    BY DEF OneTry, Ends
  <2> DEFINE x == s.bundle[e].row
  <2>1. x \in Rows /\ t.bundle[e].row = x /\ e \in Bundles BY <1>2 DEF Ends
  <2>2. s.row[x].dest \in Clients /\ t.row[x].result = s.row[x].result
    BY <2>1, <1>3 DEF SaysSame
  <2>3. /\ s.row[x].state # "queued"
        /\ \A f \in 1 .. s.nb : s.bundle[f].row = x => f = e
        /\ s.bundle[e].state = "cancelled" => s.row[x].result = "none"
        /\ s.row[x].delivery = e => s.row[x].state = s.bundle[e].state
    BY <2>2 DEF Historic, OneTry
  <2>4. \A f \in 1 .. s.nb : t.bundle[f].row = x => f = e BY <1>2, <2>3 DEF Ends
  <2>5. CASE e = d
    <3>1. EndpointOf(s, d) \in Clients BY <2>2, <2>5 DEF EndpointOf
    <3>2. W.state = st /\ st # "queued" BY <3>1 DEF TerminalStates
    <3>3. t.bundle[e].state = st BY <2>1, <2>5 DEF Ends
    <3>4. t.row[x] = IF s.row[x].delivery = d THEN W ELSE s.row[x] BY <2>1, <2>5 DEF Ends
    <3>5. s.row[x].delivery # d => t.row[x].delivery # d BY <3>4
    <3> QED BY <2>1, <2>2, <2>3, <2>4, <2>5, <3>1, <3>2, <3>3, <3>4, <3>5
  <2>6. CASE e # d
    <3>1. x # r BY <2>3, <2>6
    <3>2. t.row[x] = s.row[x] /\ t.bundle[e].state = s.bundle[e].state
      BY <2>1, <2>6, <3>1 DEF Ends
    <3> QED BY <2>1, <2>3, <2>4, <3>2
  <2> QED BY <2>5, <2>6
<1> QED BY <1>0, <1>4, <1>6, <1>7, SameRequestsOK DEF Historic

(* A Delivery is settled, and its row with it. *)
LEMMA SettleHistoric ==
  ASSUME NEW s, Consistent(s), Historic(s), NEW d \in 1 .. s.nb, NEW st \in TerminalStates,
         NEW rs,
         \/ IsActive(s, d)
         \/ EndpointOf(s, d) \in Clients /\ s.bundle[d].state = st,
         EndpointOf(s, d) \in Clients =>
            /\ rs = st /\ st # "deferred"
            /\ st = "cancelled" => s.row[s.bundle[d].row].result = "none"
  PROVE  LET t == SetRowState(Settle(s, d, st), d, rs)
         IN  /\ Historic(t) /\ Past(s, t)
             /\ \A x \in Rows : t.row[x].result = s.row[x].result
             /\ \A x \in Rows : t.row[x].pending = s.row[x].pending
<1> DEFINE u == Settle(s, d, st)
           r == s.bundle[d].row
           W == [s.row[r] EXCEPT !.state = rs]
           t == IF s.row[r].delivery = d THEN [u EXCEPT !.row[r] = W] ELSE u
<1>1. s.row[r] \in Row BY Existence, DatabaseFields DEF Consistent
<1>2. SaysSame(s.row[r], W) /\ W.state = rs
  <2> HIDE DEF r
  <2> QED BY <1>1 DEF SaysSame, Row
<1> HIDE DEF W
<1>3. u.bundle[d].row = r /\ u.row = s.row /\ Ends(s, t, d, st, W) BY SettleEnds
<1>4. SetRowState(u, d, rs) = t
  <2> HIDE DEF u
  <2> QED BY <1>3 DEF SetRowState, W
<1> HIDE DEF t, u
<1>5. Historic(t) /\ Past(s, t) BY <1>2, <1>3, EndsHistoric
<1>6. \A x \in Rows : t.row[x].result = s.row[x].result /\ t.row[x].pending = s.row[x].pending
  BY <1>2, <1>3 DEF Ends, SaysSame
<1> QED BY <1>4, <1>5, <1>6 DEF u

(* A Bridge's Delivery is handed back or given up, and its row queued again. *)
LEMMA RequeueHistoric ==
  ASSUME NEW s, Consistent(s), Historic(s), NEW d \in 1 .. s.nb, NEW st \in TerminalStates,
         NEW refund, IsActive(s, d), EndpointOf(s, d) \notin Clients
  PROVE  LET t == RequeueRow(Settle(s, d, st), d, refund) IN Historic(t) /\ Past(s, t)
<1> DEFINE u == Settle(s, d, st)
           r == s.bundle[d].row
           W == Requeued(s.row[r], refund)
           t == IF s.row[r].delivery = d THEN [u EXCEPT !.row[r] = W] ELSE u
<1>1. s.row[r] \in Row BY Existence, DatabaseFields DEF Consistent
<1>2. SaysSame(s.row[r], W)
  <2> HIDE DEF r
  <2> QED BY <1>1 DEF SaysSame, Row, Requeued
<1> HIDE DEF W
<1>3. u.bundle[d].row = r /\ u.row = s.row /\ Ends(s, t, d, st, W) BY SettleEnds
<1>4. RequeueRow(u, d, refund) = t
  <2> HIDE DEF u
  <2> QED BY <1>3 DEF RequeueRow, W
<1> HIDE DEF t, u
<1> QED BY <1>2, <1>3, <1>4, EndsHistoric DEF u

LEMMA GiveUpHistoric ==
  ASSUME NEW s, Consistent(s), Historic(s), NEW d \in 1 .. s.nb, IsActive(s, d),
         EndpointOf(s, d) \notin Clients
  PROVE  LET t == GiveUpBeforeTurn(s, d) IN Historic(t) /\ Past(s, t)
BY SettleHistoric, RequeueHistoric DEF GiveUpBeforeTurn, TerminalStates

(* A turn whose runtime failed or is gone. *)
LEMMA StopHistoric ==
  ASSUME NEW s, Consistent(s), Historic(s), NEW d \in 1 .. s.nb, IsActive(s, d),
         EndpointOf(s, d) \notin Clients, NEW st \in {"failed", "dead_lettered"}
  PROVE  LET t == SetStatus(SetRowState(Settle(s, d, st), d, "dead_lettered"),
                            EndpointOf(s, d), "error")
         IN  Historic(t) /\ Past(s, t)
<1> DEFINE u == SetRowState(Settle(s, d, st), d, "dead_lettered")
<1>1. s.bundle[d].state # "deferred" /\ st \in TerminalStates
  BY DEF IsActive, ActiveStates, TerminalStates
<1>2. Consistent(u) /\ Historic(u) /\ Past(s, u)
  BY <1>1, SettleOK, SettleHistoric DEF TerminalStates
<1>3. EndpointOf(s, d) \in Endpoints BY Existence DEF EndpointOf
<1> HIDE DEF u
<1>4. "error" \in Statuses BY DEF Statuses
<1> QED BY <1>2, <1>3, <1>4, SetStatusHistoric, PastTransitive DEF u
-----------------------------------------------------------------------------
(* Work that goes on.                                                         *)

(* Rows and bundles move on without ending, being queued or being deleted. *)
LEMMA MovesHistoric ==
  ASSUME NEW s, NEW t, Consistent(s), Historic(s),
         t.nr = s.nr, t.nb = s.nb, t.hold = s.hold,
         \A e \in Bundles : /\ t.bundle[e].row = s.bundle[e].row
                            /\ \/ t.bundle[e].state = s.bundle[e].state
                               \/ s.bundle[e].state \in ActiveStates /\ t.bundle[e].state \in ActiveStates,
         \A x \in Rows : /\ t.row[x].answers = s.row[x].answers /\ t.row[x].kind = s.row[x].kind
                         /\ t.row[x].asker = s.row[x].asker /\ t.row[x].dest = s.row[x].dest
                         /\ t.row[x].result = s.row[x].result
                         /\ t.row[x].delivery = s.row[x].delivery
                         /\ s.row[x].kind = "request" =>
                              (t.row[x].pending = "resolved" <=> s.row[x].pending = "resolved")
                         /\ \/ t.row[x].state = s.row[x].state
                            \/ s.row[x].state \in ActiveStates /\ t.row[x].state \in ActiveStates,
         \A d \in 1 .. s.nb :
            LET x == s.bundle[d].row
            IN  s.row[x].dest \in Clients /\ s.row[x].delivery = d
                  /\ s.row[x].state = s.bundle[d].state => t.row[x].state = t.bundle[d].state
  PROVE  Historic(t) /\ Past(s, t)
<1>0. s \in Database BY DEF Consistent
<1>1. \A d \in 1 .. s.nb : d \in Bundles /\ s.bundle[d].row \in Rows BY Existence
<1>2. SameRequests(s, t) BY DEF SameRequests
<1>3. Past(s, t) BY DEF Past, ActiveStates, TerminalStates, SettledStates
<1>4. OneTry(t)
  <2> SUFFICES ASSUME NEW e \in 1 .. s.nb, t.row[t.bundle[e].row].dest \in Clients
               PROVE  /\ t.row[t.bundle[e].row].state # "queued"
                      /\ \A f \in 1 .. s.nb : t.bundle[f].row = t.bundle[e].row => f = e
                      /\ t.bundle[e].state = "cancelled" => t.row[t.bundle[e].row].result = "none"
                      /\ t.row[t.bundle[e].row].delivery = e =>
                           t.row[t.bundle[e].row].state = t.bundle[e].state
    BY DEF OneTry
  <2> DEFINE x == s.bundle[e].row
  <2>1. x \in Rows /\ t.bundle[e].row = x /\ e \in Bundles BY <1>1
  <2>2. s.row[x].dest \in Clients BY <2>1
  <2>3. /\ s.row[x].state # "queued"
        /\ \A f \in 1 .. s.nb : s.bundle[f].row = x => f = e
        /\ s.bundle[e].state = "cancelled" => s.row[x].result = "none"
        /\ s.row[x].delivery = e => s.row[x].state = s.bundle[e].state
    BY <2>2 DEF Historic, OneTry
  <2>4. \A f \in 1 .. s.nb : t.bundle[f].row = x => f = e BY <1>1, <2>3
  <2>5. t.row[x].state # "queued" BY <2>1, <2>3 DEF ActiveStates
  <2>6. t.bundle[e].state = "cancelled" => t.row[x].result = "none"
    BY <2>1, <2>3 DEF ActiveStates
  <2>7. t.row[x].delivery = e => t.row[x].state = t.bundle[e].state
    BY <2>1, <2>2, <2>3
  <2> QED BY <2>1, <2>4, <2>5, <2>6, <2>7
<1> QED BY <1>0, <1>2, <1>3, <1>4, SameRequestsOK DEF Historic

(* A claim. *)
LEMMA ClaimedHistoric ==
  ASSUME NEW s, Consistent(s), Historic(s), NEW D, D \subseteq 1 .. s.nb
  PROVE  LET t == Claimed(s, D) IN Historic(t) /\ Past(s, t)
<1> DEFINE taken == {d \in D : s.bundle[d].state = "reserved"}
           bs == [d \in Bundles |-> IF d \in taken
                    THEN [s.bundle[d] EXCEPT !.state = "delivered_to_bridge"] ELSE s.bundle[d]]
           rs == [r \in Rows |-> IF s.row[r].delivery \in taken /\ s.row[r].state = "reserved"
                    THEN [s.row[r] EXCEPT !.state = "delivered_to_bridge"] ELSE s.row[r]]
           t == [s EXCEPT !.bundle = bs, !.row = rs]
<1>0. s \in Database BY DEF Consistent
<1>1. s.row \in [Rows -> Row] /\ s.bundle \in [Bundles -> Bundle] BY <1>0, DatabaseFields
<1>2. Claimed(s, D) = t BY DEF Claimed
<1>3. \A d \in Bundles :
        /\ bs[d].row = s.bundle[d].row
        /\ bs[d].state = IF d \in taken THEN "delivered_to_bridge" ELSE s.bundle[d].state
  <2> HIDE DEF taken
  <2> QED BY <1>1 DEF Bundle, ActiveStates
<1>4. \A r \in Rows :
        /\ rs[r].dest = s.row[r].dest /\ rs[r].kind = s.row[r].kind
        /\ rs[r].delivery = s.row[r].delivery /\ rs[r].answers = s.row[r].answers
        /\ rs[r].asker = s.row[r].asker /\ rs[r].result = s.row[r].result
        /\ rs[r].pending = s.row[r].pending
        /\ rs[r].state = IF s.row[r].delivery \in taken /\ s.row[r].state = "reserved"
                         THEN "delivered_to_bridge" ELSE s.row[r].state
  <2> HIDE DEF taken
  <2> QED BY <1>1 DEF Row, ActiveStates
<1>5. \A d \in taken : s.bundle[d].state = "reserved" OBVIOUS
<1> HIDE DEF bs, rs, taken
<1>6. t.row = rs /\ t.bundle = bs /\ t.nr = s.nr /\ t.nb = s.nb /\ t.hold = s.hold
  BY <1>0 DEF Database
<1> HIDE DEF t
<1>7. \A e \in Bundles : \/ t.bundle[e].state = s.bundle[e].state
                         \/ s.bundle[e].state \in ActiveStates /\ t.bundle[e].state \in ActiveStates
  BY <1>3, <1>5, <1>6 DEF ActiveStates
<1>8. \A x \in Rows : \/ t.row[x].state = s.row[x].state
                      \/ s.row[x].state \in ActiveStates /\ t.row[x].state \in ActiveStates
  BY <1>4, <1>6 DEF ActiveStates
<1>9. \A d \in 1 .. s.nb :
        LET x == s.bundle[d].row
        IN  s.row[x].delivery = d /\ s.row[x].state = s.bundle[d].state
              => t.row[x].state = t.bundle[d].state
  <2>1. \A d \in 1 .. s.nb : d \in Bundles /\ s.bundle[d].row \in Rows BY Existence
  <2> QED BY <1>3, <1>4, <1>5, <1>6, <2>1
<1>10. Historic(t) /\ Past(s, t) BY <1>3, <1>4, <1>6, <1>7, <1>8, <1>9, MovesHistoric
<1> QED BY <1>2, <1>10

(* Another lease or another authority session. *)
LEMMA TouchBundleHistoric ==
  ASSUME NEW s, Consistent(s), Historic(s), NEW d \in 1 .. s.nb, NEW B,
         B.row = s.bundle[d].row, B.state = s.bundle[d].state
  PROVE  LET t == [s EXCEPT !.bundle = [s.bundle EXCEPT ![d] = B]] IN Historic(t) /\ Past(s, t)
<1> DEFINE t == [s EXCEPT !.bundle = [s.bundle EXCEPT ![d] = B]]
<1>0. s \in Database BY DEF Consistent
<1>1. s.bundle \in [Bundles -> Bundle] BY <1>0, DatabaseFields
<1>2. /\ t.nr = s.nr /\ t.nb = s.nb /\ t.hold = s.hold /\ t.row = s.row
      /\ t.bundle = [s.bundle EXCEPT ![d] = B]
  BY <1>0 DEF Database
<1> HIDE DEF t
<1>3. \A e \in Bundles : t.bundle[e].row = s.bundle[e].row /\ t.bundle[e].state = s.bundle[e].state
  BY <1>1, <1>2
<1>4. \A e \in 1 .. s.nb : e \in Bundles BY Existence
<1>5. Historic(t) /\ Past(s, t) BY <1>2, <1>3, <1>4, MovesHistoric
<1> QED BY <1>5 DEF t

(* The Bridge reports that a live bundle entered a runtime. *)
LEMMA InjectHistoric ==
  ASSUME NEW s, Consistent(s), Historic(s), NEW d \in 1 .. s.nb, IsActive(s, d),
         EndpointOf(s, d) \notin Clients
  PROVE  LET t == [SetRowState(s, d, "injected_to_runtime") EXCEPT
                     !.bundle[d] = [s.bundle[d] EXCEPT !.state = "injected_to_runtime",
                                      !.lease = "running", !.entered = TRUE]]
         IN  Historic(t) /\ Past(s, t)
<1> DEFINE r == s.bundle[d].row
           B == [s.bundle[d] EXCEPT !.state = "injected_to_runtime",
                   !.lease = "running", !.entered = TRUE]
           W == [s.row[r] EXCEPT !.state = "injected_to_runtime"]
           rows == IF s.row[r].delivery = d THEN [s.row EXCEPT ![r] = W] ELSE s.row
           u == SetRowState(s, d, "injected_to_runtime")
           t == [u EXCEPT !.bundle[d] = B]
<1>0. s \in Database BY DEF Consistent
<1>1. /\ d \in Bundles /\ r \in Rows /\ s.row[r] \in Row /\ s.bundle[d] \in Bundle
      /\ s.row \in [Rows -> Row] /\ s.bundle \in [Bundles -> Bundle]
  BY <1>0, Existence, RowFields, BundleFields, DatabaseFields
<1>2. u = [s EXCEPT !.row = rows]
  <2>1. CASE s.row[r].delivery = d BY <2>1 DEF SetRowState
  <2>2. CASE s.row[r].delivery # d
    <3>1. u = s BY <2>2 DEF SetRowState
    <3> HIDE DEF u
    <3> QED BY <2>2, <3>1, <1>0 DEF Database
  <2> QED BY <2>1, <2>2
<1>3. /\ SaysSame(s.row[r], W) /\ W.delivery = s.row[r].delivery /\ W.state = "injected_to_runtime"
  <2> HIDE DEF r
  <2> QED BY <1>1 DEF Row, SaysSame
<1>4. B.row = r /\ B.state = "injected_to_runtime" BY <1>1 DEF Bundle
<1>5. \A x \in Rows : rows[x] = IF x = r /\ s.row[x].delivery = d THEN W ELSE s.row[x]
  BY <1>1
<1> HIDE DEF B, W, rows, u
<1>6. u = [status |-> s.status, bridge |-> s.bridge, binding |-> s.binding, actor |-> s.actor,
           row |-> rows, bundle |-> s.bundle, nr |-> s.nr, nb |-> s.nb,
           hold |-> s.hold, job |-> s.job]
  BY <1>0, <1>2 DEF Database
<1>7. /\ t.nr = s.nr /\ t.nb = s.nb /\ t.hold = s.hold /\ t.row = rows
      /\ t.bundle = [s.bundle EXCEPT ![d] = B]
  BY <1>6
<1> HIDE DEF t
<1>8. \A e \in Bundles : t.bundle[e] = IF e = d THEN B ELSE s.bundle[e] BY <1>1, <1>7
<1>9. s.row[r].delivery = d => s.row[r].state \in ActiveStates
  <2>1. s.row[r].state = "deleted" => s.row[r].delivery = 0
    BY <1>1 DEF Consistent, RowsLinked
  <2>2. d # 0 BY <1>1, BoundsNat DEF Bundles
  <2> QED BY <2>1, <2>2 DEF Consistent, BundlesLinked, IsActive
<1>10. \A x \in Rows : /\ SaysSame(s.row[x], t.row[x]) /\ t.row[x].delivery = s.row[x].delivery
                       /\ \/ t.row[x].state = s.row[x].state
                          \/ s.row[x].state \in ActiveStates /\ t.row[x].state \in ActiveStates
  BY <1>3, <1>5, <1>7, <1>9 DEF SaysSame, ActiveStates
<1>11. \A e \in Bundles : /\ t.bundle[e].row = s.bundle[e].row
                          /\ \/ t.bundle[e].state = s.bundle[e].state
                             \/ s.bundle[e].state \in ActiveStates /\ t.bundle[e].state \in ActiveStates
  BY <1>4, <1>8 DEF IsActive, ActiveStates
<1>12. \A e \in 1 .. s.nb :
        LET x == s.bundle[e].row
        IN  s.row[x].dest \in Clients /\ s.row[x].delivery = e
              /\ s.row[x].state = s.bundle[e].state => t.row[x].state = t.bundle[e].state
  <2>1. \A e \in 1 .. s.nb : e \in Bundles /\ s.bundle[e].row \in Rows BY Existence
  <2>2. s.row[r].dest \notin Clients BY DEF EndpointOf
  <2> QED BY <1>5, <1>7, <1>8, <2>1, <2>2
<1>13. Historic(t) /\ Past(s, t) BY <1>7, <1>10, <1>11, <1>12, MovesHistoric DEF SaysSame
<1> QED BY <1>13 DEF t, u, B

(* Waits are closed or resolved; a request's is not resolved here. *)
LEMMA PendingHistoric ==
  ASSUME NEW s, Consistent(s), Historic(s), NEW S, NEW p \in {"resolved", "cancelled"},
         \A r \in Rows : r \in S => s.row[r].pending = "pending",
         p = "resolved" => \A r \in Rows : r \in S => s.row[r].kind # "request"
  PROVE  LET t == [s EXCEPT !.row = [r \in Rows |->
                     IF r \in S THEN [s.row[r] EXCEPT !.pending = p] ELSE s.row[r]]]
         IN  Historic(t) /\ Past(s, t)
<1> DEFINE rows == [r \in Rows |-> IF r \in S THEN [s.row[r] EXCEPT !.pending = p] ELSE s.row[r]]
           t == [s EXCEPT !.row = rows]
<1>0. s \in Database BY DEF Consistent
<1>1. s.row \in [Rows -> Row] BY <1>0, DatabaseFields
<1>2. \A r \in Rows : /\ rows[r].dest = s.row[r].dest /\ rows[r].state = s.row[r].state
                      /\ rows[r].delivery = s.row[r].delivery
                      /\ rows[r].kind = s.row[r].kind /\ rows[r].asker = s.row[r].asker
                      /\ rows[r].answers = s.row[r].answers /\ rows[r].result = s.row[r].result
                      /\ rows[r].pending = IF r \in S THEN p ELSE s.row[r].pending
  BY <1>1 DEF Row
<1> HIDE DEF rows
<1>3. t.nr = s.nr /\ t.nb = s.nb /\ t.hold = s.hold /\ t.row = rows /\ t.bundle = s.bundle
  BY <1>0 DEF Database
<1> HIDE DEF t
<1>4. \A d \in 1 .. s.nb : s.bundle[d].row \in Rows BY Existence
<1>5. \A x \in Rows : s.row[x].kind = "request" =>
                        (t.row[x].pending = "resolved" <=> s.row[x].pending = "resolved")
  BY <1>2, <1>3
<1>6. Historic(t) /\ Past(s, t) BY <1>2, <1>3, <1>4, <1>5, MovesHistoric
<1> QED BY <1>6 DEF t, rows

(* The rows and the bundles of a deleted endpoint. *)
LEMMA DeleteHistoric ==
  ASSUME NEW s, Consistent(s), Historic(s), NEW ep \in Endpoints
  PROVE  LET t == [s EXCEPT !.status[ep] = "absent", !.bridge[ep] = FALSE,
                     !.row = [r \in Rows |-> IF s.row[r].dest = ep
                        THEN [s.row[r] EXCEPT !.state = "deleted", !.delivery = 0] ELSE s.row[r]]]
         IN  /\ Historic(t) /\ t.hold = s.hold /\ t.nb = s.nb /\ t.bundle = s.bundle
             /\ \A r \in Rows : /\ t.row[r].result = s.row[r].result
                                /\ t.row[r].state \in {s.row[r].state, "deleted"}
<1> DEFINE rows == [r \in Rows |-> IF s.row[r].dest = ep
                      THEN [s.row[r] EXCEPT !.state = "deleted", !.delivery = 0] ELSE s.row[r]]
           t == [s EXCEPT !.status[ep] = "absent", !.bridge[ep] = FALSE, !.row = rows]
<1>0. s \in Database BY DEF Consistent
<1>1. s.row \in [Rows -> Row] BY <1>0, DatabaseFields
<1>2. \A r \in Rows : /\ SaysSame(s.row[r], rows[r])
                      /\ rows[r].state = IF s.row[r].dest = ep THEN "deleted" ELSE s.row[r].state
                      /\ rows[r].delivery = IF s.row[r].dest = ep THEN 0 ELSE s.row[r].delivery
  BY <1>1 DEF Row, SaysSame
<1> HIDE DEF rows
<1>3. t.nr = s.nr /\ t.nb = s.nb /\ t.hold = s.hold /\ t.row = rows /\ t.bundle = s.bundle
  BY <1>0 DEF Database
<1> HIDE DEF t
<1>4. SameRequests(s, t) BY <1>2, <1>3 DEF SameRequests, SaysSame
<1>5. OneTry(t)
  <2>1. \A d \in 1 .. s.nb : s.bundle[d].row \in Rows BY Existence
  <2>2. s.nb \in Nat BY <1>0, DatabaseFields, BoundsNat
  <2>3. \A d \in 1 .. s.nb : d # 0 BY <2>2
  <2> QED BY <1>2, <1>3, <2>1, <2>3 DEF Historic, OneTry, SaysSame
<1>6. Historic(t) BY <1>0, <1>4, <1>5, SameRequestsOK DEF Historic
<1>7. \A r \in Rows : /\ t.row[r].result = s.row[r].result
                      /\ t.row[r].state \in {s.row[r].state, "deleted"}
  BY <1>2, <1>3 DEF SaysSame
<1> QED BY <1>3, <1>6, <1>7 DEF t, rows
-----------------------------------------------------------------------------
(* New rows: messages, requests and answers.                                  *)

(* The rows after an insertion. *)
LEMMA QueueFields ==
  ASSUME NEW s, Consistent(s), s.nr < MaxRows, NEW w \in Row, w.dest \in Endpoints
  PROVE  LET t == QueueEvent(s, w)
         IN  /\ t.nr = s.nr + 1 /\ t.nb = s.nb /\ t.bundle = s.bundle /\ t.hold = s.hold
             /\ \A x \in Rows : t.row[x] = IF x = s.nr + 1 THEN w ELSE s.row[x]
<1> DEFINE n == s.nr + 1
           u == [s EXCEPT !.nr = @ + 1, !.row[n] = w]
           st == IF s.status[w.dest] \in {"active", "runtime_unconfigured"}
                 THEN s.status[w.dest] ELSE "queued"
           t == SetStatus(u, w.dest, st)
<1>0. s \in Database BY DEF Consistent
<1>1. s.row \in [Rows -> Row] /\ s.nr \in 0 .. MaxRows BY <1>0, DatabaseFields
<1>2. n \in Rows BY <1>1, BoundsNat DEF Rows
<1>3. QueueEvent(s, w) = t BY DEF QueueEvent
<1> HIDE DEF st, n
<1>4. u = [status |-> s.status, bridge |-> s.bridge, binding |-> s.binding, actor |-> s.actor,
           row |-> [s.row EXCEPT ![n] = w], bundle |-> s.bundle, nr |-> s.nr + 1, nb |-> s.nb,
           hold |-> s.hold, job |-> s.job]
  <2> DEFINE rows == [s.row EXCEPT ![n] = w]
             m == s.nr + 1
  <2>1. u = [s EXCEPT !.nr = m, !.row = rows] BY <1>0 DEF Database
  <2> HIDE DEF rows, m, u
  <2>2. u = [status |-> s.status, bridge |-> s.bridge, binding |-> s.binding, actor |-> s.actor,
             row |-> rows, bundle |-> s.bundle, nr |-> m, nb |-> s.nb,
             hold |-> s.hold, job |-> s.job]
    BY <1>0, <2>1 DEF Database
  <2> QED BY <2>2 DEF rows, m
<1> HIDE DEF u
<1>5. /\ t.nr = s.nr + 1 /\ t.nb = s.nb /\ t.bundle = s.bundle /\ t.hold = s.hold
      /\ t.row = [s.row EXCEPT ![n] = w]
  BY <1>4 DEF SetStatus
<1> HIDE DEF t
<1>6. \A x \in Rows : t.row[x] = IF x = n THEN w ELSE s.row[x] BY <1>1, <1>2, <1>5
<1> QED BY <1>3, <1>5, <1>6 DEF n

(* A message or a request joins the rows. *)
LEMMA QueueHistoric ==
  ASSUME NEW s, Consistent(s), Historic(s), s.nr < MaxRows, NEW w \in Row,
         w.dest \in Endpoints, w.answers = 0, w.result = "none",
         w.kind = "request" => w.pending # "resolved"
  PROVE  LET t == QueueEvent(s, w) IN Historic(t) /\ Past(s, t)
<1> DEFINE n == s.nr + 1
           t == QueueEvent(s, w)
<1>0. s \in Database BY DEF Consistent
<1>1. s.row \in [Rows -> Row] /\ s.nr \in Nat /\ Rows \subseteq Nat
  BY <1>0, DatabaseFields, BoundsNat
<1>2. n \in Rows /\ n \in Nat /\ n > s.nr /\ ~(n <= s.nr)
  BY <1>0, <1>1, DatabaseFields, BoundsNat DEF Rows
<1>3. /\ t.nr = n /\ t.nb = s.nb /\ t.bundle = s.bundle /\ t.hold = s.hold
      /\ \A x \in Rows : t.row[x] = IF x = n THEN w ELSE s.row[x]
  BY QueueFields
<1> HIDE DEF t
<1>4. s.row[n].result = "none" /\ s.row[n].state = "none"
  BY <1>2 DEF Historic, Blank, Consistent, Numbered
<1>5. Past(s, t) BY <1>3, <1>4 DEF Past, SettledStates
<1>6. \A x \in Rows : s.row[x].answers # 0 =>
        /\ s.row[x].answers \in Rows /\ s.row[x].answers <= s.nr /\ x <= s.nr
        /\ s.row[x].answers # n /\ x # n /\ s.row[x].answers <= n /\ x <= n
  <2> SUFFICES ASSUME NEW x \in Rows, s.row[x].answers # 0
               PROVE  /\ s.row[x].answers \in Rows /\ s.row[x].answers <= s.nr /\ x <= s.nr
                      /\ s.row[x].answers # n /\ x # n /\ s.row[x].answers <= n /\ x <= n
    OBVIOUS
  <2>1. s.row[x] \in Row BY <1>1
  <2>2. s.row[x].answers \in 0 .. MaxRows BY <2>1 DEF Row
  <2>3. s.row[x].answers \in Rows BY <2>2, BoundsNat DEF Rows
  <2>4. s.row[x].answers <= s.nr /\ x <= s.nr BY DEF Historic, Answered
  <2> DEFINE a == s.row[x].answers
  <2>5. a \in Nat /\ x \in Nat /\ a <= s.nr BY <1>1, <2>3, <2>4
  <2> HIDE DEF a
  <2>6. a # n /\ x # n /\ a <= n /\ x <= n BY <1>1, <2>4, <2>5
  <2> QED BY <2>3, <2>4, <2>6 DEF a
<1>7. Answered(t)
  <2>1. \A x \in Rows : t.row[x].answers # 0 => x # n /\ t.row[x] = s.row[x] /\ s.row[x].answers # 0
    BY <1>3
  <2>2. \A x \in Rows : s.row[x].answers # 0 => t.row[x] = s.row[x] BY <1>3, <1>6
  <2>3. \A x \in Rows : s.row[x].answers # 0 => t.row[s.row[x].answers] = s.row[s.row[x].answers]
    BY <1>3, <1>6
  <2>4. \A x, y \in Rows : t.row[x].answers # 0 /\ t.row[x].answers = t.row[y].answers => x = y
    BY <2>1 DEF Historic, Answered
  <2>5. \A c \in Rows : c <= n /\ t.row[c].kind = "request" /\ t.row[c].pending = "resolved"
          => c <= s.nr /\ t.row[c] = s.row[c]
    BY <1>1, <1>2, <1>3
  <2>6. \A c \in Rows : c <= n /\ t.row[c].kind = "request" /\ t.row[c].pending = "resolved"
          => \E x \in Rows : t.row[x].answers = c
    <3> SUFFICES ASSUME NEW c \in Rows, c <= n, t.row[c].kind = "request",
                        t.row[c].pending = "resolved"
                 PROVE  \E x \in Rows : t.row[x].answers = c
      OBVIOUS
    <3>1. PICK x \in Rows : s.row[x].answers = c BY <2>5 DEF Historic, Answered
    <3>2. c # 0 BY DEF Rows
    <3> QED BY <2>2, <3>1, <3>2
  <2>7. \A x \in Rows : t.row[x].answers # 0 =>
          LET c == t.row[x].answers
          IN  /\ c <= n /\ x <= n
              /\ t.row[c].kind = "request" /\ t.row[c].pending = "resolved"
              /\ t.row[x].dest = t.row[c].asker
    BY <1>6, <2>1, <2>3 DEF Historic, Answered
  <2> QED BY <1>3, <2>4, <2>6, <2>7 DEF Answered
<1>8. Blank(t)
  <2>1. \A x \in Rows : x > n => x > s.nr /\ x # n BY <1>1, <1>2
  <2> QED BY <1>3, <2>1 DEF Historic, Blank
<1>9. OneTry(t)
  <2>1. \A d \in 1 .. s.nb : s.bundle[d].row \in Rows /\ s.bundle[d].row # n
    <3> SUFFICES ASSUME NEW d \in 1 .. s.nb PROVE s.bundle[d].row \in Rows /\ s.bundle[d].row # n
      OBVIOUS
    <3>1. d \in Bundles /\ d <= s.nb BY Existence
    <3>2. s.bundle[d].row \in 1 .. s.nr BY <3>1 DEF Consistent, Numbered
    <3> QED BY <1>1, <3>2, Existence
  <2> QED BY <1>3, <2>1 DEF Historic, OneTry
<1> QED BY <1>5, <1>7, <1>8, <1>9 DEF Historic, t

(* A request is resolved by queueing its one answer. *)
LEMMA AnswerHistoric ==
  ASSUME NEW s, Consistent(s), Historic(s), s.nr < MaxRows, NEW q,
         NEW k \in Rows, k <= s.nr, NEW c \in Rows, c <= s.nr, s.row[k].result = "none",
         s.row[c].kind = "request", s.row[c].pending = "pending",
         \A d \in 1 .. s.nb : s.bundle[d].row = k /\ s.row[k].dest \in Clients
                                => s.bundle[d].state # "cancelled",
         q.nr = s.nr + 1, q.nb = s.nb, q.bundle = s.bundle, q.hold = s.hold,
         q.row[s.nr + 1].answers = c, q.row[s.nr + 1].kind = "return",
         q.row[s.nr + 1].dest = s.row[c].asker, q.row[s.nr + 1].result = "none",
         \A x \in Rows : x # s.nr + 1 =>
            /\ q.row[x].answers = s.row[x].answers /\ q.row[x].kind = s.row[x].kind
            /\ q.row[x].asker = s.row[x].asker /\ q.row[x].dest = s.row[x].dest
            /\ q.row[x].state = s.row[x].state /\ q.row[x].delivery = s.row[x].delivery
            /\ x # k => q.row[x].result = s.row[x].result
            /\ q.row[x].pending = IF x = c THEN "resolved" ELSE s.row[x].pending
  PROVE  Historic(q) /\ Past(s, q)
<1> DEFINE n == s.nr + 1
<1>0. s \in Database BY DEF Consistent
<1>1. s.row \in [Rows -> Row] /\ s.nr \in Nat /\ Rows \subseteq Nat
  BY <1>0, DatabaseFields, BoundsNat
<1>2. n \in Rows /\ n \in Nat /\ n > s.nr /\ ~(n <= s.nr) /\ c # n /\ k # n /\ c # 0
  BY <1>0, <1>1, DatabaseFields, BoundsNat DEF Rows
<1>4. s.row[n].result = "none" /\ s.row[n].state = "none"
  BY <1>2 DEF Historic, Blank, Consistent, Numbered
<1>5. Past(s, q)
  <2>1. \A x \in Rows : s.row[x].state \in SettledStates => q.row[x].state = s.row[x].state
    BY <1>4 DEF SettledStates
  <2>2. \A x \in Rows : s.row[x].result # "none" => q.row[x].result = s.row[x].result
    BY <1>4
  <2> QED BY <2>1, <2>2 DEF Past
<1>6. \A x \in Rows : s.row[x].answers # 0 =>
        /\ s.row[x].answers \in Rows /\ s.row[x].answers <= s.nr /\ x <= s.nr
        /\ s.row[x].answers # n /\ x # n /\ s.row[x].answers <= n /\ x <= n
        /\ s.row[x].answers # c
  <2> SUFFICES ASSUME NEW x \in Rows, s.row[x].answers # 0
               PROVE  /\ s.row[x].answers \in Rows /\ s.row[x].answers <= s.nr /\ x <= s.nr
                      /\ s.row[x].answers # n /\ x # n /\ s.row[x].answers <= n /\ x <= n
                      /\ s.row[x].answers # c
    OBVIOUS
  <2>1. s.row[x] \in Row BY <1>1
  <2>2. s.row[x].answers \in 0 .. MaxRows BY <2>1 DEF Row
  <2>3. s.row[x].answers \in Rows BY <2>2, BoundsNat DEF Rows
  <2>4. s.row[x].answers <= s.nr /\ x <= s.nr /\ s.row[s.row[x].answers].pending = "resolved"
    BY DEF Historic, Answered
  <2> DEFINE a == s.row[x].answers
  <2>5. a \in Nat /\ x \in Nat /\ a <= s.nr BY <1>1, <2>3, <2>4
  <2>6. a # c BY <2>4
  <2> HIDE DEF a
  <2>7. a # n /\ x # n /\ a <= n /\ x <= n BY <1>1, <2>4, <2>5
  <2> QED BY <2>3, <2>4, <2>6, <2>7 DEF a
<1>7. Answered(q)
  <2>1. \A x \in Rows : x # n => q.row[x].answers = s.row[x].answers OBVIOUS
  <2>2. \A x, y \in Rows : q.row[x].answers # 0 /\ q.row[x].answers = q.row[y].answers => x = y
    <3> SUFFICES ASSUME NEW x \in Rows, NEW y \in Rows, q.row[x].answers # 0,
                        q.row[x].answers = q.row[y].answers
                 PROVE  x = y
      OBVIOUS
    <3>1. CASE x # n /\ y # n BY <2>1, <3>1 DEF Historic, Answered
    <3>2. CASE x = n BY <1>6, <2>1, <3>2
    <3>3. CASE y = n BY <1>6, <2>1, <3>3
    <3> QED BY <3>1, <3>2, <3>3
  <2>3. ASSUME NEW x \in Rows, q.row[x].answers # 0
        PROVE  LET a == q.row[x].answers
               IN  /\ a <= n /\ x <= n
                   /\ q.row[a].kind = "request" /\ q.row[a].pending = "resolved"
                   /\ q.row[x].dest = q.row[a].asker
    <3>1. CASE x = n BY <1>1, <1>2, <3>1
    <3>2. CASE x # n
      <4> DEFINE a == s.row[x].answers
      <4>1. q.row[x].answers = a /\ a # 0 BY <2>1, <2>3, <3>2
      <4>2. a \in Rows /\ a # n /\ a # c /\ a <= n /\ x <= n BY <1>6, <4>1
      <4>3. s.row[a].kind = "request" /\ s.row[a].pending = "resolved"
            /\ s.row[x].dest = s.row[a].asker
        BY <4>1 DEF Historic, Answered
      <4> QED BY <3>2, <4>1, <4>2, <4>3
    <3> QED BY <3>1, <3>2
  <2>4. ASSUME NEW a \in Rows, a <= n, q.row[a].kind = "request", q.row[a].pending = "resolved"
        PROVE  \E x \in Rows : q.row[x].answers = a
    <3>1. CASE a = c BY <1>2, <3>1
    <3>2. CASE a # c
      <4>1. a # n BY <2>4
      <4>2. a <= s.nr BY <1>1, <2>4, <4>1
      <4>3. s.row[a].kind = "request" /\ s.row[a].pending = "resolved" BY <2>4, <3>2, <4>1
      <4>4. PICK x \in Rows : s.row[x].answers = a BY <4>2, <4>3 DEF Historic, Answered
      <4>5. a # 0 BY DEF Rows
      <4> QED BY <1>6, <2>1, <4>4, <4>5
    <3> QED BY <3>1, <3>2
  <2> QED BY <2>2, <2>3, <2>4 DEF Answered
<1>8. Blank(q)
  <2>1. \A x \in Rows : x > n => x > s.nr /\ x # n /\ x # k BY <1>1, <1>2
  <2> QED BY <2>1 DEF Historic, Blank
<1>9. OneTry(q)
  <2>1. \A d \in 1 .. s.nb : s.bundle[d].row \in Rows /\ s.bundle[d].row # n
    <3> SUFFICES ASSUME NEW d \in 1 .. s.nb PROVE s.bundle[d].row \in Rows /\ s.bundle[d].row # n
      OBVIOUS
    <3>1. d \in Bundles /\ d <= s.nb BY Existence
    <3>2. s.bundle[d].row \in 1 .. s.nr BY <3>1 DEF Consistent, Numbered
    <3> QED BY <1>1, <3>2, Existence
  <2> QED BY <2>1 DEF Historic, OneTry
<1> QED BY <1>5, <1>7, <1>8, <1>9 DEF Historic
(* recordRuntimeTurnResult: the first result stays, and it answers the        *)
(* request of its turn at most once.                                          *)
LEMMA RecordHistoric ==
  ASSUME NEW s, Consistent(s), Historic(s), NEW d \in 1 .. s.nb, s.nr < MaxRows,
         s.nb < MaxBundles, NEW outcome \in {"completed", "failed"},
         EndpointOf(s, d) \in Clients => s.bundle[d].state # "cancelled"
  PROVE  LET t == RecordRuntimeTurnResult(s, d, outcome)
         IN  /\ Historic(t) /\ Past(s, t)
             /\ t.row[s.bundle[d].row].dest = s.row[s.bundle[d].row].dest
<1> DEFINE k == s.bundle[d].row
           c == Continuation(s, k)
           w == [s.row[k] EXCEPT !.result = outcome]
           u == [s EXCEPT !.row[k].result = outcome]
           heard == IF s.row[k].kind # "request" /\ s.row[k].pending = "pending"
                    THEN "resolved" ELSE s.row[k].pending
           answer == [NoRow EXCEPT !.dest = s.row[c].asker, !.kind = "return",
                                   !.state = "queued", !.answers = c,
                                   !.cont = s.row[c].cont]
           v == [u EXCEPT !.row[c].pending = "resolved"]
           q == QueueEvent(v, answer)
           x == [u EXCEPT !.row[k].pending = heard]
<1>0. s \in Database BY DEF Consistent
<1>1. /\ d \in Bundles /\ k \in Rows /\ k \in 1 .. s.nr /\ s.row[k] \in Row
      /\ s.row \in [Rows -> Row] /\ s.nr \in Nat
  BY <1>0, Existence, RowFields, DatabaseFields, BoundsNat DEF Consistent, Numbered
<1>2. k <= s.nr BY <1>1
<1>3. \A e \in 1 .. s.nb : s.bundle[e].row = k /\ s.row[k].dest \in Clients
                             => s.bundle[e].state # "cancelled"
  <2>1. \A e \in 1 .. s.nb : s.bundle[e].row = k /\ s.row[k].dest \in Clients => e = d
    BY DEF Historic, OneTry
  <2> QED BY <2>1 DEF EndpointOf
<1>4. CASE s.row[k].result # "none"
  <2>1. RecordRuntimeTurnResult(s, d, outcome) = s
    BY <1>4 DEF RecordRuntimeTurnResult
  <2> QED BY <2>1 DEF Past
<1>5. CASE s.row[k].result = "none" /\ ExactRequest(s, d)
  <2>1. RecordRuntimeTurnResult(s, d, outcome) =
          TryCreateDeliveryForEndpoint(q, s.row[c].asker)
    BY <1>5 DEF RecordRuntimeTurnResult, ResolveRequest
  <2>2. /\ Consistent(q) /\ q.nb = s.nb /\ q.bundle = s.bundle
        /\ Consistent(v) /\ v.nr = s.nr /\ v.nb = s.nb /\ v.bundle = s.bundle
        /\ answer \in Row /\ answer.dest \in Endpoints
        /\ c \in Rows /\ c <= s.nr /\ s.row[c].kind = "request"
        /\ s.row[c].asker \in Endpoints /\ s.row[c].pending = "pending"
    <3>1. ExactRequest(s, d) BY <1>5
    <3>2. Consistent(q) /\ q.nb = s.nb /\ q.bundle = s.bundle BY <3>1, AnswerOK, ZenonT(90)
    <3>3. Consistent(v) /\ v.nr = s.nr /\ v.nb = s.nb /\ v.bundle = s.bundle
      BY <3>1, AnswerOK, ZenonT(90)
    <3>4. answer \in Row /\ answer.dest \in Endpoints BY <3>1, AnswerOK, ZenonT(90)
    <3>5. /\ c \in Rows /\ c <= s.nr /\ s.row[c].kind = "request"
          /\ s.row[c].asker \in Endpoints /\ s.row[c].pending = "pending"
      BY <3>1, AnswerOK, ZenonT(90)
    <3> HIDE DEF q, v, answer, c
    <3> QED BY <3>2, <3>3, <3>4, <3>5
  <2> HIDE DEF c, k
  <2>3. /\ answer.answers = c /\ answer.kind = "return" /\ answer.dest = s.row[c].asker
        /\ answer.result = "none"
    BY DEF NoRow
  <2> HIDE DEF answer
  <2>4. /\ v.hold = s.hold
        /\ \A r \in Rows :
             /\ v.row[r].answers = s.row[r].answers /\ v.row[r].kind = s.row[r].kind
             /\ v.row[r].asker = s.row[r].asker /\ v.row[r].dest = s.row[r].dest
             /\ v.row[r].state = s.row[r].state /\ v.row[r].delivery = s.row[r].delivery
             /\ r # k => v.row[r].result = s.row[r].result
             /\ v.row[r].pending = IF r = c THEN "resolved" ELSE s.row[r].pending
    <3> DEFINE wc == [u.row[c] EXCEPT !.pending = "resolved"]
               rows == [[s.row EXCEPT ![k] = w] EXCEPT ![c] = wc]
    <3>1. u = [s EXCEPT !.row = [s.row EXCEPT ![k] = w]] OBVIOUS
    <3>2. u.row = [s.row EXCEPT ![k] = w] /\ u.hold = s.hold BY <1>0, <3>1 DEF Database
    <3>3. v = [u EXCEPT !.row = [u.row EXCEPT ![c] = wc]] OBVIOUS
    <3>4. /\ w \in Row /\ w.answers = s.row[k].answers /\ w.kind = s.row[k].kind
          /\ w.asker = s.row[k].asker /\ w.dest = s.row[k].dest /\ w.state = s.row[k].state
          /\ w.delivery = s.row[k].delivery /\ w.pending = s.row[k].pending
      BY <1>1 DEF Row
    <3> HIDE DEF w
    <3>5. v.row = rows /\ v.hold = s.hold
      <4>1. u = [status |-> s.status, bridge |-> s.bridge, binding |-> s.binding,
                 actor |-> s.actor, row |-> [s.row EXCEPT ![k] = w], bundle |-> s.bundle,
                 nr |-> s.nr, nb |-> s.nb, hold |-> s.hold, job |-> s.job]
        BY <1>0, <3>1 DEF Database
      <4> HIDE DEF wc, u, v
      <4> QED BY <3>2, <3>3, <4>1
    <3>6. \A r \in Rows : u.row[r] = IF r = k THEN w ELSE s.row[r] BY <1>1, <3>2
    <3>7. u.row[c] \in Row BY <1>1, <2>2, <3>4, <3>6
    <3> HIDE DEF u
    <3>8. /\ wc.answers = u.row[c].answers /\ wc.kind = u.row[c].kind
          /\ wc.asker = u.row[c].asker /\ wc.dest = u.row[c].dest /\ wc.state = u.row[c].state
          /\ wc.delivery = u.row[c].delivery /\ wc.result = u.row[c].result
          /\ wc.pending = "resolved"
      BY <3>7 DEF Row
    <3> HIDE DEF wc
    <3>9. \A r \in Rows : rows[r] = IF r = c THEN wc ELSE u.row[r] BY <1>1, <2>2, <3>2, <3>6
    <3> HIDE DEF rows, v
    <3> QED BY <2>2, <3>4, <3>5, <3>6, <3>8, <3>9
  <2> HIDE DEF v, u
  <2>5. v.nr < MaxRows BY <2>2
  <2>6. /\ q.nr = s.nr + 1 /\ q.hold = s.hold
        /\ \A r \in Rows : q.row[r] = IF r = s.nr + 1 THEN answer ELSE v.row[r]
    BY <2>2, <2>4, <2>5, QueueFields
  <2>7. s.nr + 1 \in Rows BY <1>0, <1>1, DatabaseFields, BoundsNat DEF Rows
  <2> HIDE DEF q
  <2>8. Historic(q) /\ Past(s, q)
    <3>1. q.row[s.nr + 1] = answer BY <2>6, <2>7
    <3>2. \A r \in Rows : r # s.nr + 1 =>
            /\ q.row[r].answers = s.row[r].answers /\ q.row[r].kind = s.row[r].kind
            /\ q.row[r].asker = s.row[r].asker /\ q.row[r].dest = s.row[r].dest
            /\ q.row[r].state = s.row[r].state /\ q.row[r].delivery = s.row[r].delivery
            /\ r # k => q.row[r].result = s.row[r].result
            /\ q.row[r].pending = IF r = c THEN "resolved" ELSE s.row[r].pending
      BY <2>4, <2>6
    <3> QED BY <1>1, <1>2, <1>3, <1>5, <2>2, <2>3, <2>6, <3>1, <3>2, AnswerHistoric
  <2>9. q.nb < MaxBundles BY <2>2
  <2>10. q.row[k].dest = s.row[k].dest
    <3>1. k # s.nr + 1 BY <1>1, <1>2
    <3> QED BY <1>1, <2>4, <2>6, <3>1
  <2>11. TryCreateDeliveryForEndpoint(q, s.row[c].asker).row[k].dest = s.row[k].dest
    BY <1>1, <2>2, <2>8, <2>9, <2>10, TryCreateHistoric
  <2> QED BY <2>1, <2>2, <2>8, <2>9, <2>11, TryCreateHistoric, PastTransitive DEF k
<1>6. CASE s.row[k].result = "none" /\ ~ExactRequest(s, d)
  <2>1. RecordRuntimeTurnResult(s, d, outcome) = x
    BY <1>6 DEF RecordRuntimeTurnResult
  <2> DEFINE W == [w EXCEPT !.pending = heard]
  <2> HIDE DEF k, heard
  <2>2. /\ w \in Row /\ w.answers = s.row[k].answers /\ w.kind = s.row[k].kind
        /\ w.asker = s.row[k].asker /\ w.dest = s.row[k].dest /\ w.state = s.row[k].state
        /\ w.delivery = s.row[k].delivery /\ w.pending = s.row[k].pending
    BY <1>1 DEF Row
  <2>3. u = [s EXCEPT !.row = [s.row EXCEPT ![k] = w]] OBVIOUS
  <2> HIDE DEF w
  <2>4. u = [status |-> s.status, bridge |-> s.bridge, binding |-> s.binding,
             actor |-> s.actor, row |-> [s.row EXCEPT ![k] = w], bundle |-> s.bundle,
             nr |-> s.nr, nb |-> s.nb, hold |-> s.hold, job |-> s.job]
    BY <1>0, <2>3 DEF Database
  <2>5. u.row[k] = w BY <1>1, <2>4
  <2>6. x = [u EXCEPT !.row = [u.row EXCEPT ![k] = W]] BY <2>5
  <2>7. /\ W.answers = s.row[k].answers /\ W.kind = s.row[k].kind
        /\ W.asker = s.row[k].asker /\ W.dest = s.row[k].dest /\ W.state = s.row[k].state
        /\ W.delivery = s.row[k].delivery /\ W.pending = heard
    BY <2>2 DEF Row
  <2> HIDE DEF W, u, x
  <2>8. /\ x.nr = s.nr /\ x.nb = s.nb /\ x.hold = s.hold /\ x.bundle = s.bundle
        /\ x.row = [[s.row EXCEPT ![k] = w] EXCEPT ![k] = W]
    BY <2>4, <2>6
  <2>9. \A r \in Rows : x.row[r] = IF r = k THEN W ELSE s.row[r] BY <1>1, <2>8
  <2>10. s.row[k].kind = "request" => heard = s.row[k].pending BY DEF heard
  <2>11. \A r \in Rows :
           /\ x.row[r].answers = s.row[r].answers /\ x.row[r].kind = s.row[r].kind
           /\ x.row[r].asker = s.row[r].asker /\ x.row[r].dest = s.row[r].dest
           /\ x.row[r].state = s.row[r].state /\ x.row[r].delivery = s.row[r].delivery
           /\ r # k => x.row[r].result = s.row[r].result
           /\ s.row[r].kind = "request" => x.row[r].pending = s.row[r].pending
    BY <2>7, <2>9, <2>10
  <2>12. Answered(x)
    <3>1. \A r \in Rows : s.row[r].answers # 0 => s.row[r].answers \in Rows
      <4> SUFFICES ASSUME NEW r \in Rows PROVE s.row[r].answers # 0 => s.row[r].answers \in Rows
        OBVIOUS
      <4>1. s.row[r] \in Row BY <1>1
      <4>2. s.row[r].answers \in 0 .. MaxRows BY <4>1 DEF Row
      <4> QED BY <4>2, BoundsNat DEF Rows
    <3> QED BY <2>8, <2>11, <3>1 DEF Historic, Answered
  <2>13. Blank(x)
    <3>1. \A r \in Rows : r > s.nr => r # k BY <1>1, BoundsNat
    <3> QED BY <2>8, <2>11, <3>1 DEF Historic, Blank
  <2>14. Past(s, x) BY <1>6, <2>8, <2>11 DEF Past, k
  <2>15. OneTry(x)
    <3>1. \A e \in 1 .. s.nb : s.bundle[e].row \in Rows BY Existence
    <3> QED BY <1>3, <2>8, <2>11, <3>1 DEF Historic, OneTry
  <2>16. x.row[k].dest = s.row[k].dest BY <1>1, <2>11
  <2> QED BY <2>1, <2>12, <2>13, <2>14, <2>15, <2>16 DEF Historic, k
<1> QED BY <1>4, <1>5, <1>6
-----------------------------------------------------------------------------
(* The handlers.                                                              *)

(* The loops that settle turns whose runtime is gone. *)
LEMMA FailUnknownHistoric ==
  ASSUME HistoryInv, NEW d \in Existing, IsActive(db, d), EndpointOf(db, d) \notin Clients,
         RowRoom, BundleRoom, FailUnknownRuntimeDelivery(db, d)
  PROVE  Historic(db') /\ Past(db, db')
<1> DEFINE u == LoseRuntime(db, d)
<1>0. Consistent(db) /\ Historic(db) /\ d \in 1 .. db.nb
  BY OwnedFacts DEF HistoryInv, DeliveryInv
<1>1. Consistent(u) /\ u.nr = db.nr /\ u.nb = db.nb /\ Historic(u) /\ Past(db, u)
  BY <1>0, StopOK, StopHistoric DEF LoseRuntime
<1>2. db' = RecordRuntimeTurnResult(u, d, "failed")
  BY DEF FailUnknownRuntimeDelivery
<1>3. EndpointOf(u, d) = EndpointOf(db, d)
  <2> DEFINE v == SetRowState(Settle(db, d, "dead_lettered"), d, "dead_lettered")
  <2>1. db.bundle[d].state # "deferred" BY DEF IsActive, ActiveStates
  <2>2. Consistent(v) /\ KeepsRest(db, v, d) BY <1>0, <2>1, SettleOK DEF TerminalStates
  <2>3. EndpointOf(db, d) \in Endpoints /\ "error" \in Statuses
    BY <1>0, Existence DEF EndpointOf, Statuses
  <2>4. u = SetStatus(v, EndpointOf(db, d), "error") BY DEF LoseRuntime
  <2> HIDE DEF v, u
  <2>5. SameWork(v, u) BY <2>2, <2>3, <2>4, SetStatusOK
  <2> QED BY <2>2, <2>5 DEF KeepsRest, SameWork, EndpointOf
<1> HIDE DEF u
<1> QED BY <1>0, <1>1, <1>2, <1>3, RecordHistoric, PastTransitive DEF RowRoom, BundleRoom

(* The routes and timers that name one Delivery. *)
LEMMA BundleStepHistoric ==
  ASSUME HistoryInv, NEW d \in Existing, BundleStep(d)
  PROVE  Historic(db') /\ Past(db, db')
<1> DEFINE ep == EndpointOf(db, d)
           k == db.bundle[d].row
<1>0. Consistent(db) /\ db \in Database /\ Historic(db) /\ DeliveryInv
  BY DEF HistoryInv, DeliveryInv, Consistent
<1>1. /\ d \in 1 .. db.nb /\ d \in Bundles /\ ep \in Endpoints
      /\ k \in 1 .. db.nr /\ k \in Rows
      /\ Owned(d) => ep \notin Clients
      /\ IsActive(db, d) => db.bundle[d].state # "deferred"
  BY <1>0, OwnedFacts
<1>2. db.bundle[d] \in Bundle /\ db.bundle \in [Bundles -> Bundle]
  BY <1>0, <1>1, BundleFields, DatabaseFields
<1> HIDE DEF ep, k
<1>3. ASSUME NEW to \in Endpoints, SubmitRequest(d, to) PROVE Historic(db') /\ Past(db, db')
  <2> DEFINE w == [NoRow EXCEPT !.dest = to, !.kind = "request", !.state = "queued",
                     !.asker = EndpointOf(db, d), !.parent = d,
                     !.cont = Continuation(db, k), !.pending = "pending"]
             q == QueueEvent(db, w)
  <2>1. db' = TryCreateDeliveryForEndpoint(q, to) /\ db.nr < MaxRows /\ db.nb < MaxBundles
    BY <1>3 DEF SubmitRequest, RowRoom, BundleRoom, k
  <2>2. /\ Continuation(db, k) \in 0 .. MaxRows
        /\ Continuation(db, k) # 0 => /\ Continuation(db, k) <= db.nr
                                      /\ db.row[Continuation(db, k)].kind = "request"
    BY <1>0, <1>1, ContinuationOK
  <2>3. /\ w \in Row /\ w.dest = to /\ w.state = "queued" /\ w.delivery = 0 /\ w.attempts = 0
        /\ w.asker = ep /\ w.cont = Continuation(db, k)
        /\ w.answers = 0 /\ w.result = "none" /\ w.pending = "pending"
    <3>1. /\ 0 \in 0 .. MaxBundles /\ 0 \in 0 .. MaxAttempts /\ 0 \in 0 .. MaxRows
          /\ d \in 0 .. MaxBundles
      BY <1>1, DeliveryAssumption DEF Bundles
    <3> QED BY <1>1, <2>2, <3>1 DEF NoRow, Row, ep
  <2> HIDE DEF w
  <2>4. Consistent(q) /\ q.nb = db.nb
    BY <1>0, <1>1, <2>1, <2>2, <2>3, QueueEventOK
  <2>5. Historic(q) /\ Past(db, q)
    BY <1>0, <2>1, <2>3, QueueHistoric
  <2> HIDE DEF q
  <2> QED BY <2>1, <2>4, <2>5, TryCreateHistoric, PastTransitive
<1>4. ASSUME NEW g \in BOOLEAN, PrepareRuntimeDelivery(d, g) PROVE Historic(db') /\ Past(db, db')
  <2> DEFINE u == Claimed(db, {d})
             issue == g /\ (~(db.bundle[d].state = "injected_to_runtime") \/ db.bundle[d].sid)
             B == Authorised(u.bundle[d], issue)
  <2>1. db' = [u EXCEPT !.bundle[d] = B]
    BY <1>4 DEF PrepareRuntimeDelivery
  <2>2. Consistent(u) /\ u.nb = db.nb /\ Historic(u) /\ Past(db, u)
    <3>1. {d} \subseteq 1 .. db.nb BY <1>1
    <3> QED BY <1>0, <3>1, ClaimedOK, ClaimedHistoric
  <2> HIDE DEF u, issue
  <2>3. u.bundle[d] \in Bundle BY <1>1, <2>2, BundleFields DEF Consistent
  <2>4. B.row = u.bundle[d].row /\ B.state = u.bundle[d].state
    BY <2>3 DEF Authorised, Bundle
  <2> HIDE DEF B
  <2>5. db' = [u EXCEPT !.bundle = [u.bundle EXCEPT ![d] = B]] BY <2>1
  <2> QED BY <1>1, <2>2, <2>4, <2>5, TouchBundleHistoric, PastTransitive
<1>5. ASSUME NEW o \in {"completed", "failed"}, RecordClientTurnResult(d, o)
      PROVE  Historic(db') /\ Past(db, db')
  <2> DEFINE u == RecordRuntimeTurnResult(db, d, o)
             v == SetRowState(Settle(u, d, "acknowledged"), d, "acknowledged")
  <2>1. /\ db' = ReportTurnEnd(v, ep) /\ db.nr < MaxRows /\ db.nb + 2 <= MaxBundles
        /\ ep \in Clients /\ ~ResultRefused(db, d)
    BY <1>5 DEF RecordClientTurnResult, RowRoom, ep
  <2>2. db.nb \in Nat /\ MaxBundles \in Nat /\ db.nb < MaxBundles
    BY <1>0, <2>1, DatabaseFields, BoundsNat
  <2>3. db.bundle[d].state \in {"reserved", "delivered_to_bridge", "acknowledged"}
    <3>1. db.bundle[d].state \in {"reserved", "delivered_to_bridge", "acknowledged", "cancelled"}
      BY <1>0, <1>1, <2>1 DEF Consistent, ClientsWait, ep, EndpointOf
    <3>2. db.bundle[d].state = "cancelled" => db.row[k].result = "none"
      BY <1>0, <1>1, <2>1 DEF Historic, OneTry, ep, k, EndpointOf
    <3> QED BY <2>1, <3>1, <3>2 DEF ResultRefused, k
  <2>4. Consistent(u) /\ Extends(db, u) /\ Historic(u) /\ Past(db, u)
        /\ u.row[k].dest = db.row[k].dest
    BY <1>0, <1>1, <2>1, <2>2, <2>3, RecordOK, RecordHistoric DEF k
  <2> HIDE DEF u
  <2>5. u.bundle[d] = db.bundle[d] /\ d \in 1 .. u.nb /\ u.nb < MaxBundles
    BY <1>1, <2>1, <2>2, <2>4 DEF Extends
  <2>6. Consistent(v) /\ KeepsRest(u, v, d)
    BY <2>3, <2>4, <2>5, SettleOK DEF TerminalStates
  <2>7. IsActive(u, d) \/ EndpointOf(u, d) \in Clients
    <3>1. CASE db.bundle[d].state = "acknowledged"
      <4>1. db.row[k].dest \in Clients BY <2>1 DEF ep, k, EndpointOf
      <4>3. u.row[k].dest = db.row[k].dest BY <1>1, <2>4
      <4> QED BY <2>5, <4>1, <4>3 DEF EndpointOf, k
    <3> QED BY <2>3, <2>5, <3>1 DEF IsActive, ActiveStates
  <2>8. Historic(v) /\ Past(u, v)
    BY <2>3, <2>4, <2>5, <2>7, SettleHistoric DEF TerminalStates, IsActive, ActiveStates
  <2> HIDE DEF v
  <2>9. v.nb < MaxBundles BY <2>5, <2>6 DEF KeepsRest
  <2> QED BY <1>1, <2>1, <2>4, <2>6, <2>8, <2>9, ReportTurnEndHistoric, PastTransitive
<1>6. ASSUME NEW o \in {"completed", "failed"}, RecordResult(d, o)
      PROVE  Historic(db') /\ Past(db, db')
  BY <1>0, <1>1, <1>6, RecordHistoric DEF RecordResult, RowRoom, BundleRoom, ep
<1>7. CASE ReportDeferred(d)
  <2> DEFINE u == RequeueRow(Settle(db, d, "deferred"), d, 1)
  <2>1. /\ db' = (IF db.bridge[ep] THEN SetStatus(u, ep, "runtime_unconfigured") ELSE u)
        /\ IsActive(db, d) /\ ep \notin Clients
    BY <1>1, <1>7 DEF ReportDeferred, ep
  <2>2. Consistent(u) /\ Historic(u) /\ Past(db, u)
    BY <1>0, <1>1, <2>1, RequeueOK, RequeueHistoric DEF ep, TerminalStates
  <2> HIDE DEF u
  <2>3. "runtime_unconfigured" \in Statuses BY DEF Statuses
  <2>4. LET t == SetStatus(u, ep, "runtime_unconfigured") IN Historic(t) /\ Past(db, t)
    BY <1>1, <2>2, <2>3, SetStatusHistoric, PastTransitive
  <2> QED BY <2>1, <2>2, <2>4
<1>8. CASE ReportFailed(d)
  <2>1. IsActive(db, d) /\ ep \notin Clients BY <1>1, <1>8 DEF ReportFailed
  <2>2. CASE db.bundle[d].state = "injected_to_runtime"
    <3>1. db' = FailInjectedRuntimeDelivery(db, d) BY <1>8, <2>2 DEF ReportFailed
    <3> QED BY <1>0, <1>1, <2>1, <3>1, StopHistoric DEF FailInjectedRuntimeDelivery, ep
  <2>3. CASE db.bundle[d].state # "injected_to_runtime"
    <3>1. db' = GiveUpBeforeTurn(db, d) BY <1>8, <2>3 DEF ReportFailed
    <3> QED BY <1>0, <1>1, <2>1, <3>1, GiveUpHistoric DEF ep
  <2> QED BY <2>2, <2>3
<1>9. CASE ReportDeadLettered(d)
  BY <1>0, <1>1, <1>9, SettleHistoric DEF ReportDeadLettered, TerminalStates, ep
<1>10. CASE ReportInjected(d)
  <2>1. IsActive(db, d) /\ ep \notin Clients BY <1>1, <1>10 DEF ReportInjected
  <2>2. db' = [SetRowState(db, d, "injected_to_runtime") EXCEPT
              !.bundle[d] = [db.bundle[d] EXCEPT !.state = "injected_to_runtime",
                               !.lease = "running", !.entered = TRUE]]
    BY <1>10 DEF ReportInjected
  <2> QED BY <1>0, <1>1, <2>1, <2>2, InjectHistoric DEF ep
<1>11. CASE ReportAcknowledged(d)
  BY <1>0, <1>1, <1>11, SettleHistoric DEF ReportAcknowledged, TerminalStates, ep
<1>12. CASE CancelRuntimeDelivery(d)
  <2> DEFINE u == SetRowState(Settle(db, d, "cancelled"), d, "cancelled")
             c == IF db.row[k].kind = "return" THEN db.row[k].cont ELSE 0
             closed == {r \in Rows : /\ db.row[r].pending = "pending"
                                     /\ \/ r = k /\ db.row[k].delivery = d
                                        \/ r = c /\ db.row[k].delivery = d /\ db.row[r].dest = ep}
             v == ClosePending(u, closed)
  <2>1. /\ db' = ReportTurnEnd(v, ep) /\ IsActive(db, d) /\ db.nb < MaxBundles
        /\ db.row[k].result = "none"
    BY <1>12 DEF CancelRuntimeDelivery, BundleRoom, ep, k
  <2>2. Consistent(u) /\ KeepsRest(db, u, d)
    BY <1>0, <1>1, <2>1, SettleOK DEF TerminalStates
  <2>3. /\ Historic(u) /\ Past(db, u)
        /\ \A x \in Rows : u.row[x].pending = db.row[x].pending
    <3>1. "cancelled" \in TerminalStates BY DEF TerminalStates
    <3>2. db.row[db.bundle[d].row].result = "none" BY <2>1 DEF k
    <3> HIDE DEF closed
    <3> QED BY <1>0, <1>1, <2>1, <3>1, <3>2, SettleHistoric
  <2>4. \A r \in Rows : r \in closed => u.row[r].pending = "pending" BY <2>3
  <2> HIDE DEF u, closed
  <2>5. Consistent(v) /\ v.nb = u.nb
    BY <2>2, PendingOK DEF ClosePending
  <2>6. Historic(v) /\ Past(u, v)
    BY <2>2, <2>3, <2>4, PendingHistoric DEF ClosePending
  <2> HIDE DEF v
  <2>7. v.nb < MaxBundles BY <2>1, <2>2, <2>5 DEF KeepsRest
  <2> QED BY <1>1, <2>1, <2>3, <2>5, <2>6, <2>7, ReportTurnEndHistoric, PastTransitive
<1>13. ASSUME NEW l, db' = [db EXCEPT !.bundle[d].lease = l]
       PROVE  Historic(db') /\ Past(db, db')
  <2> DEFINE B == [db.bundle[d] EXCEPT !.lease = l]
  <2>1. db' = [db EXCEPT !.bundle = [db.bundle EXCEPT ![d] = B]] BY <1>13
  <2>2. B.row = db.bundle[d].row /\ B.state = db.bundle[d].state BY <1>2 DEF Bundle
  <2> HIDE DEF B
  <2> QED BY <1>0, <1>1, <2>1, <2>2, TouchBundleHistoric
<1>14. CASE LeaseLapses(d) BY <1>13, <1>14 DEF LeaseLapses
<1>15. CASE RenewRuntimeDeliveryLease(d) BY <1>13, <1>15 DEF RenewRuntimeDeliveryLease
<1>16. CASE RequeueExpired(d)
  <2>1. /\ IsActive(db, d) /\ db.bundle[d].lease = "lapsed" /\ RowRoom /\ BundleRoom
    BY <1>16 DEF RequeueExpired, Lapsed
  <2>2. ep \notin Clients
    BY <1>0, <1>1, <2>1 DEF Consistent, ClientsWait, ep, EndpointOf
  <2>3. CASE db.bundle[d].state = "injected_to_runtime"
    <3>1. FailUnknownRuntimeDelivery(db, d) BY <1>16, <2>3 DEF RequeueExpired
    <3> QED BY <2>1, <2>2, <3>1, FailUnknownHistoric DEF ep
  <2>4. CASE db.bundle[d].state # "injected_to_runtime"
    <3> DEFINE u == GiveUpBeforeTurn(db, d)
    <3>1. db' = IF u.bundle[d].state = "failed" THEN UpdateEndpointStatus(u, ep, "idle") ELSE u
      BY <1>16, <2>4 DEF RequeueExpired, ep
    <3>2. Consistent(u) /\ KeepsRest(db, u, d) /\ Historic(u) /\ Past(db, u)
      BY <1>0, <1>1, <2>1, <2>2, <2>4, GiveUpOK, GiveUpHistoric DEF ep
    <3> HIDE DEF u
    <3>3. LET t == UpdateEndpointStatus(u, ep, "idle") IN Historic(t) /\ Past(db, t)
      <4>1. "idle" \in Statuses /\ u.nb < MaxBundles
        BY <2>1, <3>2 DEF Statuses, KeepsRest, BundleRoom
      <4> QED BY <1>1, <3>2, <4>1, UpdateEndpointStatusHistoric, PastTransitive
    <3> QED BY <3>1, <3>2, <3>3
  <2> QED BY <2>3, <2>4
<1> QED
  BY <1>3, <1>4, <1>5, <1>6, <1>7, <1>8, <1>9, <1>10, <1>11, <1>12, <1>14, <1>15, <1>16
     DEF BundleStep
(* The settled work of db is in db' as it was, or deleted with its endpoint;  *)
(* a hold is only ever released, and starts nothing before it is.             *)
Forward ==
  /\ db'.hold => db.hold /\ db'.nb = db.nb
  /\ \A d \in Bundles : db.bundle[d].state \in TerminalStates
                          => db'.bundle[d].state = db.bundle[d].state
  /\ \A r \in Rows : db.row[r].state \in {"acknowledged", "dead_lettered", "cancelled"}
                          => db'.row[r].state \in {db.row[r].state, "deleted"}
  /\ \A r \in Rows : db.row[r].result # "none" => db'.row[r].result = db.row[r].result

LEMMA PastForward == Past(db, db') => Forward
BY DEF Past, Forward, SettledStates

(* The routes that name an endpoint. *)
LEMMA EndpointStepHistoric ==
  ASSUME HistoryInv, NEW ep \in Endpoints, EndpointStep(ep)
  PROVE  Historic(db') /\ Forward
<1>0. Consistent(db) /\ db \in Database /\ Historic(db)
  BY DEF HistoryInv, DeliveryInv, Consistent
<1>1. /\ db.status \in [Endpoints -> Statuses \cup {"absent"}]
      /\ db.bridge \in [Endpoints -> BOOLEAN]
      /\ \A c \in Clients : db.bridge[c] = FALSE
  BY <1>0 DEF Database, Consistent, ClientsWait
<1>2. ASSUME NEW a \in Askers \cup {None}, SubmitEvent(ep, a)
      PROVE  Historic(db') /\ Past(db, db')
  <2> DEFINE w == [NoRow EXCEPT !.dest = ep, !.state = "queued", !.asker = a,
                     !.pending = IF a = None THEN "none" ELSE "pending"]
             q == QueueEvent(db, w)
             S == {r \in Rows : q.row[r].asker = ep /\ q.row[r].kind = "message"
                                /\ q.row[r].pending = "pending"}
             v == ResolvePendingResponsesForIncoming(q, ep)
             u == [q EXCEPT !.row = [r \in Rows |->
                     IF r \in S THEN [q.row[r] EXCEPT !.pending = "resolved"] ELSE q.row[r]]]
  <2>1. db' = TryCreateDeliveryForEndpoint(v, ep) /\ db.nr < MaxRows /\ db.nb < MaxBundles
    BY <1>2 DEF SubmitEvent, RowRoom, BundleRoom
  <2>2. /\ w \in Row /\ w.dest = ep /\ w.state = "queued" /\ w.delivery = 0 /\ w.attempts = 0
        /\ w.kind = "message" /\ w.cont = 0 /\ w.answers = 0 /\ w.result = "none"
    <3>1. /\ 0 \in 0 .. MaxBundles /\ 0 \in 0 .. MaxAttempts /\ 0 \in 0 .. MaxRows
          /\ a \in Endpoints \cup {None}
      BY DeliveryAssumption
    <3> QED BY <3>1 DEF NoRow, Row
  <2> HIDE DEF w
  <2>3. Consistent(q) /\ q.nb = db.nb /\ Historic(q) /\ Past(db, q)
    BY <1>0, <2>1, <2>2, QueueEventOK, QueueHistoric
  <2> HIDE DEF q
  <2>4. v = u
    BY DEF ResolvePendingResponsesForIncoming
  <2>5. \A r \in Rows : r \in S => q.row[r].pending = "pending" /\ q.row[r].kind # "request"
    OBVIOUS
  <2> HIDE DEF S, v
  <2>6. Consistent(u) /\ u.nb = q.nb
    BY <2>3, PendingOK
  <2>7. Historic(u) /\ Past(q, u)
    BY <2>3, <2>5, PendingHistoric
  <2> HIDE DEF u
  <2> QED BY <2>1, <2>3, <2>4, <2>6, <2>7, TryCreateHistoric, PastTransitive
<1>3. CASE TurnEnd(ep)
  <2>1. Historic(db') /\ Past(db, db')
    BY <1>0, <1>3, ReportTurnEndHistoric DEF TurnEnd, BundleRoom
  <2> QED BY <2>1, PastForward
<1>10. ASSUME NEW t, t \in Database, SameWork(db, t), t.hold = db.hold,
              \A c \in Clients : t.bridge[c] = FALSE
       PROVE  /\ Consistent(t) /\ Historic(t) /\ Past(db, t) /\ t.nb = db.nb
  BY <1>0, <1>10, SameWorkConsistent, SameWorkHistoric DEF SameWork
<1>4. ASSUME NEW st \in {"idle", "runtime_unconfigured"}, RegisterEndpoint(ep, st)
      PROVE  Historic(db') /\ Past(db, db')
  <2> DEFINE kept == db.bridge[ep] /\ db.status[ep] \in {"active", "waiting", "error", "retired"}
             reported == IF kept THEN db.status[ep] ELSE st
             shown == IF reported \in {"idle", "waiting", "runtime_unconfigured"}
                      THEN RuntimeConfigurationStatus(db, ep, reported) ELSE reported
             t == [db EXCEPT !.status[ep] = shown, !.bridge[ep] = TRUE]
  <2>1. db' = TryCreateDeliveryForEndpoint(t, ep) /\ db.nb < MaxBundles /\ ep \notin Clients
    BY <1>4 DEF RegisterEndpoint, BundleRoom
  <2>2. reported \in Statuses BY DEF Statuses
  <2> HIDE DEF reported
  <2>3. shown \in Statuses BY <1>0, <2>2, RuntimeConfigurationStatusType
  <2> HIDE DEF shown
  <2>4. /\ t \in Database /\ SameWork(db, t) /\ t.hold = db.hold
        /\ t.bridge = [db.bridge EXCEPT ![ep] = TRUE]
    BY <1>0, <2>3 DEF Database, SameWork
  <2>5. \A c \in Clients : t.bridge[c] = FALSE
    BY <1>1, <2>1, <2>4, DeliveryAssumption
  <2> HIDE DEF t
  <2> QED BY <1>10, <2>1, <2>4, <2>5, TryCreateHistoric, PastTransitive
<1>5. ASSUME NEW st \in {"idle", "runtime_unconfigured"}, ReportEndpointStatus(ep, st)
      PROVE  Historic(db') /\ Past(db, db')
  <2>1. st \in Statuses BY DEF Statuses
  <2> QED BY <1>0, <1>5, <2>1, UpdateEndpointStatusHistoric DEF ReportEndpointStatus, BundleRoom
<1>6. CASE RetireEndpoint(ep)
  <2> DEFINE t == [db EXCEPT !.status[ep] = "retired", !.bridge[ep] = FALSE]
  <2>1. db' = t BY <1>6 DEF RetireEndpoint
  <2>2. /\ t \in Database /\ SameWork(db, t) /\ t.hold = db.hold
        /\ t.bridge = [db.bridge EXCEPT ![ep] = FALSE]
    BY <1>0 DEF Database, SameWork, Statuses
  <2>3. \A c \in Clients : t.bridge[c] = FALSE
    BY <1>1, <2>2, DeliveryAssumption
  <2> HIDE DEF t
  <2> QED BY <1>10, <2>1, <2>2, <2>3, PastForward
<1>7. CASE DeleteEndpoint(ep)
  <2>1. db' = [db EXCEPT !.status[ep] = "absent", !.bridge[ep] = FALSE,
                 !.row = [r \in Rows |-> IF db.row[r].dest = ep
                    THEN [db.row[r] EXCEPT !.state = "deleted", !.delivery = 0] ELSE db.row[r]]]
    BY <1>7 DEF DeleteEndpoint
  <2>2. /\ Historic(db') /\ db'.hold = db.hold /\ db'.nb = db.nb /\ db'.bundle = db.bundle
        /\ \A r \in Rows : /\ db'.row[r].result = db.row[r].result
                           /\ db'.row[r].state \in {db.row[r].state, "deleted"}
    <3> DEFINE t == [db EXCEPT !.status[ep] = "absent", !.bridge[ep] = FALSE,
                 !.row = [r \in Rows |-> IF db.row[r].dest = ep
                    THEN [db.row[r] EXCEPT !.state = "deleted", !.delivery = 0] ELSE db.row[r]]]
    <3>1. /\ Historic(t) /\ t.hold = db.hold /\ t.nb = db.nb /\ t.bundle = db.bundle
          /\ \A r \in Rows : /\ t.row[r].result = db.row[r].result
                             /\ t.row[r].state \in {db.row[r].state, "deleted"}
      BY <1>0, DeleteHistoric, Zenon
    <3>2. db' = t BY <2>1, Zenon
    <3> HIDE DEF t
    <3> QED BY <3>1, <3>2
  <2> QED BY <2>2 DEF Forward
<1>8. ASSUME NEW st \in ActorStates, SetActorStatus(ep, st) PROVE Historic(db') /\ Past(db, db')
  <2> DEFINE t == [db EXCEPT !.actor[ep] = st]
             shown == RuntimeConfigurationStatus(t, ep, "idle")
  <2>1. db.nb < MaxBundles
    BY <1>8 DEF SetActorStatus, BundleRoom
  <2>2. t \in Database /\ SameWork(db, t) /\ t.bridge = db.bridge /\ t.hold = db.hold
    <3>1. st \in {"active", "retired"} BY DeliveryAssumption
    <3> QED BY <1>0, <3>1 DEF Database, SameWork
  <2>3. \/ db' = UpdateEndpointStatus(t, ep, "retired")
        \/ db' = UpdateEndpointStatus(t, ep, shown)
        \/ db' = t
    BY <1>8 DEF SetActorStatus
  <2> HIDE DEF t
  <2>4. "retired" \in Statuses /\ shown \in Statuses
    BY <2>2, RuntimeConfigurationStatusType DEF Statuses
  <2> HIDE DEF shown
  <2>5. Consistent(t) /\ Historic(t) /\ Past(db, t) /\ t.nb = db.nb
    BY <1>1, <1>10, <2>2
  <2>6. \A x \in Statuses : LET y == UpdateEndpointStatus(t, ep, x)
                            IN  Historic(y) /\ Past(db, y)
    BY <2>1, <2>5, UpdateEndpointStatusHistoric, PastTransitive
  <2> QED BY <2>3, <2>4, <2>5, <2>6
<1>9. ASSUME NEW b \in Bindings, SetActorBinding(ep, b) PROVE Historic(db') /\ Past(db, db')
  <2> DEFINE t == [db EXCEPT !.binding[ep] = b]
             shown == IF b = "none" THEN "runtime_unconfigured"
                      ELSE RuntimeConfigurationStatus(t, ep, db.status[ep])
  <2>1. db.nb < MaxBundles
    BY <1>9 DEF SetActorBinding, BundleRoom
  <2>2. t \in Database /\ SameWork(db, t) /\ t.bridge = db.bridge /\ t.hold = db.hold
    <3>1. b \in {"none", "resolved", "unresolved"} BY DeliveryAssumption
    <3> QED BY <1>0, <3>1 DEF Database, SameWork
  <2>3. \/ db' = t
        \/ db' = UpdateEndpointStatus(t, ep, shown) /\ db.status[ep] \in Statuses
    BY <1>9 DEF SetActorBinding, Statuses
  <2> HIDE DEF t
  <2>4. db.status[ep] \in Statuses => shown \in Statuses
    <3>1. "runtime_unconfigured" \in Statuses BY DEF Statuses
    <3> QED BY <2>2, <3>1, RuntimeConfigurationStatusType
  <2> HIDE DEF shown
  <2>5. Consistent(t) /\ Historic(t) /\ Past(db, t) /\ t.nb = db.nb
    BY <1>1, <1>10, <2>2
  <2>6. \A x \in Statuses : LET y == UpdateEndpointStatus(t, ep, x)
                            IN  Historic(y) /\ Past(db, y)
    BY <2>1, <2>5, UpdateEndpointStatusHistoric, PastTransitive
  <2> QED BY <2>3, <2>4, <2>5, <2>6
<1> QED
  BY <1>2, <1>3, <1>4, <1>5, <1>6, <1>7, <1>8, <1>9, PastForward DEF EndpointStep

(* Every handler, timer and loop iteration of the Bus. *)
LEMMA HistoryStep == HistoryInv /\ [Next]_db => HistoryInv' /\ Forward
<1> SUFFICES ASSUME HistoryInv, [Next]_db PROVE Historic(db') /\ Forward
  BY NextOK DEF HistoryInv
<1>0. Consistent(db) /\ db \in Database /\ Historic(db) /\ DeliveryInv
  BY DEF HistoryInv, DeliveryInv, Consistent
<1>1. ASSUME NEW t, db' = t, SameWork(db, t), t.hold = db.hold
      PROVE  Historic(db') /\ Forward
  BY <1>0, <1>1, SameWorkHistoric, PastForward
<1>2. ASSUME NEW j, db' = [db EXCEPT !.job = j] PROVE Historic(db') /\ Forward
  <2>1. SameWork(db, db') /\ db'.hold = db.hold BY <1>0, <1>2 DEF Database, SameWork
  <2> QED BY <1>1, <2>1
<1>3. ASSUME NEW D, D \subseteq 1 .. db.nb, db' = Claimed(db, D) PROVE Historic(db') /\ Forward
  BY <1>0, <1>3, ClaimedHistoric, PastForward
<1>4. ASSUME NEW d \in Existing, BundleStep(d) PROVE Historic(db') /\ Forward
  BY <1>4, BundleStepHistoric, PastForward
<1>5. ASSUME NEW ep \in Endpoints, EndpointStep(ep) PROVE Historic(db') /\ Forward
  BY <1>5, EndpointStepHistoric
<1>6. ASSUME NEW ep \in Clients, ClientStep(ep) PROVE Historic(db') /\ Forward
  <2>1. CASE RegisterClientEndpoint(ep)
    <3> DEFINE t == [db EXCEPT !.status[ep] = "idle"]
    <3>1. db' = TryCreateDeliveryForEndpoint(t, ep) /\ db.nb < MaxBundles /\ ep \in Endpoints
      BY <2>1, DeliveryAssumption DEF RegisterClientEndpoint, BundleRoom
    <3>2. t \in Database /\ SameWork(db, t) /\ t.bridge = db.bridge /\ t.hold = db.hold
      BY <1>0 DEF Database, SameWork, Statuses
    <3> HIDE DEF t
    <3>3. \A c \in Clients : t.bridge[c] = FALSE
      BY <1>0, <3>2 DEF Consistent, ClientsWait
    <3>4. Consistent(t) BY <1>0, <3>2, <3>3, SameWorkConsistent
    <3>5. t.nb = db.nb /\ Historic(t) /\ Past(db, t)
      BY <1>0, <3>2, SameWorkHistoric DEF SameWork
    <3> QED BY <3>1, <3>4, <3>5, TryCreateHistoric, PastTransitive, PastForward
  <2>2. CASE ClaimClientDeliveries(ep)
    <3>1. {d \in Existing : EndpointOf(db, d) = ep} \subseteq 1 .. db.nb BY DEF Existing
    <3> QED BY <1>3, <2>2, <3>1 DEF ClaimClientDeliveries
  <2> QED BY <1>6, <2>1, <2>2 DEF ClientStep
<1>7. CASE ClaimDeliveries
  <2>1. {d \in Existing : Owned(d)} \subseteq 1 .. db.nb BY DEF Existing
  <2> QED BY <1>3, <1>7, <2>1 DEF ClaimDeliveries
<1>8. CASE LeaseTimer BY <1>2, <1>8 DEF LeaseTimer
<1>9. CASE LeaseTimerDone BY <1>2, <1>9 DEF LeaseTimerDone
<1>10. CASE RegisterBridge BY <1>2, <1>10 DEF RegisterBridge
<1>11. CASE RegisterBridgeDone BY <1>2, <1>11 DEF RegisterBridgeDone
<1>12. CASE AbandonTurn
  <2>1. /\ Abandoned # {} /\ FailUnknownRuntimeDelivery(db, Oldest(Abandoned))
        /\ RowRoom /\ BundleRoom
    BY <1>12 DEF AbandonTurn
  <2>2. Abandoned \subseteq Nat BY DEF Abandoned, Existing
  <2>3. Oldest(Abandoned) \in Abandoned BY <2>1, <2>2, OldestIn
  <2> DEFINE d == Oldest(Abandoned)
  <2>4. d \in Existing /\ Owned(d) /\ IsActive(db, d)
    BY <2>3 DEF Abandoned, IsActive, ActiveStates
  <2> HIDE DEF d
  <2>5. EndpointOf(db, d) \notin Clients BY <1>0, <2>4, OwnedFacts
  <2> QED BY <2>1, <2>4, <2>5, FailUnknownHistoric, PastForward DEF d
<1>13. CASE ReleaseRestoreHold
  <2>1. db' = [db EXCEPT !.hold = FALSE] BY <1>13 DEF ReleaseRestoreHold
  <2>2. SameWork(db, db') /\ db'.hold = FALSE BY <1>0, <2>1 DEF Database, SameWork
  <2>3. Historic(db') BY <1>0, <2>2 DEF Historic, Answered, Blank, OneTry, SameWork
  <2> QED BY <2>2, <2>3 DEF Forward, SameWork
<1>14. CASE UNCHANGED db
  <2>1. SameWork(db, db') /\ db'.hold = db.hold BY <1>14 DEF SameWork
  <2> QED BY <1>1, <2>1
<1> QED
  BY <1>4, <1>5, <1>6, <1>7, <1>8, <1>9, <1>10, <1>11, <1>12, <1>13, <1>14 DEF Next

LEMMA HistoryInit == Init => HistoryInv
<1> SUFFICES ASSUME Init PROVE Historic(db) BY InitOK DEF HistoryInv
<1>1. /\ db.row = [r \in Rows |-> NoRow] /\ db.nr = 0 /\ db.nb = 0
  BY DeliveryAssumption DEF Init
<1>2. \A r \in Rows : db.row[r] = NoRow BY <1>1
<1>3. \A r \in Rows : /\ db.row[r].answers = 0 /\ db.row[r].result = "none"
                      /\ db.row[r].kind = "message" /\ db.row[r].pending = "none"
  BY <1>2 DEF NoRow
<1>4. Answered(db) /\ Blank(db) BY <1>3 DEF Answered, Blank
<1>5. OneTry(db) BY <1>1 DEF OneTry
<1> QED BY <1>4, <1>5 DEF Historic

-----------------------------------------------------------------------------
(* The theorems.                                                             *)

(* The database and what it says of its own past agree between any two        *)
(* handlers, however the calls of Bridges and clients arrive.                 *)
THEOREM HistoryAgrees == Spec => []HistoryInv
<1>1. HistoryInv /\ [Next]_db => HistoryInv' BY HistoryStep
<1> QED BY <1>1, HistoryInit, PTL DEF Spec

(* The Bus returns at most one answer to a request, to its asker, exactly     *)
(* when it marks the request resolved, whatever turns ask in their turn,      *)
(* fail, are stopped or report twice.                                         *)
THEOREM AnswersAreGivenOnce == Spec => []AnsweredOnce
<1>1. HistoryInv => AnsweredOnce
  <2> SUFFICES ASSUME HistoryInv, NEW c \in Rows, db.row[c].kind = "request"
               PROVE  LET answersOf == {r \in Rows : db.row[r].answers = c}
                      IN  /\ \A x, y \in answersOf : x = y
                          /\ (answersOf # {}) <=> (db.row[c].pending = "resolved")
                          /\ \A x \in answersOf : db.row[x].dest = db.row[c].asker
    BY DEF AnsweredOnce
  <2>1. Answered(db) /\ Blank(db) /\ db.nr \in Nat
    BY DatabaseFields, BoundsNat DEF HistoryInv, Historic, DeliveryInv, Consistent
  <2>2. c <= db.nr /\ c # 0
    <3>1. c \in Nat /\ c # 0 BY BoundsNat DEF Rows
    <3>2. ~(c > db.nr) BY <2>1 DEF Blank
    <3> QED BY <2>1, <3>1, <3>2
  <2> QED BY <2>1, <2>2 DEF Answered
<1> QED BY <1>1, HistoryAgrees, PTL

(* No late, duplicated or reordered call changes how a Delivery or a row was  *)
(* settled, or replaces a recorded turn result; only deleting the endpoint    *)
(* removes its rows.                                                          *)
THEOREM SettledStaysSettled == Spec => SettledForGood
<1>1. HistoryInv /\ [Next]_db =>
        [/\ \A d \in Bundles : db.bundle[d].state \in TerminalStates
                                 => db'.bundle[d].state = db.bundle[d].state
         /\ \A r \in Rows : db.row[r].state \in {"acknowledged", "dead_lettered", "cancelled"}
                                 => db'.row[r].state \in {db.row[r].state, "deleted"}
         /\ \A r \in Rows : db.row[r].result # "none" => db'.row[r].result = db.row[r].result]_db
  BY HistoryStep DEF Forward
<1> QED BY <1>1, HistoryAgrees, PTL DEF Spec, SettledForGood

(* A Workspace restored on hold creates no Delivery until its hold is         *)
(* released, whatever is sent, registered or reported meanwhile.              *)
THEOREM HoldStartsNothing == Spec => []RestoredStartsNothing
<1>1. Init => RestoredStartsNothing
  <2>1. Init => db.nb = 0 BY DeliveryAssumption DEF Init
  <2> QED BY <2>1 DEF RestoredStartsNothing
<1>2. HistoryInv /\ RestoredStartsNothing /\ [Next]_db => RestoredStartsNothing'
  BY HistoryStep DEF Forward, RestoredStartsNothing
<1> QED BY <1>1, <1>2, HistoryAgrees, PTL DEF Spec
=============================================================================
