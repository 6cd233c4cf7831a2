---------------------------- MODULE BridgeProofs ----------------------------
(***************************************************************************)
(* Proofs about the Bridge and the Bus together (module BridgeDelivery),    *)
(* for every set of endpoints, every bound and every number of crashes,     *)
(* stops, engine losses, hand-backs and reattachments, as long as no lease  *)
(* lapses on a bundle the Bridge still holds (Lapses = 0).                  *)
(*                                                                          *)
(* The first part says of every handler of the Bus which bundles it leaves  *)
(* alone; the second part follows the flows of the Bridge.                  *)
(***************************************************************************)
EXTENDS BridgeDelivery, HistoryProofs, FiniteSetTheorems

-----------------------------------------------------------------------------
(* What a handler of the Bus leaves alone.                                  *)

(* A bundle as tryCreateDeliveryForEndpoint inserts it. *)
Fresh(b) == b.state = "reserved" /\ b.lease # "lapsed" /\ b.entered = FALSE

(* Rows that wait may be reserved and rows may join; endpoints stay where    *)
(* they are registered.                                                      *)
Onward(s, t) ==
  /\ s.nr <= t.nr /\ s.nb <= t.nb
  /\ \A d \in Bundles : d > s.nb /\ d <= t.nb => Fresh(t.bundle[d])
  /\ \A r \in Rows : r <= s.nr => t.row[r].dest = s.row[r].dest
  /\ \A r \in Rows : s.row[r].state \in {"none", "queued"}
                       => t.row[r].state \in {"none", "queued", "reserved"}
  /\ \A ep \in Endpoints : /\ s.bridge[ep] = TRUE => t.bridge[ep] = TRUE
                           /\ s.status[ep] # "absent" => t.status[ep] # "absent"

(* From s to t rows are queued and bundles added, and the work under way is  *)
(* left as it is.                                                            *)
Grows(s, t) ==
  /\ Onward(s, t)
  /\ \A d \in Bundles : d <= s.nb => t.bundle[d] = s.bundle[d]
  /\ \A r \in Rows : s.row[r].state \notin {"none", "queued"} => t.row[r].state = s.row[r].state

(* The same, but for bundle d and for reservations that are claimed.         *)
Claims(a, b) ==
  /\ b.lease = a.lease /\ b.entered = a.entered
  /\ b.state = a.state \/ (a.state = "reserved" /\ b.state = "delivered_to_bridge")

Moves(s, t, d) ==
  /\ Onward(s, t)
  /\ \A e \in Bundles : e <= s.nb => t.bundle[e].row = s.bundle[e].row
  /\ \A e \in Bundles : e <= s.nb /\ e # d => Claims(s.bundle[e], t.bundle[e])
  /\ \A r \in Rows : s.row[r].state = "deleted" => t.row[r].state = "deleted"

(* What both say of the bundles and the rows there were. *)
Follows(s, t) ==
  /\ Onward(s, t)
  /\ \A e \in Bundles : e <= s.nb => t.bundle[e].row = s.bundle[e].row
  /\ \A r \in Rows : s.row[r].state = "deleted" => t.row[r].state = "deleted"

LEMMA Counts ==
  ASSUME NEW s, s \in Database
  PROVE  s.nr \in Nat /\ s.nb \in Nat /\ \A d \in Bundles : d \in Nat
BY DatabaseFields, BoundsNat

LEMMA GrowsItself ==
  ASSUME NEW s, s \in Database
  PROVE  Grows(s, s)
<1>1. s.nr <= s.nr /\ s.nb <= s.nb /\ \A d \in Bundles : ~(d > s.nb /\ d <= s.nb) BY Counts
<1> QED BY <1>1 DEF Grows, Onward

LEMMA GrowsFurther ==
  ASSUME NEW s, NEW t, NEW u, s \in Database, t \in Database, u \in Database,
         Grows(s, t), Grows(t, u)
  PROVE  Grows(s, u)
<1>1. s.nr \in Nat /\ t.nr \in Nat /\ u.nr \in Nat /\ s.nb \in Nat /\ t.nb \in Nat /\ u.nb \in Nat
  BY Counts
<1>2. Bundles \subseteq Nat /\ Rows \subseteq Nat BY BoundsNat
<1>3. s.nr <= u.nr /\ s.nb <= u.nb BY <1>1 DEF Grows, Onward
<1>4. \A d \in Bundles : d > s.nb /\ d <= u.nb => Fresh(u.bundle[d])
  <2> SUFFICES ASSUME NEW d \in Bundles, d > s.nb, d <= u.nb PROVE Fresh(u.bundle[d])
    OBVIOUS
  <2>1. CASE d <= t.nb BY <2>1 DEF Grows, Onward
  <2>2. CASE d > t.nb BY <2>2 DEF Grows, Onward
  <2> QED BY <1>1, <1>2, <2>1, <2>2
<1>5. \A r \in Rows : r <= s.nr => r <= t.nr BY <1>1, <1>2 DEF Grows, Onward
<1>6. \A d \in Bundles : d <= s.nb => d <= t.nb BY <1>1, <1>2 DEF Grows, Onward
<1>7. \A r \in Rows : r <= s.nr => u.row[r].dest = s.row[r].dest BY <1>5 DEF Grows, Onward
<1>8. \A d \in Bundles : d <= s.nb => u.bundle[d] = s.bundle[d] BY <1>6 DEF Grows
<1>9. /\ \A r \in Rows : s.row[r].state \in {"none", "queued"}
                           => u.row[r].state \in {"none", "queued", "reserved"}
      /\ \A r \in Rows : s.row[r].state \notin {"none", "queued"} => u.row[r].state = s.row[r].state
  BY DEF Grows, Onward
<1>10. \A ep \in Endpoints : /\ s.bridge[ep] = TRUE => u.bridge[ep] = TRUE
                             /\ s.status[ep] # "absent" => u.status[ep] # "absent"
  BY DEF Grows, Onward
<1> QED BY <1>3, <1>4, <1>7, <1>8, <1>9, <1>10 DEF Grows, Onward

(* What a handler moves, it may follow with more of the queue. *)
LEMMA MovesFurther ==
  ASSUME NEW s, NEW t, NEW u, NEW d, s \in Database, t \in Database, u \in Database,
         Moves(s, t, d), Grows(t, u)
  PROVE  Moves(s, u, d)
<1>1. s.nr \in Nat /\ t.nr \in Nat /\ u.nr \in Nat /\ s.nb \in Nat /\ t.nb \in Nat /\ u.nb \in Nat
  BY Counts
<1>2. Bundles \subseteq Nat /\ Rows \subseteq Nat BY BoundsNat
<1>3. s.nr <= u.nr /\ s.nb <= u.nb BY <1>1 DEF Grows, Moves, Onward
<1>4. \A e \in Bundles : e > s.nb /\ e <= u.nb => Fresh(u.bundle[e])
  <2> SUFFICES ASSUME NEW e \in Bundles, e > s.nb, e <= u.nb PROVE Fresh(u.bundle[e])
    OBVIOUS
  <2>1. CASE e <= t.nb BY <2>1 DEF Grows, Moves, Onward
  <2>2. CASE e > t.nb BY <2>2 DEF Grows, Onward
  <2> QED BY <1>1, <1>2, <2>1, <2>2
<1>5. \A r \in Rows : r <= s.nr => r <= t.nr BY <1>1, <1>2 DEF Moves, Onward
<1>6. \A e \in Bundles : e <= s.nb => e <= t.nb BY <1>1, <1>2 DEF Moves, Onward
<1>7. \A r \in Rows : r <= s.nr => u.row[r].dest = s.row[r].dest BY <1>5 DEF Grows, Moves, Onward
<1>8. \A e \in Bundles : e <= s.nb => u.bundle[e] = t.bundle[e] BY <1>6 DEF Grows
<1>9. \A r \in Rows : s.row[r].state \in {"none", "queued"}
                        => u.row[r].state \in {"none", "queued", "reserved"}
  BY DEF Grows, Moves, Onward
<1>10. \A ep \in Endpoints : /\ s.bridge[ep] = TRUE => u.bridge[ep] = TRUE
                             /\ s.status[ep] # "absent" => u.status[ep] # "absent"
  BY DEF Grows, Moves, Onward
<1>11. \A r \in Rows : s.row[r].state = "deleted" => u.row[r].state = "deleted"
  BY DEF Grows, Moves
<1> QED BY <1>3, <1>4, <1>7, <1>8, <1>9, <1>10, <1>11 DEF Moves, Onward

LEMMA GrowsMoves ==
  ASSUME NEW s, NEW t, NEW d, Grows(s, t)
  PROVE  Moves(s, t, d)
BY DEF Grows, Moves, Claims

(* Rows keep their place in the queue and endpoints their registration. *)
LEMMA SameQueueGrows ==
  ASSUME NEW s, NEW t, s \in Database, t.nr = s.nr, t.nb = s.nb, t.bundle = s.bundle,
         \A r \in Rows : t.row[r].dest = s.row[r].dest /\ t.row[r].state = s.row[r].state,
         \A ep \in Endpoints : /\ s.bridge[ep] = TRUE => t.bridge[ep] = TRUE
                               /\ s.status[ep] # "absent" => t.status[ep] # "absent"
  PROVE  Grows(s, t)
<1>1. s.nr <= s.nr /\ s.nb <= s.nb /\ \A d \in Bundles : ~(d > s.nb /\ d <= s.nb) BY Counts
<1> QED BY <1>1 DEF Grows, Onward

LEMMA SetStatusGrows ==
  ASSUME NEW s, s \in Database, NEW ep \in Endpoints, NEW st \in Statuses
  PROVE  LET t == SetStatus(s, ep, st) IN Grows(s, t)
<1> DEFINE t == SetStatus(s, ep, st)
<1>1. /\ t.nr = s.nr /\ t.nb = s.nb /\ t.bundle = s.bundle /\ t.row = s.row /\ t.bridge = s.bridge
  BY DEF SetStatus, Database
<1>2. \A e \in Endpoints : s.status[e] # "absent" => t.status[e] # "absent"
  BY DEF SetStatus, Database, Statuses
<1> HIDE DEF t
<1> QED BY <1>1, <1>2, SameQueueGrows DEF t

(* The endpoint columns of a database with another row. *)
LEMMA QueueEndpoints ==
  ASSUME NEW s, s \in Database, NEW w \in Row, w.dest \in Endpoints
  PROVE  LET t == QueueEvent(s, w)
         IN  /\ t.bridge = s.bridge
             /\ \A ep \in Endpoints : s.status[ep] # "absent" => t.status[ep] # "absent"
<1> DEFINE u == [s EXCEPT !.nr = @ + 1, !.row[s.nr + 1] = w]
           st == IF s.status[w.dest] \in {"active", "runtime_unconfigured"}
                 THEN s.status[w.dest] ELSE "queued"
           t == SetStatus(u, w.dest, st)
<1>1. QueueEvent(s, w) = t BY DEF QueueEvent
<1>2. u.bridge = s.bridge /\ u.status = s.status BY DEF Database
<1>3. st # "absent" OBVIOUS
<1>4. u = [s EXCEPT !.nr = s.nr + 1, !.row = [s.row EXCEPT ![s.nr + 1] = w]] BY DEF Database
<1>5. t = IF u.status[w.dest] = "absent" THEN u ELSE [u EXCEPT !.status[w.dest] = st]
  BY Zenon DEF SetStatus
<1>6. u = [status |-> s.status, bridge |-> s.bridge, binding |-> s.binding, actor |-> s.actor,
           row |-> u.row, bundle |-> u.bundle, nr |-> u.nr, nb |-> u.nb,
           hold |-> u.hold, job |-> u.job]
  <2> DEFINE rows == [s.row EXCEPT ![s.nr + 1] = w]
             m == s.nr + 1
  <2>1. u = [s EXCEPT !.nr = m, !.row = rows] BY <1>4
  <2> HIDE DEF rows, m, u
  <2> QED BY <2>1 DEF Database
<1>7. s.status \in [Endpoints -> Statuses \cup {"absent"}] BY DatabaseFields
<1> HIDE DEF u, st
<1>8. CASE u.status[w.dest] = "absent" BY <1>1, <1>2, <1>5, <1>8
<1>9. CASE u.status[w.dest] # "absent"
  <2>1. t.bridge = s.bridge /\ t.status = [s.status EXCEPT ![w.dest] = st] BY <1>5, <1>6, <1>9
  <2> HIDE DEF t
  <2>2. \A ep \in Endpoints : t.status[ep] = IF ep = w.dest THEN st ELSE s.status[ep]
    BY <1>7, <2>1
  <2> QED BY <1>1, <1>3, <2>1, <2>2
<1> QED BY <1>8, <1>9

LEMMA QueueGrows ==
  ASSUME NEW s, Consistent(s), s.nr < MaxRows, NEW w \in Row, w.dest \in Endpoints,
         w.state = "queued"
  PROVE  LET t == QueueEvent(s, w) IN Grows(s, t)
<1> DEFINE t == QueueEvent(s, w)
<1>0. s \in Database BY DEF Consistent
<1>1. s.nr \in Nat /\ s.nb \in Nat /\ Bundles \subseteq Nat /\ Rows \subseteq Nat
  BY <1>0, Counts, BoundsNat
<1>2. /\ t.nr = s.nr + 1 /\ t.nb = s.nb /\ t.bundle = s.bundle
      /\ \A x \in Rows : t.row[x] = IF x = s.nr + 1 THEN w ELSE s.row[x]
  BY QueueFields
<1>3. /\ t.bridge = s.bridge
      /\ \A ep \in Endpoints : s.status[ep] # "absent" => t.status[ep] # "absent"
  BY <1>0, QueueEndpoints
<1> HIDE DEF t
<1>4. \A r \in Rows : r = s.nr + 1 => s.row[r].state = "none"
  BY <1>1 DEF Consistent, Numbered
<1>5. \A r \in Rows : r <= s.nr => r # s.nr + 1 BY <1>1
<1>6. t.nr = s.nr + 1 /\ t.nb = s.nb BY <1>2
<1>7. s.nr <= t.nr /\ s.nb <= t.nb /\ \A d \in Bundles : ~(d > s.nb /\ d <= t.nb)
  BY <1>1, <1>6
<1> QED BY <1>2, <1>3, <1>4, <1>5, <1>7 DEF Grows, Onward, t

(* The bundle of a reservation is fresh. *)
LEMMA ReserveGrows ==
  ASSUME NEW s, Consistent(s), s.nb < MaxBundles, NEW ep \in Endpoints, NEW r \in Rows,
         s.row[r].dest = ep, s.row[r].state = "queued"
  PROVE  LET t == InsertBundle(ReserveRow(s, r), ep, r) IN Grows(s, t)
<1> DEFINE n == s.nb + 1
           W == Reserved(s.row[r], n)
           u == ReserveRow(s, r)
           B == NewBundle(r, u.row[r].attempts, u.bridge[ep])
           t == InsertBundle(u, ep, r)
<1>0. s \in Database BY DEF Consistent
<1>1. /\ s.row \in [Rows -> Row] /\ s.bundle \in [Bundles -> Bundle]
      /\ s.nb \in 0 .. MaxBundles /\ s.nr \in Nat /\ s.nb \in Nat /\ Bundles \subseteq Nat
      /\ s.status \in [Endpoints -> Statuses \cup {"absent"}]
  BY <1>0, DatabaseFields, BoundsNat, Counts
<1>2. n \in Bundles BY <1>1, BoundsNat DEF Bundles
<1>3. Fresh(B)
  <2>1. B.state = "reserved" /\ B.entered = FALSE BY DEF NewBundle
  <2>2. B.lease = IF u.bridge[ep] THEN "running" ELSE "null" BY DEF NewBundle
  <2> HIDE DEF B, u
  <2>3. B.lease # "lapsed" BY <2>2
  <2> QED BY <2>1, <2>3 DEF Fresh
<1>4. u = [s EXCEPT !.row = [s.row EXCEPT ![r] = W]] BY DEF ReserveRow
<1>5. W.state = "reserved" /\ W.dest = s.row[r].dest
  <2>1. s.row[r] \in Row BY <1>1
  <2> QED BY <2>1 DEF Reserved, Row
<1> HIDE DEF W, n
<1>6. u = [status |-> s.status, bridge |-> s.bridge, binding |-> s.binding, actor |-> s.actor,
           row |-> [s.row EXCEPT ![r] = W], bundle |-> s.bundle, nr |-> s.nr, nb |-> s.nb,
           hold |-> s.hold, job |-> s.job]
  BY <1>0, <1>4 DEF Database
<1>7. t = [u EXCEPT !.nb = u.nb + 1, !.status[ep] = "active", !.bundle[u.nb + 1] = B]
  BY DEF InsertBundle
<1> HIDE DEF u, B, t
<1>8. /\ t.nr = s.nr /\ t.nb = n /\ t.bridge = s.bridge
      /\ t.status = [s.status EXCEPT ![ep] = "active"]
      /\ t.row = [s.row EXCEPT ![r] = W] /\ t.bundle = [s.bundle EXCEPT ![n] = B]
  BY <1>6, <1>7 DEF n
<1>9. /\ \A x \in Rows : t.row[x] = IF x = r THEN W ELSE s.row[x]
      /\ \A d \in Bundles : t.bundle[d] = IF d = n THEN B ELSE s.bundle[d]
      /\ \A e \in Endpoints : t.status[e] = IF e = ep THEN "active" ELSE s.status[e]
  BY <1>1, <1>2, <1>8
<1>10. /\ s.nr <= t.nr /\ s.nb <= t.nb
       /\ \A d \in Bundles : d > s.nb /\ d <= t.nb => d = n
       /\ \A d \in Bundles : d <= s.nb => d # n
  BY <1>1, <1>8 DEF n
<1>11. Onward(s, t) BY <1>3, <1>5, <1>8, <1>9, <1>10 DEF Onward
<1>12. Grows(s, t) BY <1>9, <1>10, <1>11 DEF Grows
<1> QED BY <1>12 DEF t, u

LEMMA TryCreateGrows ==
  ASSUME NEW s, Consistent(s), s.nb < MaxBundles, NEW ep \in Endpoints
  PROVE  LET t == TryCreateDeliveryForEndpoint(s, ep) IN Grows(s, t)
<1>1. CASE CanDeliver(s, ep) /\ QueuedFor(s, ep) # {}
  <2> DEFINE r == Oldest(QueuedFor(s, ep))
  <2>1. r \in QueuedFor(s, ep) BY <1>1, OldestIn, BoundsNat DEF QueuedFor
  <2>2. r \in Rows /\ s.row[r].dest = ep /\ s.row[r].state = "queued" BY <2>1 DEF QueuedFor
  <2>3. TryCreateDeliveryForEndpoint(s, ep) = InsertBundle(ReserveRow(s, r), ep, r)
    BY <1>1 DEF TryCreateDeliveryForEndpoint
  <2> HIDE DEF r
  <2> QED BY <2>2, <2>3, ReserveGrows
<1>2. CASE ~(CanDeliver(s, ep) /\ QueuedFor(s, ep) # {})
  <2>1. TryCreateDeliveryForEndpoint(s, ep) = s BY <1>2 DEF TryCreateDeliveryForEndpoint
  <2> QED BY <2>1, GrowsItself DEF Consistent
<1> QED BY <1>1, <1>2

LEMMA UpdateGrows ==
  ASSUME NEW s, Consistent(s), s.nb < MaxBundles, NEW ep \in Endpoints, NEW st \in Statuses
  PROVE  LET t == UpdateEndpointStatus(s, ep, st) IN Grows(s, t)
<1> DEFINE shown == IF /\ s.actor[ep] = "retired"
                       /\ st \in {"idle", "waiting", "queued", "runtime_unconfigured"}
                    THEN "retired" ELSE st
           u == SetStatus(s, ep, shown)
           t == TryCreateDeliveryForEndpoint(u, ep)
<1>1. shown \in Statuses BY DEF Statuses
<1>2. s \in Database BY DEF Consistent
<1> HIDE DEF shown
<1>3. Consistent(u) /\ SameWork(s, u) /\ Grows(s, u) BY <1>1, <1>2, SetStatusOK, SetStatusGrows
<1>4. u.nb < MaxBundles /\ u \in Database BY <1>3 DEF SameWork, Consistent
<1>5. UpdateEndpointStatus(s, ep, st) = IF shown \in {"idle", "waiting"} THEN t ELSE u
  BY DEF UpdateEndpointStatus, shown
<1> HIDE DEF u
<1>6. Grows(u, t) /\ Consistent(t) BY <1>3, <1>4, TryCreateGrows, TryCreateOK
<1> HIDE DEF t
<1>7. Grows(s, t) BY <1>2, <1>3, <1>4, <1>6, GrowsFurther DEF Consistent
<1> QED BY <1>3, <1>5, <1>7

LEMMA TurnEndGrows ==
  ASSUME NEW s, Consistent(s), s.nb < MaxBundles, NEW ep \in Endpoints
  PROVE  LET t == ReportTurnEnd(s, ep) IN Grows(s, t)
<1> DEFINE st == IF OpenPending(s, ep) THEN "waiting"
                 ELSE IF Unsettled(s, ep) THEN "queued" ELSE "idle"
           u == UpdateEndpointStatus(s, ep, st)
           t == TryCreateDeliveryForEndpoint(u, ep)
<1>1. st \in Statuses BY DEF Statuses
<1>2. s \in Database BY DEF Consistent
<1>3. ReportTurnEnd(s, ep) = IF s.status[ep] = "runtime_unconfigured" THEN s
        ELSE IF st = "queued" THEN t ELSE u
  BY DEF ReportTurnEnd
<1> HIDE DEF st
<1>4. Consistent(u) /\ (st = "queued" => u.nb = s.nb) /\ Grows(s, u)
  BY <1>1, UpdateEndpointStatusOK, UpdateGrows
<1> HIDE DEF u
<1>5. st = "queued" => Grows(u, t) /\ Consistent(t) BY <1>4, TryCreateGrows, TryCreateOK
<1> HIDE DEF t
<1>6. st = "queued" => Grows(s, t) BY <1>2, <1>4, <1>5, GrowsFurther DEF Consistent
<1>7. Grows(s, s) BY <1>2, GrowsItself
<1> QED BY <1>3, <1>4, <1>6, <1>7
(* Writing what a row says leaves it where it is in the queue. *)
LEMMA TouchRowGrows ==
  ASSUME NEW s, Consistent(s), NEW r \in Rows, NEW w \in Row,
         w.dest = s.row[r].dest, w.state = s.row[r].state, w.delivery = s.row[r].delivery,
         w.attempts = s.row[r].attempts, w.kind = s.row[r].kind,
         w.asker = s.row[r].asker, w.cont = s.row[r].cont
  PROVE  LET t == [s EXCEPT !.row = [s.row EXCEPT ![r] = w]]
         IN  Consistent(t) /\ Grows(s, t) /\ t.row[r] = w
<1> DEFINE t == [s EXCEPT !.row = [s.row EXCEPT ![r] = w]]
<1>1. /\ Consistent(t) /\ t.row = [s.row EXCEPT ![r] = w] /\ t.bundle = s.bundle
      /\ t.nr = s.nr /\ t.nb = s.nb /\ t.status = s.status /\ t.bridge = s.bridge
  BY TouchRowOK
<1>2. s.row \in [Rows -> Row] /\ s \in Database BY DatabaseFields DEF Consistent
<1> HIDE DEF t
<1>3. \A x \in Rows : t.row[x] = IF x = r THEN w ELSE s.row[x] BY <1>1, <1>2
<1>4. \A x \in Rows : t.row[x].dest = s.row[x].dest /\ t.row[x].state = s.row[x].state BY <1>3
<1>5. /\ t.nr = s.nr /\ t.nb = s.nb /\ t.bundle = s.bundle
      /\ \A ep \in Endpoints : /\ s.bridge[ep] = TRUE => t.bridge[ep] = TRUE
                               /\ s.status[ep] # "absent" => t.status[ep] # "absent"
  BY <1>1
<1>6. Grows(s, t) BY <1>2, <1>4, <1>5, SameQueueGrows
<1> QED BY <1>1, <1>3, <1>6 DEF t

(* The result of a turn, and the answer it gives. *)
LEMMA RecordGrows ==
  ASSUME NEW s, Consistent(s), NEW d \in 1 .. s.nb, s.nr < MaxRows, s.nb < MaxBundles,
         NEW outcome \in {"completed", "failed"}
  PROVE  LET t == RecordRuntimeTurnResult(s, d, outcome) IN Grows(s, t)
<1> DEFINE k == s.bundle[d].row
           c == Continuation(s, k)
           w == [s.row[k] EXCEPT !.result = outcome]
           u == [s EXCEPT !.row[k].result = outcome]
           heard == IF s.row[k].kind # "request" /\ s.row[k].pending = "pending"
                    THEN "resolved" ELSE s.row[k].pending
           answer == [NoRow EXCEPT !.dest = s.row[c].asker, !.kind = "return",
                                   !.state = "queued", !.answers = c,
                                   !.cont = s.row[c].cont]
           v == [u EXCEPT !.row[c].pending = "resolved"]
           q == QueueEvent(v, answer)
           x == [u EXCEPT !.row[k].pending = heard]
<1>0. s \in Database BY DEF Consistent
<1>1. k \in Rows /\ s.row[k] \in Row BY <1>0, Existence, RowFields
<1>2. heard \in {"none", "pending", "resolved", "cancelled"} BY <1>1 DEF Row
<1>3. /\ w \in Row /\ w.dest = s.row[k].dest /\ w.state = s.row[k].state
      /\ w.delivery = s.row[k].delivery /\ w.attempts = s.row[k].attempts
      /\ w.kind = s.row[k].kind /\ w.asker = s.row[k].asker /\ w.cont = s.row[k].cont
  <2> HIDE DEF k
  <2> QED BY <1>1 DEF Row
<1>4. u = [s EXCEPT !.row = [s.row EXCEPT ![k] = w]] OBVIOUS
<1>5. CASE s.row[k].result # "none"
  <2>1. RecordRuntimeTurnResult(s, d, outcome) = s BY <1>5 DEF RecordRuntimeTurnResult
  <2> QED BY <1>0, <2>1, GrowsItself
<1>6. CASE s.row[k].result = "none" /\ ExactRequest(s, d)
  <2>1. RecordRuntimeTurnResult(s, d, outcome) = TryCreateDeliveryForEndpoint(q, s.row[c].asker)
    BY <1>6 DEF RecordRuntimeTurnResult, ResolveRequest
  <2>2. ExactRequest(s, d) BY <1>6
  <2>3. Consistent(q) /\ q.nb = s.nb BY <2>2, AnswerOK, ZenonT(90)
  <2>4. Consistent(v) /\ v.nr = s.nr /\ v.nb = s.nb BY <2>2, AnswerOK, ZenonT(90)
  <2>5. answer \in Row /\ answer.dest \in Endpoints BY <2>2, AnswerOK, ZenonT(90)
  <2>6. c \in Rows /\ s.row[c].asker \in Endpoints BY <2>2, AnswerOK, ZenonT(90)
  <2>7. answer.state = "queued" BY DEF NoRow
  <2> HIDE DEF c, k, answer, w
  <2>8. Consistent(u) /\ Grows(s, u) BY <1>1, <1>3, <1>4, TouchRowGrows
  <2> HIDE DEF u
  <2>9. Grows(u, v)
    <3> DEFINE y == u.row[c]
               z == [y EXCEPT !.pending = "resolved"]
    <3>1. y \in Row BY <2>6, <2>8, RowFields DEF Consistent
    <3>2. v = [u EXCEPT !.row = [u.row EXCEPT ![c] = z]] OBVIOUS
    <3> HIDE DEF y
    <3>3. /\ z \in Row /\ z.dest = y.dest /\ z.state = y.state /\ z.delivery = y.delivery
          /\ z.attempts = y.attempts /\ z.kind = y.kind /\ z.asker = y.asker /\ z.cont = y.cont
      BY <3>1 DEF Row
    <3> HIDE DEF z
    <3> QED BY <2>6, <2>8, <3>2, <3>3, TouchRowGrows DEF y
  <2> HIDE DEF v
  <2>10. Grows(v, q) BY <2>4, <2>5, <2>7, QueueGrows
  <2> HIDE DEF q
  <2> DEFINE t == TryCreateDeliveryForEndpoint(q, s.row[c].asker)
  <2>11. Grows(q, t) /\ Consistent(t) BY <2>3, <2>6, TryCreateGrows, TryCreateOK
  <2> HIDE DEF t
  <2>12. Grows(s, v) BY <1>0, <2>4, <2>8, <2>9, GrowsFurther DEF Consistent
  <2>13. Grows(s, q) BY <1>0, <2>3, <2>4, <2>10, <2>12, GrowsFurther DEF Consistent
  <2>14. Grows(s, t) BY <1>0, <2>3, <2>11, <2>13, GrowsFurther DEF Consistent
  <2> QED BY <2>1, <2>14 DEF t
<1>7. CASE s.row[k].result = "none" /\ ~ExactRequest(s, d)
  <2>1. RecordRuntimeTurnResult(s, d, outcome) = x BY <1>7 DEF RecordRuntimeTurnResult
  <2> HIDE DEF k, heard
  <2>2. Consistent(u) /\ Grows(s, u) BY <1>1, <1>3, <1>4, TouchRowGrows
  <2> HIDE DEF u
  <2> DEFINE y == u.row[k]
             z == [y EXCEPT !.pending = heard]
  <2>3. y \in Row BY <1>1, <2>2, RowFields DEF Consistent
  <2>4. x = [u EXCEPT !.row = [u.row EXCEPT ![k] = z]] OBVIOUS
  <2> HIDE DEF y
  <2>5. /\ z \in Row /\ z.dest = y.dest /\ z.state = y.state /\ z.delivery = y.delivery
        /\ z.attempts = y.attempts /\ z.kind = y.kind /\ z.asker = y.asker /\ z.cont = y.cont
    BY <1>2, <2>3 DEF Row
  <2> HIDE DEF z, x
  <2>6. Consistent(x) /\ Grows(u, x) BY <1>1, <2>2, <2>4, <2>5, TouchRowGrows DEF y
  <2>7. Grows(s, x) BY <1>0, <2>2, <2>6, GrowsFurther DEF Consistent
  <2> QED BY <2>1, <2>7
<1> QED BY <1>5, <1>6, <1>7

-----------------------------------------------------------------------------
(* Bundle d and the row it holds, if it still does, are written. *)
LEMMA OneMoves ==
  ASSUME NEW s, Consistent(s), NEW d \in 1 .. s.nb, NEW t,
         t.nr = s.nr, t.nb = s.nb, t.bridge = s.bridge, t.status = s.status,
         \A e \in Bundles : e # d => t.bundle[e] = s.bundle[e],
         t.bundle[d].row = s.bundle[d].row,
         \A x \in Rows : t.row[x].dest = s.row[x].dest,
         \A x \in Rows : s.row[x].delivery # d => t.row[x] = s.row[x]
  PROVE  Moves(s, t, d)
<1>0. s \in Database BY DEF Consistent
<1>1. d \in Bundles /\ d # 0 /\ s.nr \in Nat /\ s.nb \in Nat /\ Bundles \subseteq Nat
  BY <1>0, Existence, Counts, BoundsNat DEF Bundles
<1>2. \A x \in Rows : s.row[x].state \in {"none", "queued", "deleted"} => s.row[x].delivery # d
  BY <1>1 DEF Consistent, RowsLinked
<1>3. s.nr <= t.nr /\ s.nb <= t.nb /\ \A e \in Bundles : ~(e > s.nb /\ e <= t.nb)
  <2>1. t.nr = s.nr /\ t.nb = s.nb OBVIOUS
  <2> HIDE DEF Bundles
  <2> QED BY ONLY <1>1, <2>1
<1>4. Onward(s, t) BY <1>2, <1>3 DEF Onward
<1>5. \A e \in Bundles : t.bundle[e].row = s.bundle[e].row OBVIOUS
<1>6. \A e \in Bundles : e # d => Claims(s.bundle[e], t.bundle[e]) BY DEF Claims
<1>7. \A x \in Rows : s.row[x].state = "deleted" => t.row[x].state = "deleted" BY <1>2
<1> QED BY <1>1, <1>4, <1>5, <1>6, <1>7 DEF Moves

LEMMA EndMoves ==
  ASSUME NEW s, Consistent(s), NEW d \in 1 .. s.nb, NEW st \in TerminalStates, NEW W,
         W.dest = s.row[s.bundle[d].row].dest
  PROVE  LET u == Settle(s, d, st)
             r == s.bundle[d].row
             t == IF s.row[r].delivery = d THEN [u EXCEPT !.row[r] = W] ELSE u
         IN  /\ u.bundle[d].row = r /\ u.row = s.row /\ Moves(s, t, d)
             /\ t.bundle[d].state = st /\ t.bundle[d].entered = s.bundle[d].entered
<1> DEFINE B == Ended(s.bundle[d], st)
           u == Settle(s, d, st)
           r == s.bundle[d].row
           t == IF s.row[r].delivery = d THEN [u EXCEPT !.row[r] = W] ELSE u
           rows == IF s.row[r].delivery = d THEN [s.row EXCEPT ![r] = W] ELSE s.row
<1>0. s \in Database BY DEF Consistent
<1>1. /\ d \in Bundles /\ r \in Rows
      /\ s.row \in [Rows -> Row] /\ s.bundle \in [Bundles -> Bundle]
  BY <1>0, Existence, DatabaseFields
<1>2. /\ u = [s EXCEPT !.bundle = [s.bundle EXCEPT ![d] = B]]
      /\ u.bundle[d] = B /\ u.row = s.row /\ B.row = r /\ B.state = st
      /\ B.entered = s.bundle[d].entered
  BY SettleFields
<1>3. \A x \in Rows : rows[x] = IF x = r /\ s.row[x].delivery = d THEN W ELSE s.row[x]
  BY <1>1
<1> HIDE DEF B, u, r
<1>4. u = [status |-> s.status, bridge |-> s.bridge, binding |-> s.binding, actor |-> s.actor,
           row |-> s.row, bundle |-> [s.bundle EXCEPT ![d] = B], nr |-> s.nr, nb |-> s.nb,
           hold |-> s.hold, job |-> s.job]
  BY <1>0, <1>2 DEF Database
<1>5. /\ t.row = rows /\ t.bundle = [s.bundle EXCEPT ![d] = B]
      /\ t.nr = s.nr /\ t.nb = s.nb /\ t.bridge = s.bridge /\ t.status = s.status
  BY <1>4
<1> HIDE DEF t, rows
<1>6. \A e \in Bundles : t.bundle[e] = IF e = d THEN B ELSE s.bundle[e]
  BY <1>1, <1>5
<1>7. Moves(s, t, d) /\ t.bundle[d] = B
  <2>1. /\ \A x \in Rows : t.row[x].dest = s.row[x].dest
        /\ \A x \in Rows : s.row[x].delivery # d => t.row[x] = s.row[x]
    BY <1>3, <1>5 DEF r
  <2>2. t.bundle[d] = B /\ t.bundle[d].row = s.bundle[d].row BY <1>1, <1>2, <1>6 DEF r
  <2> QED BY <1>5, <1>6, <2>1, <2>2, OneMoves
<1> QED BY <1>2, <1>7 DEF t, u, r

LEMMA SettleMoves ==
  ASSUME NEW s, Consistent(s), NEW d \in 1 .. s.nb, NEW st \in TerminalStates, NEW rs
  PROVE  LET t == SetRowState(Settle(s, d, st), d, rs)
         IN  /\ Moves(s, t, d) /\ t.bundle[d].state = st
             /\ t.bundle[d].entered = s.bundle[d].entered
<1> DEFINE u == Settle(s, d, st)
           r == s.bundle[d].row
           W == [s.row[r] EXCEPT !.state = rs]
           t == IF s.row[r].delivery = d THEN [u EXCEPT !.row[r] = W] ELSE u
<1>1. s.row[r] \in Row BY Existence, DatabaseFields DEF Consistent
<1>2. W.dest = s.row[r].dest
  <2> HIDE DEF r
  <2> QED BY <1>1 DEF Row
<1> HIDE DEF W
<1>3. /\ u.bundle[d].row = r /\ u.row = s.row /\ Moves(s, t, d)
      /\ t.bundle[d].state = st /\ t.bundle[d].entered = s.bundle[d].entered
  BY <1>2, EndMoves
<1>4. SetRowState(u, d, rs) = t
  <2> HIDE DEF u
  <2> QED BY <1>3 DEF SetRowState, W
<1> HIDE DEF t, u
<1> QED BY <1>3, <1>4 DEF u

LEMMA RequeueMoves ==
  ASSUME NEW s, Consistent(s), NEW d \in 1 .. s.nb, NEW st \in TerminalStates, NEW refund
  PROVE  LET t == RequeueRow(Settle(s, d, st), d, refund)
         IN  /\ Moves(s, t, d) /\ t.bundle[d].state = st
             /\ t.bundle[d].entered = s.bundle[d].entered
<1> DEFINE u == Settle(s, d, st)
           r == s.bundle[d].row
           W == Requeued(s.row[r], refund)
           t == IF s.row[r].delivery = d THEN [u EXCEPT !.row[r] = W] ELSE u
<1>1. s.row[r] \in Row BY Existence, DatabaseFields DEF Consistent
<1>2. W.dest = s.row[r].dest
  <2> HIDE DEF r
  <2> QED BY <1>1 DEF Row, Requeued
<1> HIDE DEF W
<1>3. /\ u.bundle[d].row = r /\ u.row = s.row /\ Moves(s, t, d)
      /\ t.bundle[d].state = st /\ t.bundle[d].entered = s.bundle[d].entered
  BY <1>2, EndMoves
<1>4. RequeueRow(u, d, refund) = t
  <2> HIDE DEF u
  <2> QED BY <1>3 DEF RequeueRow, W
<1> HIDE DEF t, u
<1> QED BY <1>3, <1>4 DEF u

LEMMA GiveUpMoves ==
  ASSUME NEW s, Consistent(s), NEW d \in 1 .. s.nb
  PROVE  LET t == GiveUpBeforeTurn(s, d)
         IN  /\ Moves(s, t, d) /\ t.bundle[d].state \in {"failed", "dead_lettered"}
             /\ t.bundle[d].entered = s.bundle[d].entered
<1>1. "failed" \in TerminalStates /\ "dead_lettered" \in TerminalStates BY DEF TerminalStates
<1> QED BY <1>1, SettleMoves, RequeueMoves DEF GiveUpBeforeTurn

LEMMA InjectMoves ==
  ASSUME NEW s, Consistent(s), NEW d \in 1 .. s.nb
  PROVE  LET t == [SetRowState(s, d, "injected_to_runtime") EXCEPT
                     !.bundle[d] = [s.bundle[d] EXCEPT !.state = "injected_to_runtime",
                                      !.lease = "running", !.entered = TRUE]]
         IN  /\ Moves(s, t, d) /\ t.bundle[d].state = "injected_to_runtime"
             /\ t.bundle[d].lease = "running" /\ t.bundle[d].entered = TRUE
<1> DEFINE r == s.bundle[d].row
           B == [s.bundle[d] EXCEPT !.state = "injected_to_runtime",
                   !.lease = "running", !.entered = TRUE]
           W == [s.row[r] EXCEPT !.state = "injected_to_runtime"]
           rows == IF s.row[r].delivery = d THEN [s.row EXCEPT ![r] = W] ELSE s.row
           u == SetRowState(s, d, "injected_to_runtime")
           t == [u EXCEPT !.bundle[d] = B]
<1>0. s \in Database BY DEF Consistent
<1>1. /\ d \in Bundles /\ r \in Rows /\ s.row[r] \in Row /\ s.bundle[d] \in Bundle
      /\ s.row \in [Rows -> Row] /\ s.bundle \in [Bundles -> Bundle]
  BY <1>0, Existence, RowFields, BundleFields, DatabaseFields
<1>2. u = [s EXCEPT !.row = rows]
  <2>1. CASE s.row[r].delivery = d BY <2>1 DEF SetRowState
  <2>2. CASE s.row[r].delivery # d
    <3>1. u = s BY <2>2 DEF SetRowState
    <3> HIDE DEF u
    <3> QED BY <2>2, <3>1, <1>0 DEF Database
  <2> QED BY <2>1, <2>2
<1>3. W.dest = s.row[r].dest
  <2> HIDE DEF r
  <2> QED BY <1>1 DEF Row
<1>4. B.row = r /\ B.state = "injected_to_runtime" /\ B.lease = "running" /\ B.entered = TRUE
  BY <1>1 DEF Bundle
<1>5. \A x \in Rows : rows[x] = IF x = r /\ s.row[x].delivery = d THEN W ELSE s.row[x]
  BY <1>1
<1> HIDE DEF B, W, rows, u
<1>6. u = [status |-> s.status, bridge |-> s.bridge, binding |-> s.binding, actor |-> s.actor,
           row |-> rows, bundle |-> s.bundle, nr |-> s.nr, nb |-> s.nb,
           hold |-> s.hold, job |-> s.job]
  BY <1>0, <1>2 DEF Database
<1>7. /\ t.nr = s.nr /\ t.nb = s.nb /\ t.row = rows /\ t.bridge = s.bridge
      /\ t.status = s.status /\ t.bundle = [s.bundle EXCEPT ![d] = B]
  BY <1>6
<1> HIDE DEF t
<1>8. \A e \in Bundles : t.bundle[e] = IF e = d THEN B ELSE s.bundle[e] BY <1>1, <1>7
<1>9. Moves(s, t, d) /\ t.bundle[d] = B
  <2>1. /\ \A x \in Rows : t.row[x].dest = s.row[x].dest
        /\ \A x \in Rows : s.row[x].delivery # d => t.row[x] = s.row[x]
    BY <1>3, <1>5, <1>7
  <2>2. t.bundle[d] = B /\ t.bundle[d].row = s.bundle[d].row BY <1>1, <1>4, <1>8
  <2> QED BY <1>7, <1>8, <2>1, <2>2, OneMoves
<1> QED BY <1>4, <1>9 DEF t, u, B

(* A claim moves reservations, a bundle of the set or not. *)
LEMMA ClaimMoves ==
  ASSUME NEW s, Consistent(s), NEW D, D \subseteq 1 .. s.nb, NEW e
  PROVE  LET t == Claimed(s, D)
         IN  /\ Moves(s, t, e) /\ t.status = s.status
             /\ \A d \in Bundles : Claims(s.bundle[d], t.bundle[d])
<1> DEFINE taken == {d \in D : s.bundle[d].state = "reserved"}
           bs == [d \in Bundles |-> IF d \in taken
                    THEN [s.bundle[d] EXCEPT !.state = "delivered_to_bridge"] ELSE s.bundle[d]]
           rs == [r \in Rows |-> IF s.row[r].delivery \in taken /\ s.row[r].state = "reserved"
                    THEN [s.row[r] EXCEPT !.state = "delivered_to_bridge"] ELSE s.row[r]]
           t == [s EXCEPT !.bundle = bs, !.row = rs]
<1>0. s \in Database BY DEF Consistent
<1>1. s.row \in [Rows -> Row] /\ s.bundle \in [Bundles -> Bundle] BY <1>0, DatabaseFields
<1>2. Claimed(s, D) = t BY DEF Claimed
<1>3. \A d \in Bundles : Claims(s.bundle[d], bs[d]) /\ bs[d].row = s.bundle[d].row
  <2> SUFFICES ASSUME NEW d \in Bundles
               PROVE  Claims(s.bundle[d], bs[d]) /\ bs[d].row = s.bundle[d].row
    OBVIOUS
  <2> DEFINE b == s.bundle[d]
             c == [b EXCEPT !.state = "delivered_to_bridge"]
  <2>1. b \in Bundle BY <1>1
  <2>2. d \in taken => b.state = "reserved" OBVIOUS
  <2>3. bs[d] = IF d \in taken THEN c ELSE b OBVIOUS
  <2> HIDE DEF taken, bs, b
  <2>4. c.row = b.row /\ c.lease = b.lease /\ c.entered = b.entered /\ c.state = "delivered_to_bridge"
    BY <2>1 DEF Bundle
  <2> HIDE DEF c
  <2> QED BY <2>2, <2>3, <2>4 DEF Claims, b
<1>4. \A r \in Rows : /\ rs[r].dest = s.row[r].dest
                      /\ s.row[r].state \in {"none", "queued", "deleted"} => rs[r].state = s.row[r].state
  <2> HIDE DEF taken
  <2> QED BY <1>1 DEF Row, ActiveStates
<1> HIDE DEF bs, rs, taken
<1>5. /\ t.row = rs /\ t.bundle = bs /\ t.nr = s.nr /\ t.nb = s.nb
      /\ t.status = s.status /\ t.bridge = s.bridge
  BY <1>0 DEF Database
<1> HIDE DEF t
<1>6. s.nr <= t.nr /\ s.nb <= t.nb /\ \A d \in Bundles : ~(d > s.nb /\ d <= t.nb)
  BY <1>0, <1>5, Counts
<1>7. Onward(s, t) BY <1>4, <1>5, <1>6 DEF Onward
<1>8. Moves(s, t, e) BY <1>3, <1>4, <1>5, <1>7 DEF Moves
<1> QED BY <1>2, <1>3, <1>5, <1>8

-----------------------------------------------------------------------------
(* The handlers the Bridge, people and the timers call, one lemma for each.  *)

(* Waits may be closed or resolved without a change to the queue. *)
LEMMA PendingGrows ==
  ASSUME NEW s, Consistent(s), NEW S, NEW p \in {"resolved", "cancelled"}
  PROVE  LET t == [s EXCEPT !.row = [r \in Rows |->
                     IF r \in S THEN [s.row[r] EXCEPT !.pending = p] ELSE s.row[r]]]
         IN  Consistent(t) /\ t.nr = s.nr /\ t.nb = s.nb /\ t.bundle = s.bundle /\ Grows(s, t)
<1> DEFINE rows == [r \in Rows |-> IF r \in S THEN [s.row[r] EXCEPT !.pending = p] ELSE s.row[r]]
           t == [s EXCEPT !.row = rows]
<1>0. s \in Database /\ s.row \in [Rows -> Row] BY DatabaseFields DEF Consistent
<1>1. \A r \in Rows : rows[r].dest = s.row[r].dest /\ rows[r].state = s.row[r].state
  BY <1>0 DEF Row
<1>2. Consistent(t) /\ t.nr = s.nr /\ t.nb = s.nb BY PendingOK
<1> HIDE DEF rows
<1>3. t.row = rows /\ t.bundle = s.bundle /\ t.bridge = s.bridge /\ t.status = s.status
  BY <1>0 DEF Database
<1> HIDE DEF t
<1>4. Grows(s, t) BY <1>0, <1>1, <1>2, <1>3, SameQueueGrows
<1> QED BY <1>2, <1>3, <1>4 DEF t, rows

LEMMA SubmitEventGrows ==
  ASSUME DeliveryInv, NEW ep \in Endpoints, SubmitEvent(ep, None)
  PROVE  Grows(db, db')
<1> DEFINE w == [NoRow EXCEPT !.dest = ep, !.state = "queued", !.asker = None,
                   !.pending = IF None = None THEN "none" ELSE "pending"]
           q == QueueEvent(db, w)
           S == {r \in Rows : q.row[r].asker = ep /\ q.row[r].kind = "message"
                              /\ q.row[r].pending = "pending"}
           v == ResolvePendingResponsesForIncoming(q, ep)
           u == [q EXCEPT !.row = [r \in Rows |->
                   IF r \in S THEN [q.row[r] EXCEPT !.pending = "resolved"] ELSE q.row[r]]]
           t == TryCreateDeliveryForEndpoint(u, ep)
<1>0. Consistent(db) /\ db \in Database BY DEF DeliveryInv, Consistent
<1>1. db' = TryCreateDeliveryForEndpoint(v, ep) /\ db.nr < MaxRows /\ db.nb < MaxBundles
  BY DEF SubmitEvent, RowRoom, BundleRoom
<1>2. /\ w \in Row /\ w.dest = ep /\ w.state = "queued" /\ w.delivery = 0 /\ w.attempts = 0
      /\ w.kind = "message" /\ w.cont = 0
  <2>1. 0 \in 0 .. MaxBundles /\ 0 \in 0 .. MaxAttempts /\ 0 \in 0 .. MaxRows
    BY DeliveryAssumption
  <2> QED BY <2>1 DEF NoRow, Row
<1> HIDE DEF w
<1>3. Consistent(q) /\ q.nb = db.nb BY <1>0, <1>1, <1>2, QueueEventOK
<1>4. Grows(db, q) BY <1>0, <1>1, <1>2, QueueGrows
<1> HIDE DEF q
<1>5. v = u BY DEF ResolvePendingResponsesForIncoming
<1> HIDE DEF S, v
<1>6. Consistent(u) /\ u.nb = q.nb /\ Grows(q, u) BY <1>3, PendingGrows
<1> HIDE DEF u
<1>7. Grows(u, t) /\ Consistent(t) BY <1>1, <1>3, <1>6, TryCreateGrows, TryCreateOK
<1> HIDE DEF t
<1>8. Grows(db, u) BY <1>0, <1>3, <1>4, <1>6, GrowsFurther DEF Consistent
<1>9. Grows(db, t) BY <1>0, <1>6, <1>7, <1>8, GrowsFurther DEF Consistent
<1> QED BY <1>1, <1>5, <1>9 DEF t

LEMMA SubmitRequestGrows ==
  ASSUME DeliveryInv, NEW d \in Existing, NEW to \in Endpoints, SubmitRequest(d, to)
  PROVE  Grows(db, db')
<1> DEFINE k == db.bundle[d].row
           w == [NoRow EXCEPT !.dest = to, !.kind = "request", !.state = "queued",
                   !.asker = EndpointOf(db, d), !.parent = d,
                   !.cont = Continuation(db, k), !.pending = "pending"]
           q == QueueEvent(db, w)
           t == TryCreateDeliveryForEndpoint(q, to)
<1>0. Consistent(db) /\ db \in Database BY DEF DeliveryInv, Consistent
<1>1. d \in Bundles /\ EndpointOf(db, d) \in Endpoints /\ k \in 1 .. db.nr BY OwnedFacts
<1>2. db' = t /\ db.nr < MaxRows /\ db.nb < MaxBundles
  BY DEF SubmitRequest, RowRoom, BundleRoom
<1>3. /\ Continuation(db, k) \in 0 .. MaxRows
      /\ Continuation(db, k) # 0 => /\ Continuation(db, k) <= db.nr
                                    /\ db.row[Continuation(db, k)].kind = "request"
  BY <1>0, <1>1, ContinuationOK
<1>4. /\ w \in Row /\ w.dest = to /\ w.state = "queued" /\ w.delivery = 0 /\ w.attempts = 0
      /\ w.asker = EndpointOf(db, d) /\ w.cont = Continuation(db, k)
  <2>1. /\ 0 \in 0 .. MaxBundles /\ 0 \in 0 .. MaxAttempts /\ 0 \in 0 .. MaxRows
        /\ d \in 0 .. MaxBundles
    BY <1>1, DeliveryAssumption DEF Bundles
  <2> QED BY <1>1, <1>3, <2>1 DEF NoRow, Row
<1> HIDE DEF w, k
<1>5. Consistent(q) /\ q.nb = db.nb BY <1>0, <1>1, <1>2, <1>3, <1>4, QueueEventOK
<1>6. Grows(db, q) BY <1>0, <1>2, <1>4, QueueGrows
<1> HIDE DEF q
<1>7. Grows(q, t) /\ Consistent(t) BY <1>2, <1>5, TryCreateGrows, TryCreateOK
<1> HIDE DEF t
<1> QED BY <1>0, <1>2, <1>5, <1>6, <1>7, GrowsFurther DEF Consistent

LEMMA RecordResultGrows ==
  ASSUME DeliveryInv, NEW d \in Existing, NEW o \in {"completed", "failed"}, RecordResult(d, o)
  PROVE  Grows(db, db')
<1>1. Consistent(db) /\ d \in 1 .. db.nb BY OwnedFacts DEF DeliveryInv
<1> QED BY <1>1, RecordGrows DEF RecordResult, RowRoom, BundleRoom

LEMMA EndpointReportsGrow ==
  ASSUME DeliveryInv, NEW ep \in Endpoints, TurnEnd(ep) \/ ReportEndpointStatus(ep, "idle")
  PROVE  Grows(db, db')
<1>1. Consistent(db) /\ "idle" \in Statuses BY DEF DeliveryInv, Statuses
<1>2. CASE TurnEnd(ep) BY <1>1, <1>2, TurnEndGrows DEF TurnEnd, BundleRoom
<1>3. CASE ReportEndpointStatus(ep, "idle")
  BY <1>1, <1>3, UpdateGrows DEF ReportEndpointStatus, BundleRoom
<1> QED BY <1>2, <1>3

LEMMA RegisterEndpointGrows ==
  ASSUME DeliveryInv, NEW ep \in Endpoints, RegisterEndpoint(ep, "idle")
  PROVE  Grows(db, db')
<1> DEFINE kept == db.bridge[ep] /\ db.status[ep] \in {"active", "waiting", "error", "retired"}
           reported == IF kept THEN db.status[ep] ELSE "idle"
           shown == IF reported \in {"idle", "waiting", "runtime_unconfigured"}
                    THEN RuntimeConfigurationStatus(db, ep, reported) ELSE reported
           u == [db EXCEPT !.status[ep] = shown, !.bridge[ep] = TRUE]
           t == TryCreateDeliveryForEndpoint(u, ep)
<1>0. Consistent(db) /\ db \in Database BY DEF DeliveryInv, Consistent
<1>1. db' = t /\ db.nb < MaxBundles /\ ep \notin Clients
  BY DEF RegisterEndpoint, BundleRoom
<1>2. reported \in Statuses BY DEF Statuses
<1> HIDE DEF reported
<1>3. shown \in Statuses BY <1>0, <1>2, RuntimeConfigurationStatusType
<1> HIDE DEF shown
<1>4. /\ u \in Database /\ SameWork(db, u)
      /\ u.bridge = [db.bridge EXCEPT ![ep] = TRUE] /\ u.status = [db.status EXCEPT ![ep] = shown]
      /\ u.nr = db.nr /\ u.nb = db.nb /\ u.bundle = db.bundle /\ u.row = db.row
  BY <1>0, <1>3 DEF Database, SameWork
<1>5. /\ db.bridge \in [Endpoints -> BOOLEAN]
      /\ db.status \in [Endpoints -> Statuses \cup {"absent"}]
      /\ \A c \in Clients : db.bridge[c] = FALSE
  BY <1>0 DEF Database, Consistent, ClientsWait
<1>6. \A c \in Clients : u.bridge[c] = FALSE BY <1>1, <1>4, <1>5, DeliveryAssumption
<1>7. \A e \in Endpoints : /\ db.bridge[e] = TRUE => u.bridge[e] = TRUE
                           /\ db.status[e] # "absent" => u.status[e] # "absent"
  BY <1>3, <1>4, <1>5 DEF Statuses
<1> HIDE DEF u
<1>8. Consistent(u) BY <1>0, <1>4, <1>6, SameWorkConsistent
<1>9. Grows(db, u) BY <1>0, <1>4, <1>7, SameQueueGrows
<1>10. Grows(u, t) /\ Consistent(t) BY <1>1, <1>4, <1>8, TryCreateGrows, TryCreateOK
<1> HIDE DEF t
<1> QED BY <1>0, <1>1, <1>4, <1>9, <1>10, GrowsFurther DEF Consistent

(* The loops start and end. *)
LEMMA JobGrows ==
  ASSUME DeliveryInv, LeaseTimer \/ LeaseTimerDone \/ RegisterBridge \/ RegisterBridgeDone
  PROVE  Grows(db, db') /\ db'.bundle = db.bundle /\ db'.nb = db.nb
<1>1. db \in Database BY DEF DeliveryInv, Consistent
<1>2. PICK j \in {"none", "abandon", "expire"} : db' = [db EXCEPT !.job = j]
  BY DEF LeaseTimer, LeaseTimerDone, RegisterBridge, RegisterBridgeDone
<1>3. /\ db'.nr = db.nr /\ db'.nb = db.nb /\ db'.bundle = db.bundle /\ db'.row = db.row
      /\ db'.bridge = db.bridge /\ db'.status = db.status
  BY <1>1, <1>2 DEF Database
<1> QED BY <1>1, <1>3, SameQueueGrows

(* What a handler settled before it went on with the queue. *)
LEMMA SettledFurther ==
  ASSUME NEW s, NEW t, NEW u, NEW d \in Bundles, s \in Database, t \in Database, u \in Database,
         d <= t.nb, Moves(s, t, d), Grows(t, u)
  PROVE  Moves(s, u, d) /\ u.bundle[d] = t.bundle[d]
BY MovesFurther DEF Grows

LEMMA CancelMoves ==
  ASSUME DeliveryInv, NEW d \in Existing, CancelRuntimeDelivery(d)
  PROVE  /\ Moves(db, db', d) /\ IsActive(db, d) /\ db'.bundle[d].state = "cancelled"
         /\ db'.bundle[d].entered = db.bundle[d].entered
<1> DEFINE ep == EndpointOf(db, d)
           k == db.bundle[d].row
           u == SetRowState(Settle(db, d, "cancelled"), d, "cancelled")
           c == IF db.row[k].kind = "return" THEN db.row[k].cont ELSE 0
           closed == {r \in Rows : /\ db.row[r].pending = "pending"
                                   /\ \/ r = k /\ db.row[k].delivery = d
                                      \/ r = c /\ db.row[k].delivery = d /\ db.row[r].dest = ep}
           v == ClosePending(u, closed)
           t == ReportTurnEnd(v, ep)
<1>0. Consistent(db) /\ db \in Database BY DEF DeliveryInv, Consistent
<1>1. d \in 1 .. db.nb /\ d \in Bundles /\ ep \in Endpoints BY OwnedFacts
<1>2. db' = t /\ IsActive(db, d) /\ db.nb < MaxBundles BY DEF CancelRuntimeDelivery, BundleRoom
<1>3. Consistent(u) /\ KeepsRest(db, u, d)
  <2>1. db.bundle[d].state # "deferred" BY <1>2 DEF IsActive, ActiveStates
  <2> QED BY <1>0, <1>1, <1>2, <2>1, SettleOK DEF TerminalStates
<1>4. /\ Moves(db, u, d) /\ u.bundle[d].state = "cancelled"
      /\ u.bundle[d].entered = db.bundle[d].entered
  BY <1>0, <1>1, SettleMoves DEF TerminalStates
<1>5. u.nb = db.nb BY <1>3 DEF KeepsRest
<1> HIDE DEF u, closed, ep
<1>6. Consistent(v) /\ v.nb = u.nb /\ v.bundle = u.bundle /\ Grows(u, v)
  BY <1>3, PendingGrows DEF ClosePending
<1> HIDE DEF v
<1>7. Consistent(t) /\ Grows(v, t) BY <1>1, <1>2, <1>5, <1>6, ReportTurnEndOK, TurnEndGrows
<1> HIDE DEF t
<1>8. u \in Database /\ v \in Database /\ t \in Database BY <1>3, <1>6, <1>7 DEF Consistent
<1>9. d <= u.nb /\ d <= v.nb BY <1>1, <1>5, <1>6
<1>10. Moves(db, v, d) BY <1>0, <1>1, <1>4, <1>6, <1>8, <1>9, SettledFurther
<1>11. Moves(db, t, d) /\ t.bundle[d] = v.bundle[d]
  BY <1>0, <1>1, <1>7, <1>8, <1>9, <1>10, SettledFurther
<1> QED BY <1>2, <1>4, <1>6, <1>11

LEMMA LapseMoves ==
  ASSUME DeliveryInv, NEW d \in Existing, LeaseLapses(d)
  PROVE  /\ Moves(db, db', d) /\ IsActive(db, d)
         /\ db'.bundle[d].state = db.bundle[d].state /\ db'.bundle[d].lease = "lapsed"
         /\ db'.bundle[d].entered = db.bundle[d].entered /\ db'.nb = db.nb
<1> DEFINE B == [db.bundle[d] EXCEPT !.lease = "lapsed"]
<1>0. Consistent(db) /\ db \in Database BY DEF DeliveryInv, Consistent
<1>1. d \in 1 .. db.nb /\ d \in Bundles BY OwnedFacts
<1>2. db' = [db EXCEPT !.bundle = [db.bundle EXCEPT ![d] = B]] /\ IsActive(db, d)
  BY DEF LeaseLapses
<1>3. db.bundle[d] \in Bundle /\ db.bundle \in [Bundles -> Bundle]
  BY <1>0, <1>1, BundleFields, DatabaseFields
<1>4. /\ B.row = db.bundle[d].row /\ B.state = db.bundle[d].state /\ B.lease = "lapsed"
      /\ B.entered = db.bundle[d].entered
  BY <1>3 DEF Bundle
<1> HIDE DEF B
<1>5. /\ db'.nr = db.nr /\ db'.nb = db.nb /\ db'.row = db.row /\ db'.bridge = db.bridge
      /\ db'.status = db.status /\ db'.bundle = [db.bundle EXCEPT ![d] = B]
  BY <1>0, <1>2 DEF Database
<1>6. db'.bundle[d] = B /\ \A e \in Bundles : e # d => db'.bundle[e] = db.bundle[e]
  BY <1>1, <1>3, <1>5
<1>7. Moves(db, db', d) BY <1>0, <1>1, <1>4, <1>5, <1>6, OneMoves
<1> QED BY <1>2, <1>4, <1>5, <1>6, <1>7

LEMMA FailUnknownMoves ==
  ASSUME DeliveryInv, NEW d \in Existing, IsActive(db, d), EndpointOf(db, d) \notin Clients,
         RowRoom, BundleRoom, FailUnknownRuntimeDelivery(db, d)
  PROVE  /\ Moves(db, db', d) /\ db'.bundle[d].state = "dead_lettered"
         /\ db'.bundle[d].entered = db.bundle[d].entered
<1> DEFINE ep == EndpointOf(db, d)
           v == SetRowState(Settle(db, d, "dead_lettered"), d, "dead_lettered")
           u == SetStatus(v, ep, "error")
           t == RecordRuntimeTurnResult(u, d, "failed")
<1>0. Consistent(db) /\ db \in Database BY DEF DeliveryInv, Consistent
<1>1. d \in 1 .. db.nb /\ d \in Bundles /\ ep \in Endpoints BY OwnedFacts
<1>2. db' = t BY DEF FailUnknownRuntimeDelivery, LoseRuntime
<1>3. Consistent(v) /\ KeepsRest(db, v, d)
  <2>1. db.bundle[d].state # "deferred" BY DEF IsActive, ActiveStates
  <2> QED BY <1>0, <1>1, <2>1, SettleOK DEF TerminalStates
<1>4. /\ Moves(db, v, d) /\ v.bundle[d].state = "dead_lettered"
      /\ v.bundle[d].entered = db.bundle[d].entered
  BY <1>0, <1>1, SettleMoves DEF TerminalStates
<1>5. v.nb = db.nb /\ v.nr = db.nr BY <1>3 DEF KeepsRest
<1> HIDE DEF v, ep
<1>6. Consistent(u) /\ u.nb = db.nb /\ u.nr = db.nr /\ Grows(v, u)
  <2>1. "error" \in Statuses BY DEF Statuses
  <2>2. Consistent(u) /\ SameWork(v, u) BY <1>1, <1>3, <2>1, SetStatusOK
  <2>3. Grows(v, u) BY <1>1, <1>3, <2>1, SetStatusGrows DEF Consistent
  <2> QED BY <1>5, <2>2, <2>3 DEF SameWork
<1> HIDE DEF u
<1>7. Consistent(t) /\ Grows(u, t)
  BY <1>1, <1>6, RecordOK, RecordGrows DEF RowRoom, BundleRoom
<1> HIDE DEF t
<1>8. u \in Database /\ v \in Database /\ t \in Database BY <1>3, <1>6, <1>7 DEF Consistent
<1>9. d <= u.nb /\ d <= v.nb BY <1>1, <1>5, <1>6
<1>10. Moves(db, u, d) /\ u.bundle[d] = v.bundle[d]
  BY <1>0, <1>1, <1>4, <1>6, <1>8, <1>9, SettledFurther
<1>11. Moves(db, t, d) /\ t.bundle[d] = u.bundle[d]
  BY <1>0, <1>1, <1>7, <1>8, <1>9, <1>10, SettledFurther
<1> QED BY <1>2, <1>4, <1>10, <1>11

LEMMA ExpireMoves ==
  ASSUME DeliveryInv, NEW d \in Existing, RequeueExpired(d)
  PROVE  /\ Moves(db, db', d) /\ d \in Lapsed
         /\ db'.bundle[d].state \in {"failed", "dead_lettered"}
         /\ db'.bundle[d].entered = db.bundle[d].entered
<1> DEFINE ep == EndpointOf(db, d)
           u == GiveUpBeforeTurn(db, d)
           t == UpdateEndpointStatus(u, ep, "idle")
<1>0. Consistent(db) /\ db \in Database BY DEF DeliveryInv, Consistent
<1>1. d \in 1 .. db.nb /\ d \in Bundles /\ ep \in Endpoints BY OwnedFacts
<1>2. d \in Lapsed /\ IsActive(db, d) /\ db.bundle[d].lease = "lapsed" /\ RowRoom /\ BundleRoom
  BY DEF RequeueExpired, Lapsed
<1>3. ep \notin Clients BY <1>0, <1>1, <1>2 DEF Consistent, ClientsWait, EndpointOf
<1>4. CASE db.bundle[d].state = "injected_to_runtime"
  <2>1. FailUnknownRuntimeDelivery(db, d) BY <1>4 DEF RequeueExpired
  <2> QED BY <1>2, <1>3, <2>1, FailUnknownMoves
<1>5. CASE db.bundle[d].state # "injected_to_runtime"
  <2>1. db' = IF u.bundle[d].state = "failed" THEN t ELSE u BY <1>5 DEF RequeueExpired
  <2>2. Consistent(u) /\ KeepsRest(db, u, d) BY <1>0, <1>1, <1>2, <1>3, <1>5, GiveUpOK
  <2>3. /\ Moves(db, u, d) /\ u.bundle[d].state \in {"failed", "dead_lettered"}
        /\ u.bundle[d].entered = db.bundle[d].entered
    BY <1>0, <1>1, GiveUpMoves
  <2>4. u.nb = db.nb BY <2>2 DEF KeepsRest
  <2> HIDE DEF u, ep
  <2>5. "idle" \in Statuses BY DEF Statuses
  <2>6. Consistent(t) /\ Grows(u, t)
    BY <1>1, <1>2, <2>2, <2>4, <2>5, UpdateEndpointStatusOK, UpdateGrows DEF BundleRoom
  <2> HIDE DEF t
  <2>7. d <= u.nb /\ u \in Database /\ t \in Database BY <1>1, <2>2, <2>4, <2>6 DEF Consistent
  <2>8. Moves(db, t, d) /\ t.bundle[d] = u.bundle[d]
    BY <1>0, <1>1, <2>3, <2>6, <2>7, SettledFurther
  <2> QED BY <1>2, <2>1, <2>3, <2>8
<1> QED BY <1>4, <1>5

LEMMA AbandonMoves ==
  ASSUME DeliveryInv, AbandonTurn
  PROVE  \E d \in Existing :
           /\ Moves(db, db', d) /\ IsActive(db, d) /\ db'.bundle[d].state = "dead_lettered"
           /\ db.bundle[d].state = "injected_to_runtime"
           /\ db'.bundle[d].entered = db.bundle[d].entered
<1> DEFINE d == Oldest(Abandoned)
<1>1. RowRoom /\ BundleRoom /\ Abandoned # {} /\ FailUnknownRuntimeDelivery(db, d)
  BY DEF AbandonTurn
<1>2. d \in Abandoned
  <2>1. Abandoned \subseteq Nat BY OwnedFacts, BoundsNat DEF Abandoned
  <2> QED BY <1>1, <2>1, OldestIn
<1> HIDE DEF d
<1>3. d \in Existing /\ Owned(d) /\ db.bundle[d].state = "injected_to_runtime"
  BY <1>2 DEF Abandoned
<1>4. IsActive(db, d) /\ EndpointOf(db, d) \notin Clients
  BY <1>3, OwnedFacts DEF IsActive, ActiveStates
<1> QED BY <1>1, <1>3, <1>4, FailUnknownMoves

LEMMA ReportsMove ==
  ASSUME DeliveryInv, NEW d \in Existing,
         NEW st \in {"acknowledged", "dead_lettered"},
         st = "acknowledged" => ReportAcknowledged(d),
         st = "dead_lettered" => ReportDeadLettered(d)
  PROVE  /\ Moves(db, db', d) /\ IsActive(db, d) /\ db'.bundle[d].state = st
         /\ db'.bundle[d].entered = db.bundle[d].entered
<1>1. Consistent(db) /\ d \in 1 .. db.nb BY OwnedFacts DEF DeliveryInv
<1>2. IsActive(db, d) /\ db' = SetRowState(Settle(db, d, st), d, st)
  BY DEF ReportAcknowledged, ReportDeadLettered
<1>3. st \in TerminalStates BY DEF TerminalStates
<1> QED BY <1>1, <1>2, <1>3, SettleMoves

LEMMA DeferMoves ==
  ASSUME DeliveryInv, NEW d \in Existing, ReportDeferred(d)
  PROVE  /\ Moves(db, db', d) /\ IsActive(db, d) /\ db'.bundle[d].state = "deferred"
         /\ db'.bundle[d].entered = db.bundle[d].entered
<1> DEFINE ep == EndpointOf(db, d)
           u == RequeueRow(Settle(db, d, "deferred"), d, 1)
           t == SetStatus(u, ep, "runtime_unconfigured")
<1>0. Consistent(db) /\ db \in Database BY DEF DeliveryInv, Consistent
<1>1. /\ d \in 1 .. db.nb /\ d \in Bundles /\ ep \in Endpoints
      /\ Owned(d) => ep \notin Clients
  BY OwnedFacts
<1>2. db' = (IF db.bridge[ep] THEN t ELSE u) /\ IsActive(db, d) /\ ep \notin Clients
  BY <1>1 DEF ReportDeferred
<1>3. Consistent(u) BY <1>0, <1>1, <1>2, RequeueOK
<1>4. /\ Moves(db, u, d) /\ u.bundle[d].state = "deferred"
      /\ u.bundle[d].entered = db.bundle[d].entered
  BY <1>0, <1>1, RequeueMoves DEF TerminalStates
<1> HIDE DEF u, ep
<1>5. "runtime_unconfigured" \in Statuses BY DEF Statuses
<1>6. Consistent(t) /\ Grows(u, t) BY <1>1, <1>3, <1>5, SetStatusOK, SetStatusGrows DEF Consistent
<1> HIDE DEF t
<1>7. d <= db.nb /\ db.nb <= u.nb BY <1>1, <1>4 DEF Moves, Onward
<1>8. d <= u.nb BY <1>0, <1>1, <1>3, <1>7, Counts DEF Consistent
<1>9. Moves(db, t, d) /\ t.bundle[d] = u.bundle[d]
  BY <1>0, <1>1, <1>3, <1>4, <1>6, <1>8, SettledFurther DEF Consistent
<1> QED BY <1>2, <1>4, <1>9

LEMMA InjectedMoves ==
  ASSUME DeliveryInv, NEW d \in Existing, ReportInjected(d)
  PROVE  /\ Moves(db, db', d) /\ IsActive(db, d) /\ Owned(d)
         /\ db'.bundle[d].state = "injected_to_runtime" /\ db'.bundle[d].lease = "running"
         /\ db'.bundle[d].entered = TRUE
<1>1. Consistent(db) /\ d \in 1 .. db.nb BY OwnedFacts DEF DeliveryInv
<1>2. /\ IsActive(db, d) /\ Owned(d)
      /\ db' = [SetRowState(db, d, "injected_to_runtime") EXCEPT
              !.bundle[d] = [db.bundle[d] EXCEPT !.state = "injected_to_runtime",
                               !.lease = "running", !.entered = TRUE]]
  BY DEF ReportInjected
<1> QED BY <1>1, <1>2, InjectMoves

LEMMA ClaimDeliveriesMoves ==
  ASSUME DeliveryInv, ClaimDeliveries, NEW e
  PROVE  /\ Moves(db, db', e) /\ db'.nb = db.nb
         /\ \A d \in Bundles : Claims(db.bundle[d], db'.bundle[d])
<1> DEFINE D == {d \in Existing : Owned(d)}
<1>1. Consistent(db) /\ D \subseteq 1 .. db.nb BY DEF DeliveryInv, Existing
<1>2. db' = Claimed(db, D) BY DEF ClaimDeliveries
<1> HIDE DEF D
<1> QED BY <1>1, <1>2, ClaimMoves, ClaimedOK

LEMMA PrepareMoves ==
  ASSUME DeliveryInv, NEW d \in Existing, PrepareRuntimeDelivery(d, TRUE)
  PROVE  /\ Moves(db, db', d) /\ IsActive(db, d) /\ IsActive(db', d)
         /\ db'.bundle[d].state # "reserved"
         /\ db'.bundle[d].lease = db.bundle[d].lease
         /\ db'.bundle[d].entered = db.bundle[d].entered
<1> DEFINE u == Claimed(db, {d})
           issue == TRUE /\ (~(db.bundle[d].state = "injected_to_runtime") \/ db.bundle[d].sid)
           B == Authorised(u.bundle[d], issue)
<1>0. Consistent(db) /\ db \in Database BY DEF DeliveryInv, Consistent
<1>1. d \in 1 .. db.nb /\ d \in Bundles /\ {d} \subseteq 1 .. db.nb BY OwnedFacts
<1>2. db' = [u EXCEPT !.bundle[d] = B] /\ IsActive(db, d)
  BY DEF PrepareRuntimeDelivery
<1>3. /\ Moves(db, u, d) /\ Claims(db.bundle[d], u.bundle[d])
      /\ Consistent(u) /\ IsActive(u, d) /\ u.nb = db.nb
  BY <1>0, <1>1, <1>2, ClaimMoves, ClaimedOK
<1>4. u.bundle[d].state # "reserved"
  BY <1>0, <1>1, BundleFields DEF Claimed, Database, Bundle
<1> HIDE DEF u, issue
<1>5. u \in Database BY <1>3 DEF Consistent
<1>6. u.bundle[d] \in Bundle /\ u.bundle \in [Bundles -> Bundle]
  BY <1>1, <1>5, BundleFields, DatabaseFields
<1>7. /\ B.row = u.bundle[d].row /\ B.state = u.bundle[d].state
      /\ B.lease = u.bundle[d].lease /\ B.entered = u.bundle[d].entered
  BY <1>6 DEF Authorised, Bundle
<1> HIDE DEF B
<1>8. /\ db'.nr = u.nr /\ db'.nb = u.nb /\ db'.row = u.row /\ db'.bridge = u.bridge
      /\ db'.status = u.status /\ db'.bundle = [u.bundle EXCEPT ![d] = B]
  BY <1>2, <1>5 DEF Database
<1>9. db'.bundle[d] = B /\ \A e \in Bundles : e # d => db'.bundle[e] = u.bundle[e]
  BY <1>1, <1>6, <1>8
<1>10. \A e \in Bundles : db'.bundle[e].row = u.bundle[e].row BY <1>7, <1>9
<1>11. ~(d > db.nb) BY <1>0, <1>1, Counts
<1>12. Moves(db, db', d)
  <2>1. \A e \in Bundles : e > db.nb /\ e <= db'.nb => Fresh(db'.bundle[e])
    BY <1>3, <1>8, <1>9, <1>11 DEF Moves, Onward
  <2>2. Onward(db, db') BY <1>3, <1>8, <2>1 DEF Moves, Onward
  <2>3. \A r \in Rows : db.row[r].state = "deleted" => db'.row[r].state = "deleted"
    BY <1>3, <1>8 DEF Moves
  <2> QED BY <1>3, <1>9, <1>10, <2>2, <2>3 DEF Moves
<1>13. B.lease = db.bundle[d].lease /\ B.entered = db.bundle[d].entered BY <1>3, <1>7 DEF Claims
<1> QED BY <1>2, <1>3, <1>4, <1>7, <1>9, <1>12, <1>13 DEF IsActive

-----------------------------------------------------------------------------
(* Sequences.                                                               *)

LEMMA ToSetTail ==
  ASSUME NEW S, NEW q \in Seq(S), q # <<>>
  PROVE  /\ Tail(q) \in Seq(S) /\ Head(q) \in ToSet(q)
         /\ \A x \in ToSet(Tail(q)) : x \in ToSet(q)
<1>1. Len(q) \in Nat /\ Len(q) > 0 /\ DOMAIN q = 1 .. Len(q) OBVIOUS
<1>2. Tail(q) \in Seq(S) /\ Len(Tail(q)) = Len(q) - 1 OBVIOUS
<1>3. \A i \in 1 .. Len(q) - 1 : Tail(q)[i] = q[i + 1] OBVIOUS
<1>4. DOMAIN Tail(q) = 1 .. Len(q) - 1 BY <1>2
<1>5. Head(q) = q[1] OBVIOUS
<1>6. ASSUME NEW x \in ToSet(Tail(q)) PROVE x \in ToSet(q)
  <2>1. PICK i \in 1 .. Len(q) - 1 : x = Tail(q)[i] BY <1>4, <1>6 DEF ToSet
  <2>2. i + 1 \in 1 .. Len(q) /\ x = q[i + 1] BY <1>1, <1>3, <2>1
  <2> QED BY <1>1, <2>2 DEF ToSet
<1>7. Head(q) \in ToSet(q) BY <1>1, <1>5 DEF ToSet
<1> QED BY <1>2, <1>6, <1>7

LEMMA ToSetConcat ==
  ASSUME NEW S, NEW q \in Seq(S), NEW r \in Seq(S)
  PROVE  /\ q \o r \in Seq(S)
         /\ \A x \in ToSet(q \o r) : x \in ToSet(q) \/ x \in ToSet(r)
         /\ \A x \in ToSet(q) : x \in ToSet(q \o r)
<1>1. /\ Len(q) \in Nat /\ DOMAIN q = 1 .. Len(q) /\ Len(r) \in Nat /\ DOMAIN r = 1 .. Len(r)
  OBVIOUS
<1>2. q \o r \in Seq(S) /\ Len(q \o r) = Len(q) + Len(r) OBVIOUS
<1>3. \A i \in 1 .. Len(q) + Len(r) : (q \o r)[i] = IF i <= Len(q) THEN q[i] ELSE r[i - Len(q)]
  OBVIOUS
<1>4. DOMAIN (q \o r) = 1 .. Len(q) + Len(r) BY <1>2
<1>5. ASSUME NEW x \in ToSet(q \o r) PROVE x \in ToSet(q) \/ x \in ToSet(r)
  <2>1. PICK i \in 1 .. Len(q) + Len(r) : x = (q \o r)[i] BY <1>4, <1>5 DEF ToSet
  <2>2. CASE i <= Len(q)
    <3>1. i \in 1 .. Len(q) BY <1>1, <2>2
    <3>2. x = q[i] BY <1>3, <2>1, <2>2
    <3> QED BY <1>1, <3>1, <3>2 DEF ToSet
  <2>3. CASE ~(i <= Len(q))
    <3>1. i - Len(q) \in 1 .. Len(r) BY <1>1, <2>3
    <3>2. x = r[i - Len(q)] BY <1>3, <2>1, <2>3
    <3> QED BY <1>1, <3>1, <3>2 DEF ToSet
  <2> QED BY <2>2, <2>3
<1>6. ASSUME NEW x \in ToSet(q) PROVE x \in ToSet(q \o r)
  <2>1. PICK i \in 1 .. Len(q) : x = q[i] BY <1>1, <1>6 DEF ToSet
  <2>2. i \in 1 .. Len(q) + Len(r) /\ i <= Len(q) BY <1>1
  <2>3. x = (q \o r)[i] BY <1>3, <2>1, <2>2
  <2> QED BY <1>4, <2>2, <2>3 DEF ToSet
<1> QED BY <1>2, <1>5, <1>6

LEMMA ToSetFew ==
  /\ ToSet(<<>>) = {}
  /\ \A x : ToSet(<<x>>) = {x}
<1>1. DOMAIN <<>> = {} OBVIOUS
<1>2. \A x : DOMAIN <<x>> = {1} /\ <<x>>[1] = x OBVIOUS
<1> QED BY <1>1, <1>2 DEF ToSet

LEMMA ToSetAppend ==
  ASSUME NEW S, NEW q \in Seq(S), NEW y \in S
  PROVE  /\ Append(q, y) \in Seq(S)
         /\ \A x \in ToSet(Append(q, y)) : x \in ToSet(q) \/ x = y
<1> DEFINE r == <<y>>
<1>1. r \in Seq(S) /\ Append(q, y) = q \o r OBVIOUS
<1>2. ToSet(r) = {y} BY ToSetFew
<1> HIDE DEF r
<1>3. /\ q \o r \in Seq(S)
      /\ \A x \in ToSet(q \o r) : x \in ToSet(q) \/ x \in ToSet(r)
  BY <1>1, ToSetConcat
<1> QED BY <1>1, <1>2, <1>3, Zenon

(* The oldest of a set is older than the rest. *)
LEMMA OldestLeast ==
  ASSUME NEW S, S \subseteq Nat, S # {}
  PROVE  Oldest(S) \in S /\ \A x \in S : Oldest(S) <= x
<1>1. \E x \in S : \A y \in S : ~(<<y, x>> \in OpToRel(<, Nat))
  BY NatLessThanWellFounded, WFMin, Zenon
<1>2. \A x, y \in Nat : <<y, x>> \in OpToRel(<, Nat) <=> y < x BY Zenon DEF OpToRel
<1>3. PICK x \in S : \A y \in S : ~(<<y, x>> \in OpToRel(<, Nat)) BY <1>1
<1>4. \A y \in S : x \in Nat /\ y \in Nat /\ ~(y < x) BY <1>2, <1>3
<1>5. \A y \in S : x <= y BY <1>4
<1> QED BY <1>3, <1>5 DEF Oldest

(* The bundles claimDeliveries returns can be listed oldest first. *)
LEMMA Listable ==
  ASSUME NEW S, S \subseteq Nat, IsFiniteSet(S)
  PROVE  \E q \in [1 .. Cardinality(S) -> S] :
           \A i, j \in 1 .. Cardinality(S) : i < j => q[i] < q[j]
<1> DEFINE Listed(A) == \E q \in [1 .. Cardinality(A) -> A] :
                          \A i, j \in 1 .. Cardinality(A) : i < j => q[i] < q[j]
           Bad == {n \in Nat : \E A \in SUBSET Nat : IsFiniteSet(A) /\ Cardinality(A) = n /\ ~Listed(A)}
<1>1. Bad = {}
  <2> SUFFICES ASSUME Bad # {} PROVE FALSE OBVIOUS
  <2>1. Bad \subseteq Nat OBVIOUS
  <2> DEFINE n == Oldest(Bad)
  <2>2. n \in Bad BY <2>1, OldestIn
  <2>3. \A m \in Bad : n <= m BY <2>1, OldestLeast
  <2> HIDE DEF n
  <2>4. PICK A \in SUBSET Nat : IsFiniteSet(A) /\ Cardinality(A) = n /\ ~Listed(A) BY <2>2
  <2>5. n \in Nat BY <2>2
  <2>6. n # 0
    <3> SUFFICES ASSUME n = 0 PROVE FALSE OBVIOUS
    <3>1. A = {} BY <2>4, FS_EmptySet
    <3>2. 1 .. Cardinality(A) = {} BY <2>4
    <3> DEFINE q == [i \in 1 .. Cardinality(A) |-> 0]
    <3>3. q \in [1 .. Cardinality(A) -> A] BY <3>2
    <3> QED BY <2>4, <3>2, <3>3
  <2>7. A # {} BY <2>4, <2>6, FS_EmptySet
  <2> DEFINE a == Oldest(A)
             C == A \ {a}
  <2>8. a \in A /\ \A x \in A : a <= x BY <2>7, OldestLeast
  <2> HIDE DEF a
  <2>9. IsFiniteSet(C) /\ Cardinality(C) = n - 1 /\ C \in SUBSET Nat
    BY <2>4, <2>8, FS_RemoveElement
  <2>10. Listed(C)
    <3>1. n - 1 \in Nat /\ ~(n <= n - 1) BY <2>5, <2>6
    <3>2. n - 1 \notin Bad BY <2>3, <3>1
    <3> HIDE DEF Listed, C
    <3> QED BY <2>9, <3>1, <3>2
  <2>11. PICK p \in [1 .. n - 1 -> C] : \A i, j \in 1 .. n - 1 : i < j => p[i] < p[j]
    BY <2>9, <2>10
  <2> DEFINE q == [i \in 1 .. n |-> IF i = 1 THEN a ELSE p[i - 1]]
  <2>12. \A i \in 1 .. n : i # 1 => i - 1 \in 1 .. n - 1 BY <2>5
  <2>13. \A i \in 1 .. n - 1 : p[i] \in A /\ p[i] # a OBVIOUS
  <2>14. q \in [1 .. n -> A] BY <2>8, <2>12, <2>13
  <2>15. \A i, j \in 1 .. n : i < j => q[i] < q[j]
    <3> SUFFICES ASSUME NEW i \in 1 .. n, NEW j \in 1 .. n, i < j PROVE q[i] < q[j] OBVIOUS
    <3>1. j # 1 /\ j - 1 \in 1 .. n - 1 BY <2>5, <2>12
    <3>2. q[j] = p[j - 1] BY <3>1
    <3>3. CASE i = 1
      <4>1. q[i] = a /\ p[j - 1] \in A /\ p[j - 1] # a BY <2>13, <3>1, <3>3
      <4> HIDE DEF q
      <4>2. a <= p[j - 1] /\ a \in Nat /\ p[j - 1] \in Nat BY <2>8, <4>1
      <4>3. a < p[j - 1] BY <4>1, <4>2
      <4> QED BY <3>2, <4>1, <4>3
    <3>4. CASE i # 1
      <4>1. q[i] = p[i - 1] /\ i - 1 \in 1 .. n - 1 BY <2>12, <3>4
      <4> HIDE DEF q
      <4>2. i - 1 < j - 1 OBVIOUS
      <4> QED BY <2>11, <3>1, <3>2, <4>1, <4>2
    <3> QED BY <3>3, <3>4
  <2> HIDE DEF q
  <2> QED BY <2>4, <2>14, <2>15
<1>2. Cardinality(S) \in Nat BY FS_CardinalityType
<1> HIDE DEF Listed
<1>3. Listed(S) BY <1>1, <1>2
<1> QED BY <1>3 DEF Listed

LEMMA OldestFirstLists ==
  ASSUME NEW S, S \subseteq Bundles
  PROVE  OldestFirst(S) \in Seq(S) /\ \A x \in ToSet(OldestFirst(S)) : x \in S
<1>1. IsFiniteSet(S) /\ S \subseteq Nat
  <2>1. IsFiniteSet(Bundles) BY BoundsNat, FS_Interval DEF Bundles
  <2> QED BY <2>1, BoundsNat, FS_Subset
<1>2. Cardinality(S) \in Nat BY <1>1, FS_CardinalityType
<1>3. OldestFirst(S) \in [1 .. Cardinality(S) -> S] BY <1>1, Listable DEF OldestFirst
<1> HIDE DEF OldestFirst
<1>4. DOMAIN OldestFirst(S) = 1 .. Cardinality(S) BY <1>3
<1>5. OldestFirst(S) \in Seq(S) BY <1>2, <1>3
<1> QED BY <1>3, <1>4, <1>5 DEF ToSet

-----------------------------------------------------------------------------
(* What the flows of the Bridge rely on.                                    *)

(* A step of the Bus, as far as a flow that holds a bundle can tell; what     *)
(* becomes of the bundles of X is said where the step is taken.               *)
Steady(X) ==
  /\ Existing \subseteq Existing'
  /\ \A e \in Existing :
       /\ EndpointOf(db', e) = EndpointOf(db, e)
       /\ IsActive(db', e) => IsActive(db, e)
       /\ db.bundle[e].state = "cancelled" => db'.bundle[e].state = "cancelled"
       /\ db.bundle[e].state # "reserved" => db'.bundle[e].state # "reserved"
       /\ db'.bundle[e].entered => Owned(e)'
  /\ \A e \in Existing \ X :
       /\ Conclusive(db.bundle[e]) => Conclusive(db'.bundle[e])
       /\ IsActive(db, e) => IsActive(db', e) \/ Conclusive(db'.bundle[e])
       /\ IsActive(db', e) /\ db'.bundle[e].lease = "lapsed" => db.bundle[e].lease = "lapsed"
  /\ \A e \in Existing' \ Existing : Fresh(db'.bundle[e])

(* Bundles an endpoint may come to hold. *)
Holdable(ep, d) == d \in Existing /\ EndpointOf(db, d) = ep /\ ~Forgotten(d)

WorkHeld ==
  \A ep \in Endpoints :
    /\ work'[ep] = NoWork \/ (work'[ep].pc # "none" /\ Holdable(ep, work'[ep].d))
    /\ \A d \in ToSet(waiting'[ep]) : Holdable(ep, d)

StreamHeld ==
  \A f \in ToSet(stream') :
    \/ f \in ToSet(stream)
    \/ f.kind = "available" /\ f.d \in Existing' \ Existing
    \/ f.kind = "cancel" /\ f.d \in Existing /\ db'.bundle[f.d].state = "cancelled"

StopsHeld == \A d \in cancelled' : d \in cancelled \/ Frame("cancel", d) \in ToSet(stream)

BootHeld(X) ==
  /\ boot' \in {"down", "register"} => \A ep \in Endpoints : work'[ep] = NoWork /\ waiting'[ep] = <<>>
  /\ boot' # "down" => /\ boot # "down" \/ Lapsed' = {}
                       /\ \A d \in X : d \in Lapsed' => Forgotten(d)
  /\ boot \in {"down", "register"} /\ boot' \notin {"down", "register"} =>
       \A d \in Bundles : ran[d] # "no" => ~IsActive(db, d)

Running == {"run", "interrupted", "ack", "fail"}

(* The flow of endpoint on takes a step and the others wait, or begin. *)
FlowHeld(on, X) ==
  /\ \A ep \in Endpoints \ {on} :
       /\ work'[ep] = work[ep] \/ (work[ep].pc = "none" /\ work'[ep].pc \in {"none", "start"})
       /\ work[ep].pc \in {"inject", "adapt"} => work[ep].d \notin X
  /\ on \in Endpoints =>
       /\ work[on].pc \in Running /\ IsActive(db', work[on].d)
            => work'[on].d = work[on].d /\ work'[on].pc \in Running
       /\ work'[on].pc = "inject" =>
            IsActive(db', work'[on].d) \/ Conclusive(db'.bundle[work'[on].d])
       /\ work'[on].pc = "adapt" => Conclusive(db'.bundle[work'[on].d])
       /\ work'[on].pc \in {"run", "interrupted"} => ran'[work'[on].d] # "no"
  /\ \A d \in Bundles :
       /\ ran[d] # "no" => ran'[d] # "no"
       /\ ran'[d] # "no" =>
            \/ ran[d] # "no"
            \/ /\ on \in Endpoints /\ d \in Existing /\ Conclusive(db'.bundle[d])
               /\ work'[on].d = d /\ work'[on].pc = "run"
       /\ d \in X /\ ran[d] # "no" => Conclusive(db'.bundle[d])

LEMMA ExistingBundles ==
  ASSUME DeliveryInv
  PROVE  Existing \subseteq Bundles /\ \A d \in Bundles : d \in Existing <=> d <= db.nb
<1>1. db.nb \in 0 .. MaxBundles BY DatabaseFields DEF DeliveryInv, Consistent
<1> QED BY <1>1, BoundsNat DEF Existing, Bundles

(* HeldOK, LeasesOK and StopsOK over a step. *)
LEMMA HandsKept ==
  ASSUME BridgeInv, HistoryInv', BridgeTypeOK', NEW X, Steady(X),
         WorkHeld, StreamHeld, StopsHeld, BootHeld(X)
  PROVE  HeldOK' /\ LeasesOK' /\ StopsOK'
<1>0. DeliveryInv /\ BridgeTypeOK /\ HeldOK /\ LeasesOK /\ StopsOK
  BY DEF BridgeInv, HistoryInv
<1>1. \A ep \in Endpoints : \A d : Holdable(ep, d) => d \in Existing' /\ EndpointOf(db', d) = ep
  BY DEF Holdable, Steady
<1>2. HeldOK'
  <2>1. \A ep \in Endpoints :
          /\ work'[ep].pc = "none" => work'[ep].d = 0
          /\ work'[ep].pc # "none" => work'[ep].d \in Existing' /\ EndpointOf(db', work'[ep].d) = ep
    BY <1>1 DEF WorkHeld, NoWork
  <2>2. \A ep \in Endpoints : \A d \in ToSet(waiting'[ep]) :
          d \in Existing' /\ EndpointOf(db', d) = ep
    BY <1>1 DEF WorkHeld
  <2>3. \A f \in ToSet(stream') : f.d \in Existing'
    BY <1>0 DEF StreamHeld, HeldOK, Steady
  <2>4. boot' \in {"down", "register"} =>
          \A ep \in Endpoints : work'[ep].pc = "none" /\ waiting'[ep] = <<>>
    BY DEF BootHeld, NoWork
  <2> QED BY <2>1, <2>2, <2>3, <2>4 DEF HeldOK
<1>3. LeasesOK'
  <2> SUFFICES ASSUME boot' # "down", NEW d \in Lapsed' PROVE Forgotten(d)' BY DEF LeasesOK
  <2>1. d \in Existing' /\ IsActive(db', d) /\ db'.bundle[d].lease = "lapsed"
    BY DEF Lapsed, IsActive
  <2>2. d \in Existing BY <2>1 DEF Steady, Fresh
  <2>3. boot # "down" BY DEF BootHeld
  <2>4. Forgotten(d)
    <3>1. CASE d \in X BY <3>1 DEF BootHeld
    <3>2. CASE d \notin X
      <4>1. IsActive(db, d) /\ db.bundle[d].lease = "lapsed" BY <2>1, <2>2, <3>2 DEF Steady
      <4>2. d \in Lapsed BY <2>2, <4>1 DEF Lapsed
      <4> QED BY <1>0, <2>3, <4>2 DEF LeasesOK
    <3> QED BY <3>1, <3>2
  <2>5. \A ep \in Endpoints : work'[ep].d # d /\ d \notin ToSet(waiting'[ep])
    <3>1. d # 0 BY <1>0, <2>2, ExistingBundles DEF Bundles
    <3> QED BY <2>4, <3>1 DEF WorkHeld, Holdable, NoWork
  <2>6. Frame("available", d) \notin ToSet(stream')
    <3> DEFINE f == Frame("available", d)
    <3>1. f.kind = "available" /\ f.d = d BY DEF Frame
    <3>2. f \notin ToSet(stream) BY <2>4 DEF Forgotten
    <3> HIDE DEF f
    <3>3. f \notin ToSet(stream') BY <2>2, <3>1, <3>2 DEF StreamHeld
    <3> QED BY <3>3 DEF f
  <2>7. db'.bundle[d].state # "reserved" BY <2>2, <2>4 DEF Forgotten, Steady
  <2> QED BY <2>5, <2>6, <2>7 DEF Forgotten
<1>4. StopsOK'
  <2>1. \A f \in ToSet(stream) : f.kind = "cancel" => db'.bundle[f.d].state = "cancelled"
    BY <1>0 DEF StopsOK, HeldOK, Steady
  <2>2. \A d \in cancelled : db'.bundle[d].state = "cancelled"
    <3> SUFFICES ASSUME NEW d \in cancelled PROVE db'.bundle[d].state = "cancelled" OBVIOUS
    <3>1. d \in Bundles /\ db.bundle[d].state = "cancelled" BY <1>0 DEF BridgeTypeOK, StopsOK
    <3>2. d \in Existing
      <4>1. d <= db.nb \/ d > db.nb BY <1>0, <3>1, Counts DEF DeliveryInv, Consistent
      <4> QED BY <1>0, <3>1, <4>1, ExistingBundles DEF DeliveryInv, Consistent, Numbered
    <3> QED BY <3>1, <3>2 DEF Steady
  <2>3. \A d : Frame("cancel", d).kind = "cancel" /\ Frame("cancel", d).d = d BY DEF Frame
  <2>4. \A d \in cancelled' : db'.bundle[d].state = "cancelled"
    BY <2>1, <2>2, <2>3 DEF StopsHeld
  <2>5. \A f \in ToSet(stream') : f.kind = "cancel" => db'.bundle[f.d].state = "cancelled"
    BY <2>1 DEF StreamHeld
  <2> QED BY <2>4, <2>5 DEF StopsOK
<1> QED BY <1>2, <1>3, <1>4

(* TurnsOK over a step. *)
LEMMA TurnsKept ==
  ASSUME BridgeInv, BridgeTypeOK', NEW X, NEW on, Steady(X), BootHeld(X), FlowHeld(on, X)
  PROVE  TurnsOK'
<1>0. DeliveryInv /\ BridgeTypeOK /\ HeldOK /\ TurnsOK
  BY DEF BridgeInv, HistoryInv
<1>1. \A d \in Bundles : ran'[d] # "no" => d \in Existing /\ Conclusive(db'.bundle[d])
  <2> SUFFICES ASSUME NEW d \in Bundles, ran'[d] # "no"
               PROVE  d \in Existing /\ Conclusive(db'.bundle[d])
    OBVIOUS
  <2>1. CASE ran[d] = "no" BY <2>1 DEF FlowHeld
  <2>2. CASE ran[d] # "no"
    <3>1. d \in Existing /\ Conclusive(db.bundle[d]) BY <1>0, <2>2 DEF TurnsOK
    <3>2. CASE d \in X BY <2>2, <3>1, <3>2 DEF FlowHeld
    <3>3. CASE d \notin X BY <3>1, <3>3 DEF Steady
    <3> QED BY <3>2, <3>3
  <2> QED BY <2>1, <2>2
<1>2. \A d \in Bundles : ran'[d] # "no" /\ IsActive(db', d) =>
        \/ boot' \in {"down", "register"}
        \/ \E ep \in Endpoints : work'[ep].d = d /\ work'[ep].pc \in Running
  <2> SUFFICES ASSUME NEW d \in Bundles, ran'[d] # "no", IsActive(db', d),
                      boot' \notin {"down", "register"}
               PROVE  \E ep \in Endpoints : work'[ep].d = d /\ work'[ep].pc \in Running
    OBVIOUS
  <2>1. CASE ran[d] = "no" BY <2>1 DEF FlowHeld, Running
  <2>2. CASE ran[d] # "no"
    <3>1. IsActive(db, d) BY <1>1 DEF Steady
    <3>2. boot \notin {"down", "register"} BY <2>2, <3>1 DEF BootHeld
    <3>3. PICK ep \in Endpoints : work[ep].d = d /\ work[ep].pc \in Running
      BY <1>0, <2>2, <3>1, <3>2 DEF TurnsOK, Running
    <3>4. CASE ep = on BY <3>3, <3>4 DEF FlowHeld
    <3>5. CASE ep # on
      <4>1. work'[ep] = work[ep] BY <3>3, <3>5 DEF FlowHeld, Running
      <4> QED BY <3>3, <4>1
    <3> QED BY <3>4, <3>5
  <2> QED BY <2>1, <2>2
<1>3. ASSUME NEW ep \in Endpoints
      PROVE  /\ work'[ep].pc = "inject" =>
                  IsActive(db', work'[ep].d) \/ Conclusive(db'.bundle[work'[ep].d])
             /\ work'[ep].pc = "adapt" => Conclusive(db'.bundle[work'[ep].d])
             /\ work'[ep].pc \in {"run", "interrupted"} => ran'[work'[ep].d] # "no"
  <2>1. CASE ep = on BY <2>1 DEF FlowHeld
  <2>2. CASE ep # on /\ work'[ep] # work[ep] BY <2>2 DEF FlowHeld
  <2>3. CASE ep # on /\ work'[ep] = work[ep]
    <3> DEFINE d == work[ep].d
    <3>1. work[ep].pc # "none" => d \in Existing /\ d \in Bundles
      BY <1>0, ExistingBundles DEF HeldOK
    <3>2. work[ep].pc = "inject" => IsActive(db', d) \/ Conclusive(db'.bundle[d])
      BY <1>0, <2>3, <3>1 DEF TurnsOK, Steady, FlowHeld
    <3>3. work[ep].pc = "adapt" => Conclusive(db'.bundle[d])
      BY <1>0, <2>3, <3>1 DEF TurnsOK, Steady, FlowHeld
    <3>4. work[ep].pc \in {"run", "interrupted"} => ran'[d] # "no"
      BY <1>0, <2>3, <3>1 DEF TurnsOK, FlowHeld
    <3> QED BY <2>3, <3>2, <3>3, <3>4
  <2> QED BY <2>1, <2>2, <2>3
<1>4. \A d \in Existing' : db'.bundle[d].entered => Owned(d)'
  BY DEF Steady, Fresh
<1>5. \A d \in Bundles : ran'[d] # "no" => d \in Existing' BY <1>1 DEF Steady
<1> QED BY <1>1, <1>2, <1>3, <1>4, <1>5 DEF TurnsOK, Running

LEMMA BridgeInvKept ==
  ASSUME BridgeInv, HistoryInv', BridgeTypeOK', NEW X, NEW on,
         Steady(X), WorkHeld, StreamHeld, StopsHeld, BootHeld(X), FlowHeld(on, X)
  PROVE  BridgeInv'
BY HandsKept, TurnsKept DEF BridgeInv

(* What is common to all handlers. *)
LEMMA OnwardFacts ==
  ASSUME BridgeInv, HistoryInv', Onward(db, db'),
         \A e \in Existing : db'.bundle[e].row = db.bundle[e].row
  PROVE  /\ Existing \subseteq Existing'
         /\ \A e \in Existing : EndpointOf(db', e) = EndpointOf(db, e) /\ (Owned(e) => Owned(e)')
         /\ \A e \in Existing' \ Existing : Fresh(db'.bundle[e])
<1>0. DeliveryInv /\ DeliveryInv' BY DEF BridgeInv, HistoryInv
<1>1. db \in Database /\ db' \in Database BY <1>0 DEF DeliveryInv, Consistent
<1>2. /\ db.nb \in Nat /\ db'.nb \in Nat /\ db.nr \in Nat
      /\ db.bridge \in [Endpoints -> BOOLEAN] /\ db'.bridge \in [Endpoints -> BOOLEAN]
  BY <1>1, Counts DEF Database
<1>3. Existing \subseteq Existing'
  <2>1. db.nb <= db'.nb BY DEF Onward
  <2> QED BY <1>2, <2>1 DEF Existing
<1>4. ASSUME NEW e \in Existing
      PROVE  EndpointOf(db', e) = EndpointOf(db, e) /\ (Owned(e) => Owned(e)')
  <2>1. /\ db.bundle[e].row \in Rows /\ db.bundle[e].row <= db.nr
        /\ EndpointOf(db, e) \in Endpoints
    BY <1>0, <1>2, OwnedFacts
  <2>2. EndpointOf(db', e) = EndpointOf(db, e) BY <2>1 DEF Onward, EndpointOf
  <2> QED BY <1>2, <2>1, <2>2 DEF Onward, Owned
<1>5. \A e \in Existing' \ Existing : e \in Bundles /\ e > db.nb /\ e <= db'.nb
  <2>1. db'.nb \in 0 .. MaxBundles BY <1>1, DatabaseFields
  <2> QED BY <1>2, <2>1, BoundsNat DEF Existing, Bundles
<1> QED BY <1>3, <1>4, <1>5 DEF Onward

LEMMA GrowsSteady ==
  ASSUME BridgeInv, HistoryInv', Grows(db, db')
  PROVE  Steady({})
<1>0. DeliveryInv /\ TurnsOK BY DEF BridgeInv, HistoryInv
<1>1. \A e \in Existing : db'.bundle[e] = db.bundle[e]
  BY <1>0, ExistingBundles DEF Grows
<1>2. /\ Existing \subseteq Existing'
      /\ \A e \in Existing : EndpointOf(db', e) = EndpointOf(db, e) /\ (Owned(e) => Owned(e)')
      /\ \A e \in Existing' \ Existing : Fresh(db'.bundle[e])
  BY <1>1, OnwardFacts DEF Grows
<1>3. \A e \in Existing : db'.bundle[e].entered => Owned(e)' BY <1>0, <1>1, <1>2 DEF TurnsOK
<1> QED BY <1>1, <1>2, <1>3 DEF Steady, IsActive

LEMMA MovesSteady ==
  ASSUME BridgeInv, HistoryInv', NEW d \in Existing, Moves(db, db', d), IsActive(db, d),
         db'.bundle[d].state # "reserved" \/ db'.bundle[d].state = db.bundle[d].state,
         db'.bundle[d].entered => db.bundle[d].entered \/ Owned(d)
  PROVE  Steady({d})
<1>0. DeliveryInv /\ TurnsOK BY DEF BridgeInv, HistoryInv
<1>1. /\ \A e \in Existing : db'.bundle[e].row = db.bundle[e].row
      /\ \A e \in Existing : e # d => Claims(db.bundle[e], db'.bundle[e])
  BY <1>0, ExistingBundles DEF Moves
<1>2. /\ Existing \subseteq Existing'
      /\ \A e \in Existing : EndpointOf(db', e) = EndpointOf(db, e) /\ (Owned(e) => Owned(e)')
      /\ \A e \in Existing' \ Existing : Fresh(db'.bundle[e])
  BY <1>1, OnwardFacts DEF Moves
<1>3. ASSUME NEW e \in Existing, e # d
      PROVE  /\ IsActive(db', e) <=> IsActive(db, e)
             /\ db.bundle[e].state = "cancelled" => db'.bundle[e].state = "cancelled"
             /\ db.bundle[e].state # "reserved" => db'.bundle[e].state # "reserved"
             /\ Conclusive(db.bundle[e]) => Conclusive(db'.bundle[e])
             /\ db'.bundle[e].lease = db.bundle[e].lease
             /\ db'.bundle[e].entered => Owned(e)'
  <2>1. Claims(db.bundle[e], db'.bundle[e]) BY <1>1, <1>3
  <2>2. db'.bundle[e].entered => Owned(e)' BY <1>0, <1>2, <2>1 DEF Claims, TurnsOK
  <2> QED BY <2>1, <2>2 DEF Claims, IsActive, ActiveStates, Conclusive
<1>4. /\ db.bundle[d].state # "cancelled"
      /\ db.bundle[d].state # "reserved" => db'.bundle[d].state # "reserved"
      /\ db'.bundle[d].entered => Owned(d)'
  BY <1>0, <1>2 DEF IsActive, ActiveStates, TurnsOK
<1> QED BY <1>2, <1>3, <1>4 DEF Steady

(* The bundle that moved may be carried over like the rest. *)
LEMMA SteadyAll ==
  ASSUME NEW d \in Existing, Steady({d}),
         Conclusive(db.bundle[d]) => Conclusive(db'.bundle[d]),
         IsActive(db, d) => IsActive(db', d) \/ Conclusive(db'.bundle[d]),
         IsActive(db', d) /\ db'.bundle[d].lease = "lapsed" => db.bundle[d].lease = "lapsed"
  PROVE  Steady({})
BY DEF Steady

(* A bundle is in a runtime or was only once it is conclusive. *)
LEMMA EnteredConclusive ==
  ASSUME NEW s, Consistent(s), NEW d \in 1 .. s.nb, IsActive(s, d)
  PROVE  Conclusive(s.bundle[d]) <=> s.bundle[d].entered
BY DEF Conclusive, IsActive, ActiveStates

LEMMA StillSteady ==
  ASSUME BridgeInv, HistoryInv', UNCHANGED db
  PROVE  Steady({})
<1>1. db \in Database BY DEF BridgeInv, HistoryInv, DeliveryInv, Consistent
<1>2. Grows(db, db') BY <1>1, GrowsItself
<1> QED BY <1>2, GrowsSteady

(* Which frames a handler of the Bus pushes. *)
LEMMA PushedNew ==
  ASSUME BridgeInv, HistoryInv'
  PROVE  /\ Pushed \in Seq(Frames)
         /\ \A f \in ToSet(Pushed) : f.kind = "available" /\ f.d \in Existing' \ Existing
<1>1. db.nb \in Nat /\ db'.nb \in 0 .. MaxBundles
  BY Counts, DatabaseFields DEF BridgeInv, HistoryInv, DeliveryInv, Consistent
<1>2. CASE db'.nb > db.nb
  <2> DEFINE f == Frame("available", db'.nb)
  <2>1. f \in Frames /\ f.kind = "available" /\ f.d = db'.nb
    BY <1>1, <1>2, BoundsNat DEF Frame, Frames, Bundles
  <2>2. db'.nb \in Existing' \ Existing BY <1>1, <1>2 DEF Existing
  <2>3. Pushed = <<f>> BY <1>2 DEF Pushed
  <2> HIDE DEF f
  <2>4. Pushed \in Seq(Frames) /\ ToSet(Pushed) = {f} BY <2>1, <2>3, ToSetFew
  <2> QED BY <2>1, <2>2, <2>4
<1>3. CASE ~(db'.nb > db.nb)
  <2>1. Pushed = <<>> BY <1>3 DEF Pushed
  <2>2. <<>> \in Seq(Frames) OBVIOUS
  <2> QED BY <2>1, <2>2, ToSetFew
<1> QED BY <1>2, <1>3

LEMMA PushedHeld ==
  ASSUME BridgeInv, HistoryInv', stream' = stream \o Pushed
  PROVE  StreamHeld /\ stream' \in Seq(Frames)
<1>1. stream \in Seq(Frames) BY DEF BridgeInv, BridgeTypeOK
<1>2. /\ Pushed \in Seq(Frames)
      /\ \A f \in ToSet(Pushed) : f.kind = "available" /\ f.d \in Existing' \ Existing
  BY PushedNew
<1>3. /\ stream' \in Seq(Frames)
      /\ \A f \in ToSet(stream') : f \in ToSet(stream) \/ f \in ToSet(Pushed)
  BY <1>1, <1>2, ToSetConcat
<1> QED BY <1>2, <1>3 DEF StreamHeld

(* Every step of the Bridge and its environment is a step of the Bus or      *)
(* leaves its database alone.                                                *)
LEMMA StepsOfTheBus ==
  ASSUME BridgeTypeOK, HeldOK, BridgeNext
  PROVE  Next \/ UNCHANGED db
<1>1. CASE Person
  <2>1. CASE \E ep \in Endpoints : SubmitEvent(ep, None) BY <2>1 DEF Next, EndpointStep
  <2>2. CASE \E d \in Existing : CancelRuntimeDelivery(d) BY <2>2 DEF Next, BundleStep
  <2> QED BY <1>1, <2>1, <2>2 DEF Person, Bus
<1>2. CASE Clock
  <2>1. CASE \E d \in Existing : LeaseLapses(d) \/ RequeueExpired(d) BY <2>1 DEF Next, BundleStep
  <2>2. CASE LeaseTimer \/ LeaseTimerDone BY <2>2 DEF Next
  <2> QED BY <1>2, <2>1, <2>2 DEF Clock, Bus
<1>3. CASE Start
  <2>1. CASE RegisterBridge \/ AbandonTurn \/ RegisterBridgeDone \/ ClaimDeliveries
    BY <2>1 DEF Next
  <2>2. CASE \E ep \in pass : RegisterEndpoint(ep, "idle")
    <3>1. pass \subseteq Endpoints BY DEF BridgeTypeOK
    <3> QED BY <2>2, <3>1 DEF Next, EndpointStep
  <2> QED BY <1>3, <2>1, <2>2 DEF Start, Register, Attach, Claim, ProcessDeliveries, Bus
<1>4. CASE Reattach \/ BridgeDies \/ EngineLost \/ EngineReady
  BY <1>4 DEF Reattach, BridgeDies, EngineLost, EngineReady
<1>5. CASE Handle
  BY <1>5 DEF Handle, Interrupt, Take, ProcessDeliveries, Next
<1>6. ASSUME NEW ep \in Endpoints, HandleDelivery(ep) PROVE Next \/ UNCHANGED db
  <2> DEFINE d == work[ep].d
  <2>1. (\E pc \in Steps \ {"none"} : Flow(ep, pc)) => d \in Existing
    BY DEF Flow, Steps, HeldOK
  <2>2. ASSUME d \in Existing,
               \/ ReportDeferred(d) \/ PrepareRuntimeDelivery(d, TRUE) \/ ReportInjected(d)
               \/ RecordResult(d, "completed") \/ RecordResult(d, "failed")
               \/ ReportAcknowledged(d) \/ ReportDeadLettered(d)
        PROVE  Next
    BY <2>2, Zenon DEF Next, BundleStep
  <2>3. CASE TurnEnd(ep) BY <2>3 DEF Next, EndpointStep
  <2>4. CASE Begin(ep) \/ Gate(ep) \/ Recheck(ep) \/ BeginTurn(ep) \/ Decline(ep) \/ FailTurn(ep)
    BY <2>4 DEF Begin, Gate, Recheck, BeginTurn, Decline, FailTurn, Local
  <2>5. CASE Defer(ep) BY <2>1, <2>2, <2>5 DEF Defer, Report, Bus, Local, Steps
  <2>6. CASE Prepare(ep) BY <2>1, <2>2, <2>6 DEF Prepare, Bus, Local, Steps
  <2>7. CASE Inject(ep) BY <2>1, <2>2, <2>7 DEF Inject, Report, Bus, Local, Steps
  <2>8. CASE HandBack(ep) BY <2>1, <2>2, <2>8 DEF HandBack, Bus, Local, Steps
  <2>9. CASE Complete(ep) BY <2>1, <2>2, <2>9 DEF Complete, Bus, Local, Steps
  <2>10. CASE Acknowledge(ep) BY <2>1, <2>2, <2>10 DEF Acknowledge, Report, Bus, Local, Steps
  <2>11. CASE DeadLetter(ep) BY <2>1, <2>2, <2>11 DEF DeadLetter, Report, Bus, Local, Steps
  <2>12. CASE RecordFailure(ep) BY <2>1, <2>2, <2>12 DEF RecordFailure, Bus, Local, Steps
  <2>13. CASE End(ep) BY <2>3, <2>13 DEF End, Bus, Local
  <2> QED BY <1>6, <2>4, <2>5, <2>6, <2>7, <2>8, <2>9, <2>10, <2>11, <2>12, <2>13
             DEF HandleDelivery
<1>7. ASSUME NEW ep \in Endpoints, AskActor(ep) PROVE Next
  <2>1. work[ep].d \in Existing BY <1>7 DEF AskActor, Flow, HeldOK
  <2>2. \E to \in Endpoints : SubmitRequest(work[ep].d, to) BY <1>7 DEF AskActor, Bus
  <2> QED BY <2>1, <2>2 DEF Next, BundleStep
<1>8. ASSUME NEW ep \in Endpoints, IdleCall(ep) PROVE Next \/ UNCHANGED db
  <2>1. CASE ReportEndpointStatus(ep, "idle") BY <2>1 DEF Next, EndpointStep
  <2> QED BY <1>8, <2>1 DEF IdleCall, Bus, Local
<1> QED BY <1>1, <1>2, <1>3, <1>4, <1>5, <1>6, <1>7, <1>8 DEF BridgeNext

LEMMA HistoryKept ==
  ASSUME BridgeInv, BridgeNext
  PROVE  HistoryInv' /\ Forward
<1>1. HistoryInv /\ BridgeTypeOK /\ HeldOK BY DEF BridgeInv
<1>2. [Next]_db BY <1>1, StepsOfTheBus
<1> QED BY <1>1, <1>2, HistoryStep

-----------------------------------------------------------------------------
(* The flows, as the Bridge moves them.                                     *)

(* What is held, now. *)
LEMMA HeldNow ==
  ASSUME BridgeInv
  PROVE  /\ work \in [Endpoints -> Flows] /\ waiting \in [Endpoints -> Seq(Bundles)]
         /\ \A e \in Endpoints :
              /\ work[e].pc = "none" => work[e] = NoWork
              /\ work[e].pc # "none" => Holdable(e, work[e].d)
              /\ \A d \in ToSet(waiting[e]) : Holdable(e, d)
<1>1. HeldOK /\ work \in [Endpoints -> Flows] /\ waiting \in [Endpoints -> Seq(Bundles)]
  BY DEF BridgeInv, BridgeTypeOK
<1>2. ASSUME NEW e \in Endpoints, work[e].pc = "none" PROVE work[e] = NoWork
  BY <1>1, <1>2 DEF HeldOK, Flows, NoWork
<1>3. ASSUME NEW e \in Endpoints, work[e].pc # "none" PROVE Holdable(e, work[e].d)
  BY <1>1, <1>3 DEF HeldOK, Holdable, Forgotten
<1>4. ASSUME NEW e \in Endpoints, NEW d \in ToSet(waiting[e]) PROVE Holdable(e, d)
  BY <1>1 DEF HeldOK, Holdable, Forgotten
<1> QED BY <1>1, <1>2, <1>3, <1>4

LEMMA StillWork ==
  ASSUME BridgeInv, UNCHANGED <<work, waiting>>
  PROVE  WorkHeld /\ work' \in [Endpoints -> Flows] /\ waiting' \in [Endpoints -> Seq(Bundles)]
BY HeldNow DEF WorkHeld

LEMMA GotoWork ==
  ASSUME BridgeInv, NEW ep \in Endpoints, work[ep].pc # "none",
         NEW pc \in Steps \ {"none"}, Goto(ep, pc)
  PROVE  /\ WorkHeld /\ work' \in [Endpoints -> Flows] /\ waiting' \in [Endpoints -> Seq(Bundles)]
         /\ work'[ep].d = work[ep].d /\ work'[ep].pc = pc
         /\ \A e \in Endpoints \ {ep} : work'[e] = work[e]
<1>1. HeldOK /\ work \in [Endpoints -> Flows] /\ waiting \in [Endpoints -> Seq(Bundles)]
  BY DEF BridgeInv, BridgeTypeOK
<1>2. work' = [work EXCEPT ![ep] = [work[ep] EXCEPT !.pc = pc]] /\ waiting' = waiting BY DEF Goto
<1>3. work[ep] \in Flows BY <1>1
<1> DEFINE w == [work[ep] EXCEPT !.pc = pc]
<1>4. w \in Flows /\ w.d = work[ep].d /\ w.pc = pc BY <1>3 DEF Flows
<1> HIDE DEF w
<1>5. work' \in [Endpoints -> Flows] /\ work'[ep] = w /\ \A e \in Endpoints \ {ep} : work'[e] = work[e]
  BY <1>1, <1>2, <1>4 DEF w
<1>6. \A e \in Endpoints : work[e].pc = "none" => work[e] = NoWork BY HeldNow
<1>7. \A e \in Endpoints : work[e].pc # "none" => Holdable(e, work[e].d) BY HeldNow
<1>8. \A e \in Endpoints : \A d \in ToSet(waiting[e]) : Holdable(e, d) BY HeldNow
<1>9. \A e \in Endpoints : work'[e] = NoWork \/ (work'[e].pc # "none" /\ Holdable(e, work'[e].d))
  BY <1>4, <1>5, <1>6, <1>7
<1>10. WorkHeld BY <1>2, <1>8, <1>9 DEF WorkHeld
<1> QED BY <1>1, <1>2, <1>4, <1>5, <1>10

LEMMA UnwindWork ==
  ASSUME BridgeInv, NEW ep \in Endpoints, Unwind(ep)
  PROVE  /\ WorkHeld /\ work' \in [Endpoints -> Flows] /\ waiting' \in [Endpoints -> Seq(Bundles)]
         /\ work'[ep].pc \in {"none", "start"}
         /\ \A e \in Endpoints \ {ep} : work'[e] = work[e]
<1>1. HeldOK /\ work \in [Endpoints -> Flows] /\ waiting \in [Endpoints -> Seq(Bundles)]
  BY DEF BridgeInv, BridgeTypeOK
<1>2. \A e \in Endpoints : work[e].pc = "none" => work[e] = NoWork BY HeldNow
<1>3. \A e \in Endpoints : work[e].pc # "none" => Holdable(e, work[e].d) BY HeldNow
<1>4. \A e \in Endpoints : \A d \in ToSet(waiting[e]) : Holdable(e, d) BY HeldNow
<1>5. CASE waiting[ep] = <<>>
  <2>1. work' = [work EXCEPT ![ep] = NoWork] /\ waiting' = waiting BY <1>5 DEF Unwind
  <2>2. NoWork \in Flows /\ NoWork.pc = "none"
    <3>1. 0 \in 0 .. MaxBundles BY DeliveryAssumption
    <3> QED BY <3>1 DEF NoWork, Flows, Steps
  <2>3. /\ work' \in [Endpoints -> Flows] /\ work'[ep] = NoWork
        /\ \A e \in Endpoints \ {ep} : work'[e] = work[e]
    BY <1>1, <2>1, <2>2
  <2>4. WorkHeld BY <1>2, <1>3, <1>4, <2>1, <2>3 DEF WorkHeld
  <2> QED BY <1>1, <2>1, <2>2, <2>3, <2>4
<1>6. CASE waiting[ep] # <<>>
  <2> DEFINE q == waiting[ep]
             w == [d |-> Head(q), pc |-> "start"]
  <2>1. work' = [work EXCEPT ![ep] = w] /\ waiting' = [waiting EXCEPT ![ep] = Tail(q)]
    BY <1>6 DEF Unwind
  <2>2. q \in Seq(Bundles) BY <1>1
  <2>3. /\ Tail(q) \in Seq(Bundles) /\ Head(q) \in ToSet(q)
        /\ \A x \in ToSet(Tail(q)) : x \in ToSet(q)
    BY <1>6, <2>2, ToSetTail
  <2>4. Holdable(ep, Head(q)) BY <1>4, <2>3
  <2>5. Head(q) \in 0 .. MaxBundles
    <3>1. Head(q) \in Bundles BY <1>6, <2>2
    <3> QED BY <3>1, BoundsNat DEF Bundles
  <2>6. w \in Flows /\ w.pc = "start" /\ w.d = Head(q) BY <2>5 DEF Flows, Steps
  <2> HIDE DEF w
  <2>7. /\ work' \in [Endpoints -> Flows] /\ work'[ep] = w
        /\ \A e \in Endpoints \ {ep} : work'[e] = work[e]
    BY <1>1, <2>1, <2>6
  <2>8. waiting' \in [Endpoints -> Seq(Bundles)] BY <1>1, <2>1, <2>3
  <2>9. waiting'[ep] = Tail(q) /\ \A e \in Endpoints \ {ep} : waiting'[e] = waiting[e]
    BY <1>1, <2>1
  <2>10. \A e \in Endpoints : work'[e] = NoWork \/ (work'[e].pc # "none" /\ Holdable(e, work'[e].d))
    BY <1>2, <1>3, <2>4, <2>6, <2>7
  <2>11. \A e \in Endpoints : \A d \in ToSet(waiting'[e]) : Holdable(e, d)
    BY <1>4, <2>3, <2>9
  <2>12. WorkHeld BY <2>10, <2>11 DEF WorkHeld
  <2> QED BY <2>6, <2>7, <2>8, <2>12
<1> QED BY <1>5, <1>6

(* Endpoints begin on bundles; nobody else moves. *)
Beginning ==
  \A ep \in Endpoints :
    work'[ep] = work[ep] \/ (work[ep].pc = "none" /\ work'[ep].pc \in {"none", "start"})

LEMMA ClaimWork ==
  ASSUME BridgeInv, ProcessDeliveries
  PROVE  /\ WorkHeld /\ work' \in [Endpoints -> Flows] /\ waiting' \in [Endpoints -> Seq(Bundles)]
         /\ Beginning
<1> DEFINE claimed == [ep \in Endpoints |-> OldestFirst(Unheld(ep))]
           W(ep) == IF Starts(ep, claimed[ep])
                    THEN [d |-> Head(claimed[ep]), pc |-> "start"] ELSE work[ep]
           rest(ep) == IF Starts(ep, claimed[ep]) THEN Tail(claimed[ep]) ELSE claimed[ep]
<1>1. HeldOK /\ work \in [Endpoints -> Flows] /\ waiting \in [Endpoints -> Seq(Bundles)] /\ DeliveryInv
  BY DEF BridgeInv, BridgeTypeOK, HistoryInv
<1>2. \A e \in Endpoints : work[e].pc = "none" => work[e] = NoWork BY HeldNow
<1>3. \A e \in Endpoints : work[e].pc # "none" => Holdable(e, work[e].d) BY HeldNow
<1>4. \A e \in Endpoints : \A d \in ToSet(waiting[e]) : Holdable(e, d) BY HeldNow
<1>5. /\ work' = [ep \in Endpoints |-> W(ep)]
      /\ waiting' = [ep \in Endpoints |-> waiting[ep] \o rest(ep)]
  BY DEF ProcessDeliveries
<1>6. ASSUME NEW ep \in Endpoints
      PROVE  /\ claimed[ep] \in Seq(Bundles)
             /\ \A d \in ToSet(claimed[ep]) : Holdable(ep, d)
  <2>1. Unheld(ep) \subseteq Bundles BY <1>1, ExistingBundles DEF Unheld
  <2>2. claimed[ep] \in Seq(Unheld(ep)) /\ \A d \in ToSet(claimed[ep]) : d \in Unheld(ep)
    BY <2>1, OldestFirstLists
  <2>3. \A d \in Unheld(ep) : Holdable(ep, d) BY DEF Unheld, Holdable, Forgotten
  <2> HIDE DEF claimed
  <2>4. claimed[ep] \in Seq(Bundles) BY <2>1, <2>2
  <2> QED BY <2>2, <2>3, <2>4
<1> HIDE DEF claimed
<1>7. ASSUME NEW ep \in Endpoints
      PROVE  /\ W(ep) \in Flows
             /\ W(ep) = NoWork \/ (W(ep).pc # "none" /\ Holdable(ep, W(ep).d))
             /\ W(ep) = work[ep] \/ (work[ep].pc = "none" /\ W(ep).pc = "start")
             /\ rest(ep) \in Seq(Bundles) /\ \A d \in ToSet(rest(ep)) : Holdable(ep, d)
  <2>1. CASE ~Starts(ep, claimed[ep])
    BY <1>1, <1>2, <1>3, <1>6, <2>1
  <2>2. CASE Starts(ep, claimed[ep])
    <3> DEFINE q == claimed[ep]
               w == [d |-> Head(q), pc |-> "start"]
    <3>1. q # <<>> /\ work[ep].pc = "none" /\ q \in Seq(Bundles) BY <1>6, <2>2 DEF Starts
    <3>2. /\ Tail(q) \in Seq(Bundles) /\ Head(q) \in ToSet(q)
          /\ \A x \in ToSet(Tail(q)) : x \in ToSet(q)
      BY <3>1, ToSetTail
    <3>3. Holdable(ep, Head(q)) /\ \A d \in ToSet(Tail(q)) : Holdable(ep, d) BY <1>6, <3>2
    <3>4. Head(q) \in 0 .. MaxBundles
      <4>1. Head(q) \in Bundles BY <3>1
      <4> QED BY <4>1, BoundsNat DEF Bundles
    <3>5. w \in Flows /\ w.pc = "start" /\ w.d = Head(q) BY <3>4 DEF Flows, Steps
    <3>6. W(ep) = w /\ rest(ep) = Tail(q) BY <2>2
    <3> HIDE DEF w, W, rest
    <3> QED BY <3>1, <3>2, <3>3, <3>5, <3>6
  <2> QED BY <2>1, <2>2
<1> HIDE DEF W, rest
<1>8. \A ep \in Endpoints : work'[ep] = W(ep) /\ waiting'[ep] = waiting[ep] \o rest(ep) BY <1>5
<1>9. work' \in [Endpoints -> Flows] BY <1>5, <1>7
<1>10. ASSUME NEW ep \in Endpoints
       PROVE  /\ waiting[ep] \o rest(ep) \in Seq(Bundles)
              /\ \A d \in ToSet(waiting[ep] \o rest(ep)) : Holdable(ep, d)
  <2>1. waiting[ep] \in Seq(Bundles) /\ rest(ep) \in Seq(Bundles) BY <1>1, <1>7
  <2>2. /\ waiting[ep] \o rest(ep) \in Seq(Bundles)
        /\ \A x \in ToSet(waiting[ep] \o rest(ep)) : x \in ToSet(waiting[ep]) \/ x \in ToSet(rest(ep))
    BY <2>1, ToSetConcat
  <2> QED BY <1>4, <1>7, <2>2
<1>11. waiting' \in [Endpoints -> Seq(Bundles)] BY <1>5, <1>10
<1>12. WorkHeld BY <1>7, <1>8, <1>10 DEF WorkHeld
<1>13. Beginning BY <1>7, <1>8 DEF Beginning
<1> QED BY <1>9, <1>11, <1>12, <1>13

LEMMA TakeWork ==
  ASSUME BridgeInv, NEW d \in Existing, Take(d), Frame("available", d) \in ToSet(stream)
  PROVE  /\ WorkHeld /\ work' \in [Endpoints -> Flows] /\ waiting' \in [Endpoints -> Seq(Bundles)]
         /\ Beginning
<1> DEFINE ep == EndpointOf(db, d)
           to == Dispatch(work[ep], waiting[ep], d)
<1>1. HeldOK /\ work \in [Endpoints -> Flows] /\ waiting \in [Endpoints -> Seq(Bundles)] /\ DeliveryInv
  BY DEF BridgeInv, BridgeTypeOK, HistoryInv
<1>2. \A e \in Endpoints : work[e].pc = "none" => work[e] = NoWork BY HeldNow
<1>3. \A e \in Endpoints : work[e].pc # "none" => Holdable(e, work[e].d) BY HeldNow
<1>4. \A e \in Endpoints : \A x \in ToSet(waiting[e]) : Holdable(e, x) BY HeldNow
<1>5. work' = [work EXCEPT ![ep] = to.w] /\ waiting' = [waiting EXCEPT ![ep] = to.q] BY DEF Take
<1>6. ep \in Endpoints /\ d \in Bundles /\ d \in 0 .. MaxBundles
  BY <1>1, OwnedFacts, BoundsNat DEF Bundles
<1>7. Holdable(ep, d) BY DEF Holdable, Forgotten
<1> HIDE DEF ep
<1>8. /\ to.w \in Flows /\ to.q \in Seq(Bundles)
      /\ to.w = NoWork \/ (to.w.pc # "none" /\ Holdable(ep, to.w.d))
      /\ \A x \in ToSet(to.q) : Holdable(ep, x)
      /\ to.w = work[ep] \/ (work[ep].pc = "none" /\ to.w.pc = "start")
  <2>1. CASE work[ep].pc = "none"
    <3> DEFINE w == [d |-> d, pc |-> "start"]
    <3>1. w \in Flows /\ w.pc = "start" /\ w.d = d BY <1>6 DEF Flows, Steps
    <3>2. to.w = w /\ to.q = waiting[ep] BY <2>1 DEF Dispatch
    <3> HIDE DEF w, to
    <3> QED BY <1>1, <1>4, <1>6, <1>7, <2>1, <3>1, <3>2
  <2>2. CASE work[ep].pc # "none" /\ (work[ep].d = d \/ d \in ToSet(waiting[ep]))
    <3>1. to.w = work[ep] /\ to.q = waiting[ep] BY <2>2 DEF Dispatch
    <3> HIDE DEF to
    <3> QED BY <1>1, <1>3, <1>4, <1>6, <2>2, <3>1
  <2>3. CASE work[ep].pc # "none" /\ ~(work[ep].d = d \/ d \in ToSet(waiting[ep]))
    <3>1. to.w = work[ep] /\ to.q = Append(waiting[ep], d) BY <2>3 DEF Dispatch
    <3> HIDE DEF to
    <3>2. waiting[ep] \in Seq(Bundles) BY <1>1, <1>6
    <3>3. /\ to.q \in Seq(Bundles)
          /\ \A x \in ToSet(to.q) : x \in ToSet(waiting[ep]) \/ x = d
      BY <1>6, <3>1, <3>2, ToSetAppend
    <3> QED BY <1>1, <1>3, <1>4, <1>6, <1>7, <2>3, <3>1, <3>3
  <2> QED BY <2>1, <2>2, <2>3
<1> HIDE DEF to
<1>9. /\ work' \in [Endpoints -> Flows] /\ work'[ep] = to.w
      /\ \A e \in Endpoints \ {ep} : work'[e] = work[e]
  BY <1>1, <1>5, <1>6, <1>8
<1>10. /\ waiting' \in [Endpoints -> Seq(Bundles)] /\ waiting'[ep] = to.q
       /\ \A e \in Endpoints \ {ep} : waiting'[e] = waiting[e]
  BY <1>1, <1>5, <1>6, <1>8
<1>11. \A e \in Endpoints : work'[e] = NoWork \/ (work'[e].pc # "none" /\ Holdable(e, work'[e].d))
  BY <1>2, <1>3, <1>8, <1>9
<1>12. \A e \in Endpoints : \A x \in ToSet(waiting'[e]) : Holdable(e, x) BY <1>4, <1>8, <1>10
<1>13. WorkHeld BY <1>11, <1>12 DEF WorkHeld
<1>14. Beginning BY <1>8, <1>9 DEF Beginning
<1> QED BY <1>9, <1>10, <1>13, <1>14

LEMMA Spending ==
  ASSUME BridgeInv, NEW what \in Allowances \ {"lapses"}, Spend(what) \/ UNCHANGED budget
  PROVE  budget' \in [Allowances -> Nat] /\ budget'["lapses"] = 0
<1>1. budget \in [Allowances -> Nat] /\ budget["lapses"] = 0 /\ "lapses" \in Allowances
  BY DEF BridgeInv, BridgeTypeOK, Allowances
<1>2. CASE UNCHANGED budget BY <1>1, <1>2
<1>3. CASE Spend(what)
  <2>1. budget[what] \in Nat /\ budget[what] > 0 /\ budget' = [budget EXCEPT ![what] = budget[what] - 1]
    BY <1>1, <1>3 DEF Spend
  <2>2. budget[what] - 1 \in Nat BY <2>1
  <2> QED BY <1>1, <2>1, <2>2
<1> QED BY <1>2, <1>3

LEMMA BeginningFlows ==
  ASSUME BridgeInv, Beginning, UNCHANGED ran
  PROVE  FlowHeld(None, {})
<1>1. None \notin Endpoints BY DeliveryAssumption
<1> QED BY <1>1 DEF Beginning, FlowHeld

(* Two endpoints hold no bundle in common. *)
LEMMA HeldApart ==
  ASSUME BridgeInv, NEW ep \in Endpoints, NEW e \in Endpoints, e # ep,
         work[ep].pc # "none", work[e].pc # "none"
  PROVE  work[e].d # work[ep].d
BY DEF BridgeInv, HeldOK

LEMMA OneFlow ==
  ASSUME BridgeInv, NEW ep \in Endpoints, work[ep].pc # "none",
         NEW X, X \subseteq {work[ep].d},
         \A e \in Endpoints \ {ep} : work'[e] = work[e],
         \A x \in Bundles : ran'[x] # "no" <=> ran[x] # "no",
         work[ep].pc \in Running /\ IsActive(db', work[ep].d)
            => work'[ep].d = work[ep].d /\ work'[ep].pc \in Running,
         work'[ep].pc = "inject" =>
            IsActive(db', work'[ep].d) \/ Conclusive(db'.bundle[work'[ep].d]),
         work'[ep].pc = "adapt" => Conclusive(db'.bundle[work'[ep].d]),
         work'[ep].pc \notin {"run", "interrupted"},
         X # {} /\ ran[work[ep].d] # "no" => Conclusive(db'.bundle[work[ep].d])
  PROVE  FlowHeld(ep, X)
<1>1. \A e \in Endpoints \ {ep} : work[e].pc \in {"inject", "adapt"} => work[e].d \notin X
  BY HeldApart
<1>2. \A x \in Bundles : x \in X /\ ran[x] # "no" => Conclusive(db'.bundle[x]) OBVIOUS
<1> QED BY <1>1, <1>2 DEF FlowHeld

LEMMA OneFlowAlone ==
  ASSUME BridgeInv, NEW ep \in Endpoints, work[ep].pc # "none",
         \A e \in Endpoints \ {ep} : work'[e] = work[e],
         \A x \in Bundles : ran'[x] # "no" <=> ran[x] # "no",
         work[ep].pc \in Running /\ IsActive(db', work[ep].d)
            => work'[ep].d = work[ep].d /\ work'[ep].pc \in Running,
         work'[ep].pc = "inject" =>
            IsActive(db', work'[ep].d) \/ Conclusive(db'.bundle[work'[ep].d]),
         work'[ep].pc = "adapt" => Conclusive(db'.bundle[work'[ep].d]),
         work'[ep].pc \notin {"run", "interrupted"}
  PROVE  FlowHeld(ep, {})
<1> DEFINE X == {}
<1>1. X \subseteq {work[ep].d} /\ X = {} OBVIOUS
<1> HIDE DEF X
<1>2. FlowHeld(ep, X) BY <1>1, OneFlow
<1> QED BY <1>1, <1>2

LEMMA StillBoot ==
  ASSUME BridgeInv, UNCHANGED boot,
         UNCHANGED <<work, waiting>> \/ boot \notin {"down", "register"},
         NEW X, boot # "down" => \A d \in X : d \in Lapsed' => Forgotten(d)
  PROVE  BootHeld(X)
<1>1. boot \in {"down", "register"} =>
        \A ep \in Endpoints : work[ep] = NoWork /\ waiting[ep] = <<>>
  BY HeldNow DEF BridgeInv, HeldOK
<1> QED BY <1>1 DEF BootHeld

LEMMA StillStream ==
  ASSUME BridgeInv, UNCHANGED stream
  PROVE  StreamHeld /\ stream' \in Seq(Frames)
BY DEF StreamHeld, BridgeInv, BridgeTypeOK

(* A step outside the flows. *)
LEMMA QuietKept ==
  ASSUME BridgeInv, BridgeNext, Steady({}), BootHeld({}),
         UNCHANGED <<work, waiting, ran, cancelled>>,
         UNCHANGED stream \/ stream' = stream \o Pushed,
         boot' \in Boots, pass' \subseteq Endpoints,
         NEW what \in Allowances \ {"lapses"}, Spend(what) \/ UNCHANGED budget
  PROVE  BridgeInv'
<1>1. HistoryInv' BY HistoryKept
<1>2. StreamHeld /\ stream' \in Seq(Frames) BY <1>1, StillStream, PushedHeld
<1>3. WorkHeld /\ work' \in [Endpoints -> Flows] /\ waiting' \in [Endpoints -> Seq(Bundles)]
  BY StillWork
<1>4. budget' \in [Allowances -> Nat] /\ budget'["lapses"] = 0 BY Spending
<1>5. BridgeTypeOK' BY <1>2, <1>3, <1>4 DEF BridgeInv, BridgeTypeOK
<1>6. StopsHeld BY DEF StopsHeld
<1>7. FlowHeld(None, {}) BY BeginningFlows DEF Beginning
<1> QED BY <1>1, <1>2, <1>3, <1>5, <1>6, <1>7, BridgeInvKept

(* A step of the flow of ep that leaves the turns as they are. *)
LEMMA FlowKept ==
  ASSUME BridgeInv, BridgeNext, NEW ep \in Endpoints, boot # "down", work[ep].pc # "none",
         NEW X, Steady(X), \A d \in X : ~IsActive(db', d), FlowHeld(ep, X),
         WorkHeld, work' \in [Endpoints -> Flows], waiting' \in [Endpoints -> Seq(Bundles)],
         UNCHANGED <<boot, pass>>, cancelled' \subseteq cancelled,
         UNCHANGED stream \/ stream' = stream \o Pushed,
         ran' \in [Bundles -> {"no", "running", "completed", "failed", "lost"}],
         Spend("declines") \/ UNCHANGED budget
  PROVE  BridgeInv'
<1>1. HistoryInv' BY HistoryKept
<1>2. StreamHeld /\ stream' \in Seq(Frames) BY <1>1, StillStream, PushedHeld
<1>3. budget' \in [Allowances -> Nat] /\ budget'["lapses"] = 0
  <2>1. "declines" \in Allowances \ {"lapses"} BY DEF Allowances
  <2> QED BY <2>1, Spending
<1>4. BridgeTypeOK' BY <1>2, <1>3 DEF BridgeInv, BridgeTypeOK
<1>5. StopsHeld BY DEF StopsHeld
<1>6. BootHeld(X)
  <2>1. boot \notin {"down", "register"} BY DEF BridgeInv, HeldOK
  <2>2. \A d \in X : d \notin Lapsed' BY DEF Lapsed, IsActive
  <2> QED BY <2>1, <2>2, StillBoot
<1> QED BY <1>1, <1>2, <1>4, <1>5, <1>6, BridgeInvKept

(* A turn that is under way is under way in the flow that holds its bundle. *)
LEMMA UnderWay ==
  ASSUME BridgeInv, NEW ep \in Endpoints, work[ep].pc # "none",
         ran[work[ep].d] # "no", IsActive(db, work[ep].d)
  PROVE  work[ep].pc \in Running
<1>1. HeldOK /\ TurnsOK /\ DeliveryInv BY DEF BridgeInv, HistoryInv
<1>2. work[ep].d \in Existing /\ work[ep].d \in Bundles /\ boot \notin {"down", "register"}
  BY <1>1, ExistingBundles DEF HeldOK
<1>3. PICK e \in Endpoints : work[e].d = work[ep].d /\ work[e].pc \in Running
  BY <1>1, <1>2 DEF TurnsOK, Running
<1>4. e = ep BY <1>3, HeldApart DEF Running
<1> QED BY <1>3, <1>4

(* What the steps of a flow have in common. *)
LEMMA FlowFacts ==
  ASSUME BridgeInv, NEW ep \in Endpoints, NEW pc \in Steps \ {"none"}, Flow(ep, pc)
  PROVE  /\ boot # "down" /\ work[ep].pc = pc /\ pc # "none"
         /\ work[ep].d \in Existing /\ work[ep].d \in Bundles /\ DeliveryInv
         /\ work[ep].d \in cancelled => ~IsActive(db, work[ep].d)
         /\ ran \in [Bundles -> {"no", "running", "completed", "failed", "lost"}]
         /\ ran[work[ep].d] # "no" => Conclusive(db.bundle[work[ep].d])
<1>1. HeldOK /\ TurnsOK /\ StopsOK /\ BridgeTypeOK /\ DeliveryInv BY DEF BridgeInv, HistoryInv
<1>2. work[ep].d \in Existing /\ work[ep].d \in Bundles
  BY <1>1, ExistingBundles DEF HeldOK, Flow
<1> QED BY <1>1, <1>2 DEF Flow, StopsOK, TurnsOK, IsActive, ActiveStates, BridgeTypeOK

(* The steps that leave the Bus alone and turn no runtime on or off. *)
LEMMA LocalStepsKept ==
  ASSUME BridgeInv, BridgeNext, NEW ep \in Endpoints,
         Begin(ep) \/ Gate(ep) \/ Recheck(ep) \/ Decline(ep)
  PROVE  BridgeInv'
<1> DEFINE d == work[ep].d
<1>1. PICK pc \in {"start", "gate", "recheck", "adapt"} : Flow(ep, pc)
  BY DEF Begin, Gate, Recheck, Decline
<1>2. pc \in Steps \ {"none"} /\ pc \notin Running BY DEF Steps, Running
<1>3. /\ boot # "down" /\ work[ep].pc = pc /\ pc # "none"
      /\ ran \in [Bundles -> {"no", "running", "completed", "failed", "lost"}]
  BY <1>1, <1>2, FlowFacts
<1>4. /\ UNCHANGED <<db, stream, boot, pass, ran>> /\ cancelled' \subseteq cancelled
      /\ Spend("declines") \/ UNCHANGED budget
  BY DEF Begin, Gate, Recheck, Decline, Local, Same, Still
<1>5. \/ Unwind(ep)
      \/ \E to \in {"end", "gate", "prepare", "defer", "hand_back"} : Goto(ep, to)
  BY DEF Begin, Gate, Recheck, Decline
<1>6. HistoryInv' BY HistoryKept
<1>7. Steady({}) BY <1>4, <1>6, StillSteady
<1>8. /\ WorkHeld /\ work' \in [Endpoints -> Flows] /\ waiting' \in [Endpoints -> Seq(Bundles)]
      /\ work'[ep].pc \in {"none", "start", "end", "gate", "prepare", "defer", "hand_back"}
      /\ \A e \in Endpoints \ {ep} : work'[e] = work[e]
  <2>1. CASE Unwind(ep) BY <2>1, UnwindWork
  <2>2. CASE \E to \in {"end", "gate", "prepare", "defer", "hand_back"} : Goto(ep, to)
    <3>1. PICK to \in {"end", "gate", "prepare", "defer", "hand_back"} : Goto(ep, to) BY <2>2
    <3>2. to \in Steps \ {"none"} BY DEF Steps
    <3> QED BY <1>3, <3>1, <3>2, GotoWork
  <2> QED BY <1>5, <2>1, <2>2
<1>9. FlowHeld(ep, {})
  <2>1. /\ work'[ep].pc # "inject" /\ work'[ep].pc # "adapt"
        /\ work'[ep].pc \notin {"run", "interrupted"}
    BY <1>8
  <2>2. \A x \in Bundles : ran'[x] # "no" <=> ran[x] # "no" BY <1>4
  <2>3. work[ep].pc # "none" /\ work[ep].pc \notin Running BY <1>2, <1>3
  <2> QED BY <1>8, <2>1, <2>2, <2>3, OneFlowAlone
<1> QED BY <1>3, <1>4, <1>7, <1>8, <1>9, FlowKept

(* What is handed back before its turn is a bundle no turn was run for. *)
LEMMA HandedBack ==
  ASSUME BridgeInv, HistoryInv', NEW ep \in Endpoints, NEW pc \in {"defer", "hand_back"}, Flow(ep, pc),
         \/ IsActive(db, work[ep].d) /\ ReportDeferred(work[ep].d)
         \/ ~IsActive(db, work[ep].d) /\ UNCHANGED db
  PROVE  \E X \in {{}, {work[ep].d}} :
           /\ Steady(X) /\ \A d \in X : ~IsActive(db', d) /\ ran[d] = "no"
<1> DEFINE d == work[ep].d
<1>1. pc \in Steps \ {"none"} /\ pc \notin Running BY DEF Steps, Running
<1>2. d \in Existing /\ DeliveryInv /\ work[ep].pc = pc BY <1>1, FlowFacts
<1>3. CASE IsActive(db, d) /\ ReportDeferred(d)
  <2>1. /\ Moves(db, db', d) /\ db'.bundle[d].state = "deferred"
        /\ db'.bundle[d].entered = db.bundle[d].entered
    BY <1>2, <1>3, DeferMoves
  <2>2. Steady({d}) BY <1>2, <1>3, <2>1, MovesSteady
  <2>3. ran[d] = "no" BY <1>1, <1>2, <1>3, UnderWay
  <2>4. ~IsActive(db', d) BY <2>1 DEF IsActive, ActiveStates
  <2> QED BY <2>2, <2>3, <2>4
<1>4. CASE ~IsActive(db, d) /\ UNCHANGED db
  <2>1. Steady({}) BY <1>4, StillSteady
  <2> QED BY <2>1
<1> QED BY <1>3, <1>4

LEMMA HandBackKept ==
  ASSUME BridgeInv, BridgeNext, NEW ep \in Endpoints, Defer(ep) \/ HandBack(ep)
  PROVE  BridgeInv'
<1> DEFINE d == work[ep].d
<1>1. PICK pc \in {"defer", "hand_back"} : Flow(ep, pc) BY DEF Defer, HandBack
<1>2. pc \in Steps \ {"none"} /\ pc \notin Running BY DEF Steps, Running
<1>3. /\ boot # "down" /\ work[ep].pc = pc /\ pc # "none"
      /\ ran \in [Bundles -> {"no", "running", "completed", "failed", "lost"}]
  BY <1>1, <1>2, FlowFacts
<1>4. /\ UNCHANGED <<boot, pass, ran, cancelled, budget>>
      /\ UNCHANGED stream \/ stream' = stream \o Pushed
      /\ \/ IsActive(db, d) /\ ReportDeferred(d)
         \/ ~IsActive(db, d) /\ UNCHANGED db
      /\ Unwind(ep) \/ Goto(ep, "recheck")
  BY DEF Defer, HandBack, Report, Bus, Local, Same, Still
<1>5. HistoryInv' BY HistoryKept
<1>6. PICK X \in {{}, {d}} : Steady(X) /\ \A x \in X : ~IsActive(db', x) /\ ran[x] = "no"
  BY <1>1, <1>4, <1>5, HandedBack
<1>7. /\ WorkHeld /\ work' \in [Endpoints -> Flows] /\ waiting' \in [Endpoints -> Seq(Bundles)]
      /\ work'[ep].pc \in {"none", "start", "recheck"}
      /\ \A e \in Endpoints \ {ep} : work'[e] = work[e]
  <2>1. CASE Unwind(ep) BY <2>1, UnwindWork
  <2>2. CASE Goto(ep, "recheck")
    <3>1. "recheck" \in Steps \ {"none"} BY DEF Steps
    <3> QED BY <1>3, <2>2, <3>1, GotoWork
  <2> QED BY <1>4, <2>1, <2>2
<1>8. FlowHeld(ep, X)
  <2>1. /\ work'[ep].pc # "inject" /\ work'[ep].pc # "adapt"
        /\ work'[ep].pc \notin {"run", "interrupted"}
    BY <1>7
  <2>2. X \subseteq {work[ep].d} /\ (X # {} => ran[work[ep].d] = "no") BY <1>6
  <2> QED BY <1>2, <1>3, <1>4, <1>7, <2>1, <2>2, OneFlow
<1> QED BY <1>3, <1>4, <1>6, <1>7, <1>8, FlowKept

LEMMA PrepareKept ==
  ASSUME BridgeInv, BridgeNext, NEW ep \in Endpoints, Prepare(ep)
  PROVE  BridgeInv'
<1> DEFINE d == work[ep].d
<1>1. Flow(ep, "prepare") /\ "prepare" \in Steps \ {"none"} /\ "prepare" \notin Running
  BY DEF Prepare, Steps, Running
<1>2. /\ boot # "down" /\ work[ep].pc = "prepare" /\ d \in Existing /\ DeliveryInv
      /\ ran \in [Bundles -> {"no", "running", "completed", "failed", "lost"}]
  BY <1>1, FlowFacts
<1>3. UNCHANGED <<boot, pass, ran, budget>> BY DEF Prepare, Same, Still
<1>4. HistoryInv' BY HistoryKept
<1>5. \A x \in Bundles : ran'[x] # "no" <=> ran[x] # "no" BY <1>3
<1>6. CASE UNCHANGED <<db, stream>> /\ cancelled' = cancelled \ {d}
           /\ (Goto(ep, "end") \/ Goto(ep, "fail"))
  <2>1. "end" \in Steps \ {"none"} /\ "fail" \in Steps \ {"none"} BY DEF Steps
  <2>2. /\ WorkHeld /\ work' \in [Endpoints -> Flows] /\ waiting' \in [Endpoints -> Seq(Bundles)]
        /\ work'[ep].pc \in {"end", "fail"} /\ \A e \in Endpoints \ {ep} : work'[e] = work[e]
    <3>1. work[ep].pc # "none" BY <1>2
    <3>2. CASE Goto(ep, "end") BY <2>1, <3>1, <3>2, GotoWork
    <3>3. CASE Goto(ep, "fail") BY <2>1, <3>1, <3>3, GotoWork
    <3> QED BY <1>6, <3>2, <3>3
  <2>3. FlowHeld(ep, {})
    <3>1. /\ work'[ep].pc # "inject" /\ work'[ep].pc # "adapt"
          /\ work'[ep].pc \notin {"run", "interrupted"} /\ work[ep].pc \notin Running
      BY <1>1, <1>2, <2>2
    <3> QED BY <1>2, <1>5, <2>2, <3>1, OneFlowAlone
  <2>4. Steady({}) BY <1>4, <1>6, StillSteady
  <2> QED BY <1>2, <1>3, <1>6, <2>2, <2>3, <2>4, FlowKept
<1>7. CASE Bus(PrepareRuntimeDelivery(d, TRUE)) /\ Goto(ep, "inject") /\ UNCHANGED cancelled
  <2>1. PrepareRuntimeDelivery(d, TRUE) /\ stream' = stream \o Pushed BY <1>7 DEF Bus
  <2>2. /\ Moves(db, db', d) /\ IsActive(db, d) /\ IsActive(db', d)
        /\ db'.bundle[d].state # "reserved"
        /\ db'.bundle[d].lease = db.bundle[d].lease
        /\ db'.bundle[d].entered = db.bundle[d].entered
    BY <1>2, <2>1, PrepareMoves
  <2>3. Steady({d}) BY <1>2, <1>4, <2>2, MovesSteady
  <2>4. Conclusive(db.bundle[d]) => Conclusive(db'.bundle[d])
    BY <2>2 DEF IsActive, ActiveStates, Conclusive
  <2>5. Steady({}) BY <1>2, <2>2, <2>3, <2>4, SteadyAll
  <2>6. "inject" \in Steps \ {"none"} BY DEF Steps
  <2>7. /\ WorkHeld /\ work' \in [Endpoints -> Flows] /\ waiting' \in [Endpoints -> Seq(Bundles)]
        /\ work'[ep].pc = "inject" /\ work'[ep].d = d
        /\ \A e \in Endpoints \ {ep} : work'[e] = work[e]
    BY <1>2, <1>7, <2>6, GotoWork
  <2>8. FlowHeld(ep, {})
    <3>1. work'[ep].pc # "adapt" /\ work'[ep].pc \notin {"run", "interrupted"}
          /\ work[ep].pc \notin Running /\ IsActive(db', work'[ep].d)
      BY <1>1, <1>2, <2>2, <2>7
    <3> QED BY <1>2, <1>5, <2>7, <3>1, OneFlowAlone
  <2> QED BY <1>2, <1>3, <1>7, <2>1, <2>5, <2>7, <2>8, FlowKept
<1> QED BY <1>6, <1>7 DEF Prepare, Local

LEMMA InjectKept ==
  ASSUME BridgeInv, BridgeNext, NEW ep \in Endpoints, Inject(ep)
  PROVE  BridgeInv'
<1> DEFINE d == work[ep].d
<1>1. Flow(ep, "inject") /\ "inject" \in Steps \ {"none"} /\ "inject" \notin Running
  BY DEF Inject, Steps, Running
<1>2. /\ boot # "down" /\ work[ep].pc = "inject" /\ d \in Existing /\ DeliveryInv
      /\ ran \in [Bundles -> {"no", "running", "completed", "failed", "lost"}]
  BY <1>1, FlowFacts
<1>3. /\ UNCHANGED <<boot, pass, ran, budget, cancelled>> /\ Goto(ep, "adapt")
      /\ \/ IsActive(db, d) /\ ReportInjected(d) /\ stream' = stream \o Pushed
         \/ ~IsActive(db, d) /\ UNCHANGED <<db, stream>>
  BY DEF Inject, Report, Bus, Local, Same, Still
<1>4. HistoryInv' BY HistoryKept
<1>5. \A x \in Bundles : ran'[x] # "no" <=> ran[x] # "no" BY <1>3
<1>6. "adapt" \in Steps \ {"none"} BY DEF Steps
<1>7. /\ WorkHeld /\ work' \in [Endpoints -> Flows] /\ waiting' \in [Endpoints -> Seq(Bundles)]
      /\ work'[ep].pc = "adapt" /\ work'[ep].d = d
      /\ \A e \in Endpoints \ {ep} : work'[e] = work[e]
  BY <1>2, <1>3, <1>6, GotoWork
<1>8. Steady({}) /\ Conclusive(db'.bundle[d])
  <2>1. CASE IsActive(db, d) /\ ReportInjected(d)
    <3>1. /\ Moves(db, db', d) /\ Owned(d)
          /\ db'.bundle[d].state = "injected_to_runtime" /\ db'.bundle[d].lease = "running"
          /\ db'.bundle[d].entered = TRUE
      BY <1>2, <2>1, InjectedMoves
    <3>2. Steady({d}) BY <1>2, <1>4, <2>1, <3>1, MovesSteady
    <3>3. Conclusive(db'.bundle[d]) BY <3>1 DEF Conclusive
    <3> QED BY <1>2, <3>1, <3>2, <3>3, SteadyAll
  <2>2. CASE ~IsActive(db, d) /\ UNCHANGED db
    <3>1. Conclusive(db.bundle[d]) BY <1>2, <2>2 DEF BridgeInv, TurnsOK
    <3> QED BY <1>4, <2>2, <3>1, StillSteady
  <2> QED BY <1>3, <2>1, <2>2
<1>9. FlowHeld(ep, {})
  <2>1. work'[ep].pc # "inject" /\ work'[ep].pc \notin {"run", "interrupted"}
        /\ work[ep].pc \notin Running /\ Conclusive(db'.bundle[work'[ep].d])
    BY <1>1, <1>2, <1>7, <1>8
  <2> QED BY <1>2, <1>5, <1>7, <2>1, OneFlowAlone
<1> QED BY <1>2, <1>3, <1>7, <1>8, <1>9, FlowKept

LEMMA BeginTurnKept ==
  ASSUME BridgeInv, BridgeNext, NEW ep \in Endpoints, BeginTurn(ep)
  PROVE  BridgeInv'
<1> DEFINE d == work[ep].d
<1>1. Flow(ep, "adapt") /\ "adapt" \in Steps \ {"none"} /\ "adapt" \notin Running
  BY DEF BeginTurn, Steps, Running
<1>2. /\ boot # "down" /\ work[ep].pc = "adapt" /\ d \in Existing /\ d \in Bundles /\ DeliveryInv
      /\ ran \in [Bundles -> {"no", "running", "completed", "failed", "lost"}]
  BY <1>1, FlowFacts
<1>3. /\ UNCHANGED <<boot, pass, budget, cancelled, db, stream>> /\ Goto(ep, "run")
      /\ ran' = [ran EXCEPT ![d] = "running"]
  BY DEF BeginTurn, Local, Same, Still
<1>4. HistoryInv' BY HistoryKept
<1>5. Steady({}) BY <1>3, <1>4, StillSteady
<1>6. "run" \in Steps \ {"none"} BY DEF Steps
<1>7. /\ WorkHeld /\ work' \in [Endpoints -> Flows] /\ waiting' \in [Endpoints -> Seq(Bundles)]
      /\ work'[ep].pc = "run" /\ work'[ep].d = d
      /\ \A e \in Endpoints \ {ep} : work'[e] = work[e]
  BY <1>2, <1>3, <1>6, GotoWork
<1>8. Conclusive(db'.bundle[d]) BY <1>2, <1>3 DEF BridgeInv, TurnsOK
<1>9. /\ ran' \in [Bundles -> {"no", "running", "completed", "failed", "lost"}]
      /\ \A x \in Bundles : ran'[x] = IF x = d THEN "running" ELSE ran[x]
  BY <1>2, <1>3
<1>10. FlowHeld(ep, {})
  <2>1. work[ep].pc \notin Running BY <1>1, <1>2
  <2>2. ran'[d] # "no" /\ \A x \in Bundles : x # d => ran'[x] = ran[x] BY <1>2, <1>9
  <2> QED BY <1>2, <1>7, <1>8, <2>1, <2>2 DEF FlowHeld
<1> QED BY <1>2, <1>3, <1>5, <1>7, <1>9, <1>10, FlowKept

(* The turn ends, by itself or interrupted. *)
LEMMA TurnEndsKept ==
  ASSUME BridgeInv, BridgeNext, NEW ep \in Endpoints, Complete(ep) \/ FailTurn(ep)
  PROVE  BridgeInv'
<1> DEFINE d == work[ep].d
<1>1. PICK pc \in {"run", "interrupted"} : Flow(ep, pc) BY DEF Complete, FailTurn
<1>2. pc \in Steps \ {"none"} BY DEF Steps
<1>3. /\ boot # "down" /\ work[ep].pc = pc /\ work[ep].pc # "none" /\ d \in Existing /\ d \in Bundles
      /\ DeliveryInv
      /\ (d \in cancelled => ~IsActive(db, d))
      /\ ran \in [Bundles -> {"no", "running", "completed", "failed", "lost"}]
  BY <1>1, <1>2, FlowFacts
<1>4. ran[d] # "no" BY <1>3 DEF BridgeInv, TurnsOK
<1>5. PICK o \in {"completed", "failed"} : ran' = [ran EXCEPT ![d] = o]
  BY DEF Complete, FailTurn
<1>6. /\ ran' \in [Bundles -> {"no", "running", "completed", "failed", "lost"}]
      /\ \A x \in Bundles : ran'[x] # "no" <=> ran[x] # "no"
  BY <1>3, <1>4, <1>5
<1>7. UNCHANGED <<boot, pass, budget>> BY DEF Complete, FailTurn, Same, Still
<1>8. HistoryInv' BY HistoryKept
<1>9. \/ /\ RecordResult(d, "completed") /\ stream' = stream \o Pushed
         /\ Goto(ep, "ack") /\ UNCHANGED cancelled
      \/ /\ UNCHANGED <<db, stream>> /\ cancelled' = cancelled \ {d}
         /\ Goto(ep, IF d \in cancelled THEN "end" ELSE "fail")
  BY DEF Complete, FailTurn, Bus, Local
<1>10. Steady({})
  <2>1. CASE RecordResult(d, "completed") BY <1>3, <1>8, <2>1, RecordResultGrows, GrowsSteady
  <2>2. CASE UNCHANGED db BY <1>8, <2>2, StillSteady
  <2> QED BY <1>9, <2>1, <2>2
<1>11. /\ WorkHeld /\ work' \in [Endpoints -> Flows] /\ waiting' \in [Endpoints -> Seq(Bundles)]
       /\ work'[ep].d = d /\ work'[ep].pc \in {"end", "fail", "ack"}
       /\ work'[ep].pc = "end" => d \in cancelled /\ UNCHANGED db
       /\ \A e \in Endpoints \ {ep} : work'[e] = work[e]
  <2>1. "ack" \in Steps \ {"none"} /\ "end" \in Steps \ {"none"} /\ "fail" \in Steps \ {"none"}
    BY DEF Steps
  <2>2. CASE Goto(ep, "ack") BY <1>3, <2>1, <2>2, GotoWork
  <2>3. CASE Goto(ep, "end") /\ d \in cancelled /\ UNCHANGED db BY <1>3, <2>1, <2>3, GotoWork
  <2>4. CASE Goto(ep, "fail") BY <1>3, <2>1, <2>4, GotoWork
  <2> QED BY <1>9, <2>2, <2>3, <2>4
<1>12. FlowHeld(ep, {})
  <2>1. /\ work'[ep].pc # "inject" /\ work'[ep].pc # "adapt"
        /\ work'[ep].pc \notin {"run", "interrupted"}
    BY <1>11
  <2>2. IsActive(db', d) => work'[ep].pc \in Running BY <1>3, <1>11 DEF Running
  <2> QED BY <1>3, <1>6, <1>11, <2>1, <2>2, OneFlowAlone
<1>13. cancelled' \subseteq cancelled BY <1>9
<1>14. UNCHANGED stream \/ stream' = stream \o Pushed BY <1>9
<1> QED BY <1>3, <1>6, <1>7, <1>10, <1>11, <1>12, <1>13, <1>14, FlowKept

(* The last report of a turn: it is acknowledged or dead-lettered. *)
LEMMA LastReportKept ==
  ASSUME BridgeInv, BridgeNext, NEW ep \in Endpoints, Acknowledge(ep) \/ DeadLetter(ep)
  PROVE  BridgeInv'
<1> DEFINE d == work[ep].d
<1>1. PICK pc \in {"ack", "fail"} : Flow(ep, pc) BY DEF Acknowledge, DeadLetter
<1>2. pc \in Steps \ {"none"} BY DEF Steps
<1>3. /\ boot # "down" /\ work[ep].pc = pc /\ work[ep].pc # "none" /\ d \in Existing /\ d \in Bundles
      /\ DeliveryInv
      /\ (d \in cancelled => ~IsActive(db, d))
      /\ ran \in [Bundles -> {"no", "running", "completed", "failed", "lost"}]
      /\ ran[d] # "no" => Conclusive(db.bundle[d])
  BY <1>1, <1>2, FlowFacts
<1>4. UNCHANGED <<boot, pass, budget, ran>> /\ cancelled' \subseteq cancelled
  BY DEF Acknowledge, DeadLetter, Same, Still
<1>5. HistoryInv' BY HistoryKept
<1>6. /\ \/ IsActive(db, d) /\ ReportAcknowledged(d) /\ stream' = stream \o Pushed
         \/ IsActive(db, d) /\ ReportDeadLettered(d) /\ stream' = stream \o Pushed
         \/ ~IsActive(db, d) /\ UNCHANGED <<db, stream>>
      /\ Goto(ep, "end") \/ Goto(ep, "record_failure")
  BY <1>3 DEF Acknowledge, DeadLetter, Report, Bus, Local
<1>7. PICK X \in {{}, {d}} :
        /\ Steady(X) /\ ~IsActive(db', d)
        /\ X # {} /\ ran[d] # "no" => Conclusive(db'.bundle[d])
  <2>1. ASSUME NEW st \in {"acknowledged", "dead_lettered"}, IsActive(db, d),
               st = "acknowledged" => ReportAcknowledged(d),
               st = "dead_lettered" => ReportDeadLettered(d)
        PROVE  Steady({d}) /\ ~IsActive(db', d) /\ (ran[d] # "no" => Conclusive(db'.bundle[d]))
    <3>1. /\ Moves(db, db', d) /\ db'.bundle[d].state = st
          /\ db'.bundle[d].entered = db.bundle[d].entered
      BY <1>3, <2>1, ReportsMove
    <3>2. Steady({d}) BY <1>3, <1>5, <2>1, <3>1, MovesSteady
    <3>3. ran[d] # "no" => Conclusive(db'.bundle[d])
      BY <1>3, <2>1, <3>1 DEF Conclusive, IsActive, ActiveStates
    <3> QED BY <3>1, <3>2, <3>3 DEF IsActive, ActiveStates
  <2>2. CASE IsActive(db, d) /\ ReportAcknowledged(d)
    <3>1. Steady({d}) /\ ~IsActive(db', d) /\ (ran[d] # "no" => Conclusive(db'.bundle[d]))
      BY <2>1, <2>2
    <3> QED BY <3>1
  <2>3. CASE IsActive(db, d) /\ ReportDeadLettered(d)
    <3>1. Steady({d}) /\ ~IsActive(db', d) /\ (ran[d] # "no" => Conclusive(db'.bundle[d]))
      BY <2>1, <2>3
    <3> QED BY <3>1
  <2>4. CASE ~IsActive(db, d) /\ UNCHANGED db
    <3>1. Steady({}) BY <1>5, <2>4, StillSteady
    <3> QED BY <2>4, <3>1
  <2> QED BY <1>6, <2>2, <2>3, <2>4
<1>8. /\ WorkHeld /\ work' \in [Endpoints -> Flows] /\ waiting' \in [Endpoints -> Seq(Bundles)]
      /\ work'[ep].pc \in {"end", "record_failure"}
      /\ \A e \in Endpoints \ {ep} : work'[e] = work[e]
  <2>1. "end" \in Steps \ {"none"} /\ "record_failure" \in Steps \ {"none"} BY DEF Steps
  <2>2. CASE Goto(ep, "end") BY <1>3, <2>1, <2>2, GotoWork
  <2>3. CASE Goto(ep, "record_failure") BY <1>3, <2>1, <2>3, GotoWork
  <2> QED BY <1>6, <2>2, <2>3
<1>9. FlowHeld(ep, X)
  <2>1. /\ work'[ep].pc # "inject" /\ work'[ep].pc # "adapt"
        /\ work'[ep].pc \notin {"run", "interrupted"}
    BY <1>8
  <2>2. \A x \in Bundles : ran'[x] # "no" <=> ran[x] # "no" BY <1>4
  <2>3. X \subseteq {work[ep].d} OBVIOUS
  <2> QED BY <1>3, <1>7, <1>8, <2>1, <2>2, <2>3, OneFlow
<1>10. UNCHANGED stream \/ stream' = stream \o Pushed BY <1>6
<1>11. \A x \in X : ~IsActive(db', x) BY <1>7
<1> QED BY <1>3, <1>4, <1>7, <1>8, <1>9, <1>10, <1>11, FlowKept

(* The flow says how its turn failed and ends. *)
LEMMA EndKept ==
  ASSUME BridgeInv, BridgeNext, NEW ep \in Endpoints, RecordFailure(ep) \/ End(ep)
  PROVE  BridgeInv'
<1> DEFINE d == work[ep].d
<1>1. PICK pc \in {"record_failure", "end"} : Flow(ep, pc) BY DEF RecordFailure, End
<1>2. pc \in Steps \ {"none"} /\ pc \notin Running BY DEF Steps, Running
<1>3. /\ boot # "down" /\ work[ep].pc = pc /\ work[ep].pc # "none" /\ d \in Existing
      /\ DeliveryInv
      /\ ran \in [Bundles -> {"no", "running", "completed", "failed", "lost"}]
  BY <1>1, <1>2, FlowFacts
<1>4. UNCHANGED <<boot, pass, budget, ran, cancelled>>
  BY DEF RecordFailure, End, Same, Still
<1>5. HistoryInv' BY HistoryKept
<1>6. /\ \/ RecordResult(d, "failed") /\ stream' = stream \o Pushed
         \/ TurnEnd(ep) /\ stream' = stream \o Pushed
         \/ UNCHANGED <<db, stream>>
      /\ Goto(ep, "end") \/ Unwind(ep)
  BY DEF RecordFailure, End, Bus, Local
<1>7. Steady({})
  <2>1. CASE RecordResult(d, "failed") BY <1>3, <1>5, <2>1, RecordResultGrows, GrowsSteady
  <2>2. CASE TurnEnd(ep) BY <1>3, <1>5, <2>2, EndpointReportsGrow, GrowsSteady
  <2>3. CASE UNCHANGED db BY <1>5, <2>3, StillSteady
  <2> QED BY <1>6, <2>1, <2>2, <2>3
<1>8. /\ WorkHeld /\ work' \in [Endpoints -> Flows] /\ waiting' \in [Endpoints -> Seq(Bundles)]
      /\ work'[ep].pc \in {"none", "start", "end"}
      /\ \A e \in Endpoints \ {ep} : work'[e] = work[e]
  <2>1. "end" \in Steps \ {"none"} BY DEF Steps
  <2>2. CASE Goto(ep, "end") BY <1>3, <2>1, <2>2, GotoWork
  <2>3. CASE Unwind(ep) BY <2>3, UnwindWork
  <2> QED BY <1>6, <2>2, <2>3
<1>9. FlowHeld(ep, {})
  <2>1. /\ work'[ep].pc # "inject" /\ work'[ep].pc # "adapt"
        /\ work'[ep].pc \notin {"run", "interrupted"} /\ work[ep].pc \notin Running
    BY <1>2, <1>3, <1>8
  <2>2. \A x \in Bundles : ran'[x] # "no" <=> ran[x] # "no" BY <1>4
  <2> QED BY <1>3, <1>8, <2>1, <2>2, OneFlowAlone
<1>10. UNCHANGED stream \/ stream' = stream \o Pushed BY <1>6
<1> QED BY <1>3, <1>4, <1>7, <1>8, <1>9, <1>10, FlowKept

(***************************************************************************)
(* Steps of people, of the Bus's timers and of a starting Bridge: the flows *)
(* of the endpoints stand still.                                            *)
(***************************************************************************)

(* The bundles X that move are held by no flow. *)
LEMMA AsideKept ==
  ASSUME BridgeInv, BridgeNext, NEW X, X \subseteq Existing, Steady(X), BootHeld(X),
         UNCHANGED <<work, waiting, ran, cancelled>>,
         UNCHANGED stream \/ stream' = stream \o Pushed,
         UNCHANGED budget, boot' \in Boots, pass' \subseteq Endpoints,
         \A d \in X : Conclusive(db.bundle[d]) => Conclusive(db'.bundle[d]),
         \A ep \in Endpoints : work[ep].d \notin X
  PROVE  BridgeInv'
<1>1. HistoryInv' BY HistoryKept
<1>2. StreamHeld /\ stream' \in Seq(Frames) BY <1>1, StillStream, PushedHeld DEF Steady
<1>3. WorkHeld /\ work' \in [Endpoints -> Flows] /\ waiting' \in [Endpoints -> Seq(Bundles)]
  BY StillWork
<1>4. BridgeTypeOK' BY <1>2, <1>3 DEF BridgeInv, BridgeTypeOK
<1>5. StopsHeld BY DEF StopsHeld
<1>6. FlowHeld(None, X)
  <2>1. None \notin Endpoints BY DeliveryAssumption
  <2>2. \A d \in Bundles : d \in X /\ ran[d] # "no" => Conclusive(db'.bundle[d])
    BY DEF BridgeInv, TurnsOK
  <2> QED BY <2>1, <2>2 DEF FlowHeld
<1> QED BY <1>1, <1>2, <1>3, <1>4, <1>5, <1>6, BridgeInvKept

(* No flow holds a bundle before registerBridge is done, nor one that is     *)
(* forgotten.                                                                *)
LEMMA NotHeld ==
  ASSUME BridgeInv, NEW d \in Existing, boot \in {"down", "register"} \/ Forgotten(d)
  PROVE  \A ep \in Endpoints : work[ep].d \notin {d}
<1>1. CASE Forgotten(d) BY <1>1 DEF Forgotten
<1>2. CASE boot \in {"down", "register"}
  <2>1. \A ep \in Endpoints : work[ep].d = 0 BY <1>2 DEF BridgeInv, HeldOK
  <2>2. d # 0 BY ExistingBundles DEF BridgeInv, HistoryInv, Bundles
  <2> QED BY <2>1, <2>2
<1> QED BY <1>1, <1>2

(* A bundle that was in a runtime and is settled stays conclusive. *)
LEMMA EndedConclusive ==
  ASSUME BridgeInv, NEW d \in Existing, IsActive(db, d),
         db'.bundle[d].entered = db.bundle[d].entered, db'.bundle[d].state # "deferred"
  PROVE  Conclusive(db.bundle[d]) => Conclusive(db'.bundle[d])
<1>1. db.bundle[d].state # "cancelled" BY DEF IsActive, ActiveStates
<1> QED BY <1>1 DEF Conclusive

LEMMA PersonKept ==
  ASSUME BridgeInv, BridgeNext, Person
  PROVE  BridgeInv'
<1>0. DeliveryInv BY DEF BridgeInv, HistoryInv
<1>1. HistoryInv' BY HistoryKept
<1>2. UNCHANGED <<boot, pass, work, waiting, cancelled, ran>> BY DEF Person
<1>3. BootHeld({}) BY <1>2, StillBoot
<1>4. boot' \in Boots /\ pass' \subseteq Endpoints BY <1>2 DEF BridgeInv, BridgeTypeOK
<1>5. CASE Spend("messages") /\ \E ep \in Endpoints : Bus(SubmitEvent(ep, None))
  <2>1. "messages" \in Allowances \ {"lapses"} BY DEF Allowances
  <2>2. PICK ep \in Endpoints : SubmitEvent(ep, None) /\ stream' = stream \o Pushed
    BY <1>5 DEF Bus
  <2>3. Grows(db, db') BY <1>0, <2>2, SubmitEventGrows
  <2>4. Steady({}) BY <1>1, <2>3, GrowsSteady
  <2> QED BY <1>2, <1>3, <1>4, <1>5, <2>1, <2>2, <2>4, QuietKept
<1>6. CASE /\ Spend("stops")
           /\ \E d \in Existing : /\ CancelRuntimeDelivery(d)
                                  /\ stream' = stream \o <<Frame("cancel", d)>> \o Pushed
  <2>1. "stops" \in Allowances \ {"lapses"} BY DEF Allowances
  <2>2. PICK d \in Existing : /\ CancelRuntimeDelivery(d)
                              /\ stream' = stream \o <<Frame("cancel", d)>> \o Pushed
    BY <1>6
  <2>3. /\ Moves(db, db', d) /\ IsActive(db, d) /\ db'.bundle[d].state = "cancelled"
        /\ db'.bundle[d].entered = db.bundle[d].entered
    BY <1>0, <2>2, CancelMoves
  <2>4. Steady({d}) BY <1>1, <2>3, MovesSteady
  <2>5. Conclusive(db'.bundle[d]) /\ ~IsActive(db', d)
    BY <2>3 DEF Conclusive, IsActive, ActiveStates
  <2>6. Steady({}) BY <2>4, <2>5, SteadyAll
  <2>7. StreamHeld /\ stream' \in Seq(Frames)
    <3> DEFINE f == Frame("cancel", d)
               q == stream \o <<f>>
    <3>1. f \in Frames /\ f.kind = "cancel" /\ f.d = d
      BY <1>0, ExistingBundles DEF Frame, Frames
    <3>2. stream \in Seq(Frames) BY DEF BridgeInv, BridgeTypeOK
    <3> HIDE DEF f
    <3>3. <<f>> \in Seq(Frames) /\ ToSet(<<f>>) = {f} BY <3>1, ToSetFew
    <3>4. q \in Seq(Frames) /\ \A x \in ToSet(q) : x \in ToSet(stream) \/ x = f
      BY <3>2, <3>3, ToSetConcat
    <3>5. stream' = q \o Pushed BY <2>2 DEF f
    <3>6. Pushed \in Seq(Frames)
          /\ \A x \in ToSet(Pushed) : x.kind = "available" /\ x.d \in Existing' \ Existing
      BY <1>1, PushedNew
    <3> HIDE DEF q
    <3>7. /\ stream' \in Seq(Frames)
          /\ \A x \in ToSet(stream') : x \in ToSet(q) \/ x \in ToSet(Pushed)
      BY <3>4, <3>5, <3>6, ToSetConcat
    <3> QED BY <2>3, <3>1, <3>4, <3>6, <3>7 DEF StreamHeld
  <2>8. WorkHeld /\ work' \in [Endpoints -> Flows] /\ waiting' \in [Endpoints -> Seq(Bundles)]
    BY <1>2, StillWork
  <2>9. budget' \in [Allowances -> Nat] /\ budget'["lapses"] = 0 BY <1>6, <2>1, Spending
  <2>10. BridgeTypeOK' BY <1>2, <2>7, <2>8, <2>9 DEF BridgeInv, BridgeTypeOK
  <2>11. StopsHeld BY <1>2 DEF StopsHeld
  <2>12. FlowHeld(None, {}) BY <1>2, BeginningFlows DEF Beginning
  <2> QED BY <1>1, <1>3, <2>6, <2>7, <2>8, <2>10, <2>11, <2>12, BridgeInvKept
<1> QED BY <1>5, <1>6 DEF Person

(* A lease lapses only on a bundle no flow holds: the Bridge renews the      *)
(* others (Lapses = 0).                                                      *)
LEMMA LapseKept ==
  ASSUME BridgeInv, BridgeNext, NEW d \in Existing, LeaseLapses(d),
         IF boot = "down" \/ Forgotten(d) THEN UNCHANGED budget ELSE Spend("lapses"),
         UNCHANGED <<boot, pass, work, waiting, cancelled, ran, stream>>
  PROVE  BridgeInv'
<1>0. DeliveryInv BY DEF BridgeInv, HistoryInv
<1>1. HistoryInv' BY HistoryKept
<1>2. ~Spend("lapses")
  <2>1. budget["lapses"] = 0 BY DEF BridgeInv, BridgeTypeOK
  <2> QED BY <2>1 DEF Spend
<1>3. (boot = "down" \/ Forgotten(d)) /\ UNCHANGED budget BY <1>2
<1>4. /\ Moves(db, db', d) /\ IsActive(db, d)
      /\ db'.bundle[d].state = db.bundle[d].state
      /\ db'.bundle[d].entered = db.bundle[d].entered
  BY <1>0, LapseMoves
<1>5. Steady({d}) BY <1>1, <1>4, MovesSteady
<1>6. \A ep \in Endpoints : work[ep].d \notin {d} BY <1>3, NotHeld
<1>7. Conclusive(db.bundle[d]) => Conclusive(db'.bundle[d]) BY <1>4 DEF Conclusive
<1>8. BootHeld({d}) BY <1>3, StillBoot
<1>9. boot' \in Boots /\ pass' \subseteq Endpoints BY DEF BridgeInv, BridgeTypeOK
<1> QED BY <1>3, <1>5, <1>6, <1>7, <1>8, <1>9, AsideKept

(* What requeueExpiredDeliveryLeases settles is held by no flow. *)
LEMMA ExpireKept ==
  ASSUME BridgeInv, BridgeNext, NEW d \in Existing, RequeueExpired(d), stream' = stream \o Pushed,
         UNCHANGED <<boot, pass, work, waiting, cancelled, ran, budget>>
  PROVE  BridgeInv'
<1>0. DeliveryInv BY DEF BridgeInv, HistoryInv
<1>1. HistoryInv' BY HistoryKept
<1>2. /\ Moves(db, db', d) /\ d \in Lapsed
      /\ db'.bundle[d].state \in {"failed", "dead_lettered"}
      /\ db'.bundle[d].entered = db.bundle[d].entered
  BY <1>0, ExpireMoves
<1>3. IsActive(db, d) BY <1>2 DEF Lapsed
<1>4. boot = "down" \/ Forgotten(d) BY <1>2 DEF BridgeInv, LeasesOK
<1>5. Steady({d}) BY <1>1, <1>2, <1>3, MovesSteady
<1>6. \A ep \in Endpoints : work[ep].d \notin {d} BY <1>4, NotHeld
<1>7. Conclusive(db.bundle[d]) => Conclusive(db'.bundle[d]) BY <1>2, <1>3, EndedConclusive
<1>8. BootHeld({d}) BY <1>4, StillBoot
<1>9. boot' \in Boots /\ pass' \subseteq Endpoints BY DEF BridgeInv, BridgeTypeOK
<1> QED BY <1>5, <1>6, <1>7, <1>8, <1>9, AsideKept

LEMMA ClockKept ==
  ASSUME BridgeInv, BridgeNext, Clock
  PROVE  BridgeInv'
<1>0. DeliveryInv BY DEF BridgeInv, HistoryInv
<1>1. UNCHANGED <<boot, pass, work, waiting, cancelled, ran>> BY DEF Clock
<1>2. CASE /\ \E d \in Existing :
                /\ LeaseLapses(d)
                /\ IF boot = "down" \/ Forgotten(d) THEN UNCHANGED budget ELSE Spend("lapses")
           /\ UNCHANGED stream
  BY <1>1, <1>2, LapseKept
<1>3. CASE (LeaseTimer \/ LeaseTimerDone) /\ UNCHANGED <<stream, budget>>
  <2>1. Steady({}) BY <1>0, <1>3, JobGrows, HistoryKept, GrowsSteady
  <2>2. BootHeld({}) BY <1>1, StillBoot
  <2>3. boot' \in Boots /\ pass' \subseteq Endpoints BY <1>1 DEF BridgeInv, BridgeTypeOK
  <2>4. \A d \in {} : Conclusive(db.bundle[d]) => Conclusive(db'.bundle[d]) OBVIOUS
  <2> QED BY <1>1, <1>3, <2>1, <2>2, <2>3, <2>4, AsideKept
<1>4. CASE Bus(\E d \in Existing : RequeueExpired(d)) /\ UNCHANGED budget
  <2>1. PICK d \in Existing : RequeueExpired(d) BY <1>4 DEF Bus
  <2>2. stream' = stream \o Pushed BY <1>4 DEF Bus
  <2> QED BY <1>1, <1>4, <2>1, <2>2, ExpireKept
<1> QED BY <1>2, <1>3, <1>4 DEF Clock

(* Once registerBridge is done no turn of an earlier process is live. *)
LEMMA NoneAbandoned ==
  ASSUME BridgeInv, Abandoned = {}
  PROVE  \A d \in Bundles : ran[d] # "no" => ~IsActive(db, d)
<1>0. DeliveryInv BY DEF BridgeInv, HistoryInv
<1> SUFFICES ASSUME NEW d \in Bundles, ran[d] # "no", IsActive(db, d) PROVE FALSE
  OBVIOUS
<1>1. d \in Existing /\ Conclusive(db.bundle[d]) BY DEF BridgeInv, TurnsOK
<1>2. Consistent(db) /\ d \in 1 .. db.nb BY <1>0, <1>1 DEF DeliveryInv, Existing
<1>3. db.bundle[d].entered BY <1>1, <1>2, EnteredConclusive
<1>4. Owned(d) BY <1>1, <1>3 DEF BridgeInv, TurnsOK
<1>5. db.bundle[d].state = "injected_to_runtime"
  BY <1>2, <1>3 DEF Consistent, BundlesLinked, IsActive, ActiveStates
<1> QED BY <1>1, <1>4, <1>5 DEF Abandoned

LEMMA RegisterKept ==
  ASSUME BridgeInv, BridgeNext, Register, Quiet, UNCHANGED cancelled
  PROVE  BridgeInv'
<1>0. DeliveryInv BY DEF BridgeInv, HistoryInv
<1>1. HistoryInv' BY HistoryKept
<1>2. UNCHANGED <<work, waiting, ran, cancelled, budget>> BY DEF Register, Quiet
<1>3. pass \subseteq Endpoints BY DEF BridgeInv, BridgeTypeOK
<1>4. \A d \in {} : Conclusive(db.bundle[d]) => Conclusive(db'.bundle[d]) OBVIOUS
<1>5. CASE /\ boot = "down" /\ Lapsed = {} /\ RegisterBridge
           /\ boot' = "register" /\ UNCHANGED <<pass, stream>>
  <2>1. Grows(db, db') /\ db'.bundle = db.bundle /\ db'.nb = db.nb BY <1>0, <1>5, JobGrows
  <2>2. Steady({}) BY <1>1, <2>1, GrowsSteady
  <2>3. Lapsed' = {} BY <1>5, <2>1 DEF Lapsed, Existing, IsActive
  <2>4. \A ep \in Endpoints : work[ep] = NoWork /\ waiting[ep] = <<>>
    BY <1>5, HeldNow DEF BridgeInv, HeldOK
  <2>5. BootHeld({}) BY <1>2, <1>5, <2>3, <2>4 DEF BootHeld
  <2>6. boot' \in Boots BY <1>5 DEF Boots
  <2> QED BY <1>2, <1>3, <1>4, <1>5, <2>2, <2>5, <2>6, AsideKept
<1>6. CASE boot = "register" /\ Bus(AbandonTurn) /\ UNCHANGED <<boot, pass>>
  <2>1. AbandonTurn /\ stream' = stream \o Pushed BY <1>6 DEF Bus
  <2>2. PICK d \in Existing :
          /\ Moves(db, db', d) /\ IsActive(db, d) /\ db'.bundle[d].state = "dead_lettered"
          /\ db'.bundle[d].entered = db.bundle[d].entered
    BY <1>0, <2>1, AbandonMoves
  <2>3. Steady({d}) BY <1>1, <2>2, MovesSteady
  <2>4. \A ep \in Endpoints : work[ep].d \notin {d} BY <1>6, NotHeld
  <2>5. Conclusive(db.bundle[d]) => Conclusive(db'.bundle[d]) BY <2>2, EndedConclusive
  <2>6. BootHeld({d})
    <3>1. d \notin Lapsed' BY <2>2 DEF Lapsed, IsActive, ActiveStates
    <3> QED BY <1>2, <1>6, <3>1, StillBoot
  <2>7. boot' \in Boots BY <1>6 DEF Boots
  <2> QED BY <1>2, <1>3, <1>6, <2>1, <2>3, <2>4, <2>5, <2>6, <2>7, AsideKept
<1>7. CASE /\ boot = "register" /\ RegisterBridgeDone
           /\ boot' = "attach" /\ pass' = Endpoints /\ UNCHANGED stream
  <2>1. Steady({}) BY <1>0, <1>1, <1>7, JobGrows, GrowsSteady
  <2>2. Abandoned = {} BY <1>7 DEF RegisterBridgeDone
  <2>3. \A d \in Bundles : ran[d] # "no" => ~IsActive(db, d) BY <2>2, NoneAbandoned
  <2>4. BootHeld({}) BY <1>7, <2>3 DEF BootHeld
  <2>5. boot' \in Boots BY <1>7 DEF Boots
  <2> QED BY <1>2, <1>4, <1>7, <2>1, <2>4, <2>5, AsideKept
<1> QED BY <1>5, <1>6, <1>7 DEF Register

LEMMA AttachKept ==
  ASSUME BridgeInv, BridgeNext, Attach, Quiet, UNCHANGED cancelled
  PROVE  BridgeInv'
<1>0. DeliveryInv /\ pass \subseteq Endpoints BY DEF BridgeInv, HistoryInv, BridgeTypeOK
<1>1. HistoryInv' BY HistoryKept
<1>2. PICK ep \in pass :
        /\ RegisterEndpoint(ep, "idle") /\ stream' = stream \o Pushed /\ pass' = pass \ {ep}
        /\ boot' \in {boot, "claim", "reclaim"}
  BY DEF Attach, Bus
<1>3. boot \in {"attach", "reattach"} /\ UNCHANGED <<work, waiting, ran, cancelled, budget>>
  BY DEF Attach, Quiet
<1>4. Grows(db, db') BY <1>0, <1>2, RegisterEndpointGrows
<1>5. Steady({}) BY <1>1, <1>4, GrowsSteady
<1>6. BootHeld({}) BY <1>2, <1>3 DEF BootHeld
<1>7. boot' \in Boots /\ pass' \subseteq Endpoints BY <1>0, <1>2, <1>3 DEF Boots
<1>8. \A d \in {} : Conclusive(db.bundle[d]) => Conclusive(db'.bundle[d]) OBVIOUS
<1> QED BY <1>2, <1>3, <1>5, <1>6, <1>7, <1>8, AsideKept

(* claimDeliveries changes only that reservations are the Bridge's now. *)
LEMMA ClaimSteady ==
  ASSUME BridgeInv, HistoryInv', ClaimDeliveries
  PROVE  Steady({})
<1>0. DeliveryInv /\ TurnsOK BY DEF BridgeInv, HistoryInv
<1>1. Moves(db, db', 0) /\ \A e \in Bundles : Claims(db.bundle[e], db'.bundle[e])
  BY <1>0, ClaimDeliveriesMoves
<1>2. \A e \in Existing : db'.bundle[e].row = db.bundle[e].row
  BY <1>0, <1>1, ExistingBundles DEF Moves
<1>3. /\ Existing \subseteq Existing'
      /\ \A e \in Existing : EndpointOf(db', e) = EndpointOf(db, e) /\ (Owned(e) => Owned(e)')
      /\ \A e \in Existing' \ Existing : Fresh(db'.bundle[e])
  BY <1>1, <1>2, OnwardFacts DEF Moves
<1>4. ASSUME NEW e \in Existing
      PROVE  /\ IsActive(db', e) <=> IsActive(db, e)
             /\ db.bundle[e].state = "cancelled" => db'.bundle[e].state = "cancelled"
             /\ db.bundle[e].state # "reserved" => db'.bundle[e].state # "reserved"
             /\ Conclusive(db.bundle[e]) => Conclusive(db'.bundle[e])
             /\ db'.bundle[e].lease = db.bundle[e].lease
             /\ db'.bundle[e].entered => Owned(e)'
  <2>1. Claims(db.bundle[e], db'.bundle[e]) BY <1>0, <1>1, ExistingBundles
  <2>2. db'.bundle[e].entered => Owned(e)' BY <1>0, <1>3, <2>1 DEF Claims, TurnsOK
  <2> QED BY <2>1, <2>2 DEF Claims, IsActive, ActiveStates, Conclusive
<1> QED BY <1>3, <1>4 DEF Steady

LEMMA TailHeld ==
  ASSUME BridgeInv, stream # <<>>, stream' = Tail(stream)
  PROVE  /\ StreamHeld /\ stream' \in Seq(Frames)
         /\ Head(stream) \in ToSet(stream) /\ Head(stream).d \in Existing
         /\ Head(stream) \in Frames
<1>1. stream \in Seq(Frames) BY DEF BridgeInv, BridgeTypeOK
<1>2. /\ stream' \in Seq(Frames) /\ Head(stream) \in ToSet(stream)
      /\ \A f \in ToSet(stream') : f \in ToSet(stream)
  BY <1>1, ToSetTail
<1>3. Head(stream) \in Frames BY <1>1
<1>4. Head(stream).d \in Existing BY <1>2 DEF BridgeInv, HeldOK
<1> QED BY <1>2, <1>3, <1>4 DEF StreamHeld

(* A step that puts bundles before the endpoints and lets idle ones begin. *)
LEMMA BeginningKept ==
  ASSUME BridgeInv, BridgeNext, Steady({}), WorkHeld, Beginning,
         work' \in [Endpoints -> Flows], waiting' \in [Endpoints -> Seq(Bundles)],
         UNCHANGED <<ran, budget, cancelled, pass>>,
         boot \notin {"down", "register"}, boot' \in Boots \ {"down", "register"},
         UNCHANGED stream \/ (stream # <<>> /\ stream' = Tail(stream))
  PROVE  BridgeInv'
<1>1. HistoryInv' BY HistoryKept
<1>2. StreamHeld /\ stream' \in Seq(Frames) BY StillStream, TailHeld
<1>3. BridgeTypeOK' BY <1>2 DEF BridgeInv, BridgeTypeOK
<1>4. StopsHeld BY DEF StopsHeld
<1>5. FlowHeld(None, {}) BY BeginningFlows
<1>6. BootHeld({}) BY DEF BootHeld
<1> QED BY <1>1, <1>2, <1>3, <1>4, <1>5, <1>6, BridgeInvKept

LEMMA ClaimKept ==
  ASSUME BridgeInv, BridgeNext, Claim, Quiet, UNCHANGED cancelled
  PROVE  BridgeInv'
<1>1. /\ boot \in {"claim", "reclaim"} /\ ProcessDeliveries /\ boot' = "up"
      /\ UNCHANGED <<ran, budget, cancelled, pass, stream>>
  BY DEF Claim, Quiet
<1>2. Steady({}) BY <1>1, HistoryKept, ClaimSteady DEF ProcessDeliveries
<1>3. /\ WorkHeld /\ work' \in [Endpoints -> Flows] /\ waiting' \in [Endpoints -> Seq(Bundles)]
      /\ Beginning
  BY <1>1, ClaimWork
<1>4. boot' \in Boots \ {"down", "register"} BY <1>1 DEF Boots
<1> QED BY <1>1, <1>2, <1>3, <1>4, BeginningKept

LEMMA StartKept ==
  ASSUME BridgeInv, BridgeNext, Start
  PROVE  BridgeInv'
BY RegisterKept, AttachKept, ClaimKept DEF Start

LEMMA InterruptKept ==
  ASSUME BridgeInv, BridgeNext, stream # <<>>, stream' = Tail(stream),
         boot \in {"attach", "claim", "up"}, Quiet, UNCHANGED <<boot, pass>>,
         Head(stream).kind = "cancel", Interrupt(Head(stream).d)
  PROVE  BridgeInv'
<1> DEFINE d == Head(stream).d
           ep == EndpointOf(db, d)
<1>0. DeliveryInv BY DEF BridgeInv, HistoryInv
<1>1. HistoryInv' BY HistoryKept
<1>2. /\ StreamHeld /\ stream' \in Seq(Frames) /\ d \in Existing
      /\ Head(stream) \in ToSet(stream) /\ Head(stream) \in Frames
  BY TailHeld
<1>3. Frame("cancel", d) \in ToSet(stream) BY <1>2 DEF Frame, Frames
<1>4. cancelled' = cancelled \cup {d} /\ UNCHANGED <<db, waiting, ran, budget>>
  BY DEF Interrupt, Quiet
<1>5. Steady({}) BY <1>1, <1>4, StillSteady
<1>6. StopsHeld BY <1>3, <1>4 DEF StopsHeld
<1>7. BootHeld({}) BY DEF BootHeld
<1>8. cancelled' \subseteq Bundles
  BY <1>0, <1>2, <1>4, ExistingBundles DEF BridgeInv, BridgeTypeOK
<1>9. ep \in Endpoints BY <1>0, <1>2, OwnedFacts
<1>10. \E on : /\ WorkHeld /\ work' \in [Endpoints -> Flows]
               /\ waiting' \in [Endpoints -> Seq(Bundles)] /\ FlowHeld(on, {})
  <2>1. CASE UNCHANGED work
    BY <1>4, <2>1, StillWork, BeginningFlows DEF Beginning
  <2>2. CASE work[ep].d = d /\ work[ep].pc = "run" /\ Goto(ep, "interrupted")
    <3>1. "interrupted" \in Steps \ {"none"} BY DEF Steps
    <3>2. /\ WorkHeld /\ work' \in [Endpoints -> Flows]
          /\ waiting' \in [Endpoints -> Seq(Bundles)]
          /\ work'[ep].d = work[ep].d /\ work'[ep].pc = "interrupted"
          /\ \A e \in Endpoints \ {ep} : work'[e] = work[e]
      BY <1>9, <2>2, <3>1, GotoWork
    <3>3. ran[work[ep].d] # "no" BY <1>9, <2>2 DEF BridgeInv, TurnsOK
    <3> HIDE DEF ep, d
    <3>4. FlowHeld(ep, {}) BY <1>4, <1>9, <3>2, <3>3 DEF FlowHeld, Running
    <3> QED BY <3>2, <3>4
  <2> QED BY <1>4, <2>1, <2>2 DEF Interrupt, Goto
<1>11. BridgeTypeOK' BY <1>2, <1>4, <1>8, <1>10 DEF BridgeInv, BridgeTypeOK
<1> QED BY <1>1, <1>2, <1>5, <1>6, <1>7, <1>10, <1>11, BridgeInvKept

LEMMA HandleKept ==
  ASSUME BridgeInv, BridgeNext, Handle
  PROVE  BridgeInv'
<1> DEFINE d == Head(stream).d
<1>1. /\ boot \in {"attach", "claim", "up"} /\ stream # <<>> /\ stream' = Tail(stream)
      /\ Quiet /\ UNCHANGED <<boot, pass, ran, budget>>
  BY DEF Handle, Quiet
<1>2. boot' \in Boots \ {"down", "register"} BY <1>1 DEF Boots
<1>3. d \in Existing /\ Head(stream) \in ToSet(stream) /\ Head(stream) \in Frames
  BY <1>1, TailHeld
<1>4. CASE Head(stream).kind = "cancel" /\ Interrupt(d) BY <1>1, <1>4, InterruptKept
<1>5. CASE Head(stream).kind = "available" /\ Take(d)
  <2>1. Frame("available", d) \in ToSet(stream) BY <1>3, <1>5 DEF Frame, Frames
  <2>2. /\ WorkHeld /\ work' \in [Endpoints -> Flows] /\ waiting' \in [Endpoints -> Seq(Bundles)]
        /\ Beginning
    BY <1>3, <1>5, <2>1, TakeWork
  <2>3. UNCHANGED <<db, cancelled>> BY <1>5 DEF Take
  <2>4. Steady({}) BY <2>3, HistoryKept, StillSteady
  <2> QED BY <1>1, <1>2, <2>2, <2>3, <2>4, BeginningKept
<1>6. CASE ProcessDeliveries /\ UNCHANGED cancelled
  <2>1. /\ WorkHeld /\ work' \in [Endpoints -> Flows] /\ waiting' \in [Endpoints -> Seq(Bundles)]
        /\ Beginning
    BY <1>6, ClaimWork
  <2>2. Steady({}) BY <1>6, HistoryKept, ClaimSteady DEF ProcessDeliveries
  <2> QED BY <1>1, <1>2, <1>6, <2>1, <2>2, BeginningKept
<1> QED BY <1>4, <1>5, <1>6 DEF Handle

(* A process that dies takes its flows with it; what it ran is lost. *)
LEMMA BridgeDiesKept ==
  ASSUME BridgeInv, BridgeNext, BridgeDies
  PROVE  BridgeInv'
<1>1. HistoryInv' BY HistoryKept
<1>2. /\ boot' = "down" /\ pass' = {} /\ cancelled' = {} /\ UNCHANGED <<db, stream>>
      /\ \A ep \in Endpoints : work'[ep] = NoWork /\ waiting'[ep] = <<>>
      /\ work' \in [Endpoints -> {NoWork}] /\ waiting' \in [Endpoints -> {<<>>}]
      /\ ran' = [d \in Bundles |-> IF ran[d] = "running" THEN "lost" ELSE ran[d]]
  BY DEF BridgeDies
<1>3. budget' \in [Allowances -> Nat] /\ budget'["lapses"] = 0
  <2>1. "crashes" \in Allowances \ {"lapses"} BY DEF Allowances
  <2> QED BY <2>1, Spending DEF BridgeDies
<1>4. BridgeTypeOK /\ HeldOK /\ StopsOK /\ TurnsOK BY DEF BridgeInv
<1>5. NoWork \in Flows /\ NoWork.d = 0 /\ NoWork.pc = "none"
  BY BoundsNat DEF NoWork, Flows, Steps
<1>6. /\ ran' \in [Bundles -> {"no", "running", "completed", "failed", "lost"}]
      /\ \A d \in Bundles : ran'[d] # "no" => ran[d] # "no"
  BY <1>2, <1>4 DEF BridgeTypeOK
<1>7. BridgeTypeOK'
  <2>1. work' \in [Endpoints -> Flows] BY <1>2, <1>5
  <2>2. waiting' \in [Endpoints -> Seq(Bundles)]
    <3>1. <<>> \in Seq(Bundles) OBVIOUS
    <3>2. {<<>>} \subseteq Seq(Bundles) BY <3>1
    <3> QED BY <1>2, <3>2
  <2>3. boot' \in Boots BY <1>2 DEF Boots
  <2>4. stream' \in Seq(Frames) BY <1>2, <1>4 DEF BridgeTypeOK
  <2> QED BY <1>2, <1>3, <1>6, <2>1, <2>2, <2>3, <2>4 DEF BridgeTypeOK
<1>8. HeldOK'
  <2>1. \A ep \in Endpoints : \A d \in ToSet(waiting'[ep]) : FALSE BY <1>2, ToSetFew
  <2>2. \A f \in ToSet(stream') : f.d \in Existing' BY <1>2, <1>4 DEF HeldOK, Existing
  <2> QED BY <1>2, <1>5, <2>1, <2>2 DEF HeldOK
<1>9. LeasesOK' BY <1>2 DEF LeasesOK
<1>10. StopsOK' BY <1>2, <1>4 DEF StopsOK
<1>11. TurnsOK' BY <1>2, <1>4, <1>5, <1>6 DEF TurnsOK, Existing, Owned, IsActive, EndpointOf
<1> QED BY <1>1, <1>7, <1>8, <1>9, <1>10, <1>11 DEF BridgeInv

(* Reports and requests the flows stand still for, and the engine. *)
LEMMA AloneKept ==
  ASSUME BridgeInv, BridgeNext,
         \/ Reattach \/ EngineLost \/ EngineReady
         \/ \E ep \in Endpoints : AskActor(ep) \/ IdleCall(ep)
  PROVE  BridgeInv'
<1>0. DeliveryInv /\ boot \in Boots /\ pass \subseteq Endpoints
  BY DEF BridgeInv, HistoryInv, BridgeTypeOK
<1>1. HistoryInv' BY HistoryKept
<1>2. CASE Reattach
  <2>1. /\ boot = "up" /\ boot' = "reattach" /\ pass' = Endpoints /\ Spend("reattaches")
        /\ UNCHANGED <<db, stream, work, waiting, cancelled, ran>>
    BY <1>2 DEF Reattach
  <2>2. Steady({}) BY <1>1, <2>1, StillSteady
  <2>3. BootHeld({}) BY <2>1 DEF BootHeld
  <2>4. "reattaches" \in Allowances \ {"lapses"} /\ boot' \in Boots BY <2>1 DEF Allowances, Boots
  <2> QED BY <2>1, <2>2, <2>3, <2>4, QuietKept
<1>3. CASE EngineLost \/ EngineReady
  <2>1. /\ Spend("flaps") \/ UNCHANGED budget
        /\ UNCHANGED <<db, boot, pass, stream, work, waiting, cancelled, ran>>
    BY <1>3 DEF EngineLost, EngineReady, bridge
  <2>2. Steady({}) BY <1>1, <2>1, StillSteady
  <2>3. BootHeld({}) BY <2>1, StillBoot
  <2>4. "flaps" \in Allowances \ {"lapses"} BY DEF Allowances
  <2> QED BY <1>0, <2>1, <2>2, <2>3, <2>4, QuietKept
<1>4. CASE \E ep \in Endpoints : AskActor(ep)
  <2>1. PICK ep \in Endpoints : AskActor(ep) BY <1>4
  <2>2. /\ Flow(ep, "run") /\ Spend("asks") /\ stream' = stream \o Pushed
        /\ UNCHANGED <<boot, pass, work, waiting, cancelled, ran>>
    BY <2>1 DEF AskActor, Bus
  <2>3. PICK to \in Endpoints : SubmitRequest(work[ep].d, to) BY <2>1 DEF AskActor, Bus
  <2>4. "run" \in Steps \ {"none"} BY DEF Steps
  <2>5. work[ep].d \in Existing BY <2>2, <2>4, FlowFacts
  <2>6. Steady({}) BY <1>0, <1>1, <2>3, <2>5, SubmitRequestGrows, GrowsSteady
  <2>7. BootHeld({}) BY <2>2, StillBoot
  <2>8. "asks" \in Allowances \ {"lapses"} BY DEF Allowances
  <2> QED BY <1>0, <2>2, <2>6, <2>7, <2>8, QuietKept
<1>5. CASE \E ep \in Endpoints : IdleCall(ep)
  <2>1. PICK ep \in Endpoints : IdleCall(ep) BY <1>5
  <2>2. /\ \/ ReportEndpointStatus(ep, "idle") /\ stream' = stream \o Pushed
           \/ UNCHANGED <<db, stream>>
        /\ UNCHANGED <<boot, pass, work, waiting, cancelled, ran, budget>>
    BY <2>1 DEF IdleCall, Bus, Local, Quiet
  <2>3. Steady({})
    <3>1. CASE ReportEndpointStatus(ep, "idle")
      BY <1>0, <1>1, <3>1, EndpointReportsGrow, GrowsSteady
    <3>2. CASE UNCHANGED db BY <1>1, <3>2, StillSteady
    <3> QED BY <2>2, <3>1, <3>2
  <2>4. BootHeld({}) BY <2>2, StillBoot
  <2>5. "asks" \in Allowances \ {"lapses"} BY DEF Allowances
  <2>6. UNCHANGED stream \/ stream' = stream \o Pushed BY <2>2
  <2> QED BY <1>0, <2>2, <2>3, <2>4, <2>5, <2>6, QuietKept
<1> QED BY <1>2, <1>3, <1>4, <1>5

LEMMA HandleDeliveryKept ==
  ASSUME BridgeInv, BridgeNext, NEW ep \in Endpoints, HandleDelivery(ep)
  PROVE  BridgeInv'
BY LocalStepsKept, HandBackKept, PrepareKept, InjectKept, BeginTurnKept, TurnEndsKept,
   LastReportKept, EndKept DEF HandleDelivery

(* BridgeInv is inductive. *)
LEMMA BridgeStep ==
  ASSUME BridgeInv, [BridgeNext]_vars
  PROVE  BridgeInv'
<1>1. CASE BridgeNext
  BY <1>1, PersonKept, ClockKept, StartKept, HandleKept, BridgeDiesKept, AloneKept,
     HandleDeliveryKept DEF BridgeNext
<1>2. CASE UNCHANGED vars
  <2>1. UNCHANGED <<db, boot, pass, stream, work, waiting, cancelled, ran, budget>>
    BY <1>2 DEF vars, bridge
  <2>2. HistoryInv'
    <3>1. [Next]_db BY <2>1
    <3> QED BY <3>1, HistoryStep DEF BridgeInv
  <2>3. BridgeTypeOK' BY <2>1 DEF BridgeInv, BridgeTypeOK
  <2>4. HeldOK' /\ StopsOK' BY <2>1 DEF BridgeInv, HeldOK, StopsOK, Existing, EndpointOf
  <2>5. LeasesOK' BY <2>1 DEF BridgeInv, LeasesOK, Lapsed, Forgotten, Existing, IsActive
  <2>6. TurnsOK' BY <2>1 DEF BridgeInv, TurnsOK, Existing, Owned, IsActive, EndpointOf
  <2> QED BY <2>2, <2>3, <2>4, <2>5, <2>6 DEF BridgeInv
<1> QED BY <1>1, <1>2

(***************************************************************************)
(* What every step does to rows, bundles and turns.                         *)
(***************************************************************************)

(* Steps of the flows. *)
LEMMA FlowOnward ==
  ASSUME BridgeInv, NEW ep \in Endpoints, HandleDelivery(ep)
  PROVE  /\ Follows(db, db')
         /\ \A x \in Bundles : ran[x] # "no" => ran'[x] # "no"
<1> DEFINE d == work[ep].d
<1>0. /\ DeliveryInv /\ db \in Database
      /\ ran \in [Bundles -> {"no", "running", "completed", "failed", "lost"}]
  BY DEF BridgeInv, HistoryInv, BridgeTypeOK, DeliveryInv, Consistent
<1>1. d \in Existing
  <2>1. work[ep].pc # "none"
    BY DEF HandleDelivery, Flow, Begin, Gate, Defer, Recheck, Prepare, Inject, BeginTurn,
           Decline, HandBack, Complete, FailTurn, Acknowledge, DeadLetter, RecordFailure, End
  <2> QED BY <2>1 DEF BridgeInv, HeldOK
<1>2. CASE Begin(ep) \/ Gate(ep) \/ Recheck(ep) \/ BeginTurn(ep) \/ Decline(ep) \/ FailTurn(ep)
  <2>1. UNCHANGED db
    BY <1>2 DEF Begin, Gate, Recheck, BeginTurn, Decline, FailTurn, Local
  <2>2. \/ UNCHANGED ran \/ ran' = [ran EXCEPT ![d] = "running"]
        \/ ran' = [ran EXCEPT ![d] = "failed"]
    BY <1>2 DEF Begin, Gate, Recheck, BeginTurn, Decline, FailTurn
  <2>3. Follows(db, db') BY <1>0, <2>1, GrowsItself DEF Grows, Follows
  <2>4. \A x \in Bundles : ran[x] # "no" => ran'[x] # "no" BY <1>0, <2>2
  <2> QED BY <2>3, <2>4
<1>3. CASE \/ Defer(ep) \/ HandBack(ep) \/ Prepare(ep) \/ Inject(ep) \/ Complete(ep)
           \/ Acknowledge(ep) \/ DeadLetter(ep) \/ RecordFailure(ep) \/ End(ep)
  <2>1. \/ UNCHANGED db
        \/ ReportDeferred(d) \/ PrepareRuntimeDelivery(d, TRUE) \/ ReportInjected(d)
        \/ ReportAcknowledged(d) \/ ReportDeadLettered(d)
        \/ RecordResult(d, "completed") \/ RecordResult(d, "failed") \/ TurnEnd(ep)
    BY <1>3 DEF Defer, HandBack, Prepare, Inject, Complete, Acknowledge, DeadLetter,
                RecordFailure, End, Report, Bus, Local
  <2>2. UNCHANGED ran \/ ran' = [ran EXCEPT ![d] = "completed"]
    BY <1>3 DEF Defer, HandBack, Prepare, Inject, Complete, Acknowledge, DeadLetter,
                RecordFailure, End
  <2>3. Follows(db, db')
    <3>1. CASE UNCHANGED db BY <1>0, <3>1, GrowsItself DEF Grows, Follows
    <3>2. CASE ReportDeferred(d) BY <1>0, <1>1, <3>2, DeferMoves DEF Moves, Follows
    <3>3. CASE PrepareRuntimeDelivery(d, TRUE) BY <1>0, <1>1, <3>3, PrepareMoves DEF Moves, Follows
    <3>4. CASE ReportInjected(d) BY <1>0, <1>1, <3>4, InjectedMoves DEF Moves, Follows
    <3>5. CASE ReportAcknowledged(d)
      <4>1. Moves(db, db', d) BY <1>0, <1>1, <3>5, ReportsMove
      <4> QED BY <4>1 DEF Moves, Follows
    <3>6. CASE ReportDeadLettered(d)
      <4>1. Moves(db, db', d) BY <1>0, <1>1, <3>6, ReportsMove
      <4> QED BY <4>1 DEF Moves, Follows
    <3>7. CASE RecordResult(d, "completed") \/ RecordResult(d, "failed")
      BY <1>0, <1>1, <3>7, RecordResultGrows DEF Grows, Follows
    <3>8. CASE TurnEnd(ep) BY <1>0, <3>8, EndpointReportsGrow DEF Grows, Follows
    <3> QED BY <2>1, <3>1, <3>2, <3>3, <3>4, <3>5, <3>6, <3>7, <3>8
  <2>4. \A x \in Bundles : ran[x] # "no" => ran'[x] # "no" BY <1>0, <2>2
  <2> QED BY <2>3, <2>4
<1> QED BY <1>2, <1>3 DEF HandleDelivery

LEMMA StepOnward ==
  ASSUME BridgeInv, BridgeNext
  PROVE  /\ Follows(db, db')
         /\ \A x \in Bundles : ran[x] # "no" => ran'[x] # "no"
<1>0. /\ DeliveryInv /\ db \in Database
      /\ ran \in [Bundles -> {"no", "running", "completed", "failed", "lost"}]
  BY DEF BridgeInv, HistoryInv, BridgeTypeOK, DeliveryInv, Consistent
<1>1. UNCHANGED db => Follows(db, db') BY <1>0, GrowsItself DEF Grows, Follows
<1>2. CASE Person
  <2>1. UNCHANGED ran BY <1>2 DEF Person
  <2>2. \/ \E ep \in Endpoints : SubmitEvent(ep, None)
        \/ \E d \in Existing : CancelRuntimeDelivery(d)
    BY <1>2 DEF Person, Bus
  <2>3. Follows(db, db')
    BY <1>0, <2>2, SubmitEventGrows, CancelMoves DEF Grows, Moves, Follows
  <2> QED BY <2>1, <2>3
<1>3. CASE Clock
  <2>1. UNCHANGED ran BY <1>3 DEF Clock
  <2>2. \/ \E d \in Existing : LeaseLapses(d) \/ RequeueExpired(d)
        \/ LeaseTimer \/ LeaseTimerDone
    BY <1>3 DEF Clock, Bus
  <2>3. Follows(db, db')
    BY <1>0, <2>2, LapseMoves, ExpireMoves, JobGrows DEF Grows, Moves, Follows
  <2> QED BY <2>1, <2>3
<1>4. CASE Start
  <2>1. UNCHANGED ran BY <1>4 DEF Start, Quiet
  <2>2. CASE Register
    <3>1. RegisterBridge \/ AbandonTurn \/ RegisterBridgeDone BY <2>2 DEF Register, Bus
    <3> QED BY <1>0, <2>1, <3>1, JobGrows, AbandonMoves DEF Grows, Moves, Follows
  <2>3. CASE Attach
    <3>1. PICK ep \in Endpoints : RegisterEndpoint(ep, "idle")
      BY <2>3 DEF Attach, Bus, BridgeInv, BridgeTypeOK
    <3> QED BY <1>0, <2>1, <3>1, RegisterEndpointGrows DEF Grows, Follows
  <2>4. CASE Claim
    <3>1. Moves(db, db', 0) BY <1>0, <2>4, ClaimDeliveriesMoves DEF Claim, ProcessDeliveries
    <3> QED BY <2>1, <3>1 DEF Moves, Follows
  <2> QED BY <1>4, <2>2, <2>3, <2>4 DEF Start
<1>5. CASE Reattach \/ EngineLost \/ EngineReady
  BY <1>1, <1>5 DEF Reattach, EngineLost, EngineReady
<1>6. CASE Handle
  <2>1. UNCHANGED ran BY <1>6 DEF Handle, Quiet
  <2>2. UNCHANGED db \/ ClaimDeliveries
    BY <1>6 DEF Handle, Interrupt, Take, ProcessDeliveries
  <2>3. CASE ClaimDeliveries
    <3>1. Moves(db, db', 0) BY <1>0, <2>3, ClaimDeliveriesMoves
    <3> QED BY <2>1, <3>1 DEF Moves, Follows
  <2> QED BY <1>1, <2>1, <2>2, <2>3
<1>7. CASE BridgeDies
  <2>1. /\ UNCHANGED db
        /\ ran' = [d \in Bundles |-> IF ran[d] = "running" THEN "lost" ELSE ran[d]]
    BY <1>7 DEF BridgeDies
  <2>2. \A x \in Bundles : ran[x] # "no" => ran'[x] # "no" BY <2>1
  <2> QED BY <1>1, <2>1, <2>2
<1>8. CASE \E ep \in Endpoints : HandleDelivery(ep) BY <1>8, FlowOnward
<1>9. CASE \E ep \in Endpoints : AskActor(ep)
  <2>1. PICK ep \in Endpoints : AskActor(ep) BY <1>9
  <2>2. PICK to \in Endpoints : SubmitRequest(work[ep].d, to) BY <2>1 DEF AskActor, Bus
  <2>3. "run" \in Steps \ {"none"} /\ Flow(ep, "run") BY <2>1 DEF Steps, AskActor
  <2>4. work[ep].d \in Existing BY <2>3, FlowFacts
  <2>5. Grows(db, db') BY <1>0, <2>2, <2>4, SubmitRequestGrows
  <2> QED BY <2>1, <2>5 DEF Grows, Follows, AskActor
<1>10. CASE \E ep \in Endpoints : IdleCall(ep)
  <2>1. PICK ep \in Endpoints : IdleCall(ep) BY <1>10
  <2>2. (UNCHANGED db \/ ReportEndpointStatus(ep, "idle")) /\ UNCHANGED ran
    BY <2>1 DEF IdleCall, Bus, Local, Quiet
  <2>3. Follows(db, db') BY <1>0, <1>1, <2>2, EndpointReportsGrow DEF Grows, Follows
  <2> QED BY <2>2, <2>3
<1> QED BY <1>2, <1>3, <1>4, <1>5, <1>6, <1>7, <1>8, <1>9, <1>10 DEF BridgeNext

(* What the contract sees of a row. *)
LEMMA ItemIs ==
  ASSUME NEW r \in Rows
  PROVE  /\ db.row[r].state = "none" => Item[r] = "new"
         /\ db.row[r].state = "queued" => Item[r] = "waiting"
         /\ db.row[r].state \notin ActiveStates \cup {"none", "queued"} => Item[r] = "concluded"
         /\ db.row[r].state \in ActiveStates =>
              Item[r] = IF ran[db.row[r].delivery] # "no" THEN "entered" ELSE "offered"
BY DEF Item, ActiveStates

LEMMA ItemIsNext ==
  ASSUME NEW r \in Rows
  PROVE  /\ db'.row[r].state = "none" => Item'[r] = "new"
         /\ db'.row[r].state = "queued" => Item'[r] = "waiting"
         /\ db'.row[r].state \notin ActiveStates \cup {"none", "queued"} => Item'[r] = "concluded"
         /\ db'.row[r].state \in ActiveStates =>
              Item'[r] = IF ran'[db'.row[r].delivery] # "no" THEN "entered" ELSE "offered"
BY DEF Item, ActiveStates

(* A row that is reserved has not entered a runtime. *)
LEMMA ReservedIsOffered ==
  ASSUME BridgeInv', NEW r \in Rows, db'.row[r].state = "reserved"
  PROVE  Item'[r] = "offered"
<1> DEFINE d == db'.row[r].delivery
<1>1. Consistent(db') /\ TurnsOK' BY DEF BridgeInv, HistoryInv, DeliveryInv
<1>2. db'.row[r].state \in ActiveStates BY DEF ActiveStates
<1>3. d # 0 /\ d \in 1 .. db'.nb /\ db'.bundle[d].state = "reserved"
  BY <1>1, <1>2 DEF Consistent, RowsLinked
<1>4. ~Conclusive(db'.bundle[d]) BY <1>1, <1>3 DEF Consistent, BundlesLinked, Conclusive
<1>5. d \in Bundles
  <2>1. db'.nb \in 0 .. MaxBundles BY <1>1, DatabaseFields DEF Consistent
  <2> QED BY <1>3, <2>1, BoundsNat DEF Bundles
<1>6. ran'[d] = "no" BY <1>1, <1>4, <1>5 DEF TurnsOK
<1> QED BY <1>2, <1>6, ItemIsNext

(* What a step does to one row is a move of the contract, or nothing. *)
LEMMA RowMoves ==
  ASSUME BridgeInv, BridgeInv', BridgeNext, NEW r \in Rows
  PROVE  Item'[r] = Item[r] \/ <<Item[r], Item'[r]>> \in Promise!Moves
<1> DEFINE w == db.row[r]
           v == db'.row[r]
<1>0. /\ Consistent(db) /\ Consistent(db') /\ TurnsOK /\ TurnsOK' /\ Blank(db) /\ Forward
      /\ Follows(db, db') /\ Onward(db, db')
      /\ \A x \in Bundles : ran[x] # "no" => ran'[x] # "no"
  BY HistoryKept, StepOnward DEF BridgeInv, HistoryInv, DeliveryInv, Historic, Follows
<1>1. w.state \in ActiveStates \cup {"none", "queued", "acknowledged", "dead_lettered",
                                     "cancelled", "deleted"}
  BY <1>0, RowFields DEF Consistent, Row
<1>2. w.state # "none" => v.state # "none"
  <2>1. r \in Nat /\ db.nr \in Nat /\ db'.nr \in Nat
    BY <1>0, BoundsNat, Counts DEF Consistent, Rows
  <2>2. db.nr <= db'.nr BY <1>0 DEF Onward
  <2>3. w.state # "none" => r <= db.nr BY <1>0, <2>1 DEF Consistent, Numbered
  <2>4. r <= db'.nr => v.state # "none" BY <1>0 DEF Consistent, Numbered
  <2> QED BY <2>1, <2>2, <2>3, <2>4
<1>3. CASE w.state \in {"none", "queued"}
  <2>1. v.state \in {"none", "queued", "reserved"} BY <1>0, <1>3 DEF Onward
  <2>2. v.state = "reserved" => Item'[r] = "offered" BY ReservedIsOffered
  <2>3. w.state = "none" => Item[r] = "new" BY ItemIs
  <2>4. w.state = "queued" => Item[r] = "waiting" BY ItemIs
  <2>5. v.state = "none" => Item'[r] = "new" BY ItemIsNext
  <2>6. v.state = "queued" => Item'[r] = "waiting" BY ItemIsNext
  <2> QED BY <1>2, <1>3, <2>1, <2>2, <2>3, <2>4, <2>5, <2>6 DEF Promise!Moves
<1>4. CASE w.state \in ActiveStates
  <2> DEFINE d == w.delivery
  <2>1. d # 0 /\ d \in 1 .. db.nb /\ db.bundle[d].state = w.state /\ db.bundle[d].row = r
    BY <1>0, <1>4 DEF Consistent, RowsLinked
  <2>2. d \in Bundles BY <2>1, ExistingBundles DEF BridgeInv, HistoryInv, Existing
  <2>3. CASE ran[d] = "no"
    <3>1. Item[r] = "offered" BY <1>4, <2>3, ItemIs
    <3>2. Item'[r] \in {"waiting", "offered", "entered", "concluded"}
      BY <1>2, <1>4, ItemIsNext DEF ActiveStates
    <3> QED BY <3>1, <3>2 DEF Promise!Moves
  <2>4. CASE ran[d] # "no"
    <3>1. Item[r] = "entered" BY <1>4, <2>4, ItemIs
    <3>2. ran'[d] # "no" /\ d \in 1 .. db'.nb /\ Conclusive(db'.bundle[d])
      BY <1>0, <2>2, <2>4 DEF TurnsOK, Existing
    <3>3. db'.bundle[d].row = r
      <4>1. d <= db.nb BY <2>1
      <4> QED BY <1>0, <2>1, <2>2, <4>1 DEF Follows
    <3>4. v.state = "deleted" \/ v.delivery = d
      BY <1>0, <3>2, <3>3 DEF Consistent, BundlesLinked
    <3>5. v.state \notin {"none", "queued"}
      BY <1>0, <2>1, <3>4 DEF Consistent, RowsLinked
    <3>6. CASE v.state \in ActiveStates
      <4>1. v.delivery = d BY <3>4, <3>6 DEF ActiveStates
      <4>2. Item'[r] = "entered" BY <3>2, <3>6, <4>1, ItemIsNext
      <4> QED BY <3>1, <4>2
    <3>7. CASE v.state \notin ActiveStates
      <4>1. Item'[r] = "concluded" BY <3>5, <3>7, ItemIsNext
      <4> QED BY <3>1, <4>1 DEF Promise!Moves
    <3> QED BY <3>6, <3>7
  <2> QED BY <2>3, <2>4
<1>5. CASE w.state \in {"acknowledged", "dead_lettered", "cancelled", "deleted"}
  <2>1. v.state \in {"acknowledged", "dead_lettered", "cancelled", "deleted"}
    BY <1>0, <1>5 DEF Forward, Follows
  <2>2. Item[r] = "concluded" BY <1>5, ItemIs DEF ActiveStates
  <2>3. Item'[r] = "concluded" BY <2>1, ItemIsNext DEF ActiveStates
  <2> QED BY <2>2, <2>3
<1> QED BY <1>1, <1>3, <1>4, <1>5

-----------------------------------------------------------------------------
(* The theorems, for a Bridge that lets no lease of a bundle it holds lapse. *)

LEMMA BridgeStarts ==
  ASSUME Lapses = 0, BridgeInit
  PROVE  BridgeInv
<1>1. HistoryInv BY HistoryInit DEF BridgeInit
<1>2. /\ boot = "down" /\ pass = {} /\ stream = <<>> /\ cancelled = {}
      /\ work = [ep \in Endpoints |-> NoWork] /\ waiting = [ep \in Endpoints |-> <<>>]
      /\ ran = [d \in Bundles |-> "no"]
      /\ budget = [messages |-> Messages, flaps |-> EngineFlaps, crashes |-> MaxCrashes,
                   stops |-> Stops, lapses |-> Lapses, asks |-> Asks,
                   declines |-> Declines, reattaches |-> Reattaches]
  BY DEF BridgeInit
<1>3. NoWork \in Flows /\ NoWork.d = 0 /\ NoWork.pc = "none"
  BY BoundsNat DEF NoWork, Flows, Steps
<1>4. BridgeTypeOK
  <2>1. work \in [Endpoints -> Flows] BY <1>2, <1>3
  <2>2. waiting \in [Endpoints -> Seq(Bundles)] /\ stream \in Seq(Frames)
    <3>1. <<>> \in Seq(Bundles) /\ <<>> \in Seq(Frames) OBVIOUS
    <3>2. [ep \in Endpoints |-> <<>>] \in [Endpoints -> Seq(Bundles)] BY <3>1
    <3> QED BY <1>2, <3>1, <3>2
  <2>3. budget \in [Allowances -> Nat] /\ budget["lapses"] = 0
    BY <1>2, BridgeAssumption DEF Allowances
  <2>4. boot \in Boots BY <1>2 DEF Boots
  <2>5. ran \in [Bundles -> {"no", "running", "completed", "failed", "lost"}] BY <1>2
  <2> QED BY <1>2, <2>1, <2>2, <2>3, <2>4, <2>5 DEF BridgeTypeOK
<1>5. db.nb = 0 BY DeliveryAssumption DEF BridgeInit, Init
<1>6. Existing = {} BY <1>5 DEF Existing
<1>7. \A ep \in Endpoints : work[ep] = NoWork /\ waiting[ep] = <<>> BY <1>2
<1>8. HeldOK
  <2>1. ToSet(stream) = {} /\ \A ep \in Endpoints : ToSet(waiting[ep]) = {}
    BY <1>2, <1>7, ToSetFew
  <2> QED BY <1>3, <1>7, <2>1 DEF HeldOK
<1>9. LeasesOK BY <1>2 DEF LeasesOK
<1>10. StopsOK BY <1>2, ToSetFew DEF StopsOK
<1>11. TurnsOK BY <1>2, <1>3, <1>6, <1>7 DEF TurnsOK
<1> QED BY <1>1, <1>4, <1>8, <1>9, <1>10, <1>11 DEF BridgeInv

(* The processes and the queue agree at every await of the Bridge: what the   *)
(* daemon holds exists and is its endpoint's, no lease of it runs out, what it *)
(* takes for stopped is stopped, and a runtime was given only bundles after    *)
(* which their row is not tried again, through every crash, restart,           *)
(* reattachment, cancellation and refusal.                                     *)
THEOREM BridgeAgrees ==
  ASSUME Lapses = 0
  PROVE  BridgeSpec => []BridgeInv
<1>1. BridgeInit => BridgeInv BY BridgeStarts
<1>2. BridgeInv /\ [BridgeNext]_vars => BridgeInv' BY BridgeStep
<1> QED BY <1>1, <1>2, PTL DEF BridgeSpec

(* The runtime runs at most one turn for a queued Event: once a Delivery has  *)
(* entered a runtime nothing offers its row to one again.                     *)
THEOREM RunsOnce ==
  ASSUME Lapses = 0
  PROVE  BridgeSpec => []RunOnce
<1>1. BridgeInv => RunOnce
  <2> SUFFICES ASSUME BridgeInv, NEW d \in Existing, NEW e \in Existing, d # e,
                      db.bundle[d].row = db.bundle[e].row, ran[d] # "no", ran[e] # "no"
               PROVE  FALSE
    BY DEF RunOnce
  <2>1. Consistent(db) /\ DeliveryInv /\ TurnsOK BY DEF BridgeInv, HistoryInv, DeliveryInv
  <2>2. d \in Bundles /\ e \in Bundles BY <2>1, ExistingBundles
  <2>3. Conclusive(db.bundle[d]) /\ Conclusive(db.bundle[e]) BY <2>1, <2>2 DEF TurnsOK
  <2>4. d <= e /\ e <= d BY <2>1, <2>3 DEF Consistent, BundlesLinked, Existing
  <2>5. d \in Nat /\ e \in Nat BY <2>2, BoundsNat
  <2> QED BY <2>4, <2>5
<1> QED BY <1>1, BridgeAgrees, PTL

(* The Bridge and the Bus together implement what a sender is promised        *)
(* (DeliveryContract): a message is offered, taken back and offered again     *)
(* until it enters a runtime, and from there it can only be concluded.        *)
THEOREM BridgeKeepsContract ==
  ASSUME Lapses = 0
  PROVE  BridgeSpec => KeepsContract
<1>1. BridgeInit => Promise!Init
  <2> SUFFICES ASSUME BridgeInit PROVE Item = [r \in Rows |-> "new"]
    BY DEF Promise!Init
  <2>1. \A r \in Rows : db.row[r].state = "none" BY DEF BridgeInit, Init, NoRow
  <2> QED BY <2>1 DEF Item
<1>2. BridgeInv /\ BridgeInv' /\ [BridgeNext]_vars => [Promise!Next]_Item
  <2> SUFFICES ASSUME BridgeInv, BridgeInv', [BridgeNext]_vars
               PROVE  Promise!Next \/ UNCHANGED Item
    OBVIOUS
  <2>1. CASE BridgeNext BY <2>1, RowMoves DEF Promise!Next
  <2>2. CASE UNCHANGED vars BY <2>2 DEF vars, Item
  <2> QED BY <2>1, <2>2
<1> QED BY <1>1, <1>2, BridgeAgrees, PTL DEF BridgeSpec, KeepsContract, Promise!Spec
=============================================================================
