--------------------------- MODULE DeliveryProofs ---------------------------
(***************************************************************************)
(* Proofs about module Delivery, for every set of endpoints and every       *)
(* bound.  A handler is a composition of operators on the database; each    *)
(* operator has a lemma that it keeps the database Consistent, and each     *)
(* action follows from the lemmas of the operators it is made of.           *)
(***************************************************************************)
EXTENDS Delivery, WellFoundedInduction, TLAPS

-----------------------------------------------------------------------------
(* Facts about the pieces.                                                  *)

(* Every nonempty set of row or bundle numbers has a smallest member. *)
LEMMA OldestIn ==
  ASSUME NEW S, S \subseteq Nat, S # {}
  PROVE  Oldest(S) \in S
<1>1. \E x \in S : \A y \in S : ~(<<y, x>> \in OpToRel(<, Nat))
  BY NatLessThanWellFounded, WFMin, Zenon
<1>2. \A x, y \in Nat : <<y, x>> \in OpToRel(<, Nat) <=> y < x
  BY Zenon DEF OpToRel
<1>3. PICK x \in S : \A y \in S : ~(<<y, x>> \in OpToRel(<, Nat))
  BY <1>1
<1>4. \A y \in S : x \in Nat /\ y \in Nat /\ ~(y < x)
  BY <1>2, <1>3
<1>5. \A y \in S : x <= y
  BY <1>4
<1> QED
  BY <1>3, <1>5 DEF Oldest

(* What Consistent reads of a row, of a bundle and of the database. *)
SameLinks(s, t) ==
  /\ t.nr = s.nr /\ t.nb = s.nb
  /\ \A r \in Rows : /\ t.row[r].dest = s.row[r].dest
                     /\ t.row[r].state = s.row[r].state
                     /\ t.row[r].delivery = s.row[r].delivery
                     /\ t.row[r].attempts = s.row[r].attempts
                     /\ t.row[r].kind = s.row[r].kind
                     /\ t.row[r].asker = s.row[r].asker
                     /\ t.row[r].cont = s.row[r].cont
  /\ \A d \in Bundles : /\ t.bundle[d].row = s.bundle[d].row
                        /\ t.bundle[d].state = s.bundle[d].state
                        /\ t.bundle[d].attempts = s.bundle[d].attempts
                        /\ t.bundle[d].entered = s.bundle[d].entered
                        /\ t.bundle[d].sid = s.bundle[d].sid
                        /\ t.bundle[d].live = s.bundle[d].live

(* Row and bundle numbers are natural numbers. *)
LEMMA BoundsNat == Rows \subseteq Nat /\ Bundles \subseteq Nat /\ MaxRows \in Nat /\ MaxBundles \in Nat
  BY DeliveryAssumption DEF Rows, Bundles

(* The type of every field of a database. *)
LEMMA DatabaseFields ==
  ASSUME NEW s \in Database
  PROVE  /\ s.status \in [Endpoints -> Statuses \cup {"absent"}]
         /\ s.bridge \in [Endpoints -> BOOLEAN]
         /\ s.row \in [Rows -> Row] /\ s.bundle \in [Bundles -> Bundle]
         /\ s.nr \in 0 .. MaxRows /\ s.nb \in 0 .. MaxBundles
         /\ s.hold \in BOOLEAN
  BY DEF Database

(* The type of every column of an event_queue row. *)
LEMMA RowFields ==
  ASSUME NEW s \in Database, NEW r \in Rows
  PROVE  /\ s.row[r] \in Row
         /\ s.row[r].attempts \in 0 .. MaxAttempts /\ s.row[r].attempts \in Nat
         /\ s.row[r].delivery \in 0 .. MaxBundles
         /\ s.row[r].cont \in 0 .. MaxRows
         /\ s.row[r].cont # 0 => s.row[r].cont \in Rows
<1>1. s.row[r] \in Row BY DatabaseFields
<1>2. /\ s.row[r].attempts \in 0 .. MaxAttempts /\ s.row[r].delivery \in 0 .. MaxBundles
      /\ s.row[r].cont \in 0 .. MaxRows
  BY <1>1 DEF Row
<1> QED BY <1>1, <1>2, DeliveryAssumption DEF Rows

(* The type of every column of a delivery_bundles row. *)
LEMMA BundleFields ==
  ASSUME NEW s \in Database, NEW d \in Bundles
  PROVE  /\ s.bundle[d] \in Bundle
         /\ s.bundle[d].attempts \in 0 .. MaxAttempts /\ s.bundle[d].attempts \in Nat
         /\ s.bundle[d].row \in 0 .. MaxRows
         /\ s.bundle[d].live \in Nat /\ s.bundle[d].sid \in BOOLEAN
<1>1. s.bundle[d] \in Bundle BY DatabaseFields
<1>2. /\ s.bundle[d].attempts \in 0 .. MaxAttempts /\ s.bundle[d].row \in 0 .. MaxRows
      /\ s.bundle[d].live \in Nat /\ s.bundle[d].sid \in BOOLEAN
  BY <1>1 DEF Bundle
<1> QED BY <1>1, <1>2, DeliveryAssumption

(* The invariant speaks of existing bundles, whose rows exist. *)
LEMMA Existence ==
  ASSUME NEW s, Consistent(s), NEW d \in 1 .. s.nb
  PROVE  /\ d \in Bundles /\ s.bundle[d].row \in Rows
         /\ s.bundle[d].state # "none"
         /\ s.row[s.bundle[d].row].dest \in Endpoints
<1>1. s.nr \in 0 .. MaxRows /\ s.nb \in 0 .. MaxBundles
  BY DatabaseFields DEF Consistent
<1> QED
  BY <1>1, BoundsNat DEF Consistent, Numbered, Rows, Bundles

(* A step that leaves the links and the clients' leases alone. *)
LEMMA SameLinksConsistent ==
  ASSUME NEW s, NEW t, Consistent(s), t \in Database, SameLinks(s, t), ClientsWait(t)
  PROVE  Consistent(t)
<1> USE DEF Consistent, SameLinks
<1>1. s.row \in [Rows -> Row] /\ s.bundle \in [Bundles -> Bundle]
       /\ s.nr \in 0 .. MaxRows /\ s.nb \in 0 .. MaxBundles
  BY DatabaseFields
<1>2. Numbered(t)
  BY DEF Numbered
<1>3. \A d \in 1 .. s.nb : d \in Bundles /\ s.bundle[d].row \in Rows
  BY <1>1, BoundsNat DEF Numbered, Rows, Bundles
<1>4. RowsLinked(t)
  BY <1>3, <1>1 DEF RowsLinked
<1>5. BundlesLinked(t)
  BY <1>3, <1>1 DEF BundlesLinked, Conclusive
<1>6. AttemptsOrdered(t)
  BY <1>3, <1>1 DEF AttemptsOrdered
<1>7. SessionsMatch(t)
  BY DEF SessionsMatch
<1>8. RequestsLinked(t)
  <2>1. \A r \in Rows : s.row[r].cont # 0 => s.row[r].cont \in Rows
    <3> HIDE DEF Consistent, SameLinks
    <3> SUFFICES ASSUME NEW r \in Rows PROVE s.row[r].cont # 0 => s.row[r].cont \in Rows
      OBVIOUS
    <3>1. s.row[r] \in Row BY <1>1
    <3>2. s.row[r].cont \in 0 .. MaxRows BY <3>1 DEF Row
    <3> QED BY <3>2, BoundsNat DEF Rows
  <2> QED BY <2>1 DEF RequestsLinked
<1> QED
  BY <1>2, <1>4, <1>5, <1>6, <1>7, <1>8

(* Two databases with the same rows and bundles. *)
SameWork(s, t) == t.row = s.row /\ t.bundle = s.bundle /\ t.nr = s.nr /\ t.nb = s.nb

(* A handler that writes only endpoint columns keeps the database consistent. *)
LEMMA SameWorkConsistent ==
  ASSUME NEW s, NEW t, Consistent(s), t \in Database, SameWork(s, t),
         \A ep \in Clients : t.bridge[ep] = FALSE
  PROVE  Consistent(t)
<1>1. ClientsWait(t)
  BY DEF Consistent, ClientsWait, SameWork
<1> QED
  BY <1>1, SameLinksConsistent DEF SameWork, SameLinks

(* Writing the status of an endpoint keeps the database consistent. *)
LEMMA SetStatusOK ==
  ASSUME NEW s, Consistent(s), NEW ep \in Endpoints, NEW st \in Statuses
  PROVE  Consistent(SetStatus(s, ep, st)) /\ SameWork(s, SetStatus(s, ep, st))
<1> DEFINE t == SetStatus(s, ep, st)
<1>1. s \in Database BY DEF Consistent
<1>2. t \in Database BY <1>1 DEF SetStatus, Database
<1>3. SameWork(s, t) /\ t.bridge = s.bridge BY <1>1 DEF SetStatus, Database, SameWork
<1> QED BY <1>2, <1>3, SameWorkConsistent DEF Consistent, ClientsWait

(* A new queued row joins the others. *)
LEMMA QueueEventOK ==
  ASSUME NEW s, Consistent(s), s.nr < MaxRows, NEW w \in Row,
         w.dest \in Endpoints, w.state = "queued", w.delivery = 0, w.attempts = 0,
         w.kind = "request" => w.asker \in Endpoints,
         w.cont # 0 => w.cont <= s.nr /\ s.row[w.cont].kind = "request"
  PROVE  /\ Consistent(QueueEvent(s, w))
         /\ QueueEvent(s, w).nb = s.nb /\ QueueEvent(s, w).bundle = s.bundle
         /\ \A r \in Rows : r <= s.nr => QueueEvent(s, w).row[r] = s.row[r]
<1> DEFINE t == [s EXCEPT !.nr = @ + 1, !.row[s.nr + 1] = w]
<1>0. s \in Database BY DEF Consistent
<1>1. s.row \in [Rows -> Row] /\ s.bundle \in [Bundles -> Bundle]
      /\ s.nr \in 0 .. MaxRows /\ s.nb \in 0 .. MaxBundles
  BY <1>0, DatabaseFields
<1>2. s.nr + 1 \in Rows /\ MaxRows \in Nat
  BY <1>1, BoundsNat DEF Rows
<1>3. t \in Database
  <2>1. [s.row EXCEPT ![s.nr + 1] = w] \in [Rows -> Row] /\ s.nr + 1 \in 0 .. MaxRows
    BY <1>1, <1>2
  <2>2. t = [s EXCEPT !.nr = s.nr + 1, !.row = [s.row EXCEPT ![s.nr + 1] = w]]
    BY <1>0 DEF Database
  <2> QED BY <1>0, <2>1, <2>2 DEF Database
<1>4. /\ t.nr = s.nr + 1 /\ t.nb = s.nb /\ t.bundle = s.bundle /\ t.bridge = s.bridge
      /\ t.row = [s.row EXCEPT ![s.nr + 1] = w]
  BY <1>0 DEF Database
<1>5. \A r \in Rows : t.row[r] = IF r = s.nr + 1 THEN w ELSE s.row[r]
  BY <1>1, <1>2, <1>4
<1>6. \A d \in 1 .. s.nb : d \in Bundles /\ s.bundle[d].row \in Rows
                          /\ s.bundle[d].row <= s.nr /\ s.bundle[d].row # s.nr + 1
  BY <1>1, BoundsNat DEF Consistent, Numbered, Rows, Bundles
<1>7. Numbered(t)
  BY <1>1, <1>4, <1>5 DEF Consistent, Numbered, Rows
<1>8. RowsLinked(t)
  <2> MaxAttempts \in Nat \ {0} BY DeliveryAssumption
  <2> QED BY <1>1, <1>4, <1>5, DeliveryAssumption DEF Consistent, RowsLinked, ActiveStates
<1>9. BundlesLinked(t)
  BY <1>4, <1>5, <1>6 DEF Consistent, BundlesLinked, Conclusive
<1>10. AttemptsOrdered(t)
  BY <1>4, <1>5, <1>6 DEF Consistent, AttemptsOrdered
<1>11. SessionsMatch(t)
  BY <1>4 DEF Consistent, SessionsMatch
<1>12. ClientsWait(t)
  BY <1>4, <1>5, <1>6 DEF Consistent, ClientsWait
<1>13. RequestsLinked(t)
  <2>1. \A r \in Rows : s.row[r].cont # 0 => s.row[r].cont \in Rows /\ s.row[r].cont # s.nr + 1
    <3>1. \A r \in Rows : s.row[r].cont \in 0 .. MaxRows BY <1>1 DEF Row
    <3> QED BY <1>1, <1>2, <3>1 DEF Consistent, RequestsLinked, Rows
  <2>2. w.cont # 0 => w.cont \in Rows /\ w.cont # s.nr + 1
    <3>1. w.cont \in 0 .. MaxRows BY DEF Row
    <3> QED BY <1>1, <1>2, <3>1 DEF Rows
  <2>3. \A r \in Rows : s.row[r].cont # 0 => s.row[r].cont <= s.nr + 1
    <3>1. \A r \in Rows : s.row[r].cont \in Nat BY <1>1, <1>2 DEF Row
    <3> QED BY <1>1, <3>1 DEF Consistent, RequestsLinked
  <2>4. w.cont # 0 => w.cont <= s.nr + 1
    <3>1. w.cont \in Nat BY <1>2 DEF Row
    <3> QED BY <1>1, <3>1
  <2> QED BY <1>4, <1>5, <2>1, <2>2, <2>3, <2>4 DEF Consistent, RequestsLinked
<1>14. Consistent(t)
  BY <1>3, <1>7, <1>8, <1>9, <1>10, <1>11, <1>12, <1>13 DEF Consistent
<1> DEFINE st == IF s.status[w.dest] \in {"active", "runtime_unconfigured"}
                 THEN s.status[w.dest] ELSE "queued"
<1>15. st \in Statuses
  BY DEF Statuses
<1>16. QueueEvent(s, w) = SetStatus(t, w.dest, st)
  BY DEF QueueEvent
<1>17. Consistent(SetStatus(t, w.dest, st)) /\ SameWork(t, SetStatus(t, w.dest, st))
  BY <1>14, <1>15, SetStatusOK
<1>18. \A r \in Rows : r <= s.nr => t.row[r] = s.row[r]
  BY <1>1, <1>5
<1> HIDE DEF t, st
<1> QED
  BY <1>4, <1>16, <1>17, <1>18 DEF SameWork

(* The oldest queued row of an endpoint is reserved for a new bundle. *)
LEMMA ReserveOK ==
  ASSUME NEW s, Consistent(s), s.nb < MaxBundles, NEW ep \in Endpoints, NEW r \in Rows,
         s.row[r].dest = ep, s.row[r].state = "queued", s.status[ep] # "absent"
  PROVE  LET t == InsertBundle(ReserveRow(s, r), ep, r)
         IN  /\ Consistent(t) /\ t.nb = s.nb + 1 /\ t.nr = s.nr
             /\ \A d \in Bundles : d <= s.nb => t.bundle[d] = s.bundle[d]
<1> DEFINE n == s.nb + 1
           W == Reserved(s.row[r], n)
           B == NewBundle(r, s.row[r].attempts + 1, s.bridge[ep])
           t == InsertBundle(ReserveRow(s, r), ep, r)
<1>0. s \in Database BY DEF Consistent
<1>1. /\ s.row \in [Rows -> Row] /\ s.bundle \in [Bundles -> Bundle]
      /\ s.nr \in 0 .. MaxRows /\ s.nb \in 0 .. MaxBundles
      /\ s.bridge \in [Endpoints -> BOOLEAN]
      /\ s.status \in [Endpoints -> Statuses \cup {"absent"}]
  BY <1>0, DatabaseFields
<1>2. /\ n \in Bundles /\ n \in 1 .. MaxBundles /\ MaxRows \in Nat /\ MaxBundles \in Nat
      /\ MaxAttempts \in Nat /\ r \in 1 .. MaxRows
  BY <1>1, BoundsNat, DeliveryAssumption DEF Bundles, Rows
<1>3. s.row[r] \in Row /\ s.row[r].attempts \in 0 .. MaxAttempts
  BY <1>1 DEF Row
<1>4. s.row[r].attempts + 1 \in 0 .. MaxAttempts
  BY <1>2, <1>3 DEF Consistent, RowsLinked
<1>5. W \in Row
  <2>1. n \in 0 .. MaxBundles BY <1>2
  <2> HIDE DEF n
  <2> QED BY <2>1, <1>3, <1>4 DEF Reserved, Row, ActiveStates
<1>6. B \in Bundle
  <2>1. r \in 0 .. MaxRows BY <1>2
  <2> QED BY <2>1, <1>4 DEF NewBundle, Bundle, ActiveStates
<1>7. t = [s EXCEPT !.row = [s.row EXCEPT ![r] = W], !.nb = n,
                    !.status = [s.status EXCEPT ![ep] = "active"],
                    !.bundle = [s.bundle EXCEPT ![n] = B]]
  <2> DEFINE u == [s EXCEPT !.row = [s.row EXCEPT ![r] = W]]
  <2>1. ReserveRow(s, r) = u
    BY DEF ReserveRow
  <2>2. /\ u.nb = s.nb /\ u.bridge = s.bridge /\ u.bundle = s.bundle /\ u.status = s.status
        /\ u.row[r].attempts = s.row[r].attempts + 1 /\ u.row = [s.row EXCEPT ![r] = W]
    BY <1>0, <1>1, <1>3 DEF Reserved, Database, Row
  <2>4. t = [u EXCEPT !.nb = n, !.status = [s.status EXCEPT ![ep] = "active"],
                      !.bundle = [s.bundle EXCEPT ![n] = B]]
    BY <1>0, <2>1, <2>2 DEF InsertBundle, Database
  <2> HIDE DEF W, B, n
  <2> QED BY <1>0, <2>4 DEF Database
<1>8. t \in Database
  <2>1. /\ [s.row EXCEPT ![r] = W] \in [Rows -> Row]
        /\ [s.bundle EXCEPT ![n] = B] \in [Bundles -> Bundle]
        /\ [s.status EXCEPT ![ep] = "active"] \in [Endpoints -> Statuses \cup {"absent"}]
        /\ n \in 0 .. MaxBundles
    BY <1>1, <1>2, <1>5, <1>6 DEF Statuses
  <2> HIDE DEF W, B, n, t
  <2> QED BY <1>0, <1>7, <2>1 DEF Database
<1>9. /\ t.nr = s.nr /\ t.nb = n /\ t.bridge = s.bridge
      /\ \A x \in Rows : t.row[x] = IF x = r THEN W ELSE s.row[x]
      /\ \A d \in Bundles : t.bundle[d] = IF d = n THEN B ELSE s.bundle[d]
  <2> HIDE DEF W, B, n, t
  <2> QED BY <1>0, <1>1, <1>7 DEF Database
<1>10. /\ W.dest = ep /\ W.state = "reserved" /\ W.delivery = n
       /\ W.attempts = s.row[r].attempts + 1 /\ W.kind = s.row[r].kind
       /\ W.asker = s.row[r].asker /\ W.cont = s.row[r].cont
  BY <1>3 DEF Reserved, Row
<1>11. /\ B.row = r /\ B.state = "reserved" /\ B.attempts = s.row[r].attempts + 1
       /\ B.sid = FALSE /\ B.live = 0 /\ B.entered = FALSE
       /\ B.lease = IF s.bridge[ep] THEN "running" ELSE "null"
  BY DEF NewBundle
<1>12. \A d \in 1 .. s.nb : d \in Bundles /\ s.bundle[d].row \in Rows /\ d # n /\ d < n
  BY <1>1, <1>2, BoundsNat DEF Consistent, Numbered, Rows, Bundles
<1>13. /\ \A d \in 1 .. n : d \in Bundles /\ (d = n \/ d \in 1 .. s.nb)
       /\ \A d \in Bundles : d <= n => d \in 1 .. s.nb \/ d = n
       /\ \A d \in Bundles : d > n => d > s.nb
       /\ r <= s.nr /\ r \in 1 .. s.nr
  BY <1>1, <1>2, BoundsNat DEF Bundles, Consistent, Numbered, Rows
<1> HIDE DEF W, B, n, t
<1>14. Numbered(t)
  <2>1. \A x \in Rows : /\ x <= s.nr => t.row[x].dest \in Endpoints /\ t.row[x].state # "none"
                        /\ x > s.nr => t.row[x].dest = None /\ t.row[x].state = "none"
    BY <1>1, <1>2, <1>9, <1>10, <1>13 DEF Consistent, Numbered
  <2>2. \A d \in Bundles : /\ d <= n => t.bundle[d].state # "none" /\ t.bundle[d].row \in 1 .. s.nr
                           /\ d > n => t.bundle[d].state = "none"
    <3>1. t.bundle[n].state # "none" /\ t.bundle[n].row \in 1 .. s.nr
      BY <1>2, <1>9, <1>11, <1>13
    <3>2. \A d \in Bundles : d # n => t.bundle[d] = s.bundle[d] BY <1>9
    <3>3. \A d \in Bundles : d > n => d # n /\ d > s.nb BY <1>2, <1>13, BoundsNat
    <3>4. \A d \in Bundles : d <= n /\ d # n => d <= s.nb BY <1>1, <1>2, BoundsNat DEF n
    <3> QED BY <3>1, <3>2, <3>3, <3>4 DEF Consistent, Numbered
  <2> QED BY <1>9, <2>1, <2>2 DEF Numbered
<1>15. RowsLinked(t)
  <2>1. n \in 1 .. n /\ n # 0 BY <1>2
  <2>2. \A x \in Rows : s.row[x].delivery # 0 => s.row[x].delivery \in 1 .. s.nb
    BY DEF Consistent, RowsLinked
  <2>3. \A d \in 1 .. s.nb : d \in 1 .. n BY <1>1 DEF n
  <2>4. \A d \in 1 .. s.nb : t.bundle[d] = s.bundle[d] BY <1>9, <1>12
  <2>5. t.bundle[n] = B BY <1>2, <1>9
  <2> SUFFICES ASSUME NEW x \in Rows
               PROVE  LET w == t.row[x]
                      IN  /\ w.state \in ActiveStates =>
                               w.delivery # 0 /\ t.bundle[w.delivery].state = w.state
                          /\ w.state \in {"none", "queued", "deleted"} => w.delivery = 0
                          /\ w.state = "queued" => w.attempts < MaxAttempts
                          /\ w.delivery # 0 =>
                               /\ w.delivery \in 1 .. n
                               /\ t.bundle[w.delivery].row = x
                               /\ t.bundle[w.delivery].attempts = w.attempts
    BY <1>9 DEF RowsLinked
  <2>6. CASE x = r
    BY <2>1, <2>5, <2>6, <1>9, <1>10, <1>11
  <2>7. CASE x # r
    <3>1. t.row[x] = s.row[x] BY <2>7, <1>9
    <3>2. RowsLinked(s) BY DEF Consistent
    <3>3. LET w == s.row[x]
          IN  /\ w.state \in ActiveStates =>
                   w.delivery # 0 /\ s.bundle[w.delivery].state = w.state
              /\ w.state \in {"none", "queued", "deleted"} => w.delivery = 0
              /\ w.state = "queued" => w.attempts < MaxAttempts
              /\ w.delivery # 0 =>
                   /\ w.delivery \in 1 .. s.nb
                   /\ s.bundle[w.delivery].row = x
                   /\ s.bundle[w.delivery].attempts = w.attempts
      BY <3>2 DEF RowsLinked
    <3>4. s.row[x].delivery # 0 =>
            s.row[x].delivery \in 1 .. n /\ t.bundle[s.row[x].delivery] = s.bundle[s.row[x].delivery]
      BY <2>2, <2>3, <2>4
    <3> QED BY <3>1, <3>3, <3>4
  <2> QED BY <2>6, <2>7
<1>16. BundlesLinked(t)
  <2> SUFFICES ASSUME NEW d \in 1 .. n
               PROVE  LET b == t.bundle[d]
                          w == t.row[b.row]
                      IN  /\ b.state \in ActiveStates \/ Conclusive(b) =>
                              /\ w.state = "deleted" \/ w.delivery = d
                              /\ \A e \in 1 .. n : t.bundle[e].row = b.row => e <= d
                          /\ b.state \in ActiveStates => w.state = "deleted" \/ w.state = b.state
                          /\ b.state \in {"reserved", "delivered_to_bridge"} => ~b.entered
    BY <1>9 DEF BundlesLinked, Conclusive
  <2>1. CASE d = n
    <3>1. \A e \in 1 .. n : e <= n BY <1>2
    <3> QED BY <2>1, <3>1, <1>2, <1>9, <1>10, <1>11 DEF Conclusive
  <2>2. CASE d # n
    <3>1. d \in 1 .. s.nb BY <2>2, <1>13
    <3>2. s.bundle[d].row = r => ~(s.bundle[d].state \in ActiveStates)
                              /\ ~Conclusive(s.bundle[d])
      <4>1. s.row[r].delivery = 0 /\ d # 0 BY <1>12, <3>1, <1>1 DEF Consistent, RowsLinked
      <4> QED BY <3>1, <4>1 DEF Consistent, BundlesLinked, Conclusive
    <3>3. t.bundle[d] = s.bundle[d] BY <1>9, <1>13, <2>2
    <3>4. s.bundle[d].row # r => t.row[s.bundle[d].row] = s.row[s.bundle[d].row]
      BY <1>9, <1>12, <3>1
    <3>5. CASE s.bundle[d].row = r
      BY <3>1, <3>2, <3>3, <3>5, <1>9 DEF Consistent, BundlesLinked, Conclusive, ActiveStates
    <3>6. CASE s.bundle[d].row # r
      <4>1. \A e \in 1 .. n : t.bundle[e].row = s.bundle[d].row => e \in 1 .. s.nb /\ t.bundle[e] = s.bundle[e]
        BY <3>6, <1>9, <1>11, <1>13
      <4> QED BY <3>1, <3>3, <3>4, <3>6, <4>1 DEF Consistent, BundlesLinked, Conclusive
    <3> QED BY <3>5, <3>6
  <2> QED BY <2>1, <2>2
<1>17. AttemptsOrdered(t)
  <2>1. \A d \in 1 .. s.nb : t.bundle[d] = s.bundle[d] BY <1>9, <1>12
  <2>2. t.bundle[n] = B /\ t.row[r] = W BY <1>2, <1>9
  <2>3. \A d \in 1 .. s.nb : s.bundle[d].attempts \in Nat /\ s.row[s.bundle[d].row].attempts \in Nat
    BY <1>0, <1>12, RowFields, BundleFields
  <2>4. \A d \in 1 .. s.nb : s.bundle[d].row # r => t.row[s.bundle[d].row] = s.row[s.bundle[d].row]
    BY <1>9, <1>12
  <2>5. \A d \in 1 .. s.nb : s.row[s.bundle[d].row].attempts <= t.row[s.bundle[d].row].attempts
    BY <2>2, <2>3, <2>4, <1>10, <1>3, <1>2
  <2>6. \A d \in 1 .. s.nb : t.row[s.bundle[d].row].attempts \in Nat
    BY <2>2, <2>3, <2>4, <1>10, <1>3, <1>2, <1>4
  <2>7. \A d \in 1 .. s.nb : s.bundle[d].state # "deferred" =>
          /\ 1 <= t.bundle[d].attempts /\ t.bundle[d].attempts <= t.row[t.bundle[d].row].attempts
          /\ s.bundle[d].row = r => t.bundle[d].attempts < B.attempts
    BY <2>1, <2>2, <2>3, <2>5, <2>6, <1>3, <1>10, <1>11, <1>2 DEF Consistent, AttemptsOrdered
  <2>8. 1 <= B.attempts /\ B.attempts <= t.row[B.row].attempts
    BY <2>2, <1>10, <1>11, <1>3, <1>2
  <2> QED
    BY <1>9, <1>11, <1>12, <1>13, <2>1, <2>2, <2>7, <2>8 DEF Consistent, AttemptsOrdered
<1>18. SessionsMatch(t)
  BY <1>9, <1>11 DEF Consistent, SessionsMatch
<1>19. ClientsWait(t)
  <2>1. \A x \in Rows : t.row[x].dest = s.row[x].dest BY <1>9, <1>10
  <2>2. ep \in Clients => s.bridge[ep] = FALSE BY DEF Consistent, ClientsWait
  <2>3. \A d \in 1 .. s.nb : t.bundle[d] = s.bundle[d] BY <1>9, <1>12
  <2>4. t.bundle[n] = B /\ t.row[r].dest = ep BY <1>2, <1>9, <1>10
  <2>5. ep \in Clients => B.lease = "null" BY <2>2, <1>11
  <2>6. \A d \in 1 .. n : t.row[t.bundle[d].row].dest \in Clients =>
          /\ t.bundle[d].lease = "null"
          /\ t.bundle[d].state \in {"reserved", "delivered_to_bridge", "acknowledged", "cancelled"}
    <3> SUFFICES ASSUME NEW d \in 1 .. n, t.row[t.bundle[d].row].dest \in Clients
                 PROVE  /\ t.bundle[d].lease = "null"
                        /\ t.bundle[d].state \in {"reserved", "delivered_to_bridge", "acknowledged", "cancelled"}
      OBVIOUS
    <3>1. CASE d = n BY <3>1, <2>4, <2>5, <1>11
    <3>2. CASE d # n
      <4>1. d \in 1 .. s.nb /\ t.bundle[d] = s.bundle[d] BY <3>2, <1>13, <2>3
      <4>2. s.row[s.bundle[d].row].dest \in Clients BY <4>1, <2>1, <1>12
      <4> QED BY <4>1, <4>2 DEF Consistent, ClientsWait
    <3> QED BY <3>1, <3>2
  <2>7. \A e \in Clients : t.bridge[e] = FALSE BY <1>9 DEF Consistent, ClientsWait
  <2> QED BY <1>9, <2>6, <2>7 DEF ClientsWait
<1>20. RequestsLinked(t)
  <2>1. \A x \in Rows : /\ t.row[x].cont = s.row[x].cont /\ t.row[x].kind = s.row[x].kind
                        /\ t.row[x].asker = s.row[x].asker
    BY <1>9, <1>10
  <2>2. \A x \in Rows : s.row[x].cont # 0 => s.row[x].cont \in Rows
    BY <1>0, RowFields
  <2> QED BY <1>9, <2>1, <2>2 DEF Consistent, RequestsLinked
<1>21. Consistent(t)
  BY <1>8, <1>14, <1>15, <1>16, <1>17, <1>18, <1>19, <1>20 DEF Consistent
<1>22. \A d \in Bundles : d <= s.nb => t.bundle[d] = s.bundle[d]
  BY <1>1, <1>9 DEF n
<1> QED
  BY <1>9, <1>21, <1>22 DEF n, t

(* A database in which at most one bundle was added and the others kept. *)
Extends(s, t) ==
  /\ t.nb \in {s.nb, s.nb + 1}
  /\ \A d \in Bundles : d <= s.nb => t.bundle[d] = s.bundle[d]

(* tryCreateDeliveryForEndpoint only ever adds a bundle to a consistent database. *)
LEMMA TryCreateOK ==
  ASSUME NEW s, Consistent(s), s.nb < MaxBundles, NEW ep \in Endpoints
  PROVE  LET t == TryCreateDeliveryForEndpoint(s, ep)
         IN  Consistent(t) /\ Extends(s, t) /\ t.nr = s.nr
<1>1. CASE CanDeliver(s, ep) /\ QueuedFor(s, ep) # {}
  <2> DEFINE r == Oldest(QueuedFor(s, ep))
  <2>1. r \in QueuedFor(s, ep)
    BY <1>1, OldestIn, BoundsNat DEF QueuedFor
  <2>2. r \in Rows /\ s.row[r].dest = ep /\ s.row[r].state = "queued"
    BY <2>1 DEF QueuedFor
  <2>3. TryCreateDeliveryForEndpoint(s, ep) = InsertBundle(ReserveRow(s, r), ep, r)
    BY <1>1 DEF TryCreateDeliveryForEndpoint
  <2>4. s.status[ep] # "absent"
    BY <1>1 DEF CanDeliver
  <2> HIDE DEF r
  <2> QED BY <2>2, <2>3, <2>4, ReserveOK DEF Extends
<1>2. CASE ~(CanDeliver(s, ep) /\ QueuedFor(s, ep) # {})
  <2>1. TryCreateDeliveryForEndpoint(s, ep) = s
    BY <1>2 DEF TryCreateDeliveryForEndpoint
  <2> QED BY <2>1 DEF Extends
<1> QED BY <1>1, <1>2

(* updateEndpointStatus, with the Delivery it may create. *)
LEMMA UpdateEndpointStatusOK ==
  ASSUME NEW s, Consistent(s), s.nb < MaxBundles, NEW ep \in Endpoints, NEW st \in Statuses
  PROVE  LET t == UpdateEndpointStatus(s, ep, st)
         IN  /\ Consistent(t) /\ Extends(s, t)
             /\ st = "queued" => t.nb = s.nb
<1> DEFINE shown == IF /\ s.actor[ep] = "retired"
                       /\ st \in {"idle", "waiting", "queued", "runtime_unconfigured"}
                    THEN "retired" ELSE st
           u == SetStatus(s, ep, shown)
<1>1. shown \in Statuses BY DEF Statuses
<1>2. Consistent(u) /\ SameWork(s, u) BY <1>1, SetStatusOK
<1>3. UpdateEndpointStatus(s, ep, st) =
        IF shown \in {"idle", "waiting"} THEN TryCreateDeliveryForEndpoint(u, ep) ELSE u
  BY DEF UpdateEndpointStatus
<1>4. st = "queued" => ~(shown \in {"idle", "waiting"})
  OBVIOUS
<1>5. Consistent(TryCreateDeliveryForEndpoint(u, ep)) /\ Extends(u, TryCreateDeliveryForEndpoint(u, ep))
  BY <1>2, TryCreateOK DEF SameWork
<1> QED
  BY <1>2, <1>3, <1>4, <1>5 DEF SameWork, Extends

(* runtimeConfigurationStatus returns an endpoint status. *)
LEMMA RuntimeConfigurationStatusType ==
  ASSUME NEW s \in Database, NEW ep \in Endpoints, NEW st \in Statuses
  PROVE  RuntimeConfigurationStatus(s, ep, st) \in Statuses
<1>1. s.binding[ep] \in {"none", "resolved", "unresolved"}
  BY DEF Database
<1> QED BY <1>1 DEF RuntimeConfigurationStatus, Statuses

(* reportTurnEnd, with the Delivery it may create. *)
LEMMA ReportTurnEndOK ==
  ASSUME NEW s, Consistent(s), s.nb < MaxBundles, NEW ep \in Endpoints
  PROVE  Consistent(ReportTurnEnd(s, ep))
<1> DEFINE st == IF OpenPending(s, ep) THEN "waiting"
                 ELSE IF Unsettled(s, ep) THEN "queued" ELSE "idle"
           u == UpdateEndpointStatus(s, ep, st)
<1>1. st \in Statuses BY DEF Statuses
<1>2. Consistent(u) /\ (st = "queued" => u.nb = s.nb) BY <1>1, UpdateEndpointStatusOK
<1>3. st = "queued" => Consistent(TryCreateDeliveryForEndpoint(u, ep))
  BY <1>2, TryCreateOK
<1>4. ReportTurnEnd(s, ep) = IF s.status[ep] = "runtime_unconfigured" THEN s
        ELSE IF st = "queued" THEN TryCreateDeliveryForEndpoint(u, ep) ELSE u
  BY DEF ReportTurnEnd
<1> QED BY <1>2, <1>3, <1>4

(* A bundle d ends as B and, if it still holds its row, the row becomes W:    *)
(* settled with it, or queued again for another bundle.                       *)
EndsAs(s, t, d, B, W) ==
  /\ t \in Database /\ t.nr = s.nr /\ t.nb = s.nb /\ t.bridge = s.bridge
  /\ \A e \in Bundles : t.bundle[e] = IF e = d THEN B ELSE s.bundle[e]
  /\ \A x \in Rows : t.row[x] = IF x = s.bundle[d].row /\ s.row[x].delivery = d
                                 THEN W ELSE s.row[x]
  /\ B.row = s.bundle[d].row /\ B.attempts = s.bundle[d].attempts
  /\ B.entered = s.bundle[d].entered /\ B.lease = "null" /\ B.state \in TerminalStates
  /\ B.live = 0
  /\ \A x \in Rows : x = s.bundle[d].row =>
       /\ W.dest = s.row[x].dest /\ W.kind = s.row[x].kind
       /\ W.asker = s.row[x].asker /\ W.cont = s.row[x].cont

EndsSettled(s, d, B, W) ==
  /\ s.bundle[d].state # "deferred" /\ B.state # "deferred"
  /\ B.state = "cancelled" => s.bundle[d].state \in ActiveStates
  /\ s.row[s.bundle[d].row].dest \in Clients => B.state \in {"acknowledged", "cancelled"}
  /\ W.state \in {"acknowledged", "dead_lettered", "cancelled"}
  /\ W.delivery = d /\ W.attempts = s.row[s.bundle[d].row].attempts

EndsRequeued(s, d, B, W) ==
  /\ s.bundle[d].state \in ActiveStates /\ s.row[s.bundle[d].row].dest \notin Clients
  /\ W.state = "queued" /\ W.delivery = 0
  /\ \/ B.state = "deferred" /\ W.attempts = s.row[s.bundle[d].row].attempts - 1
     \/ /\ B.state = "failed" /\ ~s.bundle[d].entered
        /\ W.attempts = s.row[s.bundle[d].row].attempts
        /\ s.bundle[d].attempts < MaxAttempts

(* A live bundle ends as EndsAs says: its row is settled or queued again with it. *)
LEMMA EndBundleOK ==
  ASSUME NEW s, Consistent(s), NEW d \in 1 .. s.nb, NEW t, NEW B, NEW W,
         EndsAs(s, t, d, B, W), EndsSettled(s, d, B, W) \/ EndsRequeued(s, d, B, W)
  PROVE  Consistent(t)
<1> DEFINE r == s.bundle[d].row
<1>0. s \in Database BY DEF Consistent
<1>1. /\ d \in Bundles /\ r \in Rows /\ s.bundle[d].state # "none" /\ r \in 1 .. s.nr
      /\ s.nb \in 0 .. MaxBundles /\ s.nr \in 0 .. MaxRows /\ MaxAttempts \in Nat
  BY <1>0, Existence, DatabaseFields, DeliveryAssumption DEF Consistent, Numbered
<1>2. \A e \in 1 .. s.nb : e \in Bundles /\ s.bundle[e].row \in Rows /\ e # 0
  BY <1>1, Existence
<1>3. /\ t.nr = s.nr /\ t.nb = s.nb /\ t.bridge = s.bridge
      /\ t.bundle[d] = B /\ \A e \in Bundles : e # d => t.bundle[e] = s.bundle[e]
      /\ \A x \in Rows : x # r => t.row[x] = s.row[x]
      /\ t.row[r] = IF s.row[r].delivery = d THEN W ELSE s.row[r]
      /\ B.row = r /\ B.attempts = s.bundle[d].attempts /\ B.entered = s.bundle[d].entered
      /\ B.state \in TerminalStates /\ B.live = 0 /\ B.lease = "null"
      /\ W.dest = s.row[r].dest /\ W.kind = s.row[r].kind
      /\ W.asker = s.row[r].asker /\ W.cont = s.row[r].cont
  BY <1>1 DEF EndsAs
<1>4. W.state \in {"acknowledged", "dead_lettered", "cancelled", "queued"}
  BY DEF EndsSettled, EndsRequeued
<1>5. /\ \A e \in Bundles : t.bundle[e].row = s.bundle[e].row
      /\ \A e \in Bundles : t.bundle[e].attempts = s.bundle[e].attempts
      /\ \A e \in Bundles : t.bundle[e].entered = s.bundle[e].entered
      /\ \A x \in Rows : /\ t.row[x].dest = s.row[x].dest /\ t.row[x].kind = s.row[x].kind
                          /\ t.row[x].asker = s.row[x].asker /\ t.row[x].cont = s.row[x].cont
  BY <1>1, <1>3
<1> HIDE DEF r
<1>6. Numbered(t)
  BY <1>1, <1>3, <1>4, <1>5 DEF Consistent, Numbered, TerminalStates
<1>7. RowsLinked(t)
  <2> SUFFICES ASSUME NEW x \in Rows
               PROVE  LET w == t.row[x]
                      IN  /\ w.state \in ActiveStates =>
                               w.delivery # 0 /\ t.bundle[w.delivery].state = w.state
                          /\ w.state \in {"none", "queued", "deleted"} => w.delivery = 0
                          /\ w.state = "queued" => w.attempts < MaxAttempts
                          /\ w.delivery # 0 =>
                               /\ w.delivery \in 1 .. t.nb
                               /\ t.bundle[w.delivery].row = x
                               /\ t.bundle[w.delivery].attempts = w.attempts
    BY DEF RowsLinked
  <2>1. CASE x = r /\ s.row[r].delivery = d
    <3>1. t.row[x] = W BY <2>1, <1>3
    <3>2. s.row[r].attempts = s.bundle[d].attempts BY <2>1, <1>1, <1>2 DEF Consistent, RowsLinked
    <3>3. CASE EndsSettled(s, d, B, W)
      <4>1. W.attempts = s.row[r].attempts /\ W.delivery = d /\ W.state \in {"acknowledged", "dead_lettered", "cancelled"}
        BY <3>3 DEF EndsSettled, r
      <4> QED BY <2>1, <3>1, <3>2, <4>1, <1>1, <1>3 DEF ActiveStates
    <3>4. CASE EndsRequeued(s, d, B, W)
      <4>1. /\ W.state = "queued" /\ W.delivery = 0
            /\ \/ W.attempts = s.row[r].attempts - 1
               \/ W.attempts = s.row[r].attempts /\ s.bundle[d].attempts < MaxAttempts
        BY <3>4 DEF EndsRequeued, r
      <4>2. s.row[r].attempts \in 0 .. MaxAttempts BY <1>0, <1>1, RowFields
      <4>3. W.attempts < MaxAttempts BY <4>1, <4>2, <3>2, <1>1
      <4> QED BY <3>1, <4>1, <4>3 DEF ActiveStates
    <3> QED BY <3>3, <3>4
  <2>2. CASE ~(x = r /\ s.row[r].delivery = d)
    <3>1. t.row[x] = s.row[x] BY <2>2, <1>3
    <3>2. s.row[x].delivery # d BY <2>2, <1>1, <1>2 DEF Consistent, RowsLinked, r
    <3>3. s.row[x].delivery # 0 => s.row[x].delivery \in 1 .. s.nb
      BY DEF Consistent, RowsLinked
    <3>4. s.row[x].delivery # 0 => t.bundle[s.row[x].delivery] = s.bundle[s.row[x].delivery]
      BY <3>2, <3>3, <1>2, <1>3
    <3> QED BY <3>1, <3>3, <3>4, <1>3 DEF Consistent, RowsLinked
  <2> QED BY <2>1, <2>2
<1>8. BundlesLinked(t)
  <2> SUFFICES ASSUME NEW e \in 1 .. s.nb
               PROVE  LET b == t.bundle[e]
                          w == t.row[b.row]
                      IN  /\ b.state \in ActiveStates \/ Conclusive(b) =>
                              /\ w.state = "deleted" \/ w.delivery = e
                              /\ \A f \in 1 .. s.nb : t.bundle[f].row = b.row => f <= e
                          /\ b.state \in ActiveStates => w.state = "deleted" \/ w.state = b.state
                          /\ b.state \in {"reserved", "delivered_to_bridge"} => ~b.entered
    BY <1>3 DEF BundlesLinked, Conclusive
  <2>1. \A f \in 1 .. s.nb : t.bundle[f].row = s.bundle[f].row BY <1>2, <1>5
  <2>2. CASE e = d
    <3>1. t.bundle[e] = B /\ ~(B.state \in ActiveStates)
      BY <2>2, <1>3 DEF TerminalStates, ActiveStates
    <3>2. SUFFICES ASSUME Conclusive(B)
                   PROVE  /\ t.row[r].state = "deleted" \/ t.row[r].delivery = d
                          /\ \A f \in 1 .. s.nb : s.bundle[f].row = r => f <= d
      BY <2>1, <2>2, <3>1, <1>3 DEF ActiveStates
    <3>3. EndsSettled(s, d, B, W)
      BY <3>2, <1>3 DEF EndsRequeued, Conclusive
    <3>4. /\ s.bundle[d].state \in ActiveStates \/ Conclusive(s.bundle[d])
          /\ W.delivery = d
      BY <3>2, <3>3, <1>3 DEF EndsSettled, Conclusive
    <3>5. /\ s.row[r].state = "deleted" \/ s.row[r].delivery = d
          /\ \A f \in 1 .. s.nb : s.bundle[f].row = r => f <= d
      BY <3>4 DEF Consistent, BundlesLinked, Conclusive, r
    <3> QED BY <3>4, <3>5, <1>3
  <2>3. CASE e # d
    <3>1. t.bundle[e] = s.bundle[e] BY <2>3, <1>2, <1>3
    <3>2. ASSUME s.bundle[e].state \in ActiveStates \/ Conclusive(s.bundle[e])
          PROVE  t.row[s.bundle[e].row] = s.row[s.bundle[e].row]
      <4>1. s.row[s.bundle[e].row].state = "deleted" \/ s.row[s.bundle[e].row].delivery = e
        BY <3>2 DEF Consistent, BundlesLinked, Conclusive
      <4>2. s.row[s.bundle[e].row].state = "deleted" => s.row[s.bundle[e].row].delivery = 0
        BY <1>2 DEF Consistent, RowsLinked
      <4>3. s.row[s.bundle[e].row].delivery # d BY <4>1, <4>2, <2>3, <1>2
      <4> QED BY <4>3, <1>2, <1>3
    <3> QED BY <2>1, <3>1, <3>2 DEF Consistent, BundlesLinked, Conclusive, ActiveStates
  <2> QED BY <2>2, <2>3
<1>9. AttemptsOrdered(t)
  <2>1. \A e \in 1 .. s.nb : t.bundle[e].state # "deferred" => s.bundle[e].state # "deferred"
    <3>1. B.state # "deferred" => s.bundle[d].state # "deferred"
      BY DEF EndsSettled, EndsRequeued, ActiveStates
    <3> QED BY <3>1, <1>2, <1>3
  <2>2. \A e \in 1 .. s.nb : t.bundle[e].state # "deferred" /\ s.bundle[e].row = r
           => s.bundle[e].attempts <= t.row[r].attempts
    <3> SUFFICES ASSUME NEW e \in 1 .. s.nb, t.bundle[e].state # "deferred", s.bundle[e].row = r
                 PROVE  s.bundle[e].attempts <= t.row[r].attempts
      OBVIOUS
    <3>1. s.bundle[e].state # "deferred" /\ s.bundle[e].attempts <= s.row[r].attempts
      BY <2>1 DEF Consistent, AttemptsOrdered
    <3>2. CASE t.row[r].attempts = s.row[r].attempts
      BY <3>1, <3>2
    <3>3. CASE t.row[r].attempts # s.row[r].attempts
      <4>1. s.row[r].delivery = d /\ t.row[r] = W BY <3>3, <1>3
      <4>2. B.state = "deferred" /\ W.attempts = s.row[r].attempts - 1 /\ s.bundle[d].state \in ActiveStates
        BY <3>3, <4>1 DEF EndsSettled, EndsRequeued, r
      <4>3. e # d BY <4>2, <1>3
      <4>4. e <= d BY <4>2, <1>2 DEF Consistent, BundlesLinked, Conclusive, r
      <4>5. s.bundle[d].attempts = s.row[r].attempts
        BY <4>1, <1>1, <1>2 DEF Consistent, RowsLinked
      <4>6. e < d BY <4>3, <4>4, <1>1, <1>2, BoundsNat
      <4>7. s.bundle[e].attempts < s.bundle[d].attempts
        BY <4>2, <4>6, <3>1 DEF Consistent, AttemptsOrdered, ActiveStates, r
      <4>8. s.bundle[e].attempts \in Nat /\ s.row[r].attempts \in Nat
        BY <1>0, <1>1, <1>2, RowFields, BundleFields
      <4> QED BY <4>1, <4>2, <4>5, <4>7, <4>8
    <3> QED BY <3>2, <3>3
  <2>3. \A e \in 1 .. s.nb : s.bundle[e].row # r => t.row[s.bundle[e].row] = s.row[s.bundle[e].row]
    BY <1>2, <1>3
  <2> QED
    BY <1>2, <1>3, <1>5, <2>1, <2>2, <2>3 DEF Consistent, AttemptsOrdered
<1>10. RequestsLinked(t)
  <2>1. \A x \in Rows : s.row[x].cont # 0 => s.row[x].cont \in Rows BY <1>0, RowFields
  <2> QED BY <1>3, <1>5, <2>1 DEF Consistent, RequestsLinked
<1>11. ClientsWait(t)
  <2>1. s.row[r].dest \in Clients => B.state \in {"acknowledged", "cancelled"}
    BY DEF EndsSettled, EndsRequeued, r
  <2> QED BY <1>2, <1>3, <1>5, <2>1 DEF Consistent, ClientsWait
<1>12. SessionsMatch(t)
  <2>1. ~(B.state \in ActiveStates) BY <1>3 DEF ActiveStates, TerminalStates
  <2> QED BY <1>3, <2>1 DEF Consistent, SessionsMatch
<1> QED
  BY <1>6, <1>7, <1>8, <1>9, <1>10, <1>11, <1>12 DEF Consistent, EndsAs

(* What ending a bundle leaves alone. *)
KeepsRest(s, t, d) ==
  /\ t.nr = s.nr /\ t.nb = s.nb /\ t.status = s.status /\ t.bridge = s.bridge
  /\ EndpointOf(t, d) = EndpointOf(s, d)
  /\ \A e \in Bundles : t.bundle[e].row = s.bundle[e].row

(* Settle marks one bundle and revokes its session, nothing else. *)
LEMMA SettleFields ==
  ASSUME NEW s, Consistent(s), NEW d \in 1 .. s.nb, NEW st \in TerminalStates
  PROVE  LET B == Ended(s.bundle[d], st)
         IN  /\ Settle(s, d, st) = [s EXCEPT !.bundle = [s.bundle EXCEPT ![d] = B]]
             /\ Settle(s, d, st).bundle[d] = B /\ Settle(s, d, st).row = s.row
             /\ B \in Bundle /\ B.row = s.bundle[d].row /\ B.attempts = s.bundle[d].attempts
             /\ B.entered = s.bundle[d].entered /\ B.lease = "null" /\ B.state = st
             /\ B.live = 0
<1> DEFINE b == s.bundle[d]
           B == Ended(b, st)
<1>0. s \in Database BY DEF Consistent
<1>1. d \in Bundles /\ b \in Bundle /\ b.live \in Nat /\ b.sid \in BOOLEAN
  BY <1>0, Existence, BundleFields
<1>2. b.live = IF b.sid /\ b.state \in ActiveStates THEN 1 ELSE 0
  BY <1>1 DEF Consistent, SessionsMatch
<1>3. (IF b.sid /\ b.live > 0 THEN b.live - 1 ELSE b.live) = 0
  BY <1>1, <1>2
<1>4. B = [b EXCEPT !.state = st, !.lease = "null", !.live = 0]
  BY <1>3 DEF Ended
<1>5. /\ B \in Bundle /\ B.row = b.row /\ B.attempts = b.attempts /\ B.entered = b.entered
      /\ B.lease = "null" /\ B.state = st /\ B.live = 0
  <2> HIDE DEF B, b
  <2>1. 0 \in Nat OBVIOUS
  <2> QED BY <1>1, <1>4, <2>1 DEF Bundle
<1>6. Settle(s, d, st) = [s EXCEPT !.bundle = [s.bundle EXCEPT ![d] = B]]
  BY <1>0 DEF Settle, Database
<1> HIDE DEF B, b
<1>7. Settle(s, d, st).bundle[d] = B /\ Settle(s, d, st).row = s.row
  <2>1. s.bundle \in [Bundles -> Bundle] BY <1>0, DatabaseFields
  <2> QED BY <1>0, <1>1, <1>6, <2>1 DEF Database
<1> QED BY <1>5, <1>6, <1>7 DEF B, b

(* Ending a bundle and writing its row, if it still holds it. *)
LEMMA EndsAsIntro ==
  ASSUME NEW s, Consistent(s), NEW d \in 1 .. s.nb, NEW B \in Bundle, NEW W \in Row, NEW t,
         B.row = s.bundle[d].row, B.attempts = s.bundle[d].attempts,
         B.entered = s.bundle[d].entered, B.lease = "null", B.state \in TerminalStates,
         B.live = 0,
         W.dest = s.row[s.bundle[d].row].dest, W.kind = s.row[s.bundle[d].row].kind,
         W.asker = s.row[s.bundle[d].row].asker, W.cont = s.row[s.bundle[d].row].cont,
         t = [s EXCEPT !.bundle = [s.bundle EXCEPT ![d] = B],
                       !.row = IF s.row[s.bundle[d].row].delivery = d
                               THEN [s.row EXCEPT ![s.bundle[d].row] = W] ELSE s.row]
  PROVE  EndsAs(s, t, d, B, W) /\ KeepsRest(s, t, d)
<1> DEFINE r == s.bundle[d].row
           rows == IF s.row[r].delivery = d THEN [s.row EXCEPT ![r] = W] ELSE s.row
<1>0. s \in Database BY DEF Consistent
<1>1. /\ d \in Bundles /\ r \in Rows
      /\ s.row \in [Rows -> Row] /\ s.bundle \in [Bundles -> Bundle]
  BY <1>0, Existence, DatabaseFields
<1>2. rows \in [Rows -> Row] /\ [s.bundle EXCEPT ![d] = B] \in [Bundles -> Bundle]
  BY <1>1
<1>3. \A x \in Rows : rows[x] = IF x = r /\ s.row[x].delivery = d THEN W ELSE s.row[x]
  BY <1>1
<1>4. \A e \in Bundles : [s.bundle EXCEPT ![d] = B][e] = IF e = d THEN B ELSE s.bundle[e]
  BY <1>1
<1>5. t = [s EXCEPT !.bundle = [s.bundle EXCEPT ![d] = B], !.row = rows]
  OBVIOUS
<1> HIDE DEF rows
<1>6. /\ t \in Database /\ t.nr = s.nr /\ t.nb = s.nb /\ t.bridge = s.bridge
      /\ t.status = s.status
      /\ t.row = rows /\ t.bundle = [s.bundle EXCEPT ![d] = B]
  BY <1>0, <1>2, <1>5 DEF Database
<1>7. EndsAs(s, t, d, B, W)
  BY <1>3, <1>4, <1>6 DEF EndsAs
<1>8. t.bundle[d].row = r /\ t.row[r].dest = s.row[r].dest
  BY <1>1, <1>3, <1>4, <1>6
<1> QED
  BY <1>1, <1>4, <1>6, <1>7, <1>8 DEF KeepsRest, EndpointOf

(* A bundle is settled and its row, if it still holds it, with it. *)
LEMMA SettleOK ==
  ASSUME NEW s, Consistent(s), NEW d \in 1 .. s.nb,
         NEW st \in TerminalStates, NEW rs \in {"acknowledged", "dead_lettered", "cancelled"},
         st # "deferred", s.bundle[d].state # "deferred",
         st = "cancelled" => IsActive(s, d),
         EndpointOf(s, d) \in Clients => st \in {"acknowledged", "cancelled"}
  PROVE  LET t == SetRowState(Settle(s, d, st), d, rs)
         IN  Consistent(t) /\ KeepsRest(s, t, d) /\ t.bundle[d].state = st
<1> DEFINE r == s.bundle[d].row
           B == Ended(s.bundle[d], st)
           W == [s.row[r] EXCEPT !.state = rs]
           u == Settle(s, d, st)
           t == SetRowState(u, d, rs)
           v == [s EXCEPT !.bundle = [s.bundle EXCEPT ![d] = B],
                          !.row = IF s.row[r].delivery = d THEN [s.row EXCEPT ![r] = W] ELSE s.row]
           X == [s.row[r] EXCEPT !.state = rs, !.delivery = d]
<1>0. s \in Database BY DEF Consistent
<1>1. d \in Bundles /\ r \in Rows /\ s.row[r] \in Row
  BY <1>0, Existence, RowFields
<1>2. /\ u = [s EXCEPT !.bundle = [s.bundle EXCEPT ![d] = B]]
      /\ u.bundle[d] = B /\ u.row = s.row
      /\ B \in Bundle /\ B.row = r /\ B.attempts = s.bundle[d].attempts
      /\ B.entered = s.bundle[d].entered /\ B.lease = "null" /\ B.state = st /\ B.live = 0
  BY SettleFields
<1>3. /\ X \in Row /\ X.dest = s.row[r].dest /\ X.kind = s.row[r].kind /\ X.state = rs
      /\ X.asker = s.row[r].asker /\ X.cont = s.row[r].cont /\ X.delivery = d
      /\ X.attempts = s.row[r].attempts
      /\ s.row[r].delivery = d => X = W
  <2>1. d \in 0 .. MaxBundles BY <1>1, BoundsNat DEF Bundles
  <2>2. s.row[r].delivery = d => X = W BY <1>1 DEF Row
  <2> HIDE DEF r
  <2> QED BY <1>1, <2>1, <2>2 DEF Row
<1>4. t = v
  <2>0. u.bundle[d].row = r /\ u.row[r] = s.row[r]
    BY <1>2
  <2>1. t = IF s.row[r].delivery = d THEN [u EXCEPT !.row[r] = W] ELSE u
    <3> HIDE DEF u, B
    <3> QED BY <2>0, Zenon DEF SetRowState
  <2> HIDE DEF B, u, r
  <2>2. CASE s.row[r].delivery = d
    <3>1. t = [u EXCEPT !.row = [s.row EXCEPT ![r] = W]] BY <2>1, <2>2, <1>2
    <3> HIDE DEF W, t
    <3> QED BY <3>1, <2>2, <1>0, <1>2 DEF Database
  <2>3. CASE s.row[r].delivery # d
    <3>1. t = u BY <2>1, <2>3
    <3> HIDE DEF W, t
    <3> QED BY <3>1, <2>3, <1>0, <1>2 DEF Database
  <2> QED BY <2>2, <2>3
<1>5. v = [s EXCEPT !.bundle = [s.bundle EXCEPT ![d] = B],
                    !.row = IF s.row[r].delivery = d THEN [s.row EXCEPT ![r] = X] ELSE s.row]
  BY <1>3
<1> HIDE DEF B, X, u, t, v, W
<1>6. EndsAs(s, v, d, B, X) /\ KeepsRest(s, v, d)
  BY <1>2, <1>3, <1>5, EndsAsIntro
<1>7. EndsSettled(s, d, B, X)
  BY <1>2, <1>3 DEF EndsSettled, EndpointOf, IsActive
<1>8. Consistent(v)
  BY <1>6, <1>7, EndBundleOK
<1>9. v.bundle[d].state = st
  BY <1>1, <1>2, <1>6 DEF EndsAs
<1> QED
  BY <1>4, <1>6, <1>8, <1>9 DEF t, u

(* A bundle is given up and its row, if it still holds it, queued again. *)
LEMMA RequeueOK ==
  ASSUME NEW s, Consistent(s), NEW d \in 1 .. s.nb, IsActive(s, d),
         EndpointOf(s, d) \notin Clients,
         NEW st, NEW refund,
         \/ st = "deferred" /\ refund = 1
         \/ st = "failed" /\ refund = 0 /\ ~s.bundle[d].entered
                          /\ s.bundle[d].attempts < MaxAttempts
  PROVE  LET t == RequeueRow(Settle(s, d, st), d, refund)
         IN  Consistent(t) /\ KeepsRest(s, t, d) /\ t.bundle[d].state = st
<1> DEFINE r == s.bundle[d].row
           B == Ended(s.bundle[d], st)
           W == Requeued(s.row[r], refund)
           u == Settle(s, d, st)
           t == RequeueRow(u, d, refund)
           v == [s EXCEPT !.bundle = [s.bundle EXCEPT ![d] = B],
                          !.row = IF s.row[r].delivery = d THEN [s.row EXCEPT ![r] = W] ELSE s.row]
<1>0. s \in Database BY DEF Consistent
<1>1. /\ d \in Bundles /\ r \in Rows /\ s.row[r] \in Row /\ s.row[r].attempts \in 0 .. MaxAttempts
      /\ st \in TerminalStates /\ MaxAttempts \in Nat /\ s.bundle[d].attempts \in Nat
  BY <1>0, Existence, RowFields, BundleFields, DeliveryAssumption DEF TerminalStates
<1>2. /\ u = [s EXCEPT !.bundle = [s.bundle EXCEPT ![d] = B]]
      /\ u.bundle[d] = B /\ u.row = s.row
      /\ B \in Bundle /\ B.row = r /\ B.attempts = s.bundle[d].attempts
      /\ B.entered = s.bundle[d].entered /\ B.lease = "null" /\ B.state = st /\ B.live = 0
  BY <1>1, SettleFields
<1>3. 1 <= s.row[r].attempts
  <2>1. s.bundle[d].state # "deferred" BY DEF IsActive, ActiveStates
  <2>2. 1 <= s.bundle[d].attempts /\ s.bundle[d].attempts <= s.row[r].attempts
    BY <2>1 DEF Consistent, AttemptsOrdered
  <2> QED BY <1>1, <2>2
<1>4. /\ W \in Row /\ W.dest = s.row[r].dest /\ W.kind = s.row[r].kind /\ W.state = "queued"
      /\ W.asker = s.row[r].asker /\ W.cont = s.row[r].cont /\ W.delivery = 0
      /\ W.attempts = s.row[r].attempts - refund
  <2> DEFINE a == IF s.row[r].attempts > refund THEN s.row[r].attempts - refund ELSE 0
  <2>1. a = s.row[r].attempts - refund /\ a \in 0 .. MaxAttempts BY <1>1, <1>3
  <2>2. W = [s.row[r] EXCEPT !.state = "queued", !.delivery = 0, !.attempts = a]
    BY DEF Requeued
  <2>3. 0 \in 0 .. MaxBundles BY BoundsNat
  <2> HIDE DEF a, r, W
  <2> QED BY <1>1, <2>1, <2>2, <2>3 DEF Row
<1>5. t = v
  <2>0. u.bundle[d].row = r /\ u.row[r] = s.row[r]
    BY <1>2
  <2>1. t = IF s.row[r].delivery = d THEN [u EXCEPT !.row[r] = W] ELSE u
    <3> HIDE DEF u, B
    <3> QED BY <2>0, Zenon DEF RequeueRow
  <2> HIDE DEF B, u, r
  <2>2. CASE s.row[r].delivery = d
    <3>1. t = [u EXCEPT !.row = [s.row EXCEPT ![r] = W]] BY <2>1, <2>2, <1>2
    <3> HIDE DEF W, t
    <3> QED BY <3>1, <2>2, <1>0, <1>2 DEF Database
  <2>3. CASE s.row[r].delivery # d
    <3>1. t = u BY <2>1, <2>3
    <3> HIDE DEF W, t
    <3> QED BY <3>1, <2>3, <1>0, <1>2 DEF Database
  <2> QED BY <2>2, <2>3
<1> HIDE DEF B, W, u, t
<1>6. EndsAs(s, v, d, B, W) /\ KeepsRest(s, v, d)
  BY <1>1, <1>2, <1>4, EndsAsIntro
<1>7. EndsRequeued(s, d, B, W)
  <2>1. W.attempts = s.row[r].attempts \/ refund = 1 BY <1>1, <1>4
  <2> QED BY <2>1, <1>1, <1>2, <1>4 DEF EndsRequeued, EndpointOf, IsActive
<1> HIDE DEF v
<1>8. Consistent(v)
  BY <1>6, <1>7, EndBundleOK
<1>9. v.bundle[d].state = st
  BY <1>1, <1>2, <1>6 DEF EndsAs
<1> QED
  BY <1>5, <1>6, <1>8, <1>9 DEF t, u

(* A bundle given up before its turn is requeued or, out of attempts, settled. *)
LEMMA GiveUpOK ==
  ASSUME NEW s, Consistent(s), NEW d \in 1 .. s.nb, IsActive(s, d),
         s.bundle[d].state # "injected_to_runtime", EndpointOf(s, d) \notin Clients
  PROVE  Consistent(GiveUpBeforeTurn(s, d)) /\ KeepsRest(s, GiveUpBeforeTurn(s, d), d)
<1>1. s.bundle[d].attempts \in Nat /\ MaxAttempts \in Nat
  BY Existence, BundleFields, DeliveryAssumption DEF Consistent
<1>2. s.bundle[d].state # "deferred" /\ ~s.bundle[d].entered
  BY DEF Consistent, BundlesLinked, Conclusive, IsActive, ActiveStates
<1>3. CASE s.bundle[d].attempts >= MaxAttempts
  BY <1>2, <1>3, SettleOK DEF GiveUpBeforeTurn, TerminalStates
<1>4. CASE ~(s.bundle[d].attempts >= MaxAttempts)
  <2>1. s.bundle[d].attempts < MaxAttempts BY <1>1, <1>4
  <2> QED BY <1>2, <1>4, <2>1, RequeueOK DEF GiveUpBeforeTurn
<1> QED BY <1>3, <1>4

(* A turn whose runtime failed or is gone is settled and its endpoint stopped. *)
LEMMA StopOK ==
  ASSUME NEW s, Consistent(s), NEW d \in 1 .. s.nb, IsActive(s, d),
         EndpointOf(s, d) \notin Clients, NEW st \in {"failed", "dead_lettered"}
  PROVE  LET t == SetStatus(SetRowState(Settle(s, d, st), d, "dead_lettered"),
                            EndpointOf(s, d), "error")
         IN  Consistent(t) /\ t.nr = s.nr /\ t.nb = s.nb
<1> DEFINE u == SetRowState(Settle(s, d, st), d, "dead_lettered")
<1>1. s.bundle[d].state # "deferred" BY DEF IsActive, ActiveStates
<1>2. Consistent(u) /\ KeepsRest(s, u, d)
  BY <1>1, SettleOK DEF TerminalStates
<1>3. EndpointOf(s, d) \in Endpoints BY Existence DEF EndpointOf
<1> HIDE DEF u
<1>4. "error" \in Statuses BY DEF Statuses
<1>5. /\ Consistent(SetStatus(u, EndpointOf(s, d), "error"))
      /\ SameWork(u, SetStatus(u, EndpointOf(s, d), "error"))
  BY <1>2, <1>3, <1>4, SetStatusOK
<1> QED BY <1>2, <1>5 DEF KeepsRest, SameWork, u

(* Rows may be given other responses and results without changing a link. *)
LEMMA TouchRowsOK ==
  ASSUME NEW s, Consistent(s), NEW rows \in [Rows -> Row],
         \A r \in Rows : /\ rows[r].dest = s.row[r].dest /\ rows[r].state = s.row[r].state
                         /\ rows[r].delivery = s.row[r].delivery
                         /\ rows[r].attempts = s.row[r].attempts
                         /\ rows[r].kind = s.row[r].kind
                         /\ rows[r].asker = s.row[r].asker /\ rows[r].cont = s.row[r].cont
  PROVE  LET t == [s EXCEPT !.row = rows]
         IN  /\ Consistent(t) /\ t.row = rows /\ t.bundle = s.bundle
             /\ t.nr = s.nr /\ t.nb = s.nb /\ t.status = s.status /\ t.bridge = s.bridge
<1> DEFINE t == [s EXCEPT !.row = rows]
<1>0. s \in Database BY DEF Consistent
<1>1. /\ t \in Database /\ t.row = rows /\ t.bundle = s.bundle
      /\ t.nr = s.nr /\ t.nb = s.nb /\ t.status = s.status /\ t.bridge = s.bridge
  BY <1>0 DEF Database
<1> HIDE DEF t
<1>2. SameLinks(s, t) BY <1>1 DEF SameLinks
<1>3. \A d \in 1 .. s.nb : s.bundle[d].row \in Rows BY Existence
<1>4. ClientsWait(t) BY <1>1, <1>3 DEF Consistent, ClientsWait
<1>5. Consistent(t) BY <1>1, <1>2, <1>4, SameLinksConsistent
<1> QED BY <1>1, <1>5 DEF t

(* One row of TouchRowsOK. *)
LEMMA TouchRowOK ==
  ASSUME NEW s, Consistent(s), NEW r \in Rows, NEW w \in Row,
         w.dest = s.row[r].dest, w.state = s.row[r].state, w.delivery = s.row[r].delivery,
         w.attempts = s.row[r].attempts, w.kind = s.row[r].kind,
         w.asker = s.row[r].asker, w.cont = s.row[r].cont
  PROVE  LET t == [s EXCEPT !.row = [s.row EXCEPT ![r] = w]]
         IN  /\ Consistent(t) /\ t.row = [s.row EXCEPT ![r] = w] /\ t.bundle = s.bundle
             /\ t.nr = s.nr /\ t.nb = s.nb /\ t.status = s.status /\ t.bridge = s.bridge
<1> DEFINE rows == [s.row EXCEPT ![r] = w]
<1>1. s.row \in [Rows -> Row] BY DatabaseFields DEF Consistent
<1>2. rows \in [Rows -> Row] /\ \A x \in Rows : rows[x] = IF x = r THEN w ELSE s.row[x]
  BY <1>1
<1> HIDE DEF rows
<1>3. \A x \in Rows : /\ rows[x].dest = s.row[x].dest /\ rows[x].state = s.row[x].state
                      /\ rows[x].delivery = s.row[x].delivery
                      /\ rows[x].attempts = s.row[x].attempts
                      /\ rows[x].kind = s.row[x].kind
                      /\ rows[x].asker = s.row[x].asker /\ rows[x].cont = s.row[x].cont
  BY <1>2
<1> QED BY <1>2, <1>3, TouchRowsOK DEF rows

(* What a turn continues is an existing request. *)
LEMMA ContinuationOK ==
  ASSUME NEW s, Consistent(s), NEW r \in 1 .. s.nr
  PROVE  LET c == Continuation(s, r)
         IN  /\ c \in 0 .. MaxRows
             /\ c # 0 => /\ c \in Rows /\ c <= s.nr /\ s.row[c].kind = "request"
                         /\ s.row[c].asker \in Endpoints
<1>0. s \in Database BY DEF Consistent
<1>1. s.nr \in 0 .. MaxRows /\ MaxRows \in Nat /\ r \in Rows
  BY <1>0, DatabaseFields, BoundsNat DEF Rows
<1>2. s.row[r] \in Row /\ s.row[r].cont \in 0 .. MaxRows
      /\ (s.row[r].cont # 0 => s.row[r].cont \in Rows)
  BY <1>0, <1>1, RowFields
<1>3. s.row[r].cont # 0 => s.row[r].cont <= s.nr /\ s.row[s.row[r].cont].kind = "request"
  BY <1>1 DEF Consistent, RequestsLinked
<1>4. s.row[r].kind \in {"message", "request", "return"} BY <1>2 DEF Row
<1>5. CASE s.row[r].kind = "request"
  <2>1. Continuation(s, r) = r BY <1>5 DEF Continuation
  <2> QED BY <2>1, <1>1, <1>5 DEF Consistent, RequestsLinked
<1>6. CASE s.row[r].kind = "return"
  <2>1. Continuation(s, r) = s.row[r].cont BY <1>6 DEF Continuation
  <2> QED BY <2>1, <1>2, <1>3 DEF Consistent, RequestsLinked
<1>7. CASE s.row[r].kind = "message"
  <2>1. Continuation(s, r) = 0 BY <1>7 DEF Continuation
  <2> QED BY <2>1, <1>1
<1> QED BY <1>4, <1>5, <1>6, <1>7

(* The answer of a turn: its result is stored, the request it answers is     *)
(* resolved and the answer queued for the asker.                              *)
LEMMA AnswerOK ==
  ASSUME NEW s, Consistent(s), NEW d \in 1 .. s.nb, s.nr < MaxRows,
         NEW outcome \in {"completed", "failed"}, ExactRequest(s, d)
  PROVE  LET k == s.bundle[d].row
             c == Continuation(s, k)
             u == [s EXCEPT !.row[k].result = outcome]
             v == [u EXCEPT !.row[c].pending = "resolved"]
             answer == [NoRow EXCEPT !.dest = s.row[c].asker, !.kind = "return",
                                     !.state = "queued", !.answers = c,
                                     !.cont = s.row[c].cont]
             q == QueueEvent(v, answer)
         IN  /\ Consistent(q) /\ q.nb = s.nb /\ q.bundle = s.bundle
             /\ Consistent(v) /\ v.nr = s.nr /\ v.nb = s.nb /\ v.bundle = s.bundle
             /\ answer \in Row /\ answer.dest \in Endpoints
             /\ c \in Rows /\ c <= s.nr /\ s.row[c].kind = "request"
             /\ s.row[c].asker \in Endpoints /\ s.row[c].pending = "pending"
<1> DEFINE k == s.bundle[d].row
           c == Continuation(s, k)
           w == [s.row[k] EXCEPT !.result = outcome]
           u == [s EXCEPT !.row[k].result = outcome]
           answer == [NoRow EXCEPT !.dest = s.row[c].asker, !.kind = "return",
                                   !.state = "queued", !.answers = c,
                                   !.cont = s.row[c].cont]
           v == [u EXCEPT !.row[c].pending = "resolved"]
<1>0. s \in Database BY DEF Consistent
<1>1. /\ d \in Bundles /\ k \in Rows /\ k \in 1 .. s.nr /\ s.row[k] \in Row
      /\ s.row \in [Rows -> Row]
  BY <1>0, Existence, RowFields, DatabaseFields DEF Consistent, Numbered
<1>2. /\ c \in 0 .. MaxRows
      /\ c # 0 => /\ c \in Rows /\ c <= s.nr /\ s.row[c].kind = "request"
                  /\ s.row[c].asker \in Endpoints
  BY <1>1, ContinuationOK
<1> HIDE DEF c, k
<1>3. w \in Row BY <1>1 DEF Row
<1>4. u = [s EXCEPT !.row = [s.row EXCEPT ![k] = w]]
  OBVIOUS
<1>5. /\ w.dest = s.row[k].dest /\ w.state = s.row[k].state /\ w.delivery = s.row[k].delivery
      /\ w.attempts = s.row[k].attempts /\ w.kind = s.row[k].kind
      /\ w.asker = s.row[k].asker /\ w.cont = s.row[k].cont
  BY <1>1 DEF Row
<1> HIDE DEF w, u
<1>6. /\ Consistent(u) /\ u.row = [s.row EXCEPT ![k] = w] /\ u.bundle = s.bundle
      /\ u.nr = s.nr /\ u.nb = s.nb
  BY <1>1, <1>3, <1>4, <1>5, TouchRowOK
<1>7. \A r \in Rows : /\ u.row[r] \in Row /\ u.row[r].kind = s.row[r].kind
                      /\ u.row[r].cont = s.row[r].cont /\ u.row[r].asker = s.row[r].asker
  BY <1>1, <1>3, <1>5, <1>6
<1>8. c # 0 /\ s.row[c].pending = "pending" BY DEF ExactRequest, c, k
<1> DEFINE wc == [u.row[c] EXCEPT !.pending = "resolved"]
<1>9. v = [u EXCEPT !.row = [u.row EXCEPT ![c] = wc]]
  OBVIOUS
<1>10. /\ wc \in Row /\ wc.dest = u.row[c].dest /\ wc.state = u.row[c].state
      /\ wc.delivery = u.row[c].delivery /\ wc.attempts = u.row[c].attempts
      /\ wc.kind = u.row[c].kind /\ wc.asker = u.row[c].asker /\ wc.cont = u.row[c].cont
  BY <1>2, <1>7, <1>8 DEF Row
<1> HIDE DEF wc, v
<1>11. /\ Consistent(v) /\ v.row = [u.row EXCEPT ![c] = wc] /\ v.bundle = u.bundle
      /\ v.nr = u.nr /\ v.nb = u.nb
  <2>1. c \in Rows BY <1>2, <1>8
  <2>2. Consistent(u) BY <1>6
  <2> QED BY <2>1, <2>2, <1>9, <1>10, TouchRowOK
<1>12. \A r \in Rows : v.row[r].kind = s.row[r].kind /\ v.row[r].cont = s.row[r].cont
  <2>1. u.row \in [Rows -> Row] BY <1>6, DatabaseFields DEF Consistent
  <2> QED BY <2>1, <1>2, <1>7, <1>8, <1>10, <1>11
<1>13. /\ answer \in Row /\ answer.dest = s.row[c].asker /\ answer.state = "queued"
      /\ answer.delivery = 0 /\ answer.attempts = 0 /\ answer.kind = "return"
      /\ answer.cont = s.row[c].cont
  <2>1. s.row[c].cont \in 0 .. MaxRows BY <1>0, <1>2, <1>8, RowFields
  <2>2. 0 \in 0 .. MaxBundles /\ 0 \in 0 .. MaxAttempts /\ 0 \in 0 .. MaxRows
    BY DeliveryAssumption
  <2> QED BY <1>2, <1>8, <2>1, <2>2 DEF NoRow, Row
<1>14. answer.cont # 0 => answer.cont <= v.nr /\ v.row[answer.cont].kind = "request"
  <2>1. s.row[c].cont # 0 => /\ s.row[c].cont \in Rows /\ s.row[c].cont <= s.nr
                             /\ s.row[s.row[c].cont].kind = "request"
    BY <1>0, <1>2, <1>8, RowFields DEF Consistent, RequestsLinked
  <2> QED BY <2>1, <1>6, <1>11, <1>12, <1>13
<1> HIDE DEF answer
<1>15. /\ Consistent(QueueEvent(v, answer)) /\ QueueEvent(v, answer).nb = v.nb
      /\ QueueEvent(v, answer).bundle = v.bundle
  <2>1. answer.dest \in Endpoints BY <1>2, <1>8, <1>13
  <2>2. v.nr < MaxRows BY <1>6, <1>11
  <2>3. answer.kind = "request" => answer.asker \in Endpoints BY <1>13
  <2> QED BY <2>1, <2>2, <2>3, <1>11, <1>13, <1>14, QueueEventOK
<1>16. /\ Consistent(QueueEvent(v, answer)) /\ QueueEvent(v, answer).nb = s.nb
       /\ QueueEvent(v, answer).bundle = s.bundle
       /\ Consistent(v) /\ v.nr = s.nr /\ v.nb = s.nb /\ v.bundle = s.bundle
       /\ answer \in Row /\ answer.dest \in Endpoints
       /\ c \in Rows /\ c <= s.nr /\ s.row[c].kind = "request"
       /\ s.row[c].asker \in Endpoints /\ s.row[c].pending = "pending"
  BY <1>2, <1>6, <1>8, <1>11, <1>13, <1>15
<1> QED BY <1>16, Zenon DEF u, v, answer, c, k

(* A turn result changes responses and results, and queues at most one answer. *)
LEMMA RecordOK ==
  ASSUME NEW s, Consistent(s), NEW d \in 1 .. s.nb, s.nr < MaxRows, s.nb < MaxBundles,
         NEW outcome \in {"completed", "failed"}
  PROVE  LET t == RecordRuntimeTurnResult(s, d, outcome)
         IN  Consistent(t) /\ Extends(s, t)
<1> DEFINE k == s.bundle[d].row
           c == Continuation(s, k)
           w == [s.row[k] EXCEPT !.result = outcome]
           u == [s EXCEPT !.row[k].result = outcome]
           heard == IF s.row[k].kind # "request" /\ s.row[k].pending = "pending"
                    THEN "resolved" ELSE s.row[k].pending
           answer == [NoRow EXCEPT !.dest = s.row[c].asker, !.kind = "return",
                                   !.state = "queued", !.answers = c,
                                   !.cont = s.row[c].cont]
           x == [u EXCEPT !.row[k].pending = heard]
<1>0. s \in Database BY DEF Consistent
<1>1. /\ d \in Bundles /\ k \in Rows /\ k \in 1 .. s.nr /\ s.row[k] \in Row
      /\ s.row \in [Rows -> Row]
  BY <1>0, Existence, RowFields, DatabaseFields DEF Consistent, Numbered
<1>2. /\ c \in 0 .. MaxRows
      /\ c # 0 => /\ c \in Rows /\ c <= s.nr /\ s.row[c].kind = "request"
                  /\ s.row[c].asker \in Endpoints
  BY <1>1, ContinuationOK
<1> HIDE DEF c, k
<1>3. w \in Row BY <1>1 DEF Row
<1>4. u = [s EXCEPT !.row = [s.row EXCEPT ![k] = w]]
  OBVIOUS
<1>5. /\ w.dest = s.row[k].dest /\ w.state = s.row[k].state /\ w.delivery = s.row[k].delivery
      /\ w.attempts = s.row[k].attempts /\ w.kind = s.row[k].kind
      /\ w.asker = s.row[k].asker /\ w.cont = s.row[k].cont
  BY <1>1 DEF Row
<1> HIDE DEF w, u
<1>6. /\ Consistent(u) /\ u.row = [s.row EXCEPT ![k] = w] /\ u.bundle = s.bundle
      /\ u.nr = s.nr /\ u.nb = s.nb
  BY <1>1, <1>3, <1>4, <1>5, TouchRowOK
<1>7. \A r \in Rows : /\ u.row[r] \in Row /\ u.row[r].kind = s.row[r].kind
                      /\ u.row[r].cont = s.row[r].cont /\ u.row[r].asker = s.row[r].asker
  BY <1>1, <1>3, <1>5, <1>6
<1>8. CASE s.row[k].result # "none"
  <2>1. RecordRuntimeTurnResult(s, d, outcome) = s
    BY <1>8 DEF RecordRuntimeTurnResult, k
  <2> QED BY <2>1 DEF Extends
<1>9. CASE s.row[k].result = "none" /\ ExactRequest(s, d)
  <2> DEFINE v == [u EXCEPT !.row[c].pending = "resolved"]
             q == QueueEvent(v, answer)
  <2>1. RecordRuntimeTurnResult(s, d, outcome) =
          TryCreateDeliveryForEndpoint(q, s.row[c].asker)
    BY <1>9 DEF RecordRuntimeTurnResult, ResolveRequest, c, k, u
  <2>2. Consistent(q) /\ q.nb = s.nb /\ q.bundle = s.bundle /\ s.row[c].asker \in Endpoints
    BY <1>9, AnswerOK, ZenonT(90) DEF c, k, u
  <2> HIDE DEF q
  <2>3. /\ Consistent(TryCreateDeliveryForEndpoint(q, s.row[c].asker))
        /\ Extends(q, TryCreateDeliveryForEndpoint(q, s.row[c].asker))
    BY <2>2, TryCreateOK
  <2> QED BY <2>1, <2>2, <2>3 DEF Extends
<1>10. CASE s.row[k].result = "none" /\ ~ExactRequest(s, d)
  <2>1. RecordRuntimeTurnResult(s, d, outcome) = x
    BY <1>10 DEF RecordRuntimeTurnResult, k, u
  <2> DEFINE wk == [u.row[k] EXCEPT !.pending = heard]
  <2>2. x = [u EXCEPT !.row = [u.row EXCEPT ![k] = wk]]
    OBVIOUS
  <2>3. heard \in {"none", "pending", "resolved", "cancelled"}
    BY <1>1 DEF Row
  <2> HIDE DEF heard
  <2>4. /\ wk \in Row /\ wk.dest = u.row[k].dest /\ wk.state = u.row[k].state
        /\ wk.delivery = u.row[k].delivery /\ wk.attempts = u.row[k].attempts
        /\ wk.kind = u.row[k].kind /\ wk.asker = u.row[k].asker /\ wk.cont = u.row[k].cont
    BY <1>1, <1>7, <2>3 DEF Row
  <2> HIDE DEF wk, x
  <2>5. Consistent(x) /\ x.bundle = u.bundle /\ x.nb = u.nb
    BY <1>1, <1>6, <2>2, <2>4, TouchRowOK
  <2> QED BY <2>1, <2>5, <1>6 DEF Extends
<1> QED BY <1>8, <1>9, <1>10

(* A claim moves reserved bundles and the rows they hold together. *)
LEMMA ClaimedOK ==
  ASSUME NEW s, Consistent(s), NEW D, D \subseteq 1 .. s.nb
  PROVE  LET t == Claimed(s, D)
         IN  /\ Consistent(t) /\ t.nb = s.nb
             /\ \A d \in Bundles : /\ IsActive(t, d) <=> IsActive(s, d)
                                   /\ t.bundle[d].row = s.bundle[d].row
             /\ \A r \in Rows : t.row[r].dest = s.row[r].dest
<1> DEFINE taken == {d \in D : s.bundle[d].state = "reserved"}
           bs == [d \in Bundles |-> IF d \in taken
                    THEN [s.bundle[d] EXCEPT !.state = "delivered_to_bridge"] ELSE s.bundle[d]]
           rs == [r \in Rows |-> IF s.row[r].delivery \in taken /\ s.row[r].state = "reserved"
                    THEN [s.row[r] EXCEPT !.state = "delivered_to_bridge"] ELSE s.row[r]]
           t == [s EXCEPT !.bundle = bs, !.row = rs]
           moved(r) == s.row[r].delivery \in taken /\ s.row[r].state = "reserved"
<1>0. s \in Database BY DEF Consistent
<1>1. /\ s.row \in [Rows -> Row] /\ s.bundle \in [Bundles -> Bundle]
      /\ s.nr \in 0 .. MaxRows /\ s.nb \in 0 .. MaxBundles
  BY <1>0, DatabaseFields
<1>2. Claimed(s, D) = t BY DEF Claimed
<1>3. \A d \in Bundles :
        /\ bs[d] \in Bundle
        /\ bs[d].row = s.bundle[d].row /\ bs[d].attempts = s.bundle[d].attempts
        /\ bs[d].entered = s.bundle[d].entered /\ bs[d].lease = s.bundle[d].lease
        /\ bs[d].sid = s.bundle[d].sid /\ bs[d].live = s.bundle[d].live
        /\ bs[d].state = IF d \in taken THEN "delivered_to_bridge" ELSE s.bundle[d].state
  <2> HIDE DEF taken
  <2> QED BY <1>1 DEF Bundle, ActiveStates
<1>4. \A r \in Rows :
        /\ rs[r] \in Row
        /\ rs[r].dest = s.row[r].dest /\ rs[r].kind = s.row[r].kind
        /\ rs[r].delivery = s.row[r].delivery /\ rs[r].attempts = s.row[r].attempts
        /\ rs[r].asker = s.row[r].asker /\ rs[r].cont = s.row[r].cont
        /\ rs[r].state = IF moved(r) THEN "delivered_to_bridge" ELSE s.row[r].state
  <2> HIDE DEF taken
  <2> QED BY <1>1 DEF Row, ActiveStates
<1>5. bs \in [Bundles -> Bundle] /\ rs \in [Rows -> Row]
  <2>1. bs = [d \in Bundles |-> bs[d]] /\ rs = [r \in Rows |-> rs[r]] OBVIOUS
  <2> HIDE DEF bs, rs
  <2> QED BY <1>3, <1>4, <2>1
<1> HIDE DEF bs, rs
<1>6. /\ t \in Database /\ t.row = rs /\ t.bundle = bs /\ t.nr = s.nr /\ t.nb = s.nb
      /\ t.bridge = s.bridge
  BY <1>0, <1>5 DEF Database
<1>7. \A d \in 1 .. s.nb : d \in Bundles /\ s.bundle[d].row \in Rows
  BY Existence
<1>8. \A d \in taken : d \in 1 .. s.nb /\ s.bundle[d].state = "reserved"
  OBVIOUS
<1> HIDE DEF t, taken
<1>9. Numbered(t)
  <2>1. \A d \in taken : d \in Bundles /\ d <= s.nb BY <1>7, <1>8
  <2> QED BY <1>3, <1>4, <1>6, <2>1, <1>8 DEF Consistent, Numbered
<1>10. \A r \in Rows : s.row[r].delivery # 0 => s.row[r].delivery \in 1 .. s.nb
  BY DEF Consistent, RowsLinked
<1>11. RowsLinked(t)
  <2> SUFFICES ASSUME NEW r \in Rows
               PROVE  LET w == t.row[r]
                      IN  /\ w.state \in ActiveStates =>
                               w.delivery # 0 /\ t.bundle[w.delivery].state = w.state
                          /\ w.state \in {"none", "queued", "deleted"} => w.delivery = 0
                          /\ w.state = "queued" => w.attempts < MaxAttempts
                          /\ w.delivery # 0 =>
                               /\ w.delivery \in 1 .. t.nb
                               /\ t.bundle[w.delivery].row = r
                               /\ t.bundle[w.delivery].attempts = w.attempts
    BY DEF RowsLinked
  <2>1. s.row[r].delivery # 0 =>
          /\ s.row[r].delivery \in 1 .. s.nb /\ s.row[r].delivery \in Bundles
          /\ s.bundle[s.row[r].delivery].row = r
          /\ s.bundle[s.row[r].delivery].attempts = s.row[r].attempts
    BY <1>7 DEF Consistent, RowsLinked
  <2>2. s.row[r].state \in ActiveStates =>
          s.row[r].delivery # 0 /\ s.bundle[s.row[r].delivery].state = s.row[r].state
    BY DEF Consistent, RowsLinked
  <2>3. /\ s.row[r].state \in {"none", "queued", "deleted"} => s.row[r].delivery = 0
        /\ s.row[r].state = "queued" => s.row[r].attempts < MaxAttempts
    BY DEF Consistent, RowsLinked
  <2>4. CASE moved(r)
    BY <2>1, <2>2, <2>4, <1>3, <1>4, <1>6 DEF ActiveStates
  <2>5. CASE ~moved(r)
    <3>1. s.row[r].state \in ActiveStates => s.row[r].delivery \notin taken
      BY <2>2, <2>5, <1>8
    <3> QED BY <2>1, <2>2, <2>3, <2>5, <3>1, <1>3, <1>4, <1>6
  <2> QED BY <2>4, <2>5
<1>12. BundlesLinked(t)
  <2> SUFFICES ASSUME NEW d \in 1 .. s.nb
               PROVE  LET b == t.bundle[d]
                          w == t.row[b.row]
                      IN  /\ b.state \in ActiveStates \/ Conclusive(b) =>
                              /\ w.state = "deleted" \/ w.delivery = d
                              /\ \A e \in 1 .. s.nb : t.bundle[e].row = b.row => e <= d
                          /\ b.state \in ActiveStates => w.state = "deleted" \/ w.state = b.state
                          /\ b.state \in {"reserved", "delivered_to_bridge"} => ~b.entered
    BY <1>6 DEF BundlesLinked, Conclusive
  <2> DEFINE r == s.bundle[d].row
  <2>1. /\ d \in Bundles /\ r \in Rows
        /\ \A e \in 1 .. s.nb : t.bundle[e].row = s.bundle[e].row
    BY <1>3, <1>6, <1>7
  <2>2. /\ s.bundle[d].state \in ActiveStates \/ Conclusive(s.bundle[d]) =>
            /\ s.row[r].state = "deleted" \/ s.row[r].delivery = d
            /\ \A e \in 1 .. s.nb : s.bundle[e].row = r => e <= d
        /\ s.bundle[d].state \in ActiveStates => s.row[r].state = "deleted" \/ s.row[r].state = s.bundle[d].state
        /\ s.bundle[d].state \in {"reserved", "delivered_to_bridge"} => ~s.bundle[d].entered
    BY DEF Consistent, BundlesLinked, Conclusive
  <2> HIDE DEF r
  <2>3. t.bundle[d].row = r /\ t.row[r].delivery = s.row[r].delivery
        /\ t.bundle[d].entered = s.bundle[d].entered
    BY <1>3, <1>4, <1>6, <2>1 DEF r
  <2>4. CASE d \in taken
    <3>1. s.bundle[d].state = "reserved" /\ t.bundle[d].state = "delivered_to_bridge"
      BY <2>1, <2>4, <1>3, <1>6, <1>8
    <3>2. t.row[r].state = "deleted" \/ t.row[r].state = "delivered_to_bridge"
      BY <2>1, <2>2, <2>4, <3>1, <1>4, <1>6 DEF ActiveStates
    <3>3. s.row[r].state = "deleted" => t.row[r].state = "deleted"
      BY <2>1, <1>4, <1>6
    <3> QED BY <2>1, <2>2, <2>3, <3>1, <3>2, <3>3 DEF ActiveStates
  <2>5. CASE d \notin taken
    <3>1. t.bundle[d].state = s.bundle[d].state BY <2>1, <2>5, <1>3, <1>6
    <3>2. s.bundle[d].state \in ActiveStates => t.row[r].state = s.row[r].state
      <4>1. s.row[r].state = "deleted" => t.row[r].state = "deleted" BY <2>1, <1>4, <1>6
      <4>2. s.row[r].delivery = d => t.row[r].state = s.row[r].state
        BY <2>1, <2>5, <1>4, <1>6
      <4> QED BY <2>2, <4>1, <4>2
    <3>3. s.row[r].state = "deleted" => t.row[r].state = "deleted" BY <2>1, <1>4, <1>6
    <3> QED BY <2>1, <2>2, <2>3, <3>1, <3>2, <3>3 DEF Conclusive
  <2> QED BY <2>4, <2>5
<1>13. AttemptsOrdered(t)
  <2>1. \A d \in 1 .. s.nb : /\ t.bundle[d].attempts = s.bundle[d].attempts
                             /\ t.bundle[d].row = s.bundle[d].row
                             /\ t.row[s.bundle[d].row].attempts = s.row[s.bundle[d].row].attempts
                             /\ t.bundle[d].state # "deferred" => s.bundle[d].state # "deferred"
    BY <1>3, <1>4, <1>6, <1>7, <1>8
  <2> QED BY <1>6, <2>1 DEF Consistent, AttemptsOrdered
<1>14. RequestsLinked(t)
  <2>1. \A r \in Rows : s.row[r].cont # 0 => s.row[r].cont \in Rows BY <1>0, RowFields
  <2> QED BY <1>4, <1>6, <2>1 DEF Consistent, RequestsLinked
<1>15. ClientsWait(t)
  <2>1. \A d \in 1 .. s.nb :
          /\ t.bundle[d].lease = s.bundle[d].lease
          /\ t.row[t.bundle[d].row].dest = s.row[s.bundle[d].row].dest
          /\ t.bundle[d].state \in {s.bundle[d].state, "delivered_to_bridge"}
    BY <1>3, <1>4, <1>6, <1>7
  <2> QED BY <1>6, <2>1 DEF Consistent, ClientsWait
<1>16. \A d \in Bundles : t.bundle[d].state \in ActiveStates <=> s.bundle[d].state \in ActiveStates
  BY <1>3, <1>6, <1>8 DEF ActiveStates
<1>17. SessionsMatch(t)
  BY <1>3, <1>6, <1>16 DEF Consistent, SessionsMatch
<1>18. Consistent(t)
  BY <1>6, <1>9, <1>11, <1>12, <1>13, <1>14, <1>15, <1>17 DEF Consistent
<1> QED
  BY <1>2, <1>3, <1>4, <1>6, <1>16, <1>18 DEF IsActive

(* A bundle gets another lease or another authority session. *)
LEMMA TouchBundleOK ==
  ASSUME NEW s, Consistent(s), NEW d \in 1 .. s.nb, NEW B \in Bundle,
         B.row = s.bundle[d].row, B.state = s.bundle[d].state,
         B.attempts = s.bundle[d].attempts, B.entered = s.bundle[d].entered,
         B.live = IF B.sid /\ B.state \in ActiveStates THEN 1 ELSE 0,
         EndpointOf(s, d) \in Clients => B.lease = "null"
  PROVE  Consistent([s EXCEPT !.bundle = [s.bundle EXCEPT ![d] = B]])
<1> DEFINE t == [s EXCEPT !.bundle = [s.bundle EXCEPT ![d] = B]]
<1>0. s \in Database BY DEF Consistent
<1>1. d \in Bundles /\ s.bundle \in [Bundles -> Bundle]
  BY <1>0, Existence, DatabaseFields
<1>2. [s.bundle EXCEPT ![d] = B] \in [Bundles -> Bundle] BY <1>1
<1>3. /\ t \in Database /\ t.row = s.row /\ t.nr = s.nr /\ t.nb = s.nb /\ t.bridge = s.bridge
      /\ t.bundle = [s.bundle EXCEPT ![d] = B]
  BY <1>0, <1>2 DEF Database
<1> HIDE DEF t
<1>4. \A e \in Bundles : t.bundle[e] = IF e = d THEN B ELSE s.bundle[e]
  BY <1>1, <1>3
<1>5. \A e \in Bundles : /\ t.bundle[e].row = s.bundle[e].row
                         /\ t.bundle[e].state = s.bundle[e].state
                         /\ t.bundle[e].attempts = s.bundle[e].attempts
                         /\ t.bundle[e].entered = s.bundle[e].entered
  BY <1>4
<1>6. \A e \in 1 .. s.nb : e \in Bundles BY Existence
<1>7. Numbered(t) BY <1>3, <1>5 DEF Consistent, Numbered
<1>8. RowsLinked(t) BY <1>3, <1>5, <1>6 DEF Consistent, RowsLinked
<1>9. BundlesLinked(t) BY <1>3, <1>5, <1>6 DEF Consistent, BundlesLinked, Conclusive
<1>10. AttemptsOrdered(t) BY <1>3, <1>5, <1>6 DEF Consistent, AttemptsOrdered
<1>11. RequestsLinked(t) BY <1>3 DEF Consistent, RequestsLinked
<1>12. SessionsMatch(t) BY <1>4 DEF Consistent, SessionsMatch
<1>13. ClientsWait(t)
  BY <1>3, <1>4, <1>5, <1>6 DEF Consistent, ClientsWait, EndpointOf
<1> QED
  BY <1>3, <1>7, <1>8, <1>9, <1>10, <1>11, <1>12, <1>13 DEF Consistent, t

(* The Bridge reports that a live bundle entered a runtime. *)
LEMMA InjectOK ==
  ASSUME NEW s, Consistent(s), NEW d \in 1 .. s.nb, IsActive(s, d),
         EndpointOf(s, d) \notin Clients
  PROVE  Consistent([SetRowState(s, d, "injected_to_runtime") EXCEPT
           !.bundle[d] = [s.bundle[d] EXCEPT !.state = "injected_to_runtime",
                            !.lease = "running", !.entered = TRUE]])
<1> DEFINE r == s.bundle[d].row
           B == [s.bundle[d] EXCEPT !.state = "injected_to_runtime",
                   !.lease = "running", !.entered = TRUE]
           W == [s.row[r] EXCEPT !.state = "injected_to_runtime"]
           rows == IF s.row[r].delivery = d THEN [s.row EXCEPT ![r] = W] ELSE s.row
           u == SetRowState(s, d, "injected_to_runtime")
           t == [u EXCEPT !.bundle[d] = B]
           v == [s EXCEPT !.row = rows, !.bundle = [s.bundle EXCEPT ![d] = B]]
<1>0. s \in Database BY DEF Consistent
<1>1. /\ d \in Bundles /\ r \in Rows /\ s.row[r] \in Row /\ s.bundle[d] \in Bundle
      /\ s.row \in [Rows -> Row] /\ s.bundle \in [Bundles -> Bundle]
  BY <1>0, Existence, RowFields, BundleFields, DatabaseFields
<1>2. u = [s EXCEPT !.row = rows]
  <2>1. CASE s.row[r].delivery = d BY <2>1 DEF SetRowState
  <2>2. CASE s.row[r].delivery # d
    <3>1. u = s BY <2>2 DEF SetRowState
    <3> HIDE DEF u
    <3> QED BY <2>2, <3>1, <1>0 DEF Database
  <2> QED BY <2>1, <2>2
<1>3. /\ W \in Row /\ W.dest = s.row[r].dest /\ W.kind = s.row[r].kind
      /\ W.delivery = s.row[r].delivery /\ W.attempts = s.row[r].attempts
      /\ W.asker = s.row[r].asker /\ W.cont = s.row[r].cont
      /\ W.state = "injected_to_runtime"
  <2> HIDE DEF r
  <2> QED BY <1>1 DEF Row, ActiveStates
<1>4. /\ B \in Bundle /\ B.row = r /\ B.attempts = s.bundle[d].attempts
      /\ B.sid = s.bundle[d].sid /\ B.live = s.bundle[d].live
      /\ B.state = "injected_to_runtime" /\ B.lease = "running" /\ B.entered = TRUE
  BY <1>1 DEF Bundle, ActiveStates
<1> HIDE DEF B, W
<1>5. t = v
  <2> HIDE DEF rows, u
  <2> QED BY <1>0, <1>2 DEF Database
<1>6. /\ rows \in [Rows -> Row] /\ [s.bundle EXCEPT ![d] = B] \in [Bundles -> Bundle]
      /\ \A x \in Rows : rows[x] = IF x = r /\ s.row[x].delivery = d THEN W ELSE s.row[x]
      /\ \A e \in Bundles : [s.bundle EXCEPT ![d] = B][e] = IF e = d THEN B ELSE s.bundle[e]
  BY <1>1, <1>3, <1>4
<1> HIDE DEF rows
<1>7. /\ v \in Database /\ v.nr = s.nr /\ v.nb = s.nb /\ v.bridge = s.bridge
      /\ v.row = rows /\ v.bundle = [s.bundle EXCEPT ![d] = B]
  BY <1>0, <1>6 DEF Database
<1> HIDE DEF v, r
<1>8. /\ \A e \in Bundles : e # d => v.bundle[e] = s.bundle[e]
      /\ v.bundle[d] = B
      /\ \A e \in Bundles : /\ v.bundle[e].row = s.bundle[e].row
                            /\ v.bundle[e].attempts = s.bundle[e].attempts
      /\ \A x \in Rows : /\ v.row[x].dest = s.row[x].dest /\ v.row[x].kind = s.row[x].kind
                         /\ v.row[x].asker = s.row[x].asker /\ v.row[x].cont = s.row[x].cont
                         /\ v.row[x].delivery = s.row[x].delivery
                         /\ v.row[x].attempts = s.row[x].attempts
                         /\ v.row[x].state = IF x = r /\ s.row[x].delivery = d
                                             THEN "injected_to_runtime" ELSE s.row[x].state
  BY <1>1, <1>3, <1>4, <1>6, <1>7 DEF r
<1>9. s.bundle[d].state \in ActiveStates /\ s.bundle[d].state # "deferred"
  BY DEF IsActive, ActiveStates
<1>10. /\ s.row[r].state = "deleted" \/ s.row[r].delivery = d
       /\ \A e \in 1 .. s.nb : s.bundle[e].row = r => e <= d
       /\ s.row[r].state = "deleted" \/ s.row[r].state = s.bundle[d].state
       /\ s.row[r].state = "deleted" => s.row[r].delivery = 0
  BY <1>1, <1>9 DEF Consistent, BundlesLinked, Conclusive, RowsLinked, r
<1>11. \A e \in 1 .. s.nb : e \in Bundles /\ s.bundle[e].row \in Rows /\ e # 0
  BY Existence, BoundsNat
<1>12. Numbered(v)
  <2>1. s.row[r].state # "none" /\ r <= s.nr /\ r \in 1 .. s.nr
    BY <1>9, <1>10, <1>1 DEF ActiveStates, Consistent, Numbered, r
  <2>2. d <= s.nb /\ s.nb \in Nat /\ s.nr \in Nat /\ Rows \subseteq Nat
    BY <1>0, DatabaseFields, BoundsNat
  <2> QED BY <1>4, <1>7, <1>8, <2>1, <2>2 DEF Consistent, Numbered
<1>13. RowsLinked(v)
  <2> SUFFICES ASSUME NEW x \in Rows
               PROVE  LET w == v.row[x]
                      IN  /\ w.state \in ActiveStates =>
                               w.delivery # 0 /\ v.bundle[w.delivery].state = w.state
                          /\ w.state \in {"none", "queued", "deleted"} => w.delivery = 0
                          /\ w.state = "queued" => w.attempts < MaxAttempts
                          /\ w.delivery # 0 =>
                               /\ w.delivery \in 1 .. v.nb
                               /\ v.bundle[w.delivery].row = x
                               /\ v.bundle[w.delivery].attempts = w.attempts
    BY DEF RowsLinked
  <2>1. s.row[x].delivery # 0 =>
          /\ s.row[x].delivery \in 1 .. s.nb /\ s.row[x].delivery \in Bundles
          /\ s.bundle[s.row[x].delivery].row = x
          /\ s.bundle[s.row[x].delivery].attempts = s.row[x].attempts
    BY <1>11 DEF Consistent, RowsLinked
  <2>2. /\ s.row[x].state \in ActiveStates =>
             s.row[x].delivery # 0 /\ s.bundle[s.row[x].delivery].state = s.row[x].state
        /\ s.row[x].state \in {"none", "queued", "deleted"} => s.row[x].delivery = 0
        /\ s.row[x].state = "queued" => s.row[x].attempts < MaxAttempts
    BY DEF Consistent, RowsLinked
  <2>3. CASE x = r /\ s.row[x].delivery = d
    BY <2>1, <2>3, <1>4, <1>7, <1>8, <1>11 DEF ActiveStates
  <2>4. CASE ~(x = r /\ s.row[x].delivery = d)
    <3>1. s.row[x].delivery # d BY <2>1, <2>4, <1>11 DEF r
    <3> QED BY <2>1, <2>2, <2>4, <3>1, <1>7, <1>8
  <2> QED BY <2>3, <2>4
<1>14. BundlesLinked(v)
  <2> SUFFICES ASSUME NEW e \in 1 .. s.nb
               PROVE  LET b == v.bundle[e]
                          w == v.row[b.row]
                      IN  /\ b.state \in ActiveStates \/ Conclusive(b) =>
                              /\ w.state = "deleted" \/ w.delivery = e
                              /\ \A f \in 1 .. s.nb : v.bundle[f].row = b.row => f <= e
                          /\ b.state \in ActiveStates => w.state = "deleted" \/ w.state = b.state
                          /\ b.state \in {"reserved", "delivered_to_bridge"} => ~b.entered
    BY <1>7 DEF BundlesLinked, Conclusive
  <2>1. \A f \in 1 .. s.nb : v.bundle[f].row = s.bundle[f].row BY <1>8, <1>11
  <2>2. CASE e = d
    <3>1. v.bundle[e].row = r /\ v.bundle[e].state = "injected_to_runtime"
      BY <2>2, <1>4, <1>8
    <3>2. v.row[r].state = "deleted" \/ v.row[r].state = "injected_to_runtime"
      BY <1>1, <1>8, <1>10 DEF r
    <3>3. v.row[r].state = "deleted" \/ v.row[r].delivery = d
      BY <1>1, <1>8, <1>10, <1>11 DEF r
    <3> QED BY <2>1, <2>2, <3>1, <3>2, <3>3, <1>10
  <2>3. CASE e # d
    <3>1. v.bundle[e] = s.bundle[e] /\ s.bundle[e].row \in Rows BY <2>3, <1>8, <1>11
    <3>2. ASSUME s.bundle[e].state \in ActiveStates \/ Conclusive(s.bundle[e])
          PROVE  v.row[s.bundle[e].row].state = s.row[s.bundle[e].row].state
      <4>1. s.row[s.bundle[e].row].state = "deleted" \/ s.row[s.bundle[e].row].delivery = e
        BY <3>2 DEF Consistent, BundlesLinked, Conclusive
      <4>2. s.row[s.bundle[e].row].state = "deleted" => s.row[s.bundle[e].row].delivery = 0
        BY <3>1 DEF Consistent, RowsLinked
      <4>3. s.row[s.bundle[e].row].delivery # d BY <4>1, <4>2, <2>3, <1>11
      <4> QED BY <4>3, <3>1, <1>8
    <3>3. v.row[s.bundle[e].row].delivery = s.row[s.bundle[e].row].delivery BY <3>1, <1>8
    <3> QED BY <2>1, <3>1, <3>2, <3>3 DEF Consistent, BundlesLinked, Conclusive, ActiveStates
  <2> QED BY <2>2, <2>3
<1>15. AttemptsOrdered(v)
  <2>1. \A e \in 1 .. s.nb : /\ v.bundle[e].attempts = s.bundle[e].attempts
                             /\ v.bundle[e].row = s.bundle[e].row
                             /\ v.row[s.bundle[e].row].attempts = s.row[s.bundle[e].row].attempts
                             /\ v.bundle[e].state # "deferred" => s.bundle[e].state # "deferred"
    BY <1>8, <1>9, <1>11
  <2> QED BY <1>7, <2>1 DEF Consistent, AttemptsOrdered
<1>16. RequestsLinked(v)
  <2>1. \A x \in Rows : s.row[x].cont # 0 => s.row[x].cont \in Rows BY <1>0, RowFields
  <2> QED BY <1>7, <1>8, <2>1 DEF Consistent, RequestsLinked
<1>17. ClientsWait(v)
  BY <1>1, <1>7, <1>8, <1>11 DEF Consistent, ClientsWait, EndpointOf, r
<1>18. SessionsMatch(v)
  BY <1>4, <1>8, <1>9, <1>1 DEF Consistent, SessionsMatch, ActiveStates
<1>19. Consistent(v)
  BY <1>7, <1>12, <1>13, <1>14, <1>15, <1>16, <1>17, <1>18 DEF Consistent
<1> QED
  BY <1>5, <1>19 DEF B

(* Deleting an endpoint detaches its rows from the bundles that held them. *)
LEMMA DeleteOK ==
  ASSUME NEW s, Consistent(s), NEW ep \in Endpoints
  PROVE  Consistent([s EXCEPT !.status[ep] = "absent", !.bridge[ep] = FALSE,
           !.row = [r \in Rows |-> IF s.row[r].dest = ep
              THEN [s.row[r] EXCEPT !.state = "deleted", !.delivery = 0] ELSE s.row[r]]])
<1> DEFINE rows == [r \in Rows |-> IF s.row[r].dest = ep
                      THEN [s.row[r] EXCEPT !.state = "deleted", !.delivery = 0] ELSE s.row[r]]
           st == [s.status EXCEPT ![ep] = "absent"]
           br == [s.bridge EXCEPT ![ep] = FALSE]
           t == [s EXCEPT !.status = st, !.bridge = br, !.row = rows]
<1>0. s \in Database BY DEF Consistent
<1>1. /\ s.row \in [Rows -> Row] /\ s.bundle \in [Bundles -> Bundle]
      /\ s.bridge \in [Endpoints -> BOOLEAN] /\ s.nb \in 0 .. MaxBundles /\ s.nr \in 0 .. MaxRows
      /\ s.status \in [Endpoints -> Statuses \cup {"absent"}] /\ Rows \subseteq Nat
  BY <1>0, DatabaseFields, BoundsNat
<1>2. \A r \in Rows :
        /\ rows[r] \in Row
        /\ rows[r].dest = s.row[r].dest /\ rows[r].kind = s.row[r].kind
        /\ rows[r].attempts = s.row[r].attempts
        /\ rows[r].asker = s.row[r].asker /\ rows[r].cont = s.row[r].cont
        /\ rows[r].state = IF s.row[r].dest = ep THEN "deleted" ELSE s.row[r].state
        /\ rows[r].delivery = IF s.row[r].dest = ep THEN 0 ELSE s.row[r].delivery
  <2>1. 0 \in 0 .. MaxBundles BY BoundsNat
  <2> SUFFICES ASSUME NEW r \in Rows
               PROVE  /\ rows[r] \in Row
                      /\ rows[r].dest = s.row[r].dest /\ rows[r].kind = s.row[r].kind
                      /\ rows[r].attempts = s.row[r].attempts
                      /\ rows[r].asker = s.row[r].asker /\ rows[r].cont = s.row[r].cont
                      /\ rows[r].state = IF s.row[r].dest = ep THEN "deleted" ELSE s.row[r].state
                      /\ rows[r].delivery = IF s.row[r].dest = ep THEN 0 ELSE s.row[r].delivery
    OBVIOUS
  <2>2. s.row[r] \in Row BY <1>1
  <2>3. CASE s.row[r].dest = ep
    <3>1. rows[r] = [s.row[r] EXCEPT !.state = "deleted", !.delivery = 0] BY <2>3
    <3> HIDE DEF rows
    <3> QED BY <2>1, <2>2, <2>3, <3>1 DEF Row
  <2>4. CASE s.row[r].dest # ep BY <2>2, <2>4
  <2> QED BY <2>3, <2>4
<1>3. /\ rows \in [Rows -> Row] /\ br \in [Endpoints -> BOOLEAN]
      /\ st \in [Endpoints -> Statuses \cup {"absent"}]
      /\ \A e \in Endpoints : s.bridge[e] = FALSE => br[e] = FALSE
  <2>1. rows = [r \in Rows |-> rows[r]] OBVIOUS
  <2>2. br \in [Endpoints -> BOOLEAN] /\ st \in [Endpoints -> Statuses \cup {"absent"}]
        /\ \A e \in Endpoints : s.bridge[e] = FALSE => br[e] = FALSE
    BY <1>1
  <2> HIDE DEF rows
  <2> QED BY <1>2, <2>1, <2>2
<1> HIDE DEF rows, st, br
<1>4. /\ t \in Database /\ t.row = rows /\ t.bundle = s.bundle /\ t.nr = s.nr /\ t.nb = s.nb
      /\ t.bridge = br
  BY <1>0, <1>3 DEF Database
<1> HIDE DEF t
<1>5. \A d \in 1 .. s.nb : d \in Bundles /\ s.bundle[d].row \in Rows
  BY Existence
<1>6. Numbered(t)
  <2>1. \A r \in Rows : r > s.nr => s.row[r].dest # ep
    BY DeliveryAssumption DEF Consistent, Numbered
  <2> QED BY <1>2, <1>4, <2>1 DEF Consistent, Numbered
<1>7. RowsLinked(t) BY <1>2, <1>4 DEF Consistent, RowsLinked, ActiveStates
<1>8. BundlesLinked(t)
  <2>1. \A d \in 1 .. s.nb :
          LET r == s.bundle[d].row
          IN  \/ t.row[r].state = "deleted"
              \/ t.row[r].state = s.row[r].state /\ t.row[r].delivery = s.row[r].delivery
    BY <1>2, <1>4, <1>5
  <2> QED BY <1>4, <2>1 DEF Consistent, BundlesLinked, Conclusive
<1>9. AttemptsOrdered(t) BY <1>2, <1>4, <1>5 DEF Consistent, AttemptsOrdered
<1>10. RequestsLinked(t)
  <2>1. \A x \in Rows : s.row[x].cont # 0 => s.row[x].cont \in Rows BY <1>0, RowFields
  <2> QED BY <1>2, <1>4, <2>1 DEF Consistent, RequestsLinked
<1>11. ClientsWait(t)
  BY <1>2, <1>3, <1>4, <1>5, DeliveryAssumption DEF Consistent, ClientsWait
<1>12. SessionsMatch(t) BY <1>4 DEF Consistent, SessionsMatch
<1> QED
  BY <1>4, <1>6, <1>7, <1>8, <1>9, <1>10, <1>11, <1>12 DEF Consistent, t, rows, st, br

-----------------------------------------------------------------------------
(* Every action keeps the database consistent.                               *)

(* The endpoint of an existing bundle; no Bridge owns a client's. *)
LEMMA OwnedFacts ==
  ASSUME DeliveryInv, NEW d \in Existing
  PROVE  /\ d \in 1 .. db.nb /\ d \in Bundles /\ EndpointOf(db, d) \in Endpoints
         /\ db.bundle[d].row \in 1 .. db.nr /\ db.bundle[d].row \in Rows
         /\ Owned(d) => EndpointOf(db, d) \notin Clients
         /\ IsActive(db, d) => db.bundle[d].state # "deferred"
<1>1. d \in 1 .. db.nb /\ Consistent(db) BY DEF Existing, DeliveryInv
<1>2. /\ d \in Bundles /\ db.bundle[d].row \in Rows /\ EndpointOf(db, d) \in Endpoints
  BY <1>1, Existence DEF EndpointOf
<1>3. db.bundle[d].row \in 1 .. db.nr
  <2>1. d <= db.nb BY <1>1
  <2> QED BY <1>1, <1>2, <2>1 DEF Consistent, Numbered
<1>4. Owned(d) => EndpointOf(db, d) \notin Clients
  BY <1>1 DEF Owned, Consistent, ClientsWait
<1>5. IsActive(db, d) => db.bundle[d].state # "deferred"
  BY DEF IsActive, ActiveStates
<1> QED BY <1>1, <1>2, <1>3, <1>4, <1>5

(* Closing or resolving waits touches no link. *)
LEMMA PendingOK ==
  ASSUME NEW s, Consistent(s), NEW S, NEW p \in {"resolved", "cancelled"}
  PROVE  LET t == [s EXCEPT !.row = [r \in Rows |->
                     IF r \in S THEN [s.row[r] EXCEPT !.pending = p] ELSE s.row[r]]]
         IN  /\ Consistent(t) /\ t.nr = s.nr /\ t.nb = s.nb
<1> DEFINE rows == [r \in Rows |-> IF r \in S THEN [s.row[r] EXCEPT !.pending = p] ELSE s.row[r]]
<1>1. s.row \in [Rows -> Row] BY DatabaseFields DEF Consistent
<1>2. \A r \in Rows : /\ rows[r] \in Row
                      /\ rows[r].dest = s.row[r].dest /\ rows[r].state = s.row[r].state
                      /\ rows[r].delivery = s.row[r].delivery
                      /\ rows[r].attempts = s.row[r].attempts
                      /\ rows[r].kind = s.row[r].kind
                      /\ rows[r].asker = s.row[r].asker /\ rows[r].cont = s.row[r].cont
  BY <1>1 DEF Row
<1>3. rows = [r \in Rows |-> rows[r]] OBVIOUS
<1> HIDE DEF rows
<1>4. rows \in [Rows -> Row] BY <1>2, <1>3
<1> QED BY <1>2, <1>4, TouchRowsOK DEF rows

(* The loops that settle turns whose runtime is gone. *)
LEMMA FailUnknownOK ==
  ASSUME DeliveryInv, NEW d \in Existing, IsActive(db, d), EndpointOf(db, d) \notin Clients,
         RowRoom, BundleRoom, FailUnknownRuntimeDelivery(db, d)
  PROVE  Consistent(db')
<1>1. Consistent(LoseRuntime(db, d)) /\ LoseRuntime(db, d).nr = db.nr /\ LoseRuntime(db, d).nb = db.nb
  BY OwnedFacts, StopOK DEF LoseRuntime, DeliveryInv
<1>2. db' = RecordRuntimeTurnResult(LoseRuntime(db, d), d, "failed")
  BY DEF FailUnknownRuntimeDelivery
<1> QED BY <1>1, <1>2, OwnedFacts, RecordOK DEF RowRoom, BundleRoom

(* The initial database is consistent. *)
LEMMA InitOK == Init => DeliveryInv
<1> SUFFICES ASSUME Init PROVE DeliveryInv OBVIOUS
<1>1. /\ db.status = [ep \in Endpoints |-> "absent"] /\ db.bridge = [ep \in Endpoints |-> FALSE]
      /\ db.binding = [ep \in Endpoints |-> "none"] /\ db.actor = [ep \in Endpoints |-> "active"]
      /\ db.row = [r \in Rows |-> NoRow] /\ db.bundle = [d \in Bundles |-> NoBundle]
      /\ db.nr = 0 /\ db.nb = 0 /\ db.hold \in BOOLEAN /\ db.job = "none"
      /\ db = [status |-> db.status, bridge |-> db.bridge, binding |-> db.binding,
               actor |-> db.actor, row |-> db.row, bundle |-> db.bundle,
               nr |-> db.nr, nb |-> db.nb, hold |-> db.hold, job |-> db.job]
  BY DeliveryAssumption DEF Init
<1>2. NoRow \in Row /\ NoBundle \in Bundle
  <2>1. 0 \in 0 .. MaxBundles /\ 0 \in 0 .. MaxAttempts /\ 0 \in 0 .. MaxRows
    BY DeliveryAssumption
  <2> QED BY <2>1 DEF NoRow, NoBundle, Row, Bundle
<1>3. db \in Database
  <2>1. 0 \in 0 .. MaxBundles /\ 0 \in 0 .. MaxRows BY DeliveryAssumption
  <2>2. /\ db.status \in [Endpoints -> Statuses \cup {"absent"}]
        /\ db.bridge \in [Endpoints -> BOOLEAN]
        /\ db.binding \in [Endpoints -> {"none", "resolved", "unresolved"}]
        /\ db.actor \in [Endpoints -> {"active", "retired"}]
        /\ db.row \in [Rows -> Row] /\ db.bundle \in [Bundles -> Bundle]
    BY <1>1, <1>2
  <2> QED BY <1>1, <2>1, <2>2 DEF Database
<1>4. \A r \in Rows : db.row[r] = NoRow BY <1>1
<1>5. \A d \in Bundles : db.bundle[d] = NoBundle BY <1>1
<1>6. Numbered(db) BY <1>1, <1>4, <1>5, BoundsNat DEF Numbered, NoRow, NoBundle, Rows, Bundles
<1>7. RowsLinked(db) BY <1>4 DEF RowsLinked, NoRow, ActiveStates
<1>8. BundlesLinked(db) /\ AttemptsOrdered(db) BY <1>1 DEF BundlesLinked, Conclusive, AttemptsOrdered
<1>9. RequestsLinked(db) BY <1>4 DEF RequestsLinked, NoRow
<1>10. ClientsWait(db) BY <1>1, DeliveryAssumption DEF ClientsWait
<1>11. SessionsMatch(db) BY <1>5 DEF SessionsMatch, NoBundle
<1> QED BY <1>3, <1>6, <1>7, <1>8, <1>9, <1>10, <1>11 DEF DeliveryInv, Consistent

(* The routes and timers that name one Delivery. *)
LEMMA BundleStepOK ==
  ASSUME DeliveryInv, NEW d \in Existing, BundleStep(d)
  PROVE  Consistent(db')
<1> DEFINE ep == EndpointOf(db, d)
           k == db.bundle[d].row
<1>0. Consistent(db) /\ db \in Database BY DEF DeliveryInv, Consistent
<1>1. /\ d \in 1 .. db.nb /\ d \in Bundles /\ ep \in Endpoints
      /\ k \in 1 .. db.nr /\ k \in Rows
      /\ Owned(d) => ep \notin Clients
      /\ IsActive(db, d) => db.bundle[d].state # "deferred"
  BY OwnedFacts
<1>2. db.bundle[d] \in Bundle /\ db.bundle \in [Bundles -> Bundle]
  BY <1>0, <1>1, BundleFields, DatabaseFields
<1> HIDE DEF ep, k
<1>3. ASSUME NEW to \in Endpoints, SubmitRequest(d, to) PROVE Consistent(db')
  <2> DEFINE w == [NoRow EXCEPT !.dest = to, !.kind = "request", !.state = "queued",
                     !.asker = EndpointOf(db, d), !.parent = d,
                     !.cont = Continuation(db, k), !.pending = "pending"]
             q == QueueEvent(db, w)
  <2>1. db' = TryCreateDeliveryForEndpoint(q, to) /\ db.nr < MaxRows /\ db.nb < MaxBundles
    BY <1>3 DEF SubmitRequest, RowRoom, BundleRoom, k
  <2>2. /\ Continuation(db, k) \in 0 .. MaxRows
        /\ Continuation(db, k) # 0 => /\ Continuation(db, k) <= db.nr
                                      /\ db.row[Continuation(db, k)].kind = "request"
    BY <1>0, <1>1, ContinuationOK
  <2>3. /\ w \in Row /\ w.dest = to /\ w.state = "queued" /\ w.delivery = 0 /\ w.attempts = 0
        /\ w.asker = ep /\ w.cont = Continuation(db, k)
    <3>1. /\ 0 \in 0 .. MaxBundles /\ 0 \in 0 .. MaxAttempts /\ 0 \in 0 .. MaxRows
          /\ d \in 0 .. MaxBundles
      BY <1>1, DeliveryAssumption DEF Bundles
    <3> QED BY <1>1, <2>2, <3>1 DEF NoRow, Row, ep
  <2> HIDE DEF w
  <2>4. Consistent(q) /\ q.nb = db.nb
    BY <1>0, <1>1, <2>1, <2>2, <2>3, QueueEventOK
  <2> HIDE DEF q
  <2> QED BY <2>1, <2>4, TryCreateOK
<1>4. ASSUME NEW g \in BOOLEAN, PrepareRuntimeDelivery(d, g) PROVE Consistent(db')
  <2> DEFINE u == Claimed(db, {d})
             issue == g /\ (~(db.bundle[d].state = "injected_to_runtime") \/ db.bundle[d].sid)
             B == Authorised(u.bundle[d], issue)
  <2>1. /\ db' = [u EXCEPT !.bundle[d] = B] /\ IsActive(db, d) /\ ep \notin Clients
    BY <1>1, <1>4 DEF PrepareRuntimeDelivery
  <2>2. /\ Consistent(u) /\ u.nb = db.nb /\ IsActive(u, d)
        /\ u.bundle[d].row = k /\ u.row[k].dest = db.row[k].dest
    <3>1. {d} \subseteq 1 .. db.nb BY <1>1
    <3> QED BY <1>0, <1>1, <2>1, <3>1, ClaimedOK DEF k
  <2>3. issue \in BOOLEAN BY <1>2 DEF Bundle
  <2> HIDE DEF u, issue
  <2>4. EndpointOf(u, d) = ep BY <2>2 DEF EndpointOf, ep, k
  <2>5. /\ u.bundle[d] \in Bundle
        /\ u.bundle[d].live = IF u.bundle[d].sid THEN 1 ELSE 0
        /\ u.bundle[d].state \in ActiveStates
    BY <1>1, <2>2, BundleFields DEF Consistent, SessionsMatch, IsActive
  <2>6. B = [u.bundle[d] EXCEPT !.sid = issue, !.live = IF issue THEN 1 ELSE 0]
    <3>1. (u.bundle[d].live - (IF u.bundle[d].sid /\ u.bundle[d].live > 0 THEN 1 ELSE 0)
             + (IF issue THEN 1 ELSE 0)) = IF issue THEN 1 ELSE 0
      BY <2>5
    <3> QED BY <3>1 DEF Authorised
  <2>7. /\ B \in Bundle /\ B.row = u.bundle[d].row /\ B.state = u.bundle[d].state
        /\ B.attempts = u.bundle[d].attempts /\ B.entered = u.bundle[d].entered
        /\ B.live = IF B.sid /\ B.state \in ActiveStates THEN 1 ELSE 0
    <3> HIDE DEF B
    <3>1. (IF issue THEN 1 ELSE 0) \in Nat OBVIOUS
    <3> QED BY <2>3, <2>5, <2>6, <3>1 DEF Bundle
  <2> HIDE DEF B
  <2>8. Consistent([u EXCEPT !.bundle = [u.bundle EXCEPT ![d] = B]])
    BY <1>1, <2>1, <2>2, <2>4, <2>7, TouchBundleOK
  <2> QED BY <2>1, <2>8
<1>5. ASSUME NEW o \in {"completed", "failed"}, RecordClientTurnResult(d, o) PROVE Consistent(db')
  <2> DEFINE u == RecordRuntimeTurnResult(db, d, o)
             v == SetRowState(Settle(u, d, "acknowledged"), d, "acknowledged")
  <2>1. /\ db' = ReportTurnEnd(v, ep) /\ db.nr < MaxRows /\ db.nb + 2 <= MaxBundles
        /\ ep \in Clients
    BY <1>5 DEF RecordClientTurnResult, RowRoom, ep
  <2>2. db.nb \in Nat /\ MaxBundles \in Nat /\ db.nb < MaxBundles
    BY <1>0, <2>1, DatabaseFields, BoundsNat
  <2>3. Consistent(u) /\ Extends(db, u)
    BY <1>0, <1>1, <2>1, <2>2, RecordOK
  <2> HIDE DEF u
  <2>4. /\ u.bundle[d] = db.bundle[d] /\ d \in 1 .. u.nb /\ u.nb < MaxBundles
    BY <1>1, <2>1, <2>2, <2>3 DEF Extends
  <2>5. db.bundle[d].state # "deferred"
    BY <1>0, <1>1, <2>1 DEF Consistent, ClientsWait, ep, EndpointOf
  <2>6. Consistent(v) /\ KeepsRest(u, v, d)
    BY <2>3, <2>4, <2>5, SettleOK DEF TerminalStates
  <2> HIDE DEF v
  <2> QED BY <1>1, <2>1, <2>4, <2>6, ReportTurnEndOK DEF KeepsRest
<1>6. ASSUME NEW o \in {"completed", "failed"}, RecordResult(d, o) PROVE Consistent(db')
  BY <1>0, <1>1, <1>6, RecordOK DEF RecordResult, RowRoom, BundleRoom
<1>7. CASE ReportDeferred(d)
  <2> DEFINE u == RequeueRow(Settle(db, d, "deferred"), d, 1)
  <2>1. /\ db' = (IF db.bridge[ep] THEN SetStatus(u, ep, "runtime_unconfigured") ELSE u)
        /\ IsActive(db, d) /\ ep \notin Clients
    BY <1>1, <1>7 DEF ReportDeferred, ep
  <2>2. Consistent(u) BY <1>0, <1>1, <2>1, RequeueOK DEF ep
  <2> HIDE DEF u
  <2>3. "runtime_unconfigured" \in Statuses BY DEF Statuses
  <2>4. Consistent(SetStatus(u, ep, "runtime_unconfigured"))
    BY <1>1, <2>2, <2>3, SetStatusOK
  <2> QED BY <2>1, <2>2, <2>4
<1>8. CASE ReportFailed(d)
  <2>1. IsActive(db, d) /\ ep \notin Clients BY <1>1, <1>8 DEF ReportFailed
  <2>2. CASE db.bundle[d].state = "injected_to_runtime"
    <3>1. db' = FailInjectedRuntimeDelivery(db, d) BY <1>8, <2>2 DEF ReportFailed
    <3> QED BY <1>0, <1>1, <2>1, <3>1, StopOK DEF FailInjectedRuntimeDelivery, ep
  <2>3. CASE db.bundle[d].state # "injected_to_runtime"
    <3>1. db' = GiveUpBeforeTurn(db, d) BY <1>8, <2>3 DEF ReportFailed
    <3> QED BY <1>0, <1>1, <2>1, <2>3, <3>1, GiveUpOK DEF ep
  <2> QED BY <2>2, <2>3
<1>9. CASE ReportDeadLettered(d)
  BY <1>0, <1>1, <1>9, SettleOK DEF ReportDeadLettered, TerminalStates, ep
<1>10. CASE ReportInjected(d)
  <2>1. IsActive(db, d) /\ ep \notin Clients BY <1>1, <1>10 DEF ReportInjected
  <2>2. db' = [SetRowState(db, d, "injected_to_runtime") EXCEPT
              !.bundle[d] = [db.bundle[d] EXCEPT !.state = "injected_to_runtime",
                               !.lease = "running", !.entered = TRUE]]
    BY <1>10 DEF ReportInjected
  <2> QED BY <1>0, <1>1, <2>1, <2>2, InjectOK DEF ep
<1>11. CASE ReportAcknowledged(d)
  BY <1>0, <1>1, <1>11, SettleOK DEF ReportAcknowledged, TerminalStates, ep
<1>12. CASE CancelRuntimeDelivery(d)
  <2> DEFINE u == SetRowState(Settle(db, d, "cancelled"), d, "cancelled")
             c == IF db.row[k].kind = "return" THEN db.row[k].cont ELSE 0
             closed == {r \in Rows : /\ db.row[r].pending = "pending"
                                     /\ \/ r = k /\ db.row[k].delivery = d
                                        \/ r = c /\ db.row[k].delivery = d /\ db.row[r].dest = ep}
             v == ClosePending(u, closed)
  <2>1. db' = ReportTurnEnd(v, ep) /\ IsActive(db, d) /\ db.nb < MaxBundles
    BY <1>12 DEF CancelRuntimeDelivery, BundleRoom, ep, k
  <2>2. Consistent(u) /\ KeepsRest(db, u, d)
    BY <1>0, <1>1, <2>1, SettleOK DEF TerminalStates
  <2> HIDE DEF u, closed
  <2>3. Consistent(v) /\ v.nb = u.nb
    BY <2>2, PendingOK DEF ClosePending
  <2> HIDE DEF v
  <2> QED BY <1>1, <2>1, <2>2, <2>3, ReportTurnEndOK DEF KeepsRest
<1>13. ASSUME NEW l \in {"running", "lapsed"}, ep \notin Clients,
              db' = [db EXCEPT !.bundle[d].lease = l]
       PROVE  Consistent(db')
  <2> DEFINE B == [db.bundle[d] EXCEPT !.lease = l]
  <2>1. db' = [db EXCEPT !.bundle = [db.bundle EXCEPT ![d] = B]] BY <1>13
  <2>2. /\ B \in Bundle /\ B.row = db.bundle[d].row /\ B.state = db.bundle[d].state
        /\ B.attempts = db.bundle[d].attempts /\ B.entered = db.bundle[d].entered
        /\ B.live = db.bundle[d].live /\ B.sid = db.bundle[d].sid
    BY <1>2 DEF Bundle
  <2>3. B.live = IF B.sid /\ B.state \in ActiveStates THEN 1 ELSE 0
    <3> HIDE DEF B
    <3> QED BY <1>0, <1>1, <2>2 DEF Consistent, SessionsMatch
  <2> HIDE DEF B
  <2> QED BY <1>0, <1>1, <1>13, <2>1, <2>2, <2>3, TouchBundleOK DEF ep
<1>14. CASE LeaseLapses(d)
  <2>1. db.bundle[d].lease = "running" BY <1>14 DEF LeaseLapses
  <2>2. ep \notin Clients
    BY <1>0, <1>1, <2>1 DEF Consistent, ClientsWait, ep, EndpointOf
  <2> QED BY <1>13, <1>14, <2>2 DEF LeaseLapses
<1>15. CASE RenewRuntimeDeliveryLease(d)
  BY <1>1, <1>13, <1>15 DEF RenewRuntimeDeliveryLease
<1>16. CASE RequeueExpired(d)
  <2>1. /\ IsActive(db, d) /\ db.bundle[d].lease = "lapsed" /\ RowRoom /\ BundleRoom
    BY <1>16 DEF RequeueExpired, Lapsed
  <2>2. ep \notin Clients
    BY <1>0, <1>1, <2>1 DEF Consistent, ClientsWait, ep, EndpointOf
  <2>3. CASE db.bundle[d].state = "injected_to_runtime"
    <3>1. FailUnknownRuntimeDelivery(db, d) BY <1>16, <2>3 DEF RequeueExpired
    <3> QED BY <2>1, <2>2, <3>1, FailUnknownOK DEF ep
  <2>4. CASE db.bundle[d].state # "injected_to_runtime"
    <3> DEFINE u == GiveUpBeforeTurn(db, d)
    <3>1. db' = IF u.bundle[d].state = "failed" THEN UpdateEndpointStatus(u, ep, "idle") ELSE u
      BY <1>16, <2>4 DEF RequeueExpired, ep
    <3>2. Consistent(u) /\ KeepsRest(db, u, d)
      BY <1>0, <1>1, <2>1, <2>2, <2>4, GiveUpOK DEF ep
    <3> HIDE DEF u
    <3>3. Consistent(UpdateEndpointStatus(u, ep, "idle"))
      <4>1. "idle" \in Statuses BY DEF Statuses
      <4> QED BY <1>1, <2>1, <3>2, <4>1, UpdateEndpointStatusOK DEF KeepsRest, BundleRoom
    <3> QED BY <3>1, <3>2, <3>3
  <2> QED BY <2>3, <2>4
<1> QED
  BY <1>3, <1>4, <1>5, <1>6, <1>7, <1>8, <1>9, <1>10, <1>11, <1>12, <1>14, <1>15, <1>16
     DEF BundleStep

(* The routes that name an endpoint. *)
LEMMA EndpointStepOK ==
  ASSUME DeliveryInv, NEW ep \in Endpoints, EndpointStep(ep)
  PROVE  Consistent(db')
<1>0. Consistent(db) /\ db \in Database BY DEF DeliveryInv, Consistent
<1>1. /\ db.status \in [Endpoints -> Statuses \cup {"absent"}]
      /\ db.bridge \in [Endpoints -> BOOLEAN]
      /\ db.actor \in [Endpoints -> {"active", "retired"}]
      /\ db.binding \in [Endpoints -> {"none", "resolved", "unresolved"}]
      /\ \A c \in Clients : db.bridge[c] = FALSE
  BY <1>0 DEF Database, Consistent, ClientsWait
<1>2. ASSUME NEW a \in Askers \cup {None}, SubmitEvent(ep, a) PROVE Consistent(db')
  <2> DEFINE w == [NoRow EXCEPT !.dest = ep, !.state = "queued", !.asker = a,
                     !.pending = IF a = None THEN "none" ELSE "pending"]
             q == QueueEvent(db, w)
             S == {r \in Rows : q.row[r].asker = ep /\ q.row[r].kind = "message"
                                /\ q.row[r].pending = "pending"}
             v == ResolvePendingResponsesForIncoming(q, ep)
             u == [q EXCEPT !.row = [r \in Rows |->
                     IF r \in S THEN [q.row[r] EXCEPT !.pending = "resolved"] ELSE q.row[r]]]
  <2>1. db' = TryCreateDeliveryForEndpoint(v, ep) /\ db.nr < MaxRows /\ db.nb < MaxBundles
    BY <1>2 DEF SubmitEvent, RowRoom, BundleRoom
  <2>2. /\ w \in Row /\ w.dest = ep /\ w.state = "queued" /\ w.delivery = 0 /\ w.attempts = 0
        /\ w.kind = "message" /\ w.cont = 0
    <3>1. /\ 0 \in 0 .. MaxBundles /\ 0 \in 0 .. MaxAttempts /\ 0 \in 0 .. MaxRows
          /\ a \in Endpoints \cup {None}
      BY DeliveryAssumption
    <3> QED BY <3>1 DEF NoRow, Row
  <2> HIDE DEF w
  <2>3. Consistent(q) /\ q.nb = db.nb
    BY <1>0, <2>1, <2>2, QueueEventOK
  <2> HIDE DEF q
  <2>4. v = u
    BY DEF ResolvePendingResponsesForIncoming
  <2> HIDE DEF S, v
  <2>5. Consistent(u) /\ u.nb = q.nb
    BY <2>3, PendingOK
  <2> HIDE DEF u
  <2> QED BY <2>1, <2>3, <2>4, <2>5, TryCreateOK
<1>3. CASE TurnEnd(ep)
  BY <1>0, <1>3, ReportTurnEndOK DEF TurnEnd, BundleRoom
<1>4. ASSUME NEW st \in {"idle", "runtime_unconfigured"}, RegisterEndpoint(ep, st)
      PROVE  Consistent(db')
  <2> DEFINE kept == db.bridge[ep] /\ db.status[ep] \in {"active", "waiting", "error", "retired"}
             reported == IF kept THEN db.status[ep] ELSE st
             shown == IF reported \in {"idle", "waiting", "runtime_unconfigured"}
                      THEN RuntimeConfigurationStatus(db, ep, reported) ELSE reported
             t == [db EXCEPT !.status[ep] = shown, !.bridge[ep] = TRUE]
  <2>1. db' = TryCreateDeliveryForEndpoint(t, ep) /\ db.nb < MaxBundles /\ ep \notin Clients
    BY <1>4 DEF RegisterEndpoint, BundleRoom
  <2>2. reported \in Statuses BY DEF Statuses
  <2> HIDE DEF reported
  <2>3. shown \in Statuses BY <1>0, <2>2, RuntimeConfigurationStatusType
  <2> HIDE DEF shown
  <2>4. /\ t \in Database /\ SameWork(db, t)
        /\ t.bridge = [db.bridge EXCEPT ![ep] = TRUE]
    BY <1>0, <2>3 DEF Database, SameWork
  <2>5. \A c \in Clients : t.bridge[c] = FALSE
    BY <1>1, <2>1, <2>4, DeliveryAssumption
  <2> HIDE DEF t
  <2>6. Consistent(t) /\ t.nb = db.nb
    BY <1>0, <2>4, <2>5, SameWorkConsistent DEF SameWork
  <2> QED BY <2>1, <2>6, TryCreateOK
<1>5. ASSUME NEW st \in {"idle", "runtime_unconfigured"}, ReportEndpointStatus(ep, st)
      PROVE  Consistent(db')
  <2>1. st \in Statuses BY DEF Statuses
  <2> QED BY <1>0, <1>5, <2>1, UpdateEndpointStatusOK DEF ReportEndpointStatus, BundleRoom
<1>6. CASE RetireEndpoint(ep)
  <2> DEFINE t == [db EXCEPT !.status[ep] = "retired", !.bridge[ep] = FALSE]
  <2>1. db' = t BY <1>6 DEF RetireEndpoint
  <2>2. /\ t \in Database /\ SameWork(db, t)
        /\ t.bridge = [db.bridge EXCEPT ![ep] = FALSE]
    BY <1>0 DEF Database, SameWork, Statuses
  <2>3. \A c \in Clients : t.bridge[c] = FALSE
    BY <1>1, <2>2, DeliveryAssumption
  <2> HIDE DEF t
  <2> QED BY <1>0, <2>1, <2>2, <2>3, SameWorkConsistent
<1>7. CASE DeleteEndpoint(ep)
  BY <1>0, <1>7, DeleteOK DEF DeleteEndpoint
<1>8. ASSUME NEW st \in ActorStates, SetActorStatus(ep, st) PROVE Consistent(db')
  <2> DEFINE t == [db EXCEPT !.actor[ep] = st]
             shown == RuntimeConfigurationStatus(t, ep, "idle")
  <2>1. db.nb < MaxBundles
    BY <1>8 DEF SetActorStatus, BundleRoom
  <2>2. t \in Database /\ SameWork(db, t) /\ t.bridge = db.bridge
    <3>1. st \in {"active", "retired"} BY DeliveryAssumption
    <3> QED BY <1>0, <3>1 DEF Database, SameWork
  <2>3. \/ db' = UpdateEndpointStatus(t, ep, "retired")
        \/ db' = UpdateEndpointStatus(t, ep, shown)
        \/ db' = t
    BY <1>8 DEF SetActorStatus
  <2> HIDE DEF t
  <2>4. "retired" \in Statuses /\ shown \in Statuses
    BY <2>2, RuntimeConfigurationStatusType DEF Statuses
  <2> HIDE DEF shown
  <2>5. Consistent(t) /\ t.nb = db.nb
    BY <1>0, <1>1, <2>2, SameWorkConsistent DEF SameWork
  <2>6. /\ Consistent(UpdateEndpointStatus(t, ep, "retired"))
        /\ Consistent(UpdateEndpointStatus(t, ep, shown))
    BY <2>1, <2>4, <2>5, UpdateEndpointStatusOK
  <2> QED BY <2>3, <2>5, <2>6
<1>9. ASSUME NEW b \in Bindings, SetActorBinding(ep, b) PROVE Consistent(db')
  <2> DEFINE t == [db EXCEPT !.binding[ep] = b]
             shown == IF b = "none" THEN "runtime_unconfigured"
                      ELSE RuntimeConfigurationStatus(t, ep, db.status[ep])
  <2>1. db.nb < MaxBundles
    BY <1>9 DEF SetActorBinding, BundleRoom
  <2>2. t \in Database /\ SameWork(db, t) /\ t.bridge = db.bridge
    <3>1. b \in {"none", "resolved", "unresolved"} BY DeliveryAssumption
    <3> QED BY <1>0, <3>1 DEF Database, SameWork
  <2>3. \/ db' = t
        \/ db' = UpdateEndpointStatus(t, ep, shown) /\ db.status[ep] \in Statuses
    BY <1>9 DEF SetActorBinding, Statuses
  <2> HIDE DEF t
  <2>4. db.status[ep] \in Statuses => shown \in Statuses
    <3>1. "runtime_unconfigured" \in Statuses BY DEF Statuses
    <3> QED BY <2>2, <3>1, RuntimeConfigurationStatusType
  <2> HIDE DEF shown
  <2>5. Consistent(t) /\ t.nb = db.nb
    BY <1>0, <1>1, <2>2, SameWorkConsistent DEF SameWork
  <2>6. shown \in Statuses => Consistent(UpdateEndpointStatus(t, ep, shown))
    BY <2>1, <2>5, UpdateEndpointStatusOK
  <2> QED BY <2>3, <2>4, <2>5, <2>6
<1> QED
  BY <1>2, <1>3, <1>4, <1>5, <1>6, <1>7, <1>8, <1>9 DEF EndpointStep

(* The routes of a client that executes the turns of an endpoint. *)
LEMMA ClientStepOK ==
  ASSUME DeliveryInv, NEW ep \in Clients, ClientStep(ep)
  PROVE  Consistent(db')
<1>0. Consistent(db) /\ db \in Database /\ ep \in Endpoints
  BY DeliveryAssumption DEF DeliveryInv, Consistent
<1>1. \A c \in Clients : db.bridge[c] = FALSE
  BY <1>0 DEF Consistent, ClientsWait
<1>2. CASE RegisterClientEndpoint(ep)
  <2> DEFINE t == [db EXCEPT !.status[ep] = "idle"]
  <2>1. db' = TryCreateDeliveryForEndpoint(t, ep) /\ db.nb < MaxBundles
    BY <1>2 DEF RegisterClientEndpoint, BundleRoom
  <2>2. t \in Database /\ SameWork(db, t) /\ t.bridge = db.bridge
    BY <1>0 DEF Database, SameWork, Statuses
  <2> HIDE DEF t
  <2>3. Consistent(t) /\ t.nb = db.nb
    BY <1>0, <1>1, <2>2, SameWorkConsistent DEF SameWork
  <2> QED BY <1>0, <2>1, <2>3, TryCreateOK
<1>3. CASE ClaimClientDeliveries(ep)
  <2>1. {d \in Existing : EndpointOf(db, d) = ep} \subseteq 1 .. db.nb BY DEF Existing
  <2> QED BY <1>0, <1>3, <2>1, ClaimedOK DEF ClaimClientDeliveries
<1> QED BY <1>2, <1>3 DEF ClientStep

(* Every handler, timer and loop iteration of the Bus. *)
LEMMA NextOK == DeliveryInv /\ [Next]_db => DeliveryInv'
<1> SUFFICES ASSUME DeliveryInv, [Next]_db PROVE Consistent(db')
  BY DEF DeliveryInv
<1>0. Consistent(db) /\ db \in Database BY DEF DeliveryInv, Consistent
<1>1. ASSUME NEW j \in {"none", "abandon", "expire"}, db' = [db EXCEPT !.job = j]
      PROVE  Consistent(db')
  <2> DEFINE t == [db EXCEPT !.job = j]
  <2>1. t \in Database /\ SameWork(db, t) /\ t.bridge = db.bridge
    BY <1>0 DEF Database, SameWork
  <2>2. db' = t BY <1>1
  <2> HIDE DEF t
  <2>3. \A c \in Clients : t.bridge[c] = FALSE BY <1>0, <2>1 DEF Consistent, ClientsWait
  <2> QED BY <1>0, <2>1, <2>2, <2>3, SameWorkConsistent
<1>2. ASSUME NEW d \in Existing, BundleStep(d) PROVE Consistent(db')
  BY <1>2, BundleStepOK
<1>3. ASSUME NEW ep \in Endpoints, EndpointStep(ep) PROVE Consistent(db')
  BY <1>3, EndpointStepOK
<1>12. ASSUME NEW ep \in Clients, ClientStep(ep) PROVE Consistent(db')
  BY <1>12, ClientStepOK
<1>4. CASE ClaimDeliveries
  <2>1. {d \in Existing : Owned(d)} \subseteq 1 .. db.nb BY DEF Existing
  <2> QED BY <1>0, <1>4, <2>1, ClaimedOK DEF ClaimDeliveries
<1>5. CASE LeaseTimer BY <1>1, <1>5 DEF LeaseTimer
<1>6. CASE LeaseTimerDone BY <1>1, <1>6 DEF LeaseTimerDone
<1>7. CASE RegisterBridge BY <1>1, <1>7 DEF RegisterBridge
<1>8. CASE RegisterBridgeDone BY <1>1, <1>8 DEF RegisterBridgeDone
<1>9. CASE AbandonTurn
  <2>1. /\ Abandoned # {} /\ FailUnknownRuntimeDelivery(db, Oldest(Abandoned))
        /\ RowRoom /\ BundleRoom
    BY <1>9 DEF AbandonTurn
  <2>2. Abandoned \subseteq Nat BY DEF Abandoned, Existing
  <2>3. Oldest(Abandoned) \in Abandoned BY <2>1, <2>2, OldestIn
  <2> DEFINE d == Oldest(Abandoned)
  <2>4. d \in Existing /\ Owned(d) /\ IsActive(db, d)
    BY <2>3 DEF Abandoned, IsActive, ActiveStates
  <2> HIDE DEF d
  <2>5. EndpointOf(db, d) \notin Clients BY <2>4, OwnedFacts
  <2> QED BY <2>1, <2>4, <2>5, FailUnknownOK DEF d
<1>10. CASE ReleaseRestoreHold
  <2> DEFINE t == [db EXCEPT !.hold = FALSE]
  <2>1. t \in Database /\ SameWork(db, t) /\ t.bridge = db.bridge
    BY <1>0 DEF Database, SameWork
  <2>2. db' = t BY <1>10 DEF ReleaseRestoreHold
  <2> HIDE DEF t
  <2>3. \A c \in Clients : t.bridge[c] = FALSE BY <1>0, <2>1 DEF Consistent, ClientsWait
  <2> QED BY <1>0, <2>1, <2>2, <2>3, SameWorkConsistent
<1>11. CASE UNCHANGED db
  <2>1. db' = db BY <1>11
  <2> QED BY <1>0, <2>1
<1> QED
  BY <1>2, <1>3, <1>4, <1>5, <1>6, <1>7, <1>8, <1>9, <1>10, <1>11, <1>12 DEF Next

-----------------------------------------------------------------------------
(* The theorems.                                                             *)

(* However the calls of Bridges and clients arrive, and however many          *)
(* endpoints, rows and bundles there are, the queue, the bundles, the         *)
(* attempts, the requests and the authority sessions of the Bus stay          *)
(* consistent with one another between any two handlers.                      *)
THEOREM DatabaseConsistent == Spec => []DeliveryInv
<1>1. Init => DeliveryInv BY InitOK
<1>2. DeliveryInv /\ [Next]_db => DeliveryInv' BY NextOK
<1> QED BY <1>1, <1>2, PTL DEF Spec

(* The database is always well typed: in particular attempts never pass       *)
(* MaxAttempts, whatever is reported late or twice.                           *)
THEOREM TypeCorrect == Spec => []TypeOK
<1>1. DeliveryInv => TypeOK BY DEF DeliveryInv, Consistent, TypeOK
<1> QED BY <1>1, DatabaseConsistent, PTL

(* A row out for delivery and the bundle that holds it always agree, through  *)
(* claims, requeues, late reports, cancellation and deleted endpoints.        *)
THEOREM QueueAgreement == Spec => []QueueAgrees
<1>1. DeliveryInv => QueueAgrees
  <2> SUFFICES ASSUME DeliveryInv PROVE QueueAgrees OBVIOUS
  <2>0. Consistent(db) BY DEF DeliveryInv
  <2>1. ASSUME NEW r \in Rows, db.row[r].state \in ActiveStates
        PROVE  LET d == db.row[r].delivery
               IN  d \in Existing /\ db.bundle[d].row = r /\ db.bundle[d].state = db.row[r].state
    BY <2>0, <2>1 DEF Consistent, RowsLinked, Existing
  <2>2. ASSUME NEW d \in Existing, IsActive(db, d)
        PROVE  LET r == db.bundle[d].row
               IN  \/ db.row[r].delivery = d /\ db.row[r].state = db.bundle[d].state
                   \/ db.row[r].state = "deleted"
    BY <2>0, <2>2 DEF Consistent, BundlesLinked, Conclusive, Existing, IsActive
  <2> QED BY <2>1, <2>2 DEF QueueAgrees
<1> QED BY <1>1, DatabaseConsistent, PTL

(* Work the Bridge reported as injected is never given a second bundle unless *)
(* the Bridge handed it back: the Bus never replays a turn.                   *)
THEOREM NoReplay == Spec => []NeverReplayed
<1>1. DeliveryInv => NeverReplayed
  <2> SUFFICES ASSUME DeliveryInv, NEW d \in Existing, NEW e \in Existing, d < e,
                      db.bundle[d].row = db.bundle[e].row, db.bundle[d].entered,
                      db.bundle[d].state # "deferred"
               PROVE  FALSE
    BY DEF NeverReplayed
  <2>1. d \in 1 .. db.nb /\ e \in 1 .. db.nb /\ Consistent(db) BY DEF Existing, DeliveryInv
  <2>2. e <= d BY <2>1 DEF Consistent, BundlesLinked, Conclusive
  <2>3. d \in Nat /\ e \in Nat BY <2>1, OwnedFacts, BoundsNat
  <2> QED BY <2>2, <2>3
<1> QED BY <1>1, DatabaseConsistent, PTL

(* The bundles of one row that were not handed back carry strictly increasing *)
(* attempt numbers, so no interleaving of failures, expiries and hand-backs   *)
(* tries a row more than MaxAttempts times.                                   *)
THEOREM AttemptsAreSpent == Spec => []AttemptsSpent
<1>1. DeliveryInv => AttemptsSpent
  BY DEF DeliveryInv, Consistent, AttemptsOrdered, AttemptsSpent, Existing
<1> QED BY <1>1, DatabaseConsistent, PTL

(* A Delivery has at most one live operation-authority session while it is    *)
(* under way and none once it is settled, whichever handler settles it.       *)
THEOREM AuthorityIsConfined == Spec => []AuthorityConfined
<1>1. DeliveryInv => AuthorityConfined
  <2> SUFFICES ASSUME DeliveryInv, NEW d \in Existing
               PROVE  db.bundle[d].live <= (IF IsActive(db, d) THEN 1 ELSE 0)
    BY DEF AuthorityConfined
  <2>1. d \in Bundles /\ Consistent(db) BY OwnedFacts DEF DeliveryInv
  <2>2. db.bundle[d].live = IF db.bundle[d].sid /\ db.bundle[d].state \in ActiveStates THEN 1 ELSE 0
    BY <2>1 DEF Consistent, SessionsMatch
  <2> QED BY <2>2 DEF IsActive
<1> QED BY <1>1, DatabaseConsistent, PTL

=============================================================================
