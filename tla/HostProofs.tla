----------------------------- MODULE HostProofs -----------------------------
(***************************************************************************)
(* What is proved of a host for every value of the constants: the bearers  *)
(* of its transport are confined (Transport), its database can be opened   *)
(* again whatever fails (Upgrade), and nothing acts on access that was     *)
(* taken away (Authority).                                                 *)
(***************************************************************************)
EXTENDS Transport, Upgrade, Authority, FiniteSetTheorems, SequenceTheorems,
        WellFoundedInduction, TLAPS

(* A set without two different members has at most one. *)
LEMMA AtMostOne ==
  ASSUME NEW S, \A x, y \in S : x = y
  PROVE  Cardinality(S) \in Nat /\ Cardinality(S) <= 1
<1>1. CASE S = {} BY <1>1, FS_EmptySet
<1>2. CASE S # {}
  <2>1. PICK x \in S : TRUE BY <1>2
  <2>2. S = {x} BY <2>1
  <2> QED BY <2>2, FS_Singleton
<1> QED BY <1>1, <1>2

(* A set with at most one member has no two. *)
LEMMA OneMember ==
  ASSUME NEW S, IsFiniteSet(S), ~(Cardinality(S) > 1)
  PROVE  \A x, y \in S : x = y
<1> SUFFICES ASSUME NEW x \in S, NEW y \in S, x # y PROVE FALSE OBVIOUS
<1>1. {x, y} \subseteq S OBVIOUS
<1>2. IsFiniteSet({x}) /\ Cardinality({x}) = 1 BY FS_Singleton
<1>3. Cardinality({x} \cup {y}) = 2 BY <1>2, FS_AddElement
<1>4. {x, y} = {x} \cup {y} OBVIOUS
<1>5. Cardinality({x, y}) <= Cardinality(S) BY <1>1, FS_Subset
<1>6. Cardinality(S) \in Nat BY FS_CardinalityType
<1> QED BY <1>3, <1>4, <1>5, <1>6

(* A function over the places of a sequence is a sequence. *)
LEMMA SameLength ==
  ASSUME NEW S, NEW n \in Nat, NEW f \in [1 .. n -> S]
  PROVE  f \in Seq(S) /\ Len(f) = n
  BY SeqDef, LenProperties

-----------------------------------------------------------------------------
(* Transport.                                                               *)

Credential ==
  [aud : {"host_control", "bridge_service"}, tok : Nat, issued : Nat, expires : Nat,
   revoked : BOOLEAN, replaces : Nat]

(* A host credential is stored only when those before it are over, and one   *)
(* of the Bridge only when those before it are revoked.                      *)
HostInTurn ==
  \A i, j \in 1 .. Len(creds) :
    i < j /\ creds[i].aud = "host_control" /\ creds[j].aud = "host_control"
      => creds[i].expires <= creds[j].issued

OneOfBridge ==
  \A i, j \in 1 .. Len(creds) :
    creds[i].aud = "bridge_service" /\ creds[j].aud = "bridge_service" /\ i # j
      => creds[i].revoked \/ creds[j].revoked

(* Nothing revokes a host credential: it ends when its time is over. *)
HostNotRevoked ==
  \A i \in 1 .. Len(creds) : creds[i].aud = "host_control" => creds[i].revoked = FALSE

TransportInv ==
  /\ clockT \in Nat /\ bearers \in Nat /\ creds \in Seq(Credential)
  /\ HostInTurn /\ OneOfBridge /\ HostNotRevoked /\ StaysInWorkspace

(* A credential of the Bridge, issued when no other is unrevoked. *)
LEMMA IssueForBridge ==
  ASSUME TransportInv, NEW rows \in Seq(Credential), NEW t \in Nat, NEW r \in Nat,
         Len(rows) = Len(creds),
         \A i \in 1 .. Len(creds) :
           /\ rows[i].aud = creds[i].aud /\ rows[i].issued = creds[i].issued
           /\ rows[i].expires = creds[i].expires
           /\ rows[i].aud = "bridge_service" => rows[i].revoked
           /\ rows[i].aud = "host_control" => rows[i].revoked = creds[i].revoked,
         creds' = Issued(rows, "bridge_service", t, BridgeLife, r)
  PROVE  creds' \in Seq(Credential) /\ HostInTurn' /\ OneOfBridge' /\ HostNotRevoked'
<1> DEFINE c == [aud |-> "bridge_service", tok |-> t, issued |-> clockT,
                 expires |-> clockT + BridgeLife, revoked |-> FALSE, replaces |-> r]
<1>1. c \in Credential BY TransportAssumption DEF TransportInv, Credential
<1>2. creds' = Append(rows, c) BY DEF Issued
<1>3. creds' \in Seq(Credential) BY <1>1, <1>2
<1>4. /\ Len(creds') = Len(creds) + 1 /\ creds'[Len(creds) + 1] = c
      /\ \A i \in 1 .. Len(creds) : creds'[i] = rows[i]
  BY <1>1, <1>2
<1>5. Len(creds) \in Nat BY DEF TransportInv
<1>6. c.aud = "bridge_service" /\ ~c.revoked OBVIOUS
<1> HIDE DEF c
<1>7. HostInTurn'
  <2> SUFFICES ASSUME NEW i \in 1 .. Len(creds) + 1, NEW j \in 1 .. Len(creds) + 1, i < j,
                      creds'[i].aud = "host_control", creds'[j].aud = "host_control"
               PROVE  creds'[i].expires <= creds'[j].issued
    BY <1>4 DEF HostInTurn
  <2>1. i \in 1 .. Len(creds) BY <1>5
  <2>2. j \in 1 .. Len(creds) BY <1>4, <1>5, <1>6
  <2>3. /\ creds'[i] = rows[i] /\ creds'[j] = rows[j] BY <1>4, <2>1, <2>2
  <2>4. /\ creds[i].aud = "host_control" /\ creds[j].aud = "host_control"
        /\ rows[i].expires = creds[i].expires /\ rows[j].issued = creds[j].issued
    BY <2>1, <2>2, <2>3
  <2> QED BY <2>1, <2>2, <2>3, <2>4 DEF TransportInv, HostInTurn
<1>8. OneOfBridge'
  <2> SUFFICES ASSUME NEW i \in 1 .. Len(creds) + 1, NEW j \in 1 .. Len(creds) + 1, i # j,
                      creds'[i].aud = "bridge_service", creds'[j].aud = "bridge_service"
               PROVE  creds'[i].revoked \/ creds'[j].revoked
    BY <1>4 DEF OneOfBridge
  <2>1. i \in 1 .. Len(creds) \/ j \in 1 .. Len(creds) BY <1>5
  <2> QED BY <1>4, <2>1
<1>9. HostNotRevoked'
  <2> SUFFICES ASSUME NEW i \in 1 .. Len(creds) + 1, creds'[i].aud = "host_control"
               PROVE  creds'[i].revoked = FALSE
    BY <1>4 DEF HostNotRevoked
  <2>1. i \in 1 .. Len(creds) BY <1>4, <1>5, <1>6
  <2> QED BY <1>4, <2>1 DEF TransportInv, HostNotRevoked
<1> QED BY <1>3, <1>7, <1>8, <1>9

(* A request that reaches its handler names no more than one Workspace. *)
LEMMA HandledInWorkspace ==
  ASSUME NEW b \in Bearers, NEW r \in Routes, NEW n \in SUBSET Workspaces,
         NEW o \in SUBSET Workspaces, Request(b, [route |-> r, named |-> n, of |-> o])
  PROVE  StaysInWorkspace'
<1> DEFINE q == [route |-> r, named |-> n, of |-> o]
           f == WorkspaceFacts(q)
<1>1. IsFiniteSet(f) /\ o \subseteq f /\ q.route = r
  <2>1. IsFiniteSet(n \cup o)
    <3>1. (n \cup o) \subseteq Workspaces OBVIOUS
    <3> QED BY <3>1, FS_Subset, TransportAssumption
  <2> QED BY <2>1 DEF WorkspaceFacts
<1>0. CASE r = "public"
  BY <1>0 DEF Request, StaysInWorkspace
<1> SUFFICES ASSUME r # "public" PROVE StaysInWorkspace'
  BY <1>0
<1>2. /\ handled'.aud = b.aud /\ handled'.ws = b.ws /\ handled'.of = o /\ handled'.route = r
      /\ bound' = bound /\ Handles(b, q)
  BY DEF Request
<1>n. Cardinality(f) \in Nat /\ q.route = r BY <1>1, FS_CardinalityType
<1>k. /\ r \in DOMAIN FixedRequirement => FixedRequirement[r] # "public"
      /\ r \notin DOMAIN FixedRequirement => r \in DOMAIN WorkspaceRequirement
      /\ \A x \in DOMAIN WorkspaceRequirement :
             WorkspaceRequirement[x] \notin {"public", "bridge_or_host"}
      /\ r # "registration" /\ r \in DOMAIN FixedRequirement => FixedRequirement[r] # "bridge_or_host"
  BY DEF FixedRequirement, WorkspaceRequirement, Routes
<1> HIDE DEF q
<1>p. Requirement(q) # "public"
  BY <1>n, <1>k DEF Requirement, f
<1>3. ~(Cardinality(f) > 1)
  BY <1>2, <1>n, <1>p DEF Handles, Requirement, f
<1>4. b.aud = "workspace_operation" => o \subseteq {b.ws}
  <2> SUFFICES ASSUME b.aud = "workspace_operation" PROVE \A w \in o : w = b.ws
    OBVIOUS
  <2>1. b.ws \in f BY <1>2, <1>p DEF Handles, Authenticated
  <2>2. \A x, y \in f : x = y BY <1>1, <1>3, OneMember
  <2> HIDE DEF f
  <2> QED BY <1>1, <2>1, <2>2
<1>5. b.aud = "bridge_service" /\ r # "registration" => o \subseteq bound
  <2> SUFFICES ASSUME b.aud = "bridge_service", r # "registration" PROVE o \subseteq bound
    OBVIOUS
  <2>1. Requirement(q) # "bridge_or_host"
    BY <1>n, <1>k DEF Requirement, f
  <2>2. f \subseteq bound BY <1>2, <1>p, <2>1 DEF Handles
  <2> QED BY <1>1, <2>2
<1> QED BY <1>2, <1>4, <1>5 DEF StaysInWorkspace

(* The credential a new one of the Bridge replaces has a number. *)
LEMMA LatestIsNat ==
  ASSUME NEW n \in Nat, NEW S \in SUBSET (1 .. n)
  PROVE  LatestOf(S) \in Nat
<1>1. CASE S = {} BY <1>1 DEF LatestOf
<1>2. CASE S # {}
  <2> DEFINE D == {k \in Nat : \E i \in S : k = n - i}
  <2>0. D \subseteq Nat /\ D # {}
    <3>1. PICK i \in S : TRUE BY <1>2
    <3>2. n - i \in Nat BY <3>1
    <3> QED BY <3>1, <3>2
  <2>3. PICK d \in D : \A e \in D : ~(<<e, d>> \in OpToRel(<, Nat))
    <3> HIDE DEF D
    <3> QED BY <2>0, WFMin, NatLessThanWellFounded
  <2>4. PICK i \in S : d = n - i OBVIOUS
  <2>1. \A j \in S : j <= i
    <3> SUFFICES ASSUME NEW j \in S, ~(j <= i) PROVE FALSE OBVIOUS
    <3>1. n - j \in D /\ n - j < d BY <2>4
    <3> HIDE DEF D
    <3>2. n - j \in Nat /\ d \in Nat BY <2>0, <3>1
    <3>3. <<n - j, d>> \in OpToRel(<, Nat) BY <3>1, <3>2 DEF OpToRel
    <3> QED BY <2>3, <3>1, <3>3
  <2>2. LatestOf(S) \in S BY <1>2, <2>1 DEF LatestOf
  <2>5. \A x \in S : x \in Nat OBVIOUS
  <2> HIDE DEF D
  <2> QED BY <2>2, <2>5
<1> QED BY <1>1, <1>2

(* One credential is revoked, the others stay. *)
LEMMA RevokedOne ==
  ASSUME creds \in Seq(Credential), NEW i \in 1 .. Len(creds),
         NEW rows, rows = [creds EXCEPT ![i].revoked = TRUE]
  PROVE  /\ rows \in Seq(Credential) /\ Len(rows) = Len(creds)
         /\ rows[i] = [creds[i] EXCEPT !.revoked = TRUE]
         /\ \A j \in 1 .. Len(creds) : j # i => rows[j] = creds[j]
<1>1. Len(creds) \in Nat /\ DOMAIN creds = 1 .. Len(creds) OBVIOUS
<1>2. /\ rows[i] = [creds[i] EXCEPT !.revoked = TRUE]
      /\ \A j \in 1 .. Len(creds) : j # i => rows[j] = creds[j]
      /\ rows = [j \in 1 .. Len(creds) |-> rows[j]]
  BY <1>1
<1>3. \A j \in 1 .. Len(creds) : creds[j] \in Credential OBVIOUS
<1>4. [creds[i] EXCEPT !.revoked = TRUE] \in Credential BY <1>3 DEF Credential
<1>5. \A j \in 1 .. Len(creds) : rows[j] \in Credential BY <1>2, <1>3, <1>4
<1>6. rows \in [1 .. Len(creds) -> Credential] BY <1>2, <1>5
<1>7. rows \in Seq(Credential) /\ Len(rows) = Len(creds) BY <1>1, <1>6, SameLength
<1> QED BY <1>2, <1>7

(* Every step of the transport keeps its invariant. *)
LEMMA TransportStep ==
  ASSUME TransportInv, [TransportNext]_transportVars
  PROVE  TransportInv'
<1>0. /\ clockT \in Nat /\ bearers \in Nat /\ creds \in Seq(Credential)
      /\ HostInTurn /\ OneOfBridge /\ HostNotRevoked /\ StaysInWorkspace
      /\ Len(creds) \in Nat
      /\ \A i \in 1 .. Len(creds) : creds[i] \in Credential
  BY DEF TransportInv
<1>1. ASSUME UNCHANGED <<creds, bearers, bound, handled>>, clockT' \in Nat PROVE TransportInv'
  BY <1>0, <1>1 DEF TransportInv, HostInTurn, OneOfBridge, HostNotRevoked, StaysInWorkspace
<1>2. ASSUME NEW tok \in 1 .. (bearers + 1), StartBus(tok) PROVE TransportInv'
  <2>1. /\ clockT' = clockT /\ UNCHANGED <<bound, handled>> /\ bearers' \in Nat
    BY <1>0, <1>2 DEF StartBus
  <2>2. StaysInWorkspace' BY <1>0, <2>1 DEF StaysInWorkspace
  <2>3. CASE creds' = creds
    BY <1>0, <2>1, <2>2, <2>3 DEF TransportInv, HostInTurn, OneOfBridge, HostNotRevoked
  <2>4. CASE /\ ~\E i \in Current("host_control") : creds[i].expires > clockT
             /\ creds' = Issued(creds, "host_control", tok, HostLife, 0)
    <3> DEFINE c == [aud |-> "host_control", tok |-> tok, issued |-> clockT,
                     expires |-> clockT + HostLife, revoked |-> FALSE, replaces |-> 0]
    <3>1. c \in Credential /\ c.aud = "host_control" /\ c.issued = clockT /\ c.revoked = FALSE
      BY <1>0, TransportAssumption DEF Credential
    <3>2. creds' = Append(creds, c) BY <2>4 DEF Issued
    <3> HIDE DEF c
    <3>3. creds' \in Seq(Credential) BY <1>0, <3>1, <3>2
    <3>4. /\ Len(creds') = Len(creds) + 1 /\ creds'[Len(creds) + 1] = c
          /\ \A i \in 1 .. Len(creds) : creds'[i] = creds[i]
      BY <1>0, <3>1, <3>2
    <3>5. HostInTurn'
      <4> SUFFICES ASSUME NEW i \in 1 .. Len(creds) + 1, NEW j \in 1 .. Len(creds) + 1, i < j,
                          creds'[i].aud = "host_control", creds'[j].aud = "host_control"
                   PROVE  creds'[i].expires <= creds'[j].issued
        BY <3>4 DEF HostInTurn
      <4>1. i \in 1 .. Len(creds) /\ creds'[i] = creds[i] BY <1>0, <3>4
      <4>2. CASE j \in 1 .. Len(creds)
        BY <1>0, <3>4, <4>1, <4>2 DEF HostInTurn
      <4>3. CASE j = Len(creds) + 1
        <5>1. creds[i].revoked = FALSE BY <1>0, <4>1 DEF HostNotRevoked
        <5>2. i \in Current("host_control") BY <4>1, <5>1 DEF Current
        <5>3. ~(creds[i].expires > clockT) BY <2>4, <5>2
        <5>4. creds[i].expires \in Nat BY <1>0, <4>1 DEF Credential
        <5> QED BY <1>0, <3>1, <3>4, <4>1, <4>3, <5>3, <5>4
      <4> QED BY <1>0, <4>2, <4>3
    <3>6. OneOfBridge'
      <4> SUFFICES ASSUME NEW i \in 1 .. Len(creds) + 1, NEW j \in 1 .. Len(creds) + 1, i # j,
                          creds'[i].aud = "bridge_service", creds'[j].aud = "bridge_service"
                   PROVE  creds'[i].revoked \/ creds'[j].revoked
        BY <3>4 DEF OneOfBridge
      <4>1. i \in 1 .. Len(creds) /\ j \in 1 .. Len(creds) BY <1>0, <3>1, <3>4
      <4> QED BY <1>0, <3>4, <4>1 DEF OneOfBridge
    <3>7. HostNotRevoked'
      <4> SUFFICES ASSUME NEW i \in 1 .. Len(creds) + 1, creds'[i].aud = "host_control"
                   PROVE  creds'[i].revoked = FALSE
        BY <3>4 DEF HostNotRevoked
      <4> QED BY <1>0, <3>1, <3>4 DEF HostNotRevoked
    <3> QED BY <2>1, <2>2, <3>3, <3>5, <3>6, <3>7, <1>0 DEF TransportInv
  <2> QED BY <1>2, <2>3, <2>4 DEF StartBus
<1>3. ASSUME StopBus \/ ForgetToken \/ BridgeDies \/ BridgeRefused \/ Tick PROVE TransportInv'
  BY <1>0, <1>1, <1>3 DEF StopBus, ForgetToken, BridgeDies, BridgeRefused, Tick
<1>4. ASSUME EnsureBridge PROVE TransportInv'
  <2> DEFINE rows == RevokedAll("bridge_service")
             last == LatestOf(Current("bridge_service"))
  <2>1. /\ UNCHANGED <<clockT, bound, handled>> /\ bearers' \in Nat
        /\ creds' = Issued(rows, "bridge_service", bearers + 1, BridgeLife, last)
    BY <1>0, <1>4 DEF EnsureBridge, Replaced
  <2>2. rows \in Seq(Credential) /\ Len(rows) = Len(creds)
    <3>1. \A i \in 1 .. Len(creds) : rows[i] \in Credential
      BY <1>0 DEF RevokedAll, Credential
    <3>2. rows = [i \in 1 .. Len(creds) |-> rows[i]] BY DEF RevokedAll
    <3> HIDE DEF rows
    <3>3. rows \in [1 .. Len(creds) -> Credential] BY <3>1, <3>2
    <3> QED BY <1>0, <3>3, SameLength
  <2>3. \A i \in 1 .. Len(creds) :
           /\ rows[i].aud = creds[i].aud /\ rows[i].issued = creds[i].issued
           /\ rows[i].expires = creds[i].expires
           /\ rows[i].aud = "bridge_service" => rows[i].revoked
           /\ rows[i].aud = "host_control" => rows[i].revoked = creds[i].revoked
    <3> SUFFICES ASSUME NEW i \in 1 .. Len(creds)
                 PROVE /\ rows[i].aud = creds[i].aud /\ rows[i].issued = creds[i].issued
                       /\ rows[i].expires = creds[i].expires
                       /\ rows[i].aud = "bridge_service" => rows[i].revoked
                       /\ rows[i].aud = "host_control" => rows[i].revoked = creds[i].revoked
      OBVIOUS
    <3>1. CASE i \in Current("bridge_service")
      <4>1. rows[i] = [creds[i] EXCEPT !.revoked = TRUE] BY <3>1 DEF RevokedAll
      <4>2. creds[i].aud = "bridge_service" /\ creds[i] \in Credential BY <1>0, <3>1 DEF Current
      <4> HIDE DEF rows
      <4> QED BY <4>1, <4>2 DEF Credential
    <3>2. CASE i \notin Current("bridge_service")
      <4>1. rows[i] = creds[i] BY <3>2 DEF RevokedAll
      <4>2. creds[i].aud = "bridge_service" => creds[i].revoked BY <3>2 DEF Current
      <4> HIDE DEF rows
      <4> QED BY <4>1, <4>2
    <3> QED BY <3>1, <3>2
  <2>4. last \in Nat BY <1>0, LatestIsNat DEF Current
  <2> HIDE DEF rows, last
  <2>5. creds' \in Seq(Credential) /\ HostInTurn' /\ OneOfBridge' /\ HostNotRevoked'
    BY <1>0, <2>1, <2>2, <2>3, <2>4, IssueForBridge
  <2> QED BY <1>0, <2>1, <2>5 DEF TransportInv, StaysInWorkspace
<1>5. ASSUME NEW i \in 1 .. Len(creds), RotateCredential(i) PROVE TransportInv'
  <2> DEFINE rows == [creds EXCEPT ![i].revoked = TRUE]
  <2>1. /\ UNCHANGED <<clockT, bound, handled>> /\ bearers' \in Nat
        /\ creds' = Issued(rows, "bridge_service", bearers + 1, BridgeLife, i)
        /\ creds[i].aud = "bridge_service" /\ ~creds[i].revoked
    BY <1>0, <1>5 DEF RotateCredential
  <2>2. /\ rows \in Seq(Credential) /\ Len(rows) = Len(creds)
        /\ rows[i] = [creds[i] EXCEPT !.revoked = TRUE]
        /\ \A j \in 1 .. Len(creds) : j # i => rows[j] = creds[j]
    <3>1. rows = [creds EXCEPT ![i].revoked = TRUE] OBVIOUS
    <3> HIDE DEF rows
    <3> QED BY <1>0, <3>1, RevokedOne
  <2> HIDE DEF rows
  <2>3. \A j \in 1 .. Len(creds) :
           /\ rows[j].aud = creds[j].aud /\ rows[j].issued = creds[j].issued
           /\ rows[j].expires = creds[j].expires
           /\ rows[j].aud = "bridge_service" => rows[j].revoked
           /\ rows[j].aud = "host_control" => rows[j].revoked = creds[j].revoked
    <3> SUFFICES ASSUME NEW j \in 1 .. Len(creds)
                 PROVE /\ rows[j].aud = creds[j].aud /\ rows[j].issued = creds[j].issued
                       /\ rows[j].expires = creds[j].expires
                       /\ rows[j].aud = "bridge_service" => rows[j].revoked
                       /\ rows[j].aud = "host_control" => rows[j].revoked = creds[j].revoked
      OBVIOUS
    <3>1. CASE j = i
      BY <1>0, <2>1, <2>2, <3>1 DEF Credential
    <3>2. CASE j # i
      <4>1. creds[j].aud = "bridge_service" => creds[j].revoked
        BY <1>0, <2>1, <3>2 DEF OneOfBridge
      <4> QED BY <2>2, <3>2, <4>1
    <3> QED BY <3>1, <3>2
  <2>4. i \in Nat /\ bearers + 1 \in Nat BY <1>0
  <2>5. creds' \in Seq(Credential) /\ HostInTurn' /\ OneOfBridge' /\ HostNotRevoked'
    BY <1>0, <2>1, <2>2, <2>3, <2>4, IssueForBridge
  <2> QED BY <1>0, <2>1, <2>5 DEF TransportInv, StaysInWorkspace
<1>6. ASSUME NEW i \in 1 .. Len(creds), RevokeCredential(i) PROVE TransportInv'
  <2>1. /\ UNCHANGED <<clockT, bearers, bound, handled>>
        /\ creds' = [creds EXCEPT ![i].revoked = TRUE]
        /\ creds[i].aud = "bridge_service"
    BY <1>6 DEF RevokeCredential
  <2>2. /\ creds' \in Seq(Credential) /\ Len(creds') = Len(creds)
        /\ creds'[i] = [creds[i] EXCEPT !.revoked = TRUE]
        /\ \A j \in 1 .. Len(creds) : j # i => creds'[j] = creds[j]
    BY <1>0, <2>1, RevokedOne
  <2>3. \A j \in 1 .. Len(creds) :
           /\ creds'[j].aud = creds[j].aud /\ creds'[j].issued = creds[j].issued
           /\ creds'[j].expires = creds[j].expires
           /\ creds[j].revoked => creds'[j].revoked
           /\ creds'[j].aud = "host_control" => creds'[j].revoked = creds[j].revoked
    <3> SUFFICES ASSUME NEW j \in 1 .. Len(creds)
                 PROVE /\ creds'[j].aud = creds[j].aud /\ creds'[j].issued = creds[j].issued
                       /\ creds'[j].expires = creds[j].expires
                       /\ creds[j].revoked => creds'[j].revoked
                       /\ creds'[j].aud = "host_control" => creds'[j].revoked = creds[j].revoked
      OBVIOUS
    <3>1. CASE j = i
      <4>1. creds[j] \in Credential /\ creds'[j] = [creds[j] EXCEPT !.revoked = TRUE]
        BY <1>0, <2>2, <3>1
      <4>2. /\ creds'[j].aud = creds[j].aud /\ creds'[j].issued = creds[j].issued
            /\ creds'[j].expires = creds[j].expires
        BY <4>1 DEF Credential
      <4>3. creds'[j].revoked BY <4>1 DEF Credential
      <4>4. creds'[j].aud # "host_control" BY <2>1, <3>1, <4>2
      <4> QED BY <4>2, <4>3, <4>4
    <3>2. CASE j # i
      BY <2>2, <3>2
    <3> QED BY <3>1, <3>2
  <2>4. HostInTurn' BY <1>0, <2>2, <2>3 DEF HostInTurn
  <2>5. OneOfBridge' BY <1>0, <2>2, <2>3 DEF OneOfBridge
  <2>6. HostNotRevoked' BY <1>0, <2>2, <2>3 DEF HostNotRevoked
  <2> QED BY <1>0, <2>1, <2>2, <2>4, <2>5, <2>6 DEF TransportInv, StaysInWorkspace
<1>7. ASSUME NEW w \in Workspaces, Rebind(w) PROVE TransportInv'
  <2>1. UNCHANGED <<clockT, creds, bearers>> /\ handled' = NoRequest
    BY <1>7 DEF Rebind
  <2>2. StaysInWorkspace' BY <2>1 DEF StaysInWorkspace, NoRequest
  <2> QED BY <1>0, <2>1, <2>2 DEF TransportInv, HostInTurn, OneOfBridge, HostNotRevoked
<1>8. ASSUME NEW b \in Bearers, NEW r \in Routes, NEW n \in SUBSET Workspaces,
             NEW o \in SUBSET Workspaces, Request(b, [route |-> r, named |-> n, of |-> o])
      PROVE TransportInv'
  <2>1. UNCHANGED <<clockT, creds, bearers>> BY <1>8 DEF Request
  <2>2. StaysInWorkspace' BY <1>8, HandledInWorkspace
  <2> QED BY <1>0, <2>1, <2>2 DEF TransportInv, HostInTurn, OneOfBridge, HostNotRevoked
<1>9. ASSUME UNCHANGED transportVars PROVE TransportInv'
  BY <1>0, <1>1, <1>9 DEF transportVars
<1> QED
  BY <1>2, <1>3, <1>4, <1>5, <1>6, <1>7, <1>8, <1>9
  DEF TransportNext, CredentialNext, RequestNext

(* What the invariant says of the credentials accepted at one moment. *)
LEMMA OneAccepted ==
  ASSUME TransportInv
  PROVE  BearersConfined
<1>1. ASSUME NEW aud \in {"host_control", "bridge_service"}
      PROVE  Cardinality({i \in 1 .. Len(creds) : creds[i].aud = aud /\ IsCurrent(creds[i])}) <= 1
  <2> DEFINE S == {i \in 1 .. Len(creds) : creds[i].aud = aud /\ IsCurrent(creds[i])}
  <2>0. Len(creds) \in Nat /\ \A i \in 1 .. Len(creds) : creds[i] \in Credential
    BY DEF TransportInv
  <2>1. ASSUME NEW x \in S, NEW y \in S, x < y PROVE FALSE
    <3>1. /\ x \in 1 .. Len(creds) /\ y \in 1 .. Len(creds) /\ creds[x].aud = aud
          /\ creds[y].aud = aud /\ IsCurrent(creds[x]) /\ IsCurrent(creds[y])
      OBVIOUS
    <3> HIDE DEF S
    <3>2. /\ creds[x].expires \in Nat /\ creds[y].issued \in Nat /\ clockT \in Nat
      BY <2>0, <3>1 DEF Credential, TransportInv
    <3>3. CASE aud = "host_control"
      <4>1. creds[x].expires <= creds[y].issued
        BY <2>1, <3>1, <3>3 DEF TransportInv, HostInTurn
      <4> QED BY <3>1, <3>2, <4>1 DEF IsCurrent
    <3>4. CASE aud = "bridge_service"
      <4>1. x # y BY <2>0, <2>1, <3>1
      <4> QED BY <3>1, <3>4, <4>1 DEF TransportInv, OneOfBridge, IsCurrent
    <3> QED BY <3>3, <3>4
  <2>2. \A x \in S : x \in Nat BY <2>0
  <2> HIDE DEF S
  <2>3. \A x, y \in S : x = y BY <2>1, <2>2
  <2>4. Cardinality(S) <= 1 BY <2>3, AtMostOne
  <2> QED BY <2>4 DEF S
<1> QED BY <1>1 DEF BearersConfined, OneAuthority, TransportInv

(* For every set of Workspaces and every life of a credential: at most one   *)
(* credential of each audience is accepted at a time, whatever the order of  *)
(* starts, deaths, rotations and revocations, and no handler is given a      *)
(* resource of a Workspace its caller was not checked for                    *)
(* (transport-credentials.ts, and the preHandler of server.ts).              *)
THEOREM TransportConfinesBearers == TransportSpec => []BearersConfined
<1>1. TransportInit => TransportInv
  <2> SUFFICES ASSUME TransportInit PROVE TransportInv OBVIOUS
  <2>1. creds = <<>> /\ Len(creds) = 0 /\ creds \in Seq(Credential) BY DEF TransportInit
  <2>2. HostInTurn /\ OneOfBridge /\ HostNotRevoked
    BY <2>1 DEF HostInTurn, OneOfBridge, HostNotRevoked
  <2>3. StaysInWorkspace BY DEF StaysInWorkspace, NoRequest, TransportInit
  <2> QED BY <2>1, <2>2, <2>3 DEF TransportInit, TransportInv
<1>2. TransportInv /\ [TransportNext]_transportVars => TransportInv'
  BY TransportStep
<1>3. TransportInv => BearersConfined
  BY OneAccepted
<1> QED BY <1>1, <1>2, <1>3, PTL DEF TransportSpec
-----------------------------------------------------------------------------
(* Upgrade.                                                                 *)

Tables == {"a"} \cup UNION {b.makes : b \in Builds}
Layouts == {"paths", "clash", "retired", "notnull"}
Database == [ver : Nat, tables : SUBSET Tables, outdated : SUBSET Layouts, rows : Nat]
Backup == [of : Database, good : BOOLEAN]
Entry == [from : Nat, to : Nat, copy : Nat]
Start == [pc : {"copy", "verify", "rebuild", "migrate", "open"}, by : Builds, from : Nat, copy : Nat]

UpgradeTypes ==
  /\ file \in Database /\ was \in Database /\ served \in BOOLEAN /\ risen \in BOOLEAN
  /\ copies \in Seq(Backup) /\ log \in Seq(Entry)
  /\ opening \in {Closed} \cup Start

(* A start before it serves works on the version it read, and what people    *)
(* had is the file itself until a start that raises the version changed it.  *)
Before ==
  /\ opening.pc \in {"copy", "verify", "rebuild", "migrate"} =>
        ~served /\ opening.from = file.ver /\ opening.from <= opening.by.ver
  /\ opening.pc = "open" => served
  /\ ~risen /\ ~served => was = file

(* The copy of a start: made of the version it read and, once verified, good. *)
CopyOfStart ==
  opening # Closed /\ opening.copy # 0 =>
    /\ opening.copy \in 1 .. Len(copies) /\ copies[opening.copy].of.ver = opening.from
    /\ opening.from < opening.by.ver
    /\ opening.pc \in {"rebuild", "migrate", "open"} => copies[opening.copy].good = TRUE
    /\ opening.pc \in {"verify", "rebuild"} => copies[opening.copy].of = file
    /\ opening.pc = "migrate" /\ ~risen => copies[opening.copy].of = file

(* A start copies when it raises the version, and goes on without a copy     *)
(* only when there is nothing to copy.                                       *)
NothingToCopy ==
  /\ opening.pc = "copy" => opening.from < opening.by.ver
  /\ opening.pc \in {"verify", "rebuild", "migrate"} /\ opening.from < opening.by.ver
        /\ opening.copy = 0 => file.tables = {}

LogNames ==
  \A i \in 1 .. Len(log) : log[i].copy # 0 =>
     /\ log[i].copy \in 1 .. Len(copies) /\ copies[log[i].copy].good = TRUE
     /\ copies[log[i].copy].of.ver = log[i].from

VersionIsTrue ==
  file.ver > 1 => \E b \in Builds : b.ver = file.ver /\ b.makes \subseteq file.tables

UpgradeInv ==
  /\ UpgradeTypes /\ Before /\ CopyOfStart /\ NothingToCopy /\ LogNames /\ VersionIsTrue
  /\ Recoverable /\ Converged

(* The fields of a start under way. *)
LEMMA StartFields ==
  ASSUME UpgradeTypes, opening # Closed
  PROVE  /\ opening \in Start /\ opening.by \in Builds /\ opening.by.ver \in Nat
         /\ opening.from \in Nat /\ opening.copy \in Nat /\ opening.pc # "closed"
<1>1. opening \in Start BY DEF UpgradeTypes
<1>2. /\ opening.by \in Builds /\ opening.from \in Nat /\ opening.copy \in Nat
      /\ opening.pc # "closed"
  BY <1>1 DEF Start
<1> QED BY <1>1, <1>2, UpgradeAssumption

(* What a copy added at the end leaves as it was. *)
LEMMA CopyAdded ==
  ASSUME UpgradeInv, NEW c \in Backup, copies' = Append(copies, c),
         UNCHANGED <<file, log, served, was, risen>>
  PROVE  /\ copies' \in Seq(Backup) /\ Len(copies') = Len(copies) + 1 /\ Len(copies) \in Nat
         /\ copies'[Len(copies) + 1] = c
         /\ \A k \in 1 .. Len(copies) : copies'[k] = copies[k]
         /\ LogNames' /\ VersionIsTrue' /\ Recoverable'
<1>1. copies \in Seq(Backup) /\ Len(copies) \in Nat BY DEF UpgradeInv, UpgradeTypes
<1>2. /\ copies' \in Seq(Backup) /\ Len(copies') = Len(copies) + 1
      /\ copies'[Len(copies) + 1] = c
      /\ \A k \in 1 .. Len(copies) : copies'[k] = copies[k]
  BY <1>1
<1>3. LogNames'
  <2> SUFFICES ASSUME NEW i \in 1 .. Len(log), log[i].copy # 0
               PROVE  /\ log[i].copy \in 1 .. Len(copies')
                      /\ copies'[log[i].copy].good = TRUE
                      /\ copies'[log[i].copy].of.ver = log[i].from
    BY DEF LogNames
  <2>1. /\ log[i].copy \in 1 .. Len(copies) /\ copies[log[i].copy].good = TRUE
        /\ copies[log[i].copy].of.ver = log[i].from
    BY DEF UpgradeInv, LogNames
  <2> QED BY <1>1, <1>2, <2>1
<1>4. VersionIsTrue' BY DEF UpgradeInv, VersionIsTrue
<1>5. Recoverable'
  <2> SUFFICES ASSUME risen, was.tables # {}
               PROVE  \E k \in DOMAIN copies' : copies'[k].good /\ copies'[k].of = was
    BY DEF Recoverable
  <2>1. PICK k \in DOMAIN copies : copies[k].good /\ copies[k].of = was
    BY DEF UpgradeInv, Recoverable
  <2>2. k \in 1 .. Len(copies) /\ k \in DOMAIN copies' BY <1>1, <1>2
  <2> QED BY <1>2, <2>1, <2>2
<1> QED BY <1>1, <1>2, <1>3, <1>4, <1>5

(* The file changes as a start that has its copy changes it. *)
LEMMA ChangeIsCopied ==
  ASSUME UpgradeInv, opening.pc \in {"rebuild", "migrate"}, NEW to \in Database, Changed(to),
         copies' = copies
  PROVE  /\ file' = to /\ was' \in Database /\ risen' \in BOOLEAN
         /\ Recoverable' /\ (~risen' => was' = to)
         /\ ~risen' => ~risen /\ (opening.from < opening.by.ver => to = file)
<1>0. opening # Closed BY DEF Closed
<1>1. /\ opening.by.ver \in Nat /\ opening.from \in Nat /\ opening.copy \in Nat
  BY <1>0, StartFields DEF UpgradeInv
<1>2. /\ file \in Database /\ was \in Database /\ risen \in BOOLEAN /\ copies \in Seq(Backup)
  BY DEF UpgradeInv, UpgradeTypes
<1> DEFINE rises == opening.from < opening.by.ver
<1>3. /\ file' = to /\ risen' = (risen \/ (rises /\ to # file))
      /\ was' = IF rises \/ risen THEN was ELSE to
  BY DEF Changed
<1>4. ~served /\ (~risen => was = file) BY DEF UpgradeInv, Before
<1>5. Recoverable'
  <2> SUFFICES ASSUME risen', was'.tables # {}
               PROVE  \E k \in DOMAIN copies : copies[k].good /\ copies[k].of = was'
    BY DEF Recoverable
  <2>1. CASE risen
    BY <1>3, <2>1 DEF UpgradeInv, Recoverable
  <2>2. CASE ~risen
    <3>1. rises /\ to # file /\ was' = was /\ was = file BY <1>3, <1>4, <2>2
    <3>2. opening.copy # 0 BY <3>1 DEF UpgradeInv, NothingToCopy
    <3>3. /\ opening.copy \in 1 .. Len(copies) /\ copies[opening.copy].good = TRUE
          /\ copies[opening.copy].of = file
      BY <1>0, <2>2, <3>2 DEF UpgradeInv, CopyOfStart
    <3>4. opening.copy \in DOMAIN copies BY <1>2, <3>3
    <3> QED BY <3>1, <3>3, <3>4
  <2> QED BY <2>1, <2>2
<1> QED BY <1>2, <1>3, <1>4, <1>5

(* Every step of an opening keeps its invariant. *)
LEMMA UpgradeStep ==
  ASSUME UpgradeInv, [UpgradeNext]_upgradeVars
  PROVE  UpgradeInv'
<1>0. /\ UpgradeTypes /\ Before /\ CopyOfStart /\ NothingToCopy /\ LogNames /\ VersionIsTrue
      /\ Recoverable /\ Converged
  BY DEF UpgradeInv
<1>t. /\ file \in Database /\ was \in Database /\ served \in BOOLEAN /\ risen \in BOOLEAN
      /\ copies \in Seq(Backup) /\ Len(copies) \in Nat
      /\ log \in Seq(Entry) /\ Len(log) \in Nat
      /\ opening \in {Closed} \cup Start /\ file.ver \in Nat
  BY <1>0 DEF UpgradeTypes, Database
<1>c. Closed.pc = "closed" BY DEF Closed
(* A start that ends leaves nothing under way. *)
<1>e. ASSUME opening' = Closed, UNCHANGED <<file, copies, log, served, was, risen>>
      PROVE  UpgradeInv'
  <2>1. UpgradeTypes' BY <1>0, <1>e DEF UpgradeTypes
  <2>2. Before' /\ CopyOfStart' /\ NothingToCopy' /\ Converged'
    BY <1>0, <1>c, <1>e DEF Before, CopyOfStart, NothingToCopy, Converged
  <2>3. LogNames' /\ VersionIsTrue' /\ Recoverable'
    BY <1>0, <1>e DEF LogNames, VersionIsTrue, Recoverable
  <2> QED BY <2>1, <2>2, <2>3 DEF UpgradeInv
<1>1. ASSUME NEW b \in Builds, Open(b) PROVE UpgradeInv'
  <2>1. /\ opening = Closed /\ served' = FALSE /\ UNCHANGED <<file, copies, log>>
        /\ was' = IF served THEN file ELSE was
        /\ risen' = (risen /\ ~served)
        /\ opening' = IF file.ver > b.ver THEN Closed
                      ELSE [pc |-> IF NeedsCopy(b) THEN "copy" ELSE "rebuild", by |-> b,
                            from |-> file.ver, copy |-> 0]
    BY <1>1 DEF Open
  <2>2. b.ver \in Nat BY UpgradeAssumption
  <2>3. CASE file.ver > b.ver
    <3>1. opening' = Closed BY <2>1, <2>3
    <3>2. UpgradeTypes' BY <1>t, <2>1, <3>1 DEF UpgradeTypes
    <3>3. Before' BY <1>0, <1>c, <1>t, <2>1, <3>1 DEF Before
    <3>4. CopyOfStart' /\ NothingToCopy' /\ Converged'
      BY <1>c, <3>1 DEF CopyOfStart, NothingToCopy, Converged
    <3>5. LogNames' /\ VersionIsTrue' BY <1>0, <2>1 DEF LogNames, VersionIsTrue
    <3>6. Recoverable' BY <1>0, <1>t, <2>1 DEF Recoverable
    <3> QED BY <3>2, <3>3, <3>4, <3>5, <3>6 DEF UpgradeInv
  <2>4. CASE ~(file.ver > b.ver)
    <3>1. opening' = [pc |-> IF NeedsCopy(b) THEN "copy" ELSE "rebuild", by |-> b,
                      from |-> file.ver, copy |-> 0]
      BY <2>1, <2>4
    <3>2. /\ opening' \in Start /\ opening'.by = b /\ opening'.from = file.ver
          /\ opening'.copy = 0 /\ opening'.pc \in {"copy", "rebuild"}
          /\ opening'.pc = "rebuild" => ~NeedsCopy(b)
          /\ opening'.pc = "copy" => NeedsCopy(b)
      BY <1>t, <3>1 DEF Start
    <3>3. UpgradeTypes' BY <1>t, <2>1, <3>2 DEF UpgradeTypes
    <3>4. Before' BY <1>0, <1>t, <2>1, <2>2, <2>4, <3>2 DEF Before
    <3>5. CopyOfStart' /\ Converged' BY <3>2 DEF CopyOfStart, Converged
    <3>6. NothingToCopy' BY <2>1, <3>2 DEF NothingToCopy, NeedsCopy
    <3>7. LogNames' /\ VersionIsTrue' BY <1>0, <2>1 DEF LogNames, VersionIsTrue
    <3>8. Recoverable' BY <1>0, <1>t, <2>1 DEF Recoverable
    <3> QED BY <3>3, <3>4, <3>5, <3>6, <3>7, <3>8 DEF UpgradeInv
  <2> QED BY <2>3, <2>4
<1>2. ASSUME Copy PROVE UpgradeInv'
  <2>0. opening.pc = "copy" /\ opening # Closed BY <1>2, <1>c DEF Copy
  <2>1. PICK good \in BOOLEAN : copies' = Append(copies, [of |-> file, good |-> good])
    BY <1>2 DEF Copy
  <2>2. /\ opening' = [opening EXCEPT !.pc = "verify", !.copy = Len(copies')]
        /\ UNCHANGED <<file, log, served, was, risen>>
    BY <1>2 DEF Copy
  <2> DEFINE c == [of |-> file, good |-> good]
  <2>3. c \in Backup /\ c.of = file BY <1>t DEF Backup
  <2> HIDE DEF c
  <2>4. /\ copies' \in Seq(Backup) /\ Len(copies') = Len(copies) + 1
        /\ copies'[Len(copies) + 1] = c
        /\ LogNames' /\ VersionIsTrue' /\ Recoverable'
    BY <2>1, <2>2, <2>3, CopyAdded DEF c
  <2>5. opening \in Start BY <2>0, <1>t
  <2>6. /\ opening' \in Start /\ opening'.pc = "verify" /\ opening'.copy = Len(copies) + 1
        /\ opening'.from = opening.from /\ opening'.by = opening.by
    <3>1. Len(copies') \in Nat /\ Len(copies') = Len(copies) + 1 BY <1>t, <2>4
    <3>2. opening' = [pc |-> "verify", by |-> opening.by, from |-> opening.from, copy |-> Len(copies')]
      BY <2>2, <2>5 DEF Start
    <3>3. opening.by \in Builds /\ opening.from \in Nat BY <2>5 DEF Start
    <3> QED BY <3>1, <3>2, <3>3 DEF Start
  <2>7. UpgradeTypes' BY <1>t, <2>2, <2>4, <2>6 DEF UpgradeTypes
  <2>8. Before' BY <1>0, <2>0, <2>2, <2>6 DEF Before
  <2>9. CopyOfStart'
    <3>1. Len(copies) + 1 \in 1 .. Len(copies') /\ Len(copies) + 1 # 0 BY <1>t, <2>4
    <3>2. file.ver = opening.from /\ opening.from < opening.by.ver
      BY <1>0, <2>0 DEF Before, NothingToCopy
    <3> QED BY <2>2, <2>3, <2>4, <2>6, <3>1, <3>2 DEF CopyOfStart
  <2>10. NothingToCopy' BY <1>t, <2>6 DEF NothingToCopy
  <2>11. Converged' BY <2>6 DEF Converged
  <2> QED BY <2>4, <2>7, <2>8, <2>9, <2>10, <2>11 DEF UpgradeInv
<1>3. ASSUME Verify PROVE UpgradeInv'
  <2>1. /\ opening.pc = "verify" /\ opening # Closed
        /\ UNCHANGED <<file, copies, log, served, was, risen>>
        /\ opening' = IF copies[opening.copy].good THEN [opening EXCEPT !.pc = "rebuild"] ELSE Closed
    BY <1>3, <1>c DEF Verify, IntegrityChecked
  <2>2. CASE ~copies[opening.copy].good
    BY <1>e, <2>1, <2>2
  <2>3. CASE copies[opening.copy].good
    <3>0. opening \in Start BY <2>1, <1>t
    <3>1. /\ opening' \in Start /\ opening'.pc = "rebuild" /\ opening'.copy = opening.copy
          /\ opening'.from = opening.from /\ opening'.by = opening.by
      BY <2>1, <2>3, <3>0 DEF Start
    <3>2. UpgradeTypes' BY <1>t, <2>1, <3>1 DEF UpgradeTypes
    <3>3. Before' BY <1>0, <2>1, <3>1 DEF Before
    <3>4. CopyOfStart'
      <4> SUFFICES ASSUME opening.copy # 0
                   PROVE /\ opening.copy \in 1 .. Len(copies)
                         /\ copies[opening.copy].of.ver = opening.from
                         /\ opening.from < opening.by.ver
                         /\ copies[opening.copy].good = TRUE
                         /\ copies[opening.copy].of = file
        BY <2>1, <3>1 DEF CopyOfStart
      <4>1. /\ opening.copy \in 1 .. Len(copies) /\ copies[opening.copy].of.ver = opening.from
            /\ copies[opening.copy].of = file /\ opening.from < opening.by.ver
        BY <1>0, <2>1 DEF CopyOfStart
      <4>2. copies[opening.copy] \in Backup BY <1>t, <4>1
      <4>3. copies[opening.copy].good \in BOOLEAN BY <4>2 DEF Backup
      <4> QED BY <2>3, <4>1, <4>3
    <3>5. NothingToCopy' /\ Converged' BY <1>0, <2>1, <3>1 DEF NothingToCopy, Converged
    <3>6. LogNames' /\ VersionIsTrue' /\ Recoverable'
      BY <1>0, <2>1 DEF LogNames, VersionIsTrue, Recoverable
    <3> QED BY <3>2, <3>3, <3>4, <3>5, <3>6 DEF UpgradeInv
  <2> QED BY <2>2, <2>3
<1>4. ASSUME Rebuild PROVE UpgradeInv'
  <2>0. /\ opening.pc = "rebuild" /\ opening # Closed /\ UNCHANGED <<copies, log, served>>
    BY <1>4, <1>c DEF Rebuild
  <2>1. CASE opening' = Closed /\ UNCHANGED <<file, risen, was>>
    BY <1>e, <2>0, <2>1
  <2>2. CASE /\ Changed(Rebuilt(file))
             /\ opening' = [opening EXCEPT !.pc = "migrate"]
    <3> DEFINE to == Rebuilt(file)
    <3>1. /\ to \in Database /\ to.ver = file.ver /\ to.tables = file.tables
      BY <1>t DEF Rebuilt, Database
    <3> HIDE DEF to
    <3>2. Changed(to) BY <2>2 DEF to
    <3>3. /\ file' = to /\ was' \in Database /\ risen' \in BOOLEAN
          /\ Recoverable' /\ (~risen' => was' = to)
          /\ ~risen' => ~risen /\ (opening.from < opening.by.ver => to = file)
      BY <2>0, <3>1, <3>2, ChangeIsCopied
    <3>4. opening \in Start BY <2>0, <1>t
    <3>5. /\ opening' \in Start /\ opening'.pc = "migrate" /\ opening'.copy = opening.copy
          /\ opening'.from = opening.from /\ opening'.by = opening.by
      BY <2>2, <3>4 DEF Start
    <3>6. UpgradeTypes' BY <1>t, <2>0, <3>1, <3>3, <3>5 DEF UpgradeTypes
    <3>7. Before' BY <1>0, <2>0, <3>1, <3>3, <3>5 DEF Before
    <3>8. CopyOfStart'
      <4> SUFFICES ASSUME opening.copy # 0
                   PROVE /\ opening.copy \in 1 .. Len(copies)
                         /\ copies[opening.copy].of.ver = opening.from
                         /\ opening.from < opening.by.ver
                         /\ copies[opening.copy].good = TRUE
                         /\ ~risen' => copies[opening.copy].of = file'
        BY <2>0, <3>5 DEF CopyOfStart
      <4>1. /\ opening.copy \in 1 .. Len(copies) /\ copies[opening.copy].of.ver = opening.from
            /\ copies[opening.copy].of = file /\ copies[opening.copy].good = TRUE
        BY <1>0, <2>0 DEF CopyOfStart
      <4>2. opening.from < opening.by.ver
        BY <1>0, <2>0 DEF CopyOfStart
      <4> QED BY <3>3, <4>1, <4>2
    <3>9. NothingToCopy' BY <1>0, <2>0, <3>1, <3>3, <3>5 DEF NothingToCopy
    <3>10. Converged' BY <3>5 DEF Converged
    <3>11. LogNames' BY <1>0, <2>0 DEF LogNames
    <3>12. VersionIsTrue' BY <1>0, <3>1, <3>3 DEF VersionIsTrue
    <3> QED BY <3>3, <3>6, <3>7, <3>8, <3>9, <3>10, <3>11, <3>12 DEF UpgradeInv
  <2> QED BY <1>4, <2>1, <2>2 DEF Rebuild
<1>5. ASSUME Migrate PROVE UpgradeInv'
  <2>0. /\ opening.pc = "migrate" /\ opening # Closed /\ UNCHANGED copies
    BY <1>5, <1>c DEF Migrate
  <2>1. CASE Blocked(file)
    BY <1>5, <1>e, <2>1 DEF Migrate
  <2>2. CASE ~Blocked(file)
    <3> DEFINE to == Ensured(file, opening.by)
               entry == [from |-> opening.from, to |-> opening.by.ver, copy |-> opening.copy]
    <3>1. /\ Changed(to) /\ served' = TRUE /\ opening' = [opening EXCEPT !.pc = "open"]
          /\ log' = IF opening.from < opening.by.ver THEN Append(log, entry) ELSE log
      BY <1>5, <2>2 DEF Migrate
    <3>2. /\ opening \in Start /\ opening.by \in Builds /\ opening.by.ver \in Nat
          /\ opening.from \in Nat /\ opening.copy \in Nat
      BY <1>0, <2>0, StartFields
    <3>3. /\ to \in Database /\ to.ver = opening.by.ver /\ to.outdated = {}
          /\ to.tables = file.tables \cup opening.by.makes
      BY <1>t, <3>2 DEF Ensured, Database, Tables
    <3>e. /\ entry \in Entry /\ entry.copy = opening.copy
          /\ entry.from = opening.from
      BY <3>2 DEF Entry
    <3> HIDE DEF to, entry
    <3>4. /\ file' = to /\ was' \in Database /\ risen' \in BOOLEAN /\ Recoverable'
      BY <2>0, <3>1, <3>3, ChangeIsCopied
    <3>5. /\ opening' \in Start /\ opening'.pc = "open" /\ opening'.copy = opening.copy
          /\ opening'.from = opening.from /\ opening'.by = opening.by
      BY <3>1, <3>2 DEF Start
    <3>6. log' \in Seq(Entry) BY <1>t, <3>1, <3>e
    <3>7. UpgradeTypes' BY <1>t, <2>0, <3>1, <3>3, <3>4, <3>5, <3>6 DEF UpgradeTypes
    <3>8. Before' BY <3>1, <3>5 DEF Before
    <3>9. opening.copy # 0 =>
             /\ opening.copy \in 1 .. Len(copies)
             /\ copies[opening.copy].of.ver = opening.from
             /\ copies[opening.copy].good = TRUE /\ opening.from < opening.by.ver
      BY <1>0, <2>0 DEF CopyOfStart
    <3>10. CopyOfStart' BY <2>0, <3>5, <3>9 DEF CopyOfStart
    <3>11. NothingToCopy' BY <3>5 DEF NothingToCopy
    <3>12. Converged' BY <3>3, <3>4, <3>5 DEF Converged
    <3>13. LogNames'
      <4>1. CASE log' = log BY <1>0, <2>0, <4>1 DEF LogNames
      <4>2. CASE log' = Append(log, entry)
        <5>1. /\ Len(log') = Len(log) + 1 /\ log'[Len(log) + 1] = entry
              /\ \A i \in 1 .. Len(log) : log'[i] = log[i]
          BY <1>t, <3>e, <4>2
        <5> SUFFICES ASSUME NEW i \in 1 .. Len(log) + 1, log'[i].copy # 0
                     PROVE  /\ log'[i].copy \in 1 .. Len(copies)
                            /\ copies[log'[i].copy].good = TRUE
                            /\ copies[log'[i].copy].of.ver = log'[i].from
          BY <2>0, <5>1 DEF LogNames
        <5>2. CASE i \in 1 .. Len(log) BY <1>0, <5>1, <5>2 DEF LogNames
        <5>3. CASE i = Len(log) + 1 BY <3>9, <3>e, <5>1, <5>3
        <5>4. i \in 1 .. Len(log) \/ i = Len(log) + 1 BY <1>t
        <5> QED BY <5>2, <5>3, <5>4
      <4> QED BY <3>1, <4>1, <4>2
    <3>14. VersionIsTrue' BY <3>2, <3>3, <3>4 DEF VersionIsTrue
    <3> QED BY <3>4, <3>7, <3>8, <3>10, <3>11, <3>12, <3>13, <3>14 DEF UpgradeInv
  <2> QED BY <2>1, <2>2
<1>6. ASSUME Write PROVE UpgradeInv'
  <2>1. /\ opening.pc = "open" /\ opening # Closed
        /\ UNCHANGED <<copies, log, opening, served, was, risen>>
        /\ file' = [file EXCEPT !.rows = @ + 1]
    BY <1>6, <1>c DEF Write
  <2>2. /\ file' \in Database /\ file'.ver = file.ver /\ file'.tables = file.tables
        /\ file'.outdated = file.outdated
    BY <1>t, <2>1 DEF Database
  <2>3. UpgradeTypes' BY <1>0, <2>1, <2>2 DEF UpgradeTypes
  <2>4. Before' BY <1>0, <2>1 DEF Before
  <2>5. CopyOfStart' /\ NothingToCopy' BY <1>0, <2>1 DEF CopyOfStart, NothingToCopy
  <2>6. LogNames' /\ Recoverable' BY <1>0, <2>1 DEF LogNames, Recoverable
  <2>7. VersionIsTrue' /\ Converged' BY <1>0, <2>1, <2>2 DEF VersionIsTrue, Converged
  <2> QED BY <2>3, <2>4, <2>5, <2>6, <2>7 DEF UpgradeInv
<1>7. ASSUME Die PROVE UpgradeInv'
  <2>1. opening' = Closed /\ UNCHANGED <<file, log, served, was, risen>>
    BY <1>7 DEF Die
  <2>2. CASE copies' = copies BY <1>e, <2>1, <2>2
  <2>3. CASE copies' = Append(copies, [of |-> file, good |-> FALSE])
    <3>1. [of |-> file, good |-> FALSE] \in Backup BY <1>t DEF Backup
    <3>2. copies' \in Seq(Backup) /\ LogNames' /\ VersionIsTrue' /\ Recoverable'
      BY <2>1, <2>3, <3>1, CopyAdded
    <3>3. UpgradeTypes' BY <1>0, <2>1, <3>2 DEF UpgradeTypes
    <3>4. Before' /\ CopyOfStart' /\ NothingToCopy' /\ Converged'
      BY <1>0, <1>c, <2>1 DEF Before, CopyOfStart, NothingToCopy, Converged
    <3> QED BY <3>2, <3>3, <3>4 DEF UpgradeInv
  <2> QED BY <1>7, <2>2, <2>3 DEF Die
<1>8. ASSUME UNCHANGED upgradeVars PROVE UpgradeInv'
  BY <1>8 DEF upgradeVars, UpgradeInv, UpgradeTypes, Before, CopyOfStart, NothingToCopy,
              LogNames, VersionIsTrue, Recoverable, Converged
<1> QED BY <1>1, <1>2, <1>3, <1>4, <1>5, <1>6, <1>7, <1>8 DEF UpgradeNext

(* For every set of builds, and whatever the number of deaths, bad copies    *)
(* and failed conversions: what people had before a version rose can be had  *)
(* again, the build that serves the database finds its own schema, and the   *)
(* history names sound copies of the versions it names (runDatabaseUpgrade). *)
THEOREM UpgradeKeepsDatabase == UpgradeSpec => []DatabaseOpens
<1>1. UpgradeInit => UpgradeInv
  <2> SUFFICES ASSUME UpgradeInit PROVE UpgradeInv OBVIOUS
  <2>1. /\ file \in Database /\ file.ver <= 1
    BY DEF UpgradeInit, Fresh, Unstamped, Database, Tables, Layouts
  <2>2. /\ copies = <<>> /\ log = <<>> /\ opening = Closed /\ served = FALSE /\ was = file
        /\ risen = FALSE
    BY DEF UpgradeInit
  <2>3. Closed.pc = "closed" BY DEF Closed
  <2>4. copies \in Seq(Backup) /\ log \in Seq(Entry) BY <2>2
  <2>7. UpgradeTypes BY <2>1, <2>2, <2>4 DEF UpgradeTypes
  <2>5. Before /\ CopyOfStart /\ NothingToCopy /\ LogNames /\ Recoverable /\ Converged
    BY <2>2, <2>3 DEF Before, CopyOfStart, NothingToCopy, LogNames, Recoverable, Converged
  <2>6. VersionIsTrue BY <2>1 DEF VersionIsTrue, Database
  <2> QED BY <2>5, <2>6, <2>7 DEF UpgradeInv
<1>2. UpgradeInv /\ [UpgradeNext]_upgradeVars => UpgradeInv'
  BY UpgradeStep
<1>3. UpgradeInv => DatabaseOpens
  <2> SUFFICES ASSUME UpgradeInv PROVE DatabaseOpens OBVIOUS
  <2>1. DOMAIN log = 1 .. Len(log) BY DEF UpgradeInv, UpgradeTypes
  <2>2. HistoryIsTrue BY <2>1 DEF UpgradeInv, HistoryIsTrue, LogNames, VersionIsTrue
  <2> QED BY <2>2 DEF UpgradeInv, DatabaseOpens
<1> QED BY <1>1, <1>2, <1>3, PTL DEF UpgradeSpec

-----------------------------------------------------------------------------
(* Authority.                                                               *)

Principals == People \cup Bots

Grant ==
  [prin : Principals, issuer : Principals \cup {"floe", "host"}, ops : SUBSET AllOps,
   exp : Nat, src : Nat, perm : Nat, only : BOOLEAN, revoked : BOOLEAN]

SessionRecord ==
  [prin : Principals \cup {"none"}, gids : SUBSET Nat, exp : Nat, pass : Nat,
   person : People \cup {"none"}]

PassRecord ==
  [grant : Nat, by : People, st : {"active", "revoked"}, claimed : BOOLEAN, ses : Nat]

AuthorityTypeOK ==
  /\ now \in Nat /\ grants \in Seq(Grant) /\ sessions \in [1 .. MaxSessions -> SessionRecord]
  /\ authority \in [People -> [st : {"none", "active", "revoked"}, root : Nat]]
  /\ passes \in Seq(PassRecord) /\ defined \in [Bots -> SUBSET Nat]

(* A grant's source and permission are older than it is. *)
Ordered(G) ==
  \A i \in 1 .. Len(G) :
    G[i].src # 0 => G[i].src \in 1 .. (i - 1) /\ G[i].perm \in 1 .. (i - 1)

(* Delegation narrows, and takes both a source and a permission. *)
Narrowed ==
  \A i \in 1 .. Len(grants) :
    /\ grants[i].src # 0 => grants[i].ops \subseteq grants[grants[i].src].ops
    /\ grants[i].src = 0 => grants[i].perm = 0

(* The root of an active authority is nobody's delegate, and no Actor's. *)
RootsOK ==
  \A p \in People : authority[p].st = "active" =>
    /\ authority[p].root \in 1 .. Len(grants)
    /\ grants[authority[p].root].src = 0 /\ grants[authority[p].root].issuer # "floe"

(* What a session pins, a definition names and an approval waits on exists. *)
NamesGrants ==
  /\ \A s \in 1 .. MaxSessions : sessions[s].gids \subseteq 1 .. Len(grants)
  /\ \A b \in Bots : \A g \in defined[b] : g \in 1 .. Len(grants) /\ grants[g].prin = b
  /\ \A w \in waiting : w \subseteq 1 .. Len(grants)

(* A pass has a grant of its own, delegated by a person from a root. *)
PassGrant(G, g) ==
  /\ g \in 1 .. Len(G) /\ G[g].src # 0 /\ G[g].perm = G[g].src
  /\ G[g].issuer # "floe" /\ G[g].prin \in People
  /\ G[G[g].src].src = 0 /\ G[G[g].src].issuer # "floe"

PassesOK ==
  \A i \in 1 .. Len(passes) :
    /\ PassGrant(grants, passes[i].grant)
    /\ \A j \in 1 .. Len(passes) : passes[i].grant = passes[j].grant => i = j

(* Nothing rests on the grant of a pass that no browser has claimed. *)
UnclaimedUnused ==
  \A i \in 1 .. Len(passes) : ~passes[i].claimed =>
    LET g == passes[i].grant
    IN  /\ \A s \in 1 .. MaxSessions : g \notin sessions[s].gids
        /\ \A j \in 1 .. Len(grants) : grants[j].src # g /\ grants[j].perm # g
        /\ \A w \in waiting : g \notin w

(* What is delegated from S or under its authority, in the grants G. *)
Dep(G, S) ==
  LET lost[i \in DOMAIN G] ==
        i \in S \/ (G[i].src # 0 /\ (lost[G[i].src] \/ lost[G[i].perm]))
  IN  {i \in DOMAIN G : lost[i]}

(* Nothing that g rests on, in the grants G, is revoked. *)
Clean(G, g) == \A a \in 1 .. Len(G) : g \in Dep(G, {a}) => ~G[a].revoked

(* A pass in force rests on nothing that is revoked, and one that is over has *)
(* no live session; nor does a person without the authority it was minted on. *)
PassesHeld ==
  \A i \in 1 .. Len(passes) :
    /\ passes[i].st = "active" => Clean(grants, passes[i].grant)
    /\ passes[i].st = "revoked" =>
         /\ grants[passes[i].grant].revoked
         /\ \A s \in 1 .. MaxSessions : sessions[s].exp > now => sessions[s].pass # i

PeopleHeld ==
  \A s \in 1 .. MaxSessions : sessions[s].exp > now /\ sessions[s].person # "none" =>
    /\ authority[sessions[s].person].st = "active"
    /\ sessions[s].gids = {authority[sessions[s].person].root}

WaitingHeld == \A w \in waiting : \A g \in w : Clean(grants, g)

AuthorityInv ==
  /\ AuthorityTypeOK /\ Ordered(grants) /\ Narrowed /\ RootsOK /\ NamesGrants
  /\ PassesOK /\ UnclaimedUnused /\ PassesHeld /\ PeopleHeld /\ WaitingHeld
  /\ pairing = "approved" => Len(passes) # 0

LEMMA Least ==
  ASSUME NEW T \in SUBSET Nat, T # {}
  PROVE  \E x \in T : \A y \in T : ~(y < x)
<1> DEFINE R == {ss \in Nat \X Nat : ss[1] < ss[2]}
<1>1. IsWellFoundedOn(R, Nat) BY NatLessThanWellFounded DEF OpToRel
<1>2. \A x, y \in Nat : y < x => <<y, x>> \in R OBVIOUS
<1> HIDE DEF R
<1>3. PICK x \in T : \A y \in T : ~ (<<y, x>> \in R) BY <1>1, WFMin
<1>4. \A y \in T : ~(y < x) BY <1>3, <1>2
<1>5. QED BY <1>4

(* Every grant can be given a value that depends on those of the grants it   *)
(* was delegated from.                                                       *)
Follows(f, k, V, src, perm, B, H) ==
  /\ f \in [1 .. k -> V]
  /\ \A i \in 1 .. k : f[i] = IF src[i] = 0 THEN B[i] ELSE H[i][f[src[i]]][f[perm[i]]]

LEMMA Unfolds ==
  ASSUME NEW n \in Nat, NEW V, NEW src, NEW perm,
         \A i \in 1 .. n : src[i] # 0 => src[i] \in 1 .. (i - 1) /\ perm[i] \in 1 .. (i - 1),
         NEW B \in [1 .. n -> V], NEW H \in [1 .. n -> [V -> [V -> V]]]
  PROVE  \E f : Follows(f, n, V, src, perm, B, H)
<1> DEFINE T == {k \in Nat : k <= n /\ ~ \E f : Follows(f, k, V, src, perm, B, H)}
<1> SUFFICES ASSUME ~ \E f : Follows(f, n, V, src, perm, B, H) PROVE FALSE OBVIOUS
<1>0. T # {}
  <2>1. n \in T OBVIOUS
  <2> QED BY <2>1
<1>1. PICK x \in T : \A y \in T : ~(y < x) BY <1>0, Least
<1>2. x # 0
  <2>1. Follows([i \in 1 .. 0 |-> 0], 0, V, src, perm, B, H) BY DEF Follows
  <2> QED BY <1>1, <2>1
<1> DEFINE k == x - 1
<1>3. k \in Nat /\ k < x /\ k <= n /\ x = k + 1 BY <1>1, <1>2
<1>4. PICK f : Follows(f, k, V, src, perm, B, H) BY <1>1, <1>3
<1> DEFINE v == IF src[x] = 0 THEN B[x] ELSE H[x][f[src[x]]][f[perm[x]]]
           g == [i \in 1 .. x |-> IF i = x THEN v ELSE f[i]]
<1>5. v \in V
  <2>1. x \in 1 .. n BY <1>1, <1>2
  <2>2. src[x] # 0 => f[src[x]] \in V /\ f[perm[x]] \in V BY <1>3, <1>4, <2>1 DEF Follows
  <2> QED BY <2>1, <2>2
<1>6. g \in [1 .. x -> V]
  <2>1. f \in [1 .. k -> V] BY <1>4 DEF Follows
  <2>2. \A i \in 1 .. x : i # x => i \in 1 .. k BY <1>3
  <2>3. \A i \in 1 .. x : i # x => f[i] \in V BY <2>1, <2>2
  <2> HIDE DEF v, k
  <2> QED BY <1>5, <2>3
<1>7. ASSUME NEW i \in 1 .. x
      PROVE  g[i] = IF src[i] = 0 THEN B[i] ELSE H[i][g[src[i]]][g[perm[i]]]
  <2>1. src[i] # 0 => /\ src[i] \in 1 .. k /\ perm[i] \in 1 .. k
                      /\ g[src[i]] = f[src[i]] /\ g[perm[i]] = f[perm[i]]
    BY <1>1, <1>3
  <2>2. CASE i = x
    <3>1. g[i] = v /\ (src[i] = 0 => v = B[i]) /\ (src[i] # 0 => v = H[i][f[src[i]]][f[perm[i]]])
      BY <2>2
    <3> HIDE DEF g, v
    <3> QED BY <2>1, <3>1
  <2>3. CASE i # x
    <3>1. i \in 1 .. k /\ g[i] = f[i] BY <1>3, <2>3
    <3> QED BY <1>4, <2>1, <3>1 DEF Follows
  <2> QED BY <2>2, <2>3
<1> HIDE DEF g, v, k
<1>8. Follows(g, x, V, src, perm, B, H) BY <1>6, <1>7 DEF Follows
<1> QED BY <1>1, <1>8

LEMMA DepIs == \A S : DependentGrantIds(S) = Dep(grants, S)
  BY DEF DependentGrantIds, Dep, GrantIds

LEMMA DepUnfolds ==
  ASSUME NEW G \in Seq(Grant), Ordered(G), NEW S
  PROVE  /\ Dep(G, S) \subseteq 1 .. Len(G)
         /\ \A i \in 1 .. Len(G) :
              i \in Dep(G, S) <=>
                i \in S \/ (G[i].src # 0 /\ (G[i].src \in Dep(G, S) \/ G[i].perm \in Dep(G, S)))
<1> DEFINE n == Len(G)
           lost == CHOOSE f : f = [i \in DOMAIN G |->
                     i \in S \/ (G[i].src # 0 /\ (f[G[i].src] \/ f[G[i].perm]))]
           src == [i \in 1 .. n |-> G[i].src]
           perm == [i \in 1 .. n |-> G[i].perm]
           B == [i \in 1 .. n |-> IF i \in S THEN 1 ELSE 0]
           H == [i \in 1 .. n |-> [x \in {0, 1} |-> [y \in {0, 1} |->
                   IF i \in S \/ x = 1 \/ y = 1 THEN 1 ELSE 0]]]
<1>1. n \in Nat /\ DOMAIN G = 1 .. n BY LenProperties
<1>2. \E h : Follows(h, n, {0, 1}, src, perm, B, H)
  <2>1. B \in [1 .. n -> {0, 1}] OBVIOUS
  <2>2. H \in [1 .. n -> [{0, 1} -> [{0, 1} -> {0, 1}]]] OBVIOUS
  <2>3. \A i \in 1 .. n : src[i] # 0 => src[i] \in 1 .. (i - 1) /\ perm[i] \in 1 .. (i - 1)
    BY DEF Ordered
  <2> HIDE DEF B, H, src, perm, n
  <2> QED BY <1>1, <2>1, <2>2, <2>3, Unfolds
<1>3. PICK h : Follows(h, n, {0, 1}, src, perm, B, H) BY <1>2
<1>4. \A i \in 1 .. n : G[i].src # 0 => G[i].src \in 1 .. n /\ G[i].perm \in 1 .. n
  BY <1>1 DEF Ordered
<1>5. \A i \in 1 .. n : (h[i] = 1) <=>
        (i \in S \/ (G[i].src # 0 /\ ((h[G[i].src] = 1) \/ (h[G[i].perm] = 1))))
  <2> TAKE i \in 1 .. n
  <2>1. h[i] = IF G[i].src = 0 THEN B[i] ELSE H[i][h[G[i].src]][h[G[i].perm]] BY <1>3 DEF Follows
  <2>2. CASE G[i].src = 0 BY <2>1, <2>2
  <2>3. CASE G[i].src # 0
    <3>1. h[G[i].src] \in {0, 1} /\ h[G[i].perm] \in {0, 1} BY <1>3, <1>4, <2>3 DEF Follows
    <3>2. h[i] = IF i \in S \/ h[G[i].src] = 1 \/ h[G[i].perm] = 1 THEN 1 ELSE 0 BY <2>1, <2>3, <3>1
    <3> QED BY <2>3, <3>2
  <2> QED BY <2>2, <2>3
<1> DEFINE f0 == [i \in 1 .. n |-> h[i] = 1]
<1>6. f0 = [i \in DOMAIN G |-> i \in S \/ (G[i].src # 0 /\ (f0[G[i].src] \/ f0[G[i].perm]))]
  <2>1. \A i \in 1 .. n : f0[i] = (i \in S \/ (G[i].src # 0 /\ (f0[G[i].src] \/ f0[G[i].perm])))
    <3> TAKE i \in 1 .. n
    <3>1. CASE G[i].src = 0 BY <1>5, <3>1
    <3>2. CASE G[i].src # 0
      <4>1. f0[G[i].src] = (h[G[i].src] = 1) /\ f0[G[i].perm] = (h[G[i].perm] = 1) BY <1>4, <3>2
      <4> QED BY <1>5, <3>2, <4>1
    <3> QED BY <3>1, <3>2
  <2> QED BY <1>1, <2>1
<1> HIDE DEF f0
<1>7. lost = [i \in DOMAIN G |-> i \in S \/ (G[i].src # 0 /\ (lost[G[i].src] \/ lost[G[i].perm]))]
  BY <1>6
<1>8. Dep(G, S) = {i \in DOMAIN G : lost[i]} BY DEF Dep
<1> HIDE DEF lost
<1>9. \A i \in 1 .. n : lost[i] = (i \in S \/ (G[i].src # 0 /\ (lost[G[i].src] \/ lost[G[i].perm])))
  BY <1>1, <1>7
<1>10. ASSUME NEW i \in 1 .. n
       PROVE  i \in Dep(G, S) <=>
                i \in S \/ (G[i].src # 0 /\ (G[i].src \in Dep(G, S) \/ G[i].perm \in Dep(G, S)))
  BY <1>1, <1>4, <1>8, <1>9, ZenonT(60)
<1> QED BY <1>1, <1>8, <1>10

(* Two lists of grants of which the second goes on from the first: what was  *)
(* delegated from what stays, and nothing but M is revoked.                  *)
GoesOn(G, G2, M) ==
  /\ G \in Seq(Grant) /\ G2 \in Seq(Grant) /\ Ordered(G) /\ Ordered(G2) /\ Len(G) <= Len(G2)
  /\ \A i \in 1 .. Len(G) :
       /\ G2[i].src = G[i].src /\ G2[i].perm = G[i].perm /\ G2[i].ops = G[i].ops
       /\ G2[i].issuer = G[i].issuer /\ G2[i].prin = G[i].prin /\ G2[i].exp = G[i].exp
       /\ G[i].revoked => G2[i].revoked
       /\ i \in M => G2[i].revoked
       /\ G2[i].revoked => G[i].revoked \/ i \in M

LEMMA DepStays ==
  ASSUME NEW G, NEW G2, NEW M, GoesOn(G, G2, M), NEW S
  PROVE  \A i \in 1 .. Len(G) : i \in Dep(G2, S) <=> i \in Dep(G, S)
<1> DEFINE T == {i \in 1 .. Len(G) : ~(i \in Dep(G2, S) <=> i \in Dep(G, S))}
<1> SUFFICES ASSUME T # {} PROVE FALSE OBVIOUS
<1>1. Len(G) \in Nat /\ Len(G2) \in Nat /\ T \subseteq Nat BY LenProperties DEF GoesOn
<1>2. PICK i \in T : \A y \in T : ~(y < i) BY <1>1, Least
<1>3. \A y \in 1 .. (i - 1) : y \in Dep(G2, S) <=> y \in Dep(G, S) BY <1>1, <1>2
<1>4. G[i].src # 0 => G[i].src \in 1 .. (i - 1) /\ G[i].perm \in 1 .. (i - 1)
  BY <1>2 DEF GoesOn, Ordered
<1>5. i \in Dep(G, S) <=>
        i \in S \/ (G[i].src # 0 /\ (G[i].src \in Dep(G, S) \/ G[i].perm \in Dep(G, S)))
  BY <1>2, DepUnfolds DEF GoesOn
<1>6. i \in Dep(G2, S) <=>
        i \in S \/ (G2[i].src # 0 /\ (G2[i].src \in Dep(G2, S) \/ G2[i].perm \in Dep(G2, S)))
  <2>1. i \in 1 .. Len(G2) BY <1>1, <1>2 DEF GoesOn
  <2> QED BY <2>1, DepUnfolds DEF GoesOn
<1>7. G2[i].src = G[i].src /\ G2[i].perm = G[i].perm BY <1>2 DEF GoesOn
<1> QED BY <1>2, <1>3, <1>4, <1>5, <1>6, <1>7

(* What depends on a set depends on a member of it, and the other way. *)
LEMMA DepOfSet ==
  ASSUME NEW G \in Seq(Grant), Ordered(G), NEW S
  PROVE  \A i \in 1 .. Len(G) : i \in Dep(G, S) <=> \E a \in S : i \in Dep(G, {a})
<1> DEFINE T == {i \in 1 .. Len(G) : ~(i \in Dep(G, S) <=> \E a \in S : i \in Dep(G, {a}))}
<1> SUFFICES ASSUME T # {} PROVE FALSE OBVIOUS
<1>1. Len(G) \in Nat /\ T \subseteq Nat BY LenProperties
<1>2. PICK i \in T : \A y \in T : ~(y < i) BY <1>1, Least
<1>3. \A y \in 1 .. (i - 1) : y \in Dep(G, S) <=> \E a \in S : y \in Dep(G, {a})
  <2> TAKE y \in 1 .. (i - 1)
  <2>1. i \in 1 .. Len(G) /\ y \in 1 .. Len(G) /\ y < i BY <1>1, <1>2
  <2>2. y \notin T BY <1>2, <2>1
  <2> QED BY <2>1, <2>2, Zenon
<1>4. G[i].src # 0 => G[i].src \in 1 .. (i - 1) /\ G[i].perm \in 1 .. (i - 1) BY <1>2 DEF Ordered
<1>5. i \in Dep(G, S) <=>
        i \in S \/ (G[i].src # 0 /\ (G[i].src \in Dep(G, S) \/ G[i].perm \in Dep(G, S)))
  BY <1>2, DepUnfolds
<1>6. \A a : i \in Dep(G, {a}) <=>
        i = a \/ (G[i].src # 0 /\ (G[i].src \in Dep(G, {a}) \/ G[i].perm \in Dep(G, {a})))
  <2> TAKE a
  <2>1. i \in Dep(G, {a}) <=>
        i \in {a} \/ (G[i].src # 0 /\ (G[i].src \in Dep(G, {a}) \/ G[i].perm \in Dep(G, {a})))
    BY <1>2, DepUnfolds
  <2> QED BY <2>1
<1>7. i \in Dep(G, S) <=> \E a \in S : i \in Dep(G, {a})
  <2>1. CASE i \in S BY <1>5, <1>6, <2>1
  <2>2. CASE G[i].src = 0 BY <1>5, <1>6, <2>2
  <2>3. CASE i \notin S /\ G[i].src # 0 BY <1>3, <1>4, <1>5, <1>6, <2>3
  <2> QED BY <2>1, <2>2, <2>3
<1> QED BY <1>2, <1>7

(* What depends on a dependent depends on what that depends on. *)
LEMMA DepCloses ==
  ASSUME NEW G \in Seq(Grant), Ordered(G), NEW S, NEW a \in Dep(G, S)
  PROVE  Dep(G, {a}) \subseteq Dep(G, S)
<1> DEFINE T == {i \in Dep(G, {a}) : i \notin Dep(G, S)}
<1> SUFFICES ASSUME T # {} PROVE FALSE OBVIOUS
<1>1. Len(G) \in Nat /\ T \subseteq 1 .. Len(G) /\ T \subseteq Nat BY LenProperties, DepUnfolds
<1>2. PICK i \in T : \A y \in T : ~(y < i) BY <1>1, Least
<1>3. i \in 1 .. Len(G) /\ i \in Dep(G, {a}) /\ i \notin Dep(G, S) BY <1>1, <1>2
<1>4. i \in {a} \/ (G[i].src # 0 /\ (G[i].src \in Dep(G, {a}) \/ G[i].perm \in Dep(G, {a})))
  BY <1>3, DepUnfolds
<1>5. i # a BY <1>3
<1>6. PICK j \in {G[i].src, G[i].perm} : G[i].src # 0 /\ j \in Dep(G, {a}) BY <1>4, <1>5
<1>7. j < i BY <1>1, <1>3, <1>6 DEF Ordered
<1>8. j \in Dep(G, S) BY <1>2, <1>6, <1>7
<1> QED BY <1>3, <1>6, <1>8, DepUnfolds

(* A grant depends on itself, and on nothing younger. *)
LEMMA DepIsOlder ==
  ASSUME NEW G \in Seq(Grant), Ordered(G), NEW a \in 1 .. Len(G)
  PROVE  a \in Dep(G, {a}) /\ \A i \in Dep(G, {a}) : a <= i
<1>1. a \in Dep(G, {a}) BY DepUnfolds
<1> DEFINE T == {i \in Dep(G, {a}) : ~(a <= i)}
<1> SUFFICES ASSUME T # {} PROVE FALSE BY <1>1
<1>2. Len(G) \in Nat /\ T \subseteq 1 .. Len(G) /\ T \subseteq Nat BY LenProperties, DepUnfolds
<1>3. PICK i \in T : \A y \in T : ~(y < i) BY <1>2, Least
<1>4. i \in 1 .. Len(G) /\ i \in Dep(G, {a}) /\ i \in Nat /\ a \in Nat /\ ~(a <= i)
  <2>1. i \in Dep(G, {a}) /\ ~(a <= i) BY <1>3
  <2>2. i \in 1 .. Len(G) /\ i \in Nat BY <1>2, <1>3
  <2>3. a \in Nat BY <1>2
  <2> QED BY <2>1, <2>2, <2>3
<1>5. i \in {a} \/ (G[i].src # 0 /\ (G[i].src \in Dep(G, {a}) \/ G[i].perm \in Dep(G, {a})))
  BY <1>4, DepUnfolds
<1>6. PICK j \in {G[i].src, G[i].perm} : G[i].src # 0 /\ j \in Dep(G, {a}) BY <1>4, <1>5
<1>7. j < i /\ j \in Nat BY <1>2, <1>4, <1>6 DEF Ordered
<1>8. ~(a <= j) BY <1>4, <1>7
<1>9. j \in T BY <1>6, <1>8
<1> QED BY <1>3, <1>7, <1>9

LEMMA CleanKept ==
  ASSUME NEW G, NEW G2, NEW M, GoesOn(G, G2, M), NEW g \in 1 .. Len(G),
         Clean(G, g), g \notin Dep(G, M)
  PROVE  Clean(G2, g)
<1> SUFFICES ASSUME NEW a \in 1 .. Len(G2), g \in Dep(G2, {a}) PROVE ~G2[a].revoked BY DEF Clean
<1>1. Len(G) \in Nat /\ Len(G2) \in Nat /\ Len(G) <= Len(G2) BY LenProperties DEF GoesOn
<1>2. a <= g BY DepIsOlder DEF GoesOn
<1>3. a \in 1 .. Len(G) BY <1>1, <1>2
<1>4. g \in Dep(G, {a}) BY DepStays
<1>5. ~G[a].revoked BY <1>3, <1>4 DEF Clean
<1>6. a \notin M BY <1>4, DepOfSet DEF GoesOn
<1> QED BY <1>3, <1>5, <1>6 DEF GoesOn

(* A grant is active when what it was delegated from is. *)
LEMMA ActiveUnfolds ==
  ASSUME AuthorityTypeOK, Ordered(grants), NEW g \in 1 .. Len(grants)
  PROVE  DelegationIsActive(g) <=>
           (grants[g].src # 0 =>
              \A p \in {grants[g].src, grants[g].perm} :
                 ReferenceHolds(p, grants[g].issuer) /\ DelegationIsActive(p))
<1> DEFINE G == grants
           n == Len(G)
           Hold(i) == ReferenceHolds(G[i].src, G[i].issuer) /\ ReferenceHolds(G[i].perm, G[i].issuer)
           active == CHOOSE f : f = [i \in GrantIds |->
                       G[i].src # 0 => \A p \in {G[i].src, G[i].perm} :
                                          ReferenceHolds(p, G[i].issuer) /\ f[p]]
           src == [i \in 1 .. n |-> G[i].src]
           perm == [i \in 1 .. n |-> G[i].perm]
           B == [i \in 1 .. n |-> 1]
           H == [i \in 1 .. n |-> [x \in {0, 1} |-> [y \in {0, 1} |->
                   IF Hold(i) /\ x = 1 /\ y = 1 THEN 1 ELSE 0]]]
<1> HIDE DEF Hold
<1>1. n \in Nat /\ GrantIds = 1 .. n BY LenProperties DEF GrantIds, AuthorityTypeOK
<1>2. \E h : Follows(h, n, {0, 1}, src, perm, B, H)
  <2>1. B \in [1 .. n -> {0, 1}] OBVIOUS
  <2>2. H \in [1 .. n -> [{0, 1} -> [{0, 1} -> {0, 1}]]] OBVIOUS
  <2>3. \A i \in 1 .. n : src[i] # 0 => src[i] \in 1 .. (i - 1) /\ perm[i] \in 1 .. (i - 1)
    BY DEF Ordered
  <2> HIDE DEF B, H, src, perm, n
  <2> QED BY <1>1, <2>1, <2>2, <2>3, Unfolds
<1>3. PICK h : Follows(h, n, {0, 1}, src, perm, B, H) BY <1>2
<1>4. \A i \in 1 .. n : G[i].src # 0 => G[i].src \in 1 .. n /\ G[i].perm \in 1 .. n
  BY <1>1 DEF Ordered
<1>5. \A i \in 1 .. n : (h[i] = 1) <=>
        (G[i].src # 0 => (Hold(i) /\ (h[G[i].src] = 1) /\ (h[G[i].perm] = 1)))
  <2> TAKE i \in 1 .. n
  <2>1. h[i] = IF G[i].src = 0 THEN B[i] ELSE H[i][h[G[i].src]][h[G[i].perm]] BY <1>3 DEF Follows
  <2>2. CASE G[i].src = 0 BY <2>1, <2>2
  <2>3. CASE G[i].src # 0
    <3>1. h[G[i].src] \in {0, 1} /\ h[G[i].perm] \in {0, 1} BY <1>3, <1>4, <2>3 DEF Follows
    <3>2. h[i] = IF Hold(i) /\ h[G[i].src] = 1 /\ h[G[i].perm] = 1 THEN 1 ELSE 0 BY <2>1, <2>3, <3>1
    <3> QED BY <2>3, <3>2
  <2> QED BY <2>2, <2>3
<1> DEFINE f0 == [i \in 1 .. n |-> h[i] = 1]
<1>6. f0 = [i \in GrantIds |-> G[i].src # 0 => \A p \in {G[i].src, G[i].perm} :
                                                 ReferenceHolds(p, G[i].issuer) /\ f0[p]]
  <2>1. ASSUME NEW i \in 1 .. n
        PROVE  f0[i] = (G[i].src # 0 => \A p \in {G[i].src, G[i].perm} :
                                           ReferenceHolds(p, G[i].issuer) /\ f0[p])
    <3>1. CASE G[i].src = 0 BY <1>5, <3>1
    <3>2. CASE G[i].src # 0
      <4>1. f0[G[i].src] = (h[G[i].src] = 1) /\ f0[G[i].perm] = (h[G[i].perm] = 1) BY <1>4, <3>2
      <4>2. f0[i] = (Hold(i) /\ f0[G[i].src] /\ f0[G[i].perm]) BY <1>5, <3>2, <4>1
      <4> HIDE DEF f0
      <4>3. (\A p \in {G[i].src, G[i].perm} : ReferenceHolds(p, G[i].issuer) /\ f0[p])
              = (Hold(i) /\ f0[G[i].src] /\ f0[G[i].perm]) BY Zenon DEF Hold
      <4> QED BY <3>2, <4>2, <4>3
    <3> QED BY <3>1, <3>2
  <2> QED BY <1>1, <2>1
<1> HIDE DEF f0
<1>7. active = [i \in GrantIds |-> G[i].src # 0 => \A p \in {G[i].src, G[i].perm} :
                                                     ReferenceHolds(p, G[i].issuer) /\ active[p]]
  BY <1>6
<1>8. \A i : DelegationIsActive(i) = active[i] BY DEF DelegationIsActive
<1> HIDE DEF active
<1>9. active[g] = (G[g].src # 0 => \A p \in {G[g].src, G[g].perm} :
                                      ReferenceHolds(p, G[g].issuer) /\ active[p])
  BY <1>1, <1>7
<1> HIDE DEF n
<1> QED BY <1>8, <1>9, Zenon

(* Whatever an active grant rests on is neither revoked nor expired. *)
LEMMA ActiveClean ==
  ASSUME AuthorityTypeOK, Ordered(grants), NEW g \in 1 .. Len(grants), NEW q,
         ReferenceHolds(g, q), DelegationIsActive(g),
         NEW a \in 1 .. Len(grants), g \in Dep(grants, {a})
  PROVE  ~grants[a].revoked /\ grants[a].exp > now
<1> DEFINE T == {i \in 1 .. Len(grants) : /\ i \in Dep(grants, {a}) /\ DelegationIsActive(i)
                                          /\ ~grants[i].revoked /\ grants[i].exp > now}
<1>1. SUFFICES ASSUME ~(~grants[a].revoked /\ grants[a].exp > now) PROVE FALSE OBVIOUS
<1>2. grants \in Seq(Grant) /\ Len(grants) \in Nat /\ T \subseteq Nat BY LenProperties DEF AuthorityTypeOK
<1>3. g \in T BY DEF ReferenceHolds
<1>4. PICK i \in T : \A y \in T : ~(y < i) BY <1>2, <1>3, Least
<1>5. i # a BY <1>1, <1>4
<1>6. i \in {a} \/ (grants[i].src # 0 /\ (grants[i].src \in Dep(grants, {a}) \/ grants[i].perm \in Dep(grants, {a})))
  BY <1>2, <1>4, DepUnfolds
<1>7. PICK j \in {grants[i].src, grants[i].perm} : grants[i].src # 0 /\ j \in Dep(grants, {a}) BY <1>5, <1>6
<1>8. j < i /\ j \in 1 .. Len(grants) BY <1>2, <1>4, <1>7 DEF Ordered
<1>9. ReferenceHolds(j, grants[i].issuer) /\ DelegationIsActive(j) BY <1>4, <1>7, ActiveUnfolds
<1>10. j \in T BY <1>7, <1>8, <1>9 DEF ReferenceHolds
<1> QED BY <1>4, <1>8, <1>10

(* The least of three numbers exists. *)
LEMMA LeastOf ==
  ASSUME NEW S, S \in SUBSET Nat, S # {}
  PROVE  (CHOOSE e \in S : \A f \in S : e <= f) \in Nat
<1>1. PICK x \in S : \A y \in S : ~(y < x) BY Least
<1>2. \A y \in S : x <= y BY <1>1
<1> QED BY <1>1, <1>2

LEMMA ExpiryIsNat ==
  ASSUME AuthorityTypeOK, Ordered(grants), NEW g \in 1 .. Len(grants)
  PROVE  EffectiveExpiry(g) \in Nat
<1> DEFINE G == grants
           n == Len(G)
           Lo(S) == CHOOSE e \in S : \A f \in S : e <= f
           ends == CHOOSE f : f = [i \in GrantIds |->
                     Lo({G[i].exp} \cup (IF G[i].src = 0 THEN {} ELSE {f[G[i].src], f[G[i].perm]}))]
           src == [i \in 1 .. n |-> G[i].src]
           perm == [i \in 1 .. n |-> G[i].perm]
           B == [i \in 1 .. n |-> Lo({G[i].exp} \cup {})]
           H == [i \in 1 .. n |-> [x \in Nat |-> [y \in Nat |-> Lo({G[i].exp} \cup {x, y})]]]
<1>0. \A S \in SUBSET Nat : S # {} => Lo(S) \in Nat BY LeastOf
<1>8. EffectiveExpiry(g) = ends[g] BY DEF EffectiveExpiry
<1> HIDE DEF Lo
<1>1. n \in Nat /\ GrantIds = 1 .. n /\ \A i \in 1 .. n : G[i].exp \in Nat
  <2>1. grants \in Seq(Grant) BY DEF AuthorityTypeOK
  <2>2. n \in Nat /\ GrantIds = 1 .. n BY <2>1, LenProperties DEF GrantIds
  <2>3. \A i \in 1 .. n : G[i] \in Grant BY <2>1, ElementOfSeq
  <2> QED BY <2>2, <2>3 DEF Grant
<1>2. \E h : Follows(h, n, Nat, src, perm, B, H)
  <2>1. B \in [1 .. n -> Nat] BY <1>0, <1>1
  <2>2. H \in [1 .. n -> [Nat -> [Nat -> Nat]]] BY <1>0, <1>1
  <2>3. \A i \in 1 .. n : src[i] # 0 => src[i] \in 1 .. (i - 1) /\ perm[i] \in 1 .. (i - 1)
    BY DEF Ordered
  <2> HIDE DEF B, H, src, perm, n
  <2> QED BY <1>1, <2>1, <2>2, <2>3, Unfolds
<1>3. PICK h : Follows(h, n, Nat, src, perm, B, H) BY <1>2
<1>4. \A i \in 1 .. n : G[i].src # 0 => G[i].src \in 1 .. n /\ G[i].perm \in 1 .. n
  BY <1>1 DEF Ordered
<1>5. h = [i \in GrantIds |->
             Lo({G[i].exp} \cup (IF G[i].src = 0 THEN {} ELSE {h[G[i].src], h[G[i].perm]}))]
  <2>1. ASSUME NEW i \in 1 .. n
        PROVE  h[i] = Lo({G[i].exp} \cup (IF G[i].src = 0 THEN {} ELSE {h[G[i].src], h[G[i].perm]}))
    <3>1. h[i] = IF G[i].src = 0 THEN B[i] ELSE H[i][h[G[i].src]][h[G[i].perm]] BY <1>3 DEF Follows
    <3>2. CASE G[i].src = 0 BY <3>1, <3>2
    <3>3. CASE G[i].src # 0
      <4>1. h[G[i].src] \in Nat /\ h[G[i].perm] \in Nat BY <1>3, <1>4, <3>3 DEF Follows
      <4>2. H[i][h[G[i].src]][h[G[i].perm]] = Lo({G[i].exp} \cup {h[G[i].src], h[G[i].perm]}) BY <4>1
      <4> QED BY <3>1, <3>3, <4>2
    <3> QED BY <3>2, <3>3
  <2>2. h \in [1 .. n -> Nat] BY <1>3 DEF Follows
  <2> HIDE DEF H, B
  <2> QED BY <1>1, <2>1, <2>2
<1>6. ends = [i \in GrantIds |->
             Lo({G[i].exp} \cup (IF G[i].src = 0 THEN {} ELSE {ends[G[i].src], ends[G[i].perm]}))]
  BY <1>5
<1> HIDE DEF ends
<1>7. ASSUME NEW T, T = {i \in 1 .. n : ends[i] \notin Nat}, T # {} PROVE FALSE
  <2>0. T \subseteq Nat BY <1>7
  <2>1. PICK x \in T : \A y \in T : ~(y < x) BY <1>7, <2>0, Least
  <2>2. x \in 1 .. n BY <1>7
  <2>3. G[x].src # 0 => G[x].src \in 1 .. (x - 1) /\ G[x].perm \in 1 .. (x - 1) BY <2>2 DEF Ordered
  <2>4. G[x].src # 0 => ends[G[x].src] \in Nat /\ ends[G[x].perm] \in Nat
    BY <1>1, <1>4, <1>7, <2>1, <2>2, <2>3
  <2>5. ends[x] = Lo({G[x].exp} \cup (IF G[x].src = 0 THEN {} ELSE {ends[G[x].src], ends[G[x].perm]}))
    BY <1>1, <1>6, <2>2
  <2>6. ends[x] \in Nat BY <1>0, <1>1, <2>2, <2>4, <2>5
  <2> QED BY <1>7, <2>1, <2>6
<1> QED BY <1>7, <1>8

-----------------------------------------------------------------------------
(* What a step does to the grants.                                           *)

LEMMA MarkGoesOn ==
  ASSUME NEW G \in Seq(Grant), Ordered(G), NEW S
  PROVE  GoesOn(G, Mark(G, S), S) /\ Len(Mark(G, S)) = Len(G)
<1>1. Len(G) \in Nat /\ DOMAIN G = 1 .. Len(G) /\ \A i \in 1 .. Len(G) : G[i] \in Grant
  BY LenProperties, ElementOfSeq
<1>2. \A i \in 1 .. Len(G) : [G[i] EXCEPT !.revoked = TRUE] \in Grant BY <1>1 DEF Grant
<1>3. Mark(G, S) \in [1 .. Len(G) -> Grant] BY <1>1, <1>2 DEF Mark
<1>4. Mark(G, S) \in Seq(Grant) /\ Len(Mark(G, S)) = Len(G) BY <1>1, <1>3, SameLength
<1>5. ASSUME NEW i \in 1 .. Len(G)
      PROVE  LET r == Mark(G, S)[i]
             IN  /\ r.src = G[i].src /\ r.perm = G[i].perm /\ r.ops = G[i].ops
                 /\ r.issuer = G[i].issuer /\ r.prin = G[i].prin /\ r.exp = G[i].exp
                 /\ G[i].revoked => r.revoked
                 /\ i \in S => r.revoked
                 /\ r.revoked => G[i].revoked \/ i \in S
  <2>1. Mark(G, S)[i] = IF i \in S THEN [G[i] EXCEPT !.revoked = TRUE] ELSE G[i] BY <1>1 DEF Mark
  <2>2. G[i] \in Grant BY <1>1
  <2> QED BY <2>1, <2>2 DEF Grant
<1>6. Ordered(Mark(G, S)) BY <1>4, <1>5 DEF Ordered
<1> QED BY <1>4, <1>5, <1>6, <1>1 DEF GoesOn

LEMMA AppendGoesOn ==
  ASSUME NEW G \in Seq(Grant), Ordered(G), NEW r \in Grant,
         r.src # 0 => r.src \in 1 .. Len(G) /\ r.perm \in 1 .. Len(G)
  PROVE  /\ GoesOn(G, Append(G, r), {}) /\ Len(Append(G, r)) = Len(G) + 1
         /\ Append(G, r)[Len(G) + 1] = r
<1> DEFINE H == Append(G, r)
<1>1. /\ H \in Seq(Grant) /\ Len(H) = Len(G) + 1 /\ Len(G) \in Nat
      /\ \A i \in 1 .. Len(G) : H[i] = G[i]
      /\ H[Len(G) + 1] = r
  BY AppendProperties, LenProperties
<1> HIDE DEF H
<1>2. Ordered(H)
  <2> SUFFICES ASSUME NEW i \in 1 .. Len(H), H[i].src # 0
               PROVE  H[i].src \in 1 .. (i - 1) /\ H[i].perm \in 1 .. (i - 1)
    BY DEF Ordered
  <2>1. CASE i \in 1 .. Len(G) BY <1>1, <2>1 DEF Ordered
  <2>2. CASE i = Len(G) + 1 BY <1>1, <2>2
  <2> QED BY <1>1, <2>1, <2>2
<1>3. GoesOn(G, H, {}) BY <1>1, <1>2 DEF GoesOn
<1> QED BY <1>1, <1>3 DEF H

LEMMA GoesOnTwice ==
  ASSUME NEW G1, NEW G2, NEW G3, NEW M, NEW N, GoesOn(G1, G2, M), GoesOn(G2, G3, N)
  PROVE  GoesOn(G1, G3, M \cup N)
<1>1. Len(G1) \in Nat /\ Len(G2) \in Nat /\ Len(G3) \in Nat BY LenProperties DEF GoesOn
<1>2. /\ G1 \in Seq(Grant) /\ G3 \in Seq(Grant) /\ Ordered(G1) /\ Ordered(G3)
      /\ Len(G1) <= Len(G2) /\ Len(G2) <= Len(G3) BY DEF GoesOn
<1>3. \A i \in 1 .. Len(G1) : i \in 1 .. Len(G2) BY <1>1, <1>2
<1>4. ASSUME NEW i \in 1 .. Len(G1)
      PROVE  /\ G3[i].src = G1[i].src /\ G3[i].perm = G1[i].perm /\ G3[i].ops = G1[i].ops
             /\ G3[i].issuer = G1[i].issuer /\ G3[i].prin = G1[i].prin /\ G3[i].exp = G1[i].exp
             /\ G1[i].revoked => G3[i].revoked
             /\ i \in M \cup N => G3[i].revoked
             /\ G3[i].revoked => G1[i].revoked \/ i \in M \cup N
  BY <1>3, Zenon DEF GoesOn
<1>5. Len(G1) <= Len(G3) BY <1>1, <1>2
<1> QED BY <1>2, <1>4, <1>5, Zenon DEF GoesOn

LEMMA GoesNowhere ==
  ASSUME NEW G \in Seq(Grant), Ordered(G)
  PROVE  GoesOn(G, G, {})
  BY LenProperties DEF GoesOn

(* The grant of a pass rests on itself and on a root. *)
LEMMA PassRests ==
  ASSUME AuthorityInv, NEW g, PassGrant(grants, g), NEW S, g \in Dep(grants, S)
  PROVE  g \in S \/ grants[g].src \in S
<1>1. grants \in Seq(Grant) /\ Ordered(grants) /\ Len(grants) \in Nat
  BY LenProperties DEF AuthorityInv, AuthorityTypeOK
<1>2. /\ g \in 1 .. Len(grants) /\ grants[g].src # 0 /\ grants[g].perm = grants[g].src
      /\ grants[grants[g].src].src = 0
  BY DEF PassGrant
<1>3. grants[g].src \in 1 .. Len(grants) BY <1>1, <1>2 DEF Ordered
<1>4. g \in S \/ grants[g].src \in Dep(grants, S) BY <1>1, <1>2, DepUnfolds
<1> QED BY <1>1, <1>2, <1>3, <1>4, DepUnfolds

(* Nothing depends on a grant from which nothing was delegated. *)
LEMMA UnusedAlone ==
  ASSUME NEW G \in Seq(Grant), Ordered(G), NEW m \in 1 .. Len(G),
         \A j \in 1 .. Len(G) : G[j].src # m /\ G[j].perm # m
  PROVE  Dep(G, {m}) = {m}
<1> DEFINE T == {i \in Dep(G, {m}) : i # m}
<1>1. m \in Dep(G, {m}) BY DepIsOlder
<1> SUFFICES ASSUME T # {} PROVE FALSE BY <1>1
<1>2. Len(G) \in Nat /\ T \subseteq 1 .. Len(G) /\ T \subseteq Nat BY LenProperties, DepUnfolds
<1>3. PICK i \in T : \A y \in T : ~(y < i) BY <1>2, Least
<1>4. i \in 1 .. Len(G) /\ i \in Dep(G, {m}) /\ i # m BY <1>2, <1>3
<1>5. i \in {m} \/ (G[i].src # 0 /\ (G[i].src \in Dep(G, {m}) \/ G[i].perm \in Dep(G, {m})))
  BY <1>4, DepUnfolds
<1>6. PICK j \in {G[i].src, G[i].perm} : G[i].src # 0 /\ j \in Dep(G, {m}) BY <1>4, <1>5
<1>7. j < i /\ j # m BY <1>2, <1>4, <1>6 DEF Ordered
<1> QED BY <1>3, <1>6, <1>7

-----------------------------------------------------------------------------
(* What the steps have in common.                                            *)

(* No pass that waits to be claimed has the grant g. *)
Reachable(g) == \A k \in 1 .. Len(passes) : ~passes[k].claimed => g # passes[k].grant

GrantsStep(M) ==
  /\ GoesOn(grants, grants', M)
  /\ \A i \in (Len(grants) + 1) .. Len(grants') :
       /\ grants'[i].src = 0 => grants'[i].perm = 0
       /\ grants'[i].src # 0 =>
            /\ grants'[i].ops \subseteq grants'[grants'[i].src].ops
            /\ Reachable(grants'[i].src) /\ Reachable(grants'[i].perm)

PassesStep ==
  /\ passes' \in Seq(PassRecord) /\ Len(passes') = Len(passes)
  /\ \A i \in 1 .. Len(passes) : /\ passes'[i].grant = passes[i].grant
                                 /\ passes[i].claimed => passes'[i].claimed

(* A pass is added, with the grant that is added for it. *)
PassesGrow ==
  /\ passes' \in Seq(PassRecord) /\ Len(passes') = Len(passes) + 1
  /\ \A i \in 1 .. Len(passes) : passes'[i] = passes[i]
  /\ Len(grants') = Len(grants) + 1 /\ passes'[Len(passes) + 1].grant = Len(grants) + 1
  /\ PassGrant(grants', Len(grants) + 1)

SessionsStep ==
  /\ sessions' \in [1 .. MaxSessions -> SessionRecord]
  /\ \A s \in 1 .. MaxSessions : \A g \in sessions'[s].gids : g \in 1 .. Len(grants) /\ Reachable(g)

WaitingStep == \A w \in waiting' : \A g \in w : g \in 1 .. Len(grants) /\ Reachable(g)

DefinedStep ==
  /\ defined' \in [Bots -> SUBSET Nat]
  /\ \A b \in Bots : \A g \in defined'[b] : g \in 1 .. Len(grants') /\ grants'[g].prin = b

RootsStep ==
  /\ authority' \in [People -> [st : {"none", "active", "revoked"}, root : Nat]]
  /\ \A p \in People : authority'[p].st = "active" =>
       /\ authority'[p].root \in 1 .. Len(grants')
       /\ grants'[authority'[p].root].src = 0 /\ grants'[authority'[p].root].issuer # "floe"

LEMMA SessionsStay ==
  ASSUME AuthorityInv, sessions' \in [1 .. MaxSessions -> SessionRecord],
         \A s \in 1 .. MaxSessions : sessions'[s] = sessions[s] \/ sessions'[s] = NoSession
  PROVE  SessionsStep
<1>1. \A s \in 1 .. MaxSessions : \A g \in sessions[s].gids : g \in 1 .. Len(grants) /\ Reachable(g)
  BY DEF AuthorityInv, NamesGrants, UnclaimedUnused, Reachable
<1>2. NoSession.gids = {} BY DEF NoSession
<1> QED BY <1>1, <1>2 DEF SessionsStep

LEMMA WaitingStays ==
  ASSUME AuthorityInv, waiting' \subseteq waiting
  PROVE  WaitingStep
  BY DEF AuthorityInv, NamesGrants, UnclaimedUnused, WaitingStep, Reachable

LEMMA DefinedStays ==
  ASSUME AuthorityInv, NEW M, GoesOn(grants, grants', M), defined' = defined
  PROVE  DefinedStep
<1>1. Len(grants) \in Nat /\ Len(grants') \in Nat /\ Len(grants) <= Len(grants')
  BY LenProperties DEF GoesOn
<1>2. /\ defined \in [Bots -> SUBSET Nat]
      /\ \A b \in Bots : \A g \in defined[b] : g \in 1 .. Len(grants) /\ grants[g].prin = b
  BY DEF AuthorityInv, AuthorityTypeOK, NamesGrants
<1>3. \A g \in 1 .. Len(grants) : g \in 1 .. Len(grants') /\ grants'[g].prin = grants[g].prin
  BY <1>1 DEF GoesOn
<1> QED BY <1>2, <1>3 DEF DefinedStep

LEMMA RootsStay ==
  ASSUME AuthorityInv, NEW M, GoesOn(grants, grants', M),
         authority' \in [People -> [st : {"none", "active", "revoked"}, root : Nat]],
         \A p \in People : authority'[p].st = "active" => authority'[p] = authority[p]
  PROVE  RootsStep
<1>1. Len(grants) \in Nat /\ Len(grants') \in Nat /\ Len(grants) <= Len(grants')
  BY LenProperties DEF GoesOn
<1> QED BY <1>1 DEF AuthorityInv, RootsOK, GoesOn, RootsStep

LEMMA PassesStay ==
  ASSUME AuthorityInv, passes' = passes
  PROVE  PassesStep
  BY DEF AuthorityInv, AuthorityTypeOK, PassesStep

LEMMA GrantsStay ==
  ASSUME AuthorityInv, grants' = grants
  PROVE  GrantsStep({})
<1>1. grants \in Seq(Grant) /\ Ordered(grants) /\ Len(grants) \in Nat
  BY LenProperties DEF AuthorityInv, AuthorityTypeOK
<1>2. GoesOn(grants, grants', {}) BY <1>1, GoesNowhere
<1> QED BY <1>1, <1>2 DEF GrantsStep

(* The parts of the invariant about what exists and what refers to what. *)
LEMMA ShapeKept ==
  ASSUME AuthorityInv, NEW M, GrantsStep(M), PassesStep \/ PassesGrow, SessionsStep, WaitingStep,
         DefinedStep, RootsStep, now' \in Nat,
         pairing' = pairing \/ pairing' # "approved" \/ PassesGrow
  PROVE  /\ AuthorityTypeOK' /\ Ordered(grants') /\ Narrowed' /\ RootsOK' /\ NamesGrants'
         /\ PassesOK' /\ UnclaimedUnused'
         /\ pairing' = "approved" => Len(passes') # 0
<1>1. Len(grants) \in Nat /\ Len(grants') \in Nat /\ Len(grants) <= Len(grants')
  BY LenProperties DEF GrantsStep, GoesOn
<1>2. /\ \A i \in 1 .. Len(grants) :
           /\ grants'[i].src = grants[i].src /\ grants'[i].perm = grants[i].perm
           /\ grants'[i].ops = grants[i].ops /\ grants'[i].issuer = grants[i].issuer
           /\ grants'[i].prin = grants[i].prin
      /\ Ordered(grants) /\ Ordered(grants')
  BY DEF GrantsStep, GoesOn
<1>3. AuthorityTypeOK'
  BY DEF AuthorityTypeOK, GrantsStep, GoesOn, PassesStep, PassesGrow, SessionsStep, DefinedStep, RootsStep
<1>4. Narrowed'
  <2> SUFFICES ASSUME NEW i \in 1 .. Len(grants')
               PROVE  /\ grants'[i].src # 0 => grants'[i].ops \subseteq grants'[grants'[i].src].ops
                      /\ grants'[i].src = 0 => grants'[i].perm = 0
    BY DEF Narrowed
  <2>1. CASE i \in 1 .. Len(grants)
    <3>1. grants[i].src # 0 => grants[i].src \in 1 .. Len(grants) BY <1>1, <1>2, <2>1 DEF Ordered
    <3>2. /\ grants[i].src # 0 => grants[i].ops \subseteq grants[grants[i].src].ops
          /\ grants[i].src = 0 => grants[i].perm = 0
      BY <2>1 DEF AuthorityInv, Narrowed
    <3> QED BY <1>2, <2>1, <3>1, <3>2
  <2>2. CASE i \in (Len(grants) + 1) .. Len(grants') BY <2>2 DEF GrantsStep
  <2> QED BY <1>1, <2>1, <2>2
<1>5. RootsOK' BY DEF RootsStep, RootsOK
<1>6. NamesGrants'
  <2>1. \A s \in 1 .. MaxSessions : sessions'[s].gids \subseteq 1 .. Len(grants')
    BY <1>1 DEF SessionsStep
  <2>2. \A w \in waiting' : w \subseteq 1 .. Len(grants') BY <1>1 DEF WaitingStep
  <2> QED BY <2>1, <2>2 DEF NamesGrants, DefinedStep
<1>7. PassesOK'
  <2>1. ASSUME NEW g, PassGrant(grants, g) PROVE PassGrant(grants', g)
    <3>1. g \in 1 .. Len(grants) /\ grants[g].src \in 1 .. Len(grants)
      BY <1>1, <1>2, <2>1 DEF PassGrant, Ordered
    <3>2. g \in 1 .. Len(grants') BY <1>1, <3>1
    <3> QED BY <1>2, <2>1, <3>1, <3>2 DEF PassGrant
  <2>2. \A i \in 1 .. Len(passes) :
          /\ PassGrant(grants, passes[i].grant)
          /\ \A j \in 1 .. Len(passes) : passes[i].grant = passes[j].grant => i = j
    BY DEF AuthorityInv, PassesOK
  <2>3. CASE PassesStep
    <3>1. \A i \in 1 .. Len(passes') :
            i \in 1 .. Len(passes) /\ passes'[i].grant = passes[i].grant BY <2>3 DEF PassesStep
    <3> QED BY <2>1, <2>2, <3>1 DEF PassesOK
  <2>4. CASE PassesGrow
    <3> DEFINE n == Len(passes)
    <3>1. /\ n \in Nat /\ Len(passes') = n + 1 /\ passes'[n + 1].grant = Len(grants) + 1
          /\ \A i \in 1 .. n : passes'[i] = passes[i]
          /\ PassGrant(grants', Len(grants) + 1)
      BY <2>4, LenProperties DEF PassesGrow, AuthorityInv, AuthorityTypeOK
    <3> HIDE DEF n
    <3>2. \A i \in 1 .. n : PassGrant(grants, passes[i].grant) /\ PassGrant(grants', passes[i].grant)
      BY <2>1, <2>2 DEF n
    <3>3. \A i \in 1 .. n : passes[i].grant # Len(grants) + 1 BY <1>1, <3>2 DEF PassGrant
    <3>4. \A i \in 1 .. n : \A j \in 1 .. n : passes[i].grant = passes[j].grant => i = j BY <2>2 DEF n
    <3>5. ASSUME NEW i \in 1 .. (n + 1)
          PROVE  /\ PassGrant(grants', passes'[i].grant)
                 /\ \A j \in 1 .. (n + 1) : passes'[i].grant = passes'[j].grant => i = j
      <4>1. CASE i = n + 1 BY <3>1, <3>3, <4>1
      <4>2. CASE i \in 1 .. n BY <3>1, <3>2, <3>3, <3>4, <4>2
      <4> QED BY <3>1, <4>1, <4>2
    <3> QED BY <3>1, <3>5 DEF PassesOK
  <2> QED BY <2>3, <2>4
<1>8. UnclaimedUnused'
  <2> SUFFICES ASSUME NEW i \in 1 .. Len(passes'), ~passes'[i].claimed
               PROVE  /\ \A s \in 1 .. MaxSessions : passes'[i].grant \notin sessions'[s].gids
                      /\ \A j \in 1 .. Len(grants') : /\ grants'[j].src # passes'[i].grant
                                                      /\ grants'[j].perm # passes'[i].grant
                      /\ \A w \in waiting' : passes'[i].grant \notin w
    BY DEF UnclaimedUnused
  <2>1. CASE i \in 1 .. Len(passes)
    <3>0. passes'[i].grant = passes[i].grant /\ ~passes[i].claimed /\ i \in 1 .. Len(passes)
      BY <2>1 DEF PassesStep, PassesGrow
    <3>2. \A g : Reachable(g) => g # passes[i].grant BY <3>0 DEF Reachable
    <3>3. \A j \in 1 .. Len(grants) : grants[j].src # passes[i].grant /\ grants[j].perm # passes[i].grant
      BY <3>0 DEF AuthorityInv, UnclaimedUnused
    <3>4. ASSUME NEW j \in 1 .. Len(grants')
          PROVE  grants'[j].src # passes[i].grant /\ grants'[j].perm # passes[i].grant
      <4>1. CASE j \in 1 .. Len(grants) BY <1>2, <3>3, <4>1
      <4>2. CASE j \in (Len(grants) + 1) .. Len(grants') /\ grants'[j].src # 0
        BY <3>2, <4>2 DEF GrantsStep
      <4>3. CASE j \in (Len(grants) + 1) .. Len(grants') /\ grants'[j].src = 0
        <5>1. passes[i].grant # 0 BY <3>0, <1>1 DEF AuthorityInv, PassesOK, PassGrant
        <5> QED BY <4>3, <5>1 DEF GrantsStep
      <4> QED BY <1>1, <4>1, <4>2, <4>3
    <3>5. \A s \in 1 .. MaxSessions : passes[i].grant \notin sessions'[s].gids
      BY <3>2 DEF SessionsStep
    <3>6. \A w \in waiting' : passes[i].grant \notin w BY <3>2 DEF WaitingStep
    <3> QED BY <3>0, <3>4, <3>5, <3>6
  <2>2. CASE PassesGrow /\ i = Len(passes) + 1
    <3>1. passes'[i].grant = Len(grants) + 1 /\ Len(grants') = Len(grants) + 1 BY <2>2 DEF PassesGrow
    <3>2. \A g \in 1 .. Len(grants) : g # Len(grants) + 1 BY <1>1
    <3>3. ASSUME NEW j \in 1 .. Len(grants')
          PROVE  grants'[j].src # Len(grants) + 1 /\ grants'[j].perm # Len(grants) + 1
      <4>1. CASE grants'[j].src # 0
        <5>1. grants'[j].src \in 1 .. (j - 1) /\ grants'[j].perm \in 1 .. (j - 1) BY <1>2, <4>1 DEF Ordered
        <5> QED BY <1>1, <3>1, <5>1
      <4>2. CASE grants'[j].src = 0 /\ j \in 1 .. Len(grants)
        <5>1. grants'[j].perm = grants[j].perm /\ grants[j].src = 0 BY <1>2, <4>2
        <5>2. grants[j].perm = 0 BY <4>2, <5>1 DEF AuthorityInv, Narrowed
        <5> QED BY <1>1, <4>2, <5>1, <5>2
      <4>3. CASE grants'[j].src = 0 /\ j = Len(grants) + 1
        <5>1. grants'[j].perm = 0 BY <1>1, <3>1, <4>3 DEF GrantsStep
        <5> QED BY <1>1, <4>3, <5>1
      <4> QED BY <1>1, <3>1, <4>1, <4>2, <4>3
    <3>4. \A s \in 1 .. MaxSessions : Len(grants) + 1 \notin sessions'[s].gids BY <3>2 DEF SessionsStep
    <3>5. \A w \in waiting' : Len(grants) + 1 \notin w BY <3>2 DEF WaitingStep
    <3> QED BY <3>1, <3>3, <3>4, <3>5
  <2>3. Len(passes) \in Nat BY LenProperties DEF AuthorityInv, AuthorityTypeOK
  <2> QED BY <2>1, <2>2, <2>3 DEF PassesStep, PassesGrow
<1>9. pairing' = "approved" => Len(passes') # 0
  <2>1. Len(passes) \in Nat BY LenProperties DEF AuthorityInv, AuthorityTypeOK
  <2> QED BY <2>1 DEF AuthorityInv, PassesStep, PassesGrow
<1> QED BY <1>2, <1>3, <1>4, <1>5, <1>6, <1>7, <1>8, <1>9

-----------------------------------------------------------------------------
(* Revocation.                                                               *)

LEMMA EndedPasses ==
  ASSUME AuthorityInv, NEW P
  PROVE  /\ EndPasses(P) \in Seq(PassRecord) /\ Len(EndPasses(P)) = Len(passes)
         /\ \A i \in 1 .. Len(passes) :
              /\ EndPasses(P)[i].grant = passes[i].grant
              /\ EndPasses(P)[i].claimed = passes[i].claimed
              /\ EndPasses(P)[i].st = IF i \in P THEN "revoked" ELSE passes[i].st
<1>1. passes \in Seq(PassRecord) BY DEF AuthorityInv, AuthorityTypeOK
<1>2. Len(passes) \in Nat /\ DOMAIN passes = 1 .. Len(passes) /\ \A i \in 1 .. Len(passes) : passes[i] \in PassRecord
  BY <1>1, LenProperties, ElementOfSeq
<1>3. ASSUME NEW i \in 1 .. Len(passes)
      PROVE  /\ EndPasses(P)[i] \in PassRecord
             /\ EndPasses(P)[i].grant = passes[i].grant
             /\ EndPasses(P)[i].claimed = passes[i].claimed
             /\ EndPasses(P)[i].st = IF i \in P THEN "revoked" ELSE passes[i].st
  <2>1. EndPasses(P)[i] = IF i \in P THEN [passes[i] EXCEPT !.st = "revoked", !.ses = 0] ELSE passes[i]
    BY <1>2 DEF EndPasses
  <2>2. passes[i] \in PassRecord BY <1>2
  <2>3. CASE i \in P
    <3>1. EndPasses(P)[i] = [passes[i] EXCEPT !.st = "revoked", !.ses = 0] BY <2>1, <2>3
    <3> DEFINE y == [passes[i] EXCEPT !.st = "revoked"]
    <3>2. y \in PassRecord /\ y.grant = passes[i].grant /\ y.claimed = passes[i].claimed /\ y.st = "revoked"
      BY <2>2 DEF PassRecord
    <3>3. EndPasses(P)[i] = [y EXCEPT !.ses = 0] BY <3>1
    <3> HIDE DEF y
    <3> QED BY <2>3, <3>2, <3>3 DEF PassRecord
  <2>4. CASE i \notin P BY <2>1, <2>2, <2>4
  <2> QED BY <2>3, <2>4
<1>4. EndPasses(P) \in [1 .. Len(passes) -> PassRecord]
  <2>1. DOMAIN EndPasses(P) = 1 .. Len(passes) /\ EndPasses(P) = [i \in DOMAIN EndPasses(P) |-> EndPasses(P)[i]]
    BY <1>2 DEF EndPasses
  <2> QED BY <1>3, <2>1
<1>5. EndPasses(P) \in Seq(PassRecord) /\ Len(EndPasses(P)) = Len(passes) BY <1>2, <1>4, SameLength
<1> QED BY <1>3, <1>5

LEMMA EndedSessions ==
  ASSUME AuthorityInv, NEW S, NEW P
  PROVE  /\ EndSessions(S, P) \in [1 .. MaxSessions -> SessionRecord]
         /\ \A s \in 1 .. MaxSessions :
              EndSessions(S, P)[s] = IF s \in S \/ sessions[s].pass \in P THEN NoSession ELSE sessions[s]
<1>1. sessions \in [1 .. MaxSessions -> SessionRecord] BY DEF AuthorityInv, AuthorityTypeOK
<1>2. NoSession \in SessionRecord BY DEF NoSession, SessionRecord
<1> QED BY <1>1, <1>2 DEF EndSessions

(* A pass that is not ended with P, when its grants and those of R are       *)
(* marked, still rests on nothing that is revoked.                           *)
LEMMA MarkedHeld ==
  ASSUME AuthorityInv, NEW R, NEW P \in SUBSET (1 .. Len(passes)), NEW M,
         M = R \cup {passes[i].grant : i \in P}, GoesOn(grants, grants', M),
         Len(passes') = Len(passes),
         \A i \in 1 .. Len(passes) : /\ passes'[i].grant = passes[i].grant
                                      /\ passes'[i].st = IF i \in P THEN "revoked" ELSE passes[i].st,
         \A s \in 1 .. MaxSessions :
            (sessions'[s] = sessions[s] /\ sessions[s].pass \notin P) \/ sessions'[s] = NoSession,
         now' = now,
         \A i \in 1 .. Len(passes) : passes[i].st = "active" /\ i \notin P =>
            passes[i].grant \notin R /\ grants[passes[i].grant].src \notin R
  PROVE  PassesHeld'
<1>1. /\ Len(passes') = Len(passes) /\ Len(passes) \in Nat /\ now \in Nat
      /\ \A i \in 1 .. Len(passes) :
           /\ passes'[i].grant = passes[i].grant
           /\ passes'[i].st = IF i \in P THEN "revoked" ELSE passes[i].st
  BY LenProperties DEF AuthorityInv, AuthorityTypeOK
<1>2. \A i \in 1 .. Len(passes) :
        /\ PassGrant(grants, passes[i].grant)
        /\ \A j \in 1 .. Len(passes) : passes[i].grant = passes[j].grant => i = j
  BY DEF AuthorityInv, PassesOK
<1>3. ASSUME NEW i \in 1 .. Len(passes), passes[i].st = "active", i \notin P
      PROVE  Clean(grants', passes[i].grant)
  <2> DEFINE g == passes[i].grant
  <2>1. PassGrant(grants, g) /\ g \in 1 .. Len(grants) BY <1>2 DEF PassGrant
  <2>2. g \notin M
    <3>1. \A j \in P : passes[j].grant # g BY <1>2, <1>3
    <3> QED BY <1>3, <3>1
  <2>3. grants[g].src \notin M
    <3>1. \A j \in P : passes[j].grant # grants[g].src BY <1>2, <2>1 DEF PassGrant
    <3> QED BY <1>3, <3>1
  <2>4. g \notin Dep(grants, M) BY <2>1, <2>2, <2>3, PassRests
  <2>5. Clean(grants, g) BY <1>3 DEF AuthorityInv, PassesHeld
  <2> HIDE DEF g
  <2>6. Clean(grants', g) BY <2>1, <2>4, <2>5, CleanKept
  <2> QED BY <2>6 DEF g
<1>4. ASSUME NEW i \in 1 .. Len(passes), passes'[i].st = "revoked"
      PROVE  /\ grants'[passes[i].grant].revoked
             /\ \A s \in 1 .. MaxSessions : sessions'[s].exp > now' => sessions'[s].pass # i
  <2>1. passes[i].grant \in 1 .. Len(grants) BY <1>2 DEF PassGrant
  <2>2. NoSession.exp = 0 BY DEF NoSession
  <2>3. CASE i \in P
    <3>1. passes[i].grant \in M BY <2>3
    <3>2. grants'[passes[i].grant].revoked BY <2>1, <3>1 DEF GoesOn
    <3> QED BY <1>1, <2>2, <2>3, <3>2
  <2>4. CASE i \notin P
    <3>1. passes[i].st = "revoked" BY <1>1, <1>4, <2>4
    <3>2. /\ grants[passes[i].grant].revoked
          /\ \A s \in 1 .. MaxSessions : sessions[s].exp > now => sessions[s].pass # i
      BY <3>1 DEF AuthorityInv, PassesHeld
    <3>3. grants'[passes[i].grant].revoked BY <2>1, <3>2 DEF GoesOn
    <3> QED BY <1>1, <2>2, <3>2, <3>3
  <2> QED BY <2>3, <2>4
<1> QED BY <1>1, <1>3, <1>4 DEF PassesHeld

LEMMA RevokeStep ==
  ASSUME AuthorityInv, NEW R, NEW S, NEW P \in SUBSET (1 .. Len(passes)), Revoke(R, S, P), now' = now
  PROVE  /\ \E M : GrantsStep(M)
         /\ PassesStep /\ SessionsStep /\ WaitingStep /\ PassesHeld' /\ WaitingHeld'
         /\ Len(grants') = Len(grants)
         /\ \A s \in 1 .. MaxSessions : sessions'[s] = sessions[s] \/ sessions'[s] = NoSession
         /\ \A s \in S \cap (1 .. MaxSessions) : sessions'[s] = NoSession
<1> DEFINE lost == Dep(grants, R \cup {passes[i].grant : i \in P})
           stale == {i \in DOMAIN passes : passes[i].st = "active" /\ ~IsActiveGrant(passes[i].grant)}
           ended == P \cup PassesOf(lost) \cup (IF R \cup P # {} THEN stale ELSE {})
           M == R \cup {passes[i].grant : i \in ended}
<1>1. /\ grants' = Mark(grants, M) /\ passes' = EndPasses(ended) /\ sessions' = EndSessions(S, ended)
      /\ waiting' = {w \in waiting : w \cap Dep(grants, M) = {}}
  BY DepIs DEF Revoke
<1>2. /\ grants \in Seq(Grant) /\ Ordered(grants) /\ Len(grants) \in Nat /\ passes \in Seq(PassRecord)
      /\ DOMAIN passes = 1 .. Len(passes)
  BY LenProperties DEF AuthorityInv, AuthorityTypeOK
<1>3. ended \in SUBSET (1 .. Len(passes)) BY <1>2 DEF PassesOf
<1>4. ASSUME NEW i \in 1 .. Len(passes), passes[i].st = "active", i \notin ended
      PROVE  passes[i].grant \notin R /\ grants[passes[i].grant].src \notin R
  <2>1. passes[i].grant \notin lost BY <1>2, <1>4 DEF PassesOf
  <2>2. /\ passes[i].grant \in 1 .. Len(grants) /\ grants[passes[i].grant].src # 0
        /\ grants[passes[i].grant].src \in 1 .. Len(grants)
    BY <1>2 DEF AuthorityInv, PassesOK, PassGrant, Ordered
  <2>3. passes[i].grant \notin R BY <1>2, <2>1, <2>2, DepUnfolds
  <2>4. grants[passes[i].grant].src \notin lost BY <1>2, <2>1, <2>2, DepUnfolds
  <2>5. grants[passes[i].grant].src \notin R BY <1>2, <2>2, <2>4, DepUnfolds
  <2> QED BY <2>3, <2>5
<1> HIDE DEF ended
<1>5. GoesOn(grants, grants', M) /\ Len(grants') = Len(grants) BY <1>1, <1>2, MarkGoesOn
<1>6. GrantsStep(M) BY <1>2, <1>5 DEF GrantsStep
<1>7. PassesStep BY <1>1, EndedPasses DEF PassesStep
<1>8. /\ sessions' \in [1 .. MaxSessions -> SessionRecord]
      /\ \A s \in 1 .. MaxSessions :
           sessions'[s] = IF s \in S \/ sessions[s].pass \in ended THEN NoSession ELSE sessions[s]
  BY <1>1, EndedSessions
<1>9. SessionsStep BY <1>8, SessionsStay
<1>10. WaitingStep BY <1>1, WaitingStays
<1>11. PassesHeld' 
  <2>1. \A s \in 1 .. MaxSessions :
          (sessions'[s] = sessions[s] /\ sessions[s].pass \notin ended) \/ sessions'[s] = NoSession
    BY <1>8
  <2>2. M = R \cup {passes[i].grant : i \in ended} OBVIOUS
  <2>3. /\ Len(passes') = Len(passes)
        /\ \A i \in 1 .. Len(passes) : /\ passes'[i].grant = passes[i].grant
                                        /\ passes'[i].st = IF i \in ended THEN "revoked" ELSE passes[i].st
    BY <1>1, EndedPasses
  <2> HIDE DEF M
  <2> QED BY <2>3, <1>3, <1>4, <1>5, <2>1, <2>2, MarkedHeld
<1>12. WaitingHeld'
  <2> SUFFICES ASSUME NEW w \in waiting', NEW g \in w PROVE Clean(grants', g) BY DEF WaitingHeld
  <2>1. w \in waiting /\ g \notin Dep(grants, M) BY <1>1
  <2>2. g \in 1 .. Len(grants) /\ Clean(grants, g) BY <2>1 DEF AuthorityInv, NamesGrants, WaitingHeld
  <2> HIDE DEF M
  <2> QED BY <1>5, <2>1, <2>2, CleanKept
<1> QED BY <1>5, <1>6, <1>7, <1>8, <1>9, <1>10, <1>11, <1>12

(* Passes and approvals are held where nothing is marked and no new session *)
(* belongs to a pass that is over.                                          *)
LEMMA HeldStays ==
  ASSUME AuthorityInv, GoesOn(grants, grants', {}), PassesStep, now' \in Nat, now <= now',
         \A i \in 1 .. Len(passes) : passes'[i].st = passes[i].st,
         \A s \in 1 .. MaxSessions : \/ sessions'[s] = sessions[s]
                                     \/ sessions'[s].pass = 0 \/ sessions'[s].exp = 0
                                     \/ /\ sessions'[s].pass \in 1 .. Len(passes)
                                        /\ passes[sessions'[s].pass].st = "active"
  PROVE  PassesHeld' /\ \A w \in waiting : \A g \in w : Clean(grants', g)
<1>1. /\ grants \in Seq(Grant) /\ Ordered(grants) /\ Len(grants) \in Nat /\ now \in Nat
      /\ sessions \in [1 .. MaxSessions -> SessionRecord]
  BY LenProperties DEF AuthorityInv, AuthorityTypeOK
<1>2. Dep(grants, {}) = {}
  <2>1. ASSUME NEW i \in 1 .. Len(grants) PROVE i \notin Dep(grants, {})
    <3>1. \A S : i \in Dep(grants, S) <=> \E a \in S : i \in Dep(grants, {a})
      BY <1>1, DepOfSet, Zenon
    <3>2. \A S : S = {} => i \notin Dep(grants, S) BY <3>1
    <3> QED BY <3>2
  <2> QED BY <1>1, <2>1, DepUnfolds
<1>3. ASSUME NEW g \in 1 .. Len(grants), Clean(grants, g) PROVE Clean(grants', g)
  BY <1>2, <1>3, CleanKept
<1>4. \A i \in 1 .. Len(passes) : passes[i].grant \in 1 .. Len(grants)
  BY DEF AuthorityInv, PassesOK, PassGrant
<1>5. \A i \in 1 .. Len(passes') : /\ i \in 1 .. Len(passes) /\ passes'[i].grant = passes[i].grant
                                   /\ passes'[i].st = passes[i].st
  BY DEF PassesStep
<1>6. ASSUME NEW i \in 1 .. Len(passes), passes[i].st = "active" PROVE Clean(grants', passes[i].grant)
  BY <1>3, <1>4, <1>6 DEF AuthorityInv, PassesHeld
<1>7. ASSUME NEW i \in 1 .. Len(passes), passes[i].st = "revoked"
      PROVE  /\ grants'[passes[i].grant].revoked
             /\ \A s \in 1 .. MaxSessions : sessions'[s].exp > now' => sessions'[s].pass # i
  <2>1. /\ grants[passes[i].grant].revoked
        /\ \A s \in 1 .. MaxSessions : sessions[s].exp > now => sessions[s].pass # i
    BY <1>7 DEF AuthorityInv, PassesHeld
  <2>2. grants'[passes[i].grant].revoked BY <1>4, <2>1 DEF GoesOn
  <2>3. ASSUME NEW s \in 1 .. MaxSessions, sessions'[s].exp > now' PROVE sessions'[s].pass # i
    <3>1. CASE sessions'[s] = sessions[s]
      <4>1. sessions[s].exp \in Nat BY <1>1 DEF SessionRecord
      <4> QED BY <1>1, <2>1, <2>3, <3>1, <4>1
    <3>2. CASE sessions'[s].pass = 0 BY <3>2
    <3>3. CASE sessions'[s].exp = 0 BY <2>3, <3>3
    <3>4. CASE sessions'[s].pass \in 1 .. Len(passes) /\ passes[sessions'[s].pass].st = "active"
      BY <1>7, <3>4
    <3> QED BY <3>1, <3>2, <3>3, <3>4
  <2> QED BY <2>2, <2>3
<1>8. PassesHeld' BY <1>5, <1>6, <1>7 DEF PassesHeld
<1>9. \A w \in waiting : \A g \in w : Clean(grants', g) BY <1>3 DEF AuthorityInv, WaitingHeld, NamesGrants
<1> QED BY <1>8, <1>9

LEMMA PeopleStay ==
  ASSUME AuthorityInv, now' \in Nat, now <= now',
         \A s \in 1 .. MaxSessions : \/ sessions'[s] = sessions[s]
                                     \/ sessions'[s].person = "none" \/ sessions'[s].exp = 0,
         \A s \in 1 .. MaxSessions :
            sessions'[s] = sessions[s] /\ sessions[s].exp > now /\ sessions[s].person # "none" =>
               authority'[sessions[s].person] = authority[sessions[s].person]
  PROVE  PeopleHeld'
<1> SUFFICES ASSUME NEW s \in 1 .. MaxSessions, sessions'[s].exp > now', sessions'[s].person # "none"
             PROVE  /\ authority'[sessions'[s].person].st = "active"
                    /\ sessions'[s].gids = {authority'[sessions'[s].person].root}
  BY DEF PeopleHeld
<1>1. sessions'[s] = sessions[s] OBVIOUS
<1>2. sessions[s].exp \in Nat /\ now \in Nat BY DEF AuthorityInv, AuthorityTypeOK, SessionRecord
<1>3. sessions[s].exp > now BY <1>1, <1>2
<1>4. authority'[sessions[s].person] = authority[sessions[s].person] BY <1>1, <1>3
<1>5. /\ authority[sessions[s].person].st = "active"
      /\ sessions[s].gids = {authority[sessions[s].person].root}
  BY <1>1, <1>3 DEF AuthorityInv, PeopleHeld
<1> QED BY <1>1, <1>4, <1>5

(* Nothing but the clock, the admissions, the pairing and the sessions that  *)
(* belong to nobody.                                                         *)
LEMMA QuietStep ==
  ASSUME AuthorityInv, UNCHANGED <<grants, authority, passes, waiting, defined>>,
         now' \in Nat, now <= now', SessionsStep, pairing' = pairing \/ pairing' # "approved",
         \A s \in 1 .. MaxSessions :
            \/ sessions'[s] = sessions[s] \/ sessions'[s] = NoSession
            \/ sessions'[s].person = "none" /\ sessions'[s].pass = 0
  PROVE  AuthorityInv'
<1>1. NoSession.person = "none" /\ NoSession.pass = 0 BY DEF NoSession
<1>2. GrantsStep({}) /\ GoesOn(grants, grants', {}) BY GrantsStay DEF GrantsStep
<1>3. PassesStep BY PassesStay
<1>4. WaitingStep BY WaitingStays
<1>5. DefinedStep BY <1>2, DefinedStays
<1>6. RootsStep BY <1>2, RootsStay DEF AuthorityInv, AuthorityTypeOK
<1>7. PassesHeld' /\ WaitingHeld' BY <1>1, <1>2, <1>3, HeldStays DEF WaitingHeld
<1>8. PeopleHeld' BY <1>1, PeopleStay
<1>9. /\ AuthorityTypeOK' /\ Ordered(grants') /\ Narrowed' /\ RootsOK' /\ NamesGrants'
      /\ PassesOK' /\ UnclaimedUnused' /\ (pairing' = "approved" => Len(passes') # 0)
  BY <1>2, <1>3, <1>4, <1>5, <1>6, ShapeKept
<1> QED BY <1>7, <1>8, <1>9 DEF AuthorityInv

(* A session is opened in a free slot. *)
LEMMA OpenedIs ==
  ASSUME AuthorityInv, FreeSlots # {}, NEW r \in SessionRecord
  PROVE  /\ Opened(r) \in [1 .. MaxSessions -> SessionRecord]
         /\ \A s \in 1 .. MaxSessions : Opened(r)[s] = sessions[s] \/ Opened(r)[s] = r
         /\ (CHOOSE s \in FreeSlots : \A t \in FreeSlots : s <= t) \in Nat
<1> DEFINE z == CHOOSE s \in FreeSlots : \A t \in FreeSlots : s <= t
<1>1. sessions \in [1 .. MaxSessions -> SessionRecord] BY DEF AuthorityInv, AuthorityTypeOK
<1>2. FreeSlots \subseteq Nat BY <1>1 DEF FreeSlots
<1>3. z \in Nat BY <1>2, LeastOf
<1>4. Opened(r) = [sessions EXCEPT ![z] = r] BY DEF Opened
<1> HIDE DEF z
<1>5. /\ Opened(r) \in [1 .. MaxSessions -> SessionRecord]
      /\ \A s \in 1 .. MaxSessions : Opened(r)[s] = sessions[s] \/ Opened(r)[s] = r
  BY <1>1, <1>4
<1> QED BY <1>3, <1>5 DEF z

-----------------------------------------------------------------------------
(* The steps.                                                                *)

LEMMA TypeFacts ==
  ASSUME AuthorityInv
  PROVE  /\ now \in Nat /\ grants \in Seq(Grant) /\ Ordered(grants) /\ Len(grants) \in Nat
         /\ GrantIds = 1 .. Len(grants) /\ DOMAIN grants = 1 .. Len(grants)
         /\ \A g \in 1 .. Len(grants) : grants[g] \in Grant
         /\ sessions \in [1 .. MaxSessions -> SessionRecord] /\ DOMAIN sessions = 1 .. MaxSessions
         /\ authority \in [People -> [st : {"none", "active", "revoked"}, root : Nat]]
         /\ passes \in Seq(PassRecord) /\ Len(passes) \in Nat /\ DOMAIN passes = 1 .. Len(passes)
         /\ \A i \in 1 .. Len(passes) : passes[i] \in PassRecord
         /\ defined \in [Bots -> SUBSET Nat]
<1>1. AuthorityTypeOK /\ Ordered(grants) BY DEF AuthorityInv
<1>2. /\ now \in Nat /\ grants \in Seq(Grant) /\ passes \in Seq(PassRecord)
      /\ sessions \in [1 .. MaxSessions -> SessionRecord]
      /\ authority \in [People -> [st : {"none", "active", "revoked"}, root : Nat]]
      /\ defined \in [Bots -> SUBSET Nat]
  BY <1>1 DEF AuthorityTypeOK
<1> QED BY <1>1, <1>2, LenProperties, ElementOfSeq DEF GrantIds

(* The root of an active authority. *)
LEMMA RootFacts ==
  ASSUME AuthorityInv, NEW p \in People, Active(p)
  PROVE  /\ Root(p) \in 1 .. Len(grants) /\ Root(p) \in Nat /\ Root(p) # 0
         /\ grants[Root(p)].src = 0 /\ grants[Root(p)].issuer # "floe" /\ Reachable(Root(p))
<1>1. /\ Root(p) \in 1 .. Len(grants) /\ grants[Root(p)].src = 0 /\ grants[Root(p)].issuer # "floe"
  BY DEF AuthorityInv, RootsOK, Active, Root
<1>2. Len(grants) \in Nat BY TypeFacts
<1>3. Reachable(Root(p)) BY <1>1 DEF AuthorityInv, PassesOK, PassGrant, Reachable
<1> QED BY <1>1, <1>2, <1>3

LEMMA AdmitStep ==
  ASSUME AuthorityInv, NEW p \in People, NEW e \in Lifetimes, Admit(p, e)
  PROVE  AuthorityInv'
<1>1. UNCHANGED <<now, sessions, passes, pairing, waiting, defined>> BY DEF Admit
<1>2. SessionsStep BY <1>1, TypeFacts, SessionsStay
<1>3. CASE Active(p)
  <2>1. UNCHANGED <<grants, authority>> BY <1>3 DEF Admit
  <2> QED BY <1>1, <1>2, <2>1, TypeFacts, QuietStep
<1>4. CASE ~Active(p)
  <2> DEFINE r == Granted(p, "host", AllOps, e, 0, 0, FALSE)
  <2>1. /\ grants' = Append(grants, r)
        /\ authority' = [authority EXCEPT ![p] = [st |-> "active", root |-> Len(grants) + 1]]
    BY <1>4 DEF Admit
  <2>2. r \in Grant /\ r.src = 0 /\ r.perm = 0 /\ r.issuer # "floe"
    BY AuthorityAssumption DEF Granted, Grant, Principals, Forever
  <2> HIDE DEF r
  <2>3. /\ GoesOn(grants, grants', {}) /\ Len(grants') = Len(grants) + 1
        /\ grants'[Len(grants) + 1] = r
    BY <2>1, <2>2, TypeFacts, AppendGoesOn
  <2>4. GrantsStep({}) BY <2>2, <2>3, TypeFacts DEF GrantsStep
  <2>5. PassesStep /\ WaitingStep /\ DefinedStep
    BY <1>1, <2>3, PassesStay, WaitingStays, DefinedStays
  <2>6. \A q \in People : authority'[q] = IF q = p THEN [st |-> "active", root |-> Len(grants) + 1]
                                          ELSE authority[q]
    BY <2>1, TypeFacts
  <2>7. RootsStep
    <3>1. authority' \in [People -> [st : {"none", "active", "revoked"}, root : Nat]]
      BY <2>1, TypeFacts
    <3>2. ASSUME NEW q \in People, authority'[q].st = "active"
          PROVE  /\ authority'[q].root \in 1 .. Len(grants')
                 /\ grants'[authority'[q].root].src = 0 /\ grants'[authority'[q].root].issuer # "floe"
      <4>1. CASE q = p BY <2>2, <2>3, <2>6, <4>1, TypeFacts
      <4>2. CASE q # p
        <5>1. authority'[q] = authority[q] BY <2>6, <4>2
        <5>2. /\ Root(q) \in 1 .. Len(grants) /\ grants[Root(q)].src = 0
              /\ grants[Root(q)].issuer # "floe" /\ authority'[q].root = Root(q)
          BY <3>2, <5>1, RootFacts DEF Active, Root
        <5> QED BY <2>3, <5>2, TypeFacts DEF GoesOn
      <4> QED BY <4>1, <4>2
    <3> QED BY <3>1, <3>2 DEF RootsStep
  <2>8. PassesHeld' /\ WaitingHeld' BY <1>1, <2>3, <2>5, TypeFacts, HeldStays DEF WaitingHeld
  <2>9. PeopleHeld'
    <3>1. ASSUME NEW s \in 1 .. MaxSessions, sessions[s].exp > now, sessions[s].person # "none"
          PROVE  authority'[sessions[s].person] = authority[sessions[s].person]
      <4>1. authority[sessions[s].person].st = "active" BY <3>1 DEF AuthorityInv, PeopleHeld
      <4>2. sessions[s].person \in People BY <3>1, TypeFacts DEF SessionRecord
      <4> QED BY <1>4, <2>6, <4>1, <4>2 DEF Active
    <3> QED BY <1>1, <3>1, TypeFacts, PeopleStay
  <2>10. /\ AuthorityTypeOK' /\ Ordered(grants') /\ Narrowed' /\ RootsOK' /\ NamesGrants'
         /\ PassesOK' /\ UnclaimedUnused' /\ (pairing' = "approved" => Len(passes') # 0)
    BY <1>1, <1>2, <2>4, <2>5, <2>7, TypeFacts, ShapeKept
  <2> QED BY <2>8, <2>9, <2>10 DEF AuthorityInv
<1> QED BY <1>3, <1>4

LEMMA AuthenticateStep ==
  ASSUME AuthorityInv, NEW p \in People, Authenticate(p)
  PROVE  AuthorityInv'
<1> DEFINE r == Session(p, {Root(p)}, now + 1, 0, p)
<1>1. /\ UNCHANGED <<now, grants, authority, passes, pairing, waiting, defined>>
      /\ Active(p) /\ FreeSlots # {} /\ sessions' = Opened(r)
  BY DEF Authenticate
<1>2. /\ r \in SessionRecord /\ r.gids = {Root(p)} /\ r.pass = 0 /\ r.person = p
  BY <1>1, RootFacts, TypeFacts DEF Session, SessionRecord, Principals
<1> HIDE DEF r
<1>3. /\ sessions' \in [1 .. MaxSessions -> SessionRecord]
      /\ \A s \in 1 .. MaxSessions : sessions'[s] = sessions[s] \/ sessions'[s] = r
  BY <1>1, <1>2, OpenedIs
<1>4. SessionsStep
  <2>1. \A s \in 1 .. MaxSessions : \A g \in sessions[s].gids : g \in 1 .. Len(grants) /\ Reachable(g)
    BY DEF AuthorityInv, NamesGrants, UnclaimedUnused, Reachable
  <2> QED BY <1>1, <1>2, <1>3, <2>1, RootFacts DEF SessionsStep
<1>5. GrantsStep({}) /\ GoesOn(grants, grants', {}) BY <1>1, GrantsStay DEF GrantsStep
<1>6. PassesStep /\ WaitingStep /\ DefinedStep /\ RootsStep
  BY <1>1, <1>5, TypeFacts, PassesStay, WaitingStays, DefinedStays, RootsStay
<1>7. PassesHeld' /\ WaitingHeld' BY <1>1, <1>2, <1>3, <1>5, <1>6, TypeFacts, HeldStays DEF WaitingHeld
<1>8. PeopleHeld'
  <2> SUFFICES ASSUME NEW s \in 1 .. MaxSessions, sessions'[s].exp > now', sessions'[s].person # "none"
               PROVE  /\ authority'[sessions'[s].person].st = "active"
                      /\ sessions'[s].gids = {authority'[sessions'[s].person].root}
    BY DEF PeopleHeld
  <2>1. CASE sessions'[s] = r BY <1>1, <1>2, <2>1 DEF Active, Root
  <2>2. CASE sessions'[s] = sessions[s] BY <1>1, <2>2 DEF AuthorityInv, PeopleHeld
  <2> QED BY <1>3, <2>1, <2>2
<1>9. /\ AuthorityTypeOK' /\ Ordered(grants') /\ Narrowed' /\ RootsOK' /\ NamesGrants'
      /\ PassesOK' /\ UnclaimedUnused' /\ (pairing' = "approved" => Len(passes') # 0)
  BY <1>1, <1>4, <1>5, <1>6, TypeFacts, ShapeKept
<1> QED BY <1>7, <1>8, <1>9 DEF AuthorityInv

(* Whatever revokes and leaves the people's authority alone. *)
LEMMA RevokeOnly ==
  ASSUME AuthorityInv, NEW R, NEW S, NEW P \in SUBSET (1 .. Len(passes)), Revoke(R, S, P),
         now' = now, defined' = defined, pairing' = pairing \/ pairing' # "approved",
         authority' \in [People -> [st : {"none", "active", "revoked"}, root : Nat]],
         \A q \in People : authority'[q] = authority[q] \/
            (/\ authority'[q].st # "active"
             /\ \A s \in 1 .. MaxSessions : sessions[s].person = q => s \in S)
  PROVE  AuthorityInv'
<1>1. PICK M : GrantsStep(M) BY RevokeStep
<1>2. /\ PassesStep /\ SessionsStep /\ WaitingStep /\ PassesHeld' /\ WaitingHeld'
      /\ \A s \in 1 .. MaxSessions : sessions'[s] = sessions[s] \/ sessions'[s] = NoSession
      /\ \A s \in S \cap (1 .. MaxSessions) : sessions'[s] = NoSession
  BY RevokeStep
<1>3. GoesOn(grants, grants', M) BY <1>1 DEF GrantsStep
<1>4. DefinedStep BY <1>3, DefinedStays
<1>5. RootsStep BY <1>3, RootsStay
<1>6. NoSession.person = "none" BY DEF NoSession
<1>7. PeopleHeld'
  <2>1. ASSUME NEW s \in 1 .. MaxSessions, sessions'[s] = sessions[s], sessions[s].exp > now,
               sessions[s].person # "none"
        PROVE  authority'[sessions[s].person] = authority[sessions[s].person]
    <3>1. sessions[s].person \in People BY <2>1, TypeFacts DEF SessionRecord
    <3> QED BY <1>2, <1>6, <2>1, <3>1
  <2>2. now' \in Nat /\ now <= now' BY TypeFacts
  <2>3. \A s \in 1 .. MaxSessions : sessions'[s] = sessions[s] \/ sessions'[s].person = "none"
    BY <1>2, <1>6
  <2> QED BY <2>1, <2>2, <2>3, PeopleStay
<1>8. /\ AuthorityTypeOK' /\ Ordered(grants') /\ Narrowed' /\ RootsOK' /\ NamesGrants'
      /\ PassesOK' /\ UnclaimedUnused' /\ (pairing' = "approved" => Len(passes') # 0)
  BY <1>1, <1>2, <1>4, <1>5, TypeFacts, ShapeKept
<1> QED BY <1>2, <1>7, <1>8 DEF AuthorityInv

LEMMA StopStep ==
  ASSUME AuthorityInv, NEW p \in People, UNCHANGED <<now, pairing, defined>>,
         \/ Stop(p) \/ UNCHANGED <<grants, passes, sessions, waiting, authority>>
  PROVE  AuthorityInv'
<1>1. CASE Stop(p)
  <2>1. Revoke({Root(p)}, SessionsOf(p), {}) /\ authority' = [authority EXCEPT ![p].st = "revoked"]
    BY <1>1 DEF Stop
  <2>2. /\ authority' \in [People -> [st : {"none", "active", "revoked"}, root : Nat]]
        /\ \A q \in People : q # p => authority'[q] = authority[q]
        /\ authority'[p].st = "revoked"
    BY <2>1, TypeFacts
  <2>3. \A s \in 1 .. MaxSessions : sessions[s].person = p => s \in SessionsOf(p)
    BY TypeFacts DEF SessionsOf
  <2>4. {} \in SUBSET (1 .. Len(passes)) OBVIOUS
  <2> QED BY <2>1, <2>2, <2>3, <2>4, RevokeOnly
<1>2. CASE UNCHANGED <<grants, passes, sessions, waiting, authority>>
  <2>1. SessionsStep BY <1>2, TypeFacts, SessionsStay
  <2> QED BY <1>2, <2>1, TypeFacts, QuietStep
<1> QED BY <1>1, <1>2

LEMMA RevokeSessionStep ==
  ASSUME AuthorityInv, NEW s, RevokeOneSession(s)
  PROVE  AuthorityInv'
<1>1. /\ UNCHANGED <<now, grants, authority, passes, pairing, waiting, defined>>
      /\ sessions' = EndSessions({s}, {})
  BY DEF RevokeOneSession
<1>2. /\ sessions' \in [1 .. MaxSessions -> SessionRecord]
      /\ \A t \in 1 .. MaxSessions : sessions'[t] = sessions[t] \/ sessions'[t] = NoSession
  BY <1>1, EndedSessions
<1>3. SessionsStep BY <1>2, SessionsStay
<1>4. now' \in Nat /\ now <= now' BY <1>1, TypeFacts
<1> QED BY <1>1, <1>2, <1>3, <1>4, QuietStep

LEMMA ReplaceStep ==
  ASSUME AuthorityInv, NEW p \in People, NEW ops \in AskedOps, NEW e \in Lifetimes, Replace(p, ops, e)
  PROVE  AuthorityInv'
<1> DEFINE old == Root(p)
           lost == Dep(grants, {old})
           ended == PassesOf(lost)
           M == {old} \cup {passes[i].grant : i \in ended}
           r == Granted(p, p, ops, e, 0, 0, FALSE)
           G == Mark(grants, M)
<1>1. /\ Active(p) /\ grants' = Append(G, r)
      /\ authority' = [authority EXCEPT ![p].root = Len(grants) + 1]
      /\ passes' = EndPasses(ended) /\ sessions' = EndSessions(SessionsOf(p), ended)
      /\ waiting' = {w \in waiting : w \cap lost = {}}
      /\ UNCHANGED <<now, pairing, defined>>
  BY DepIs DEF Replace
<1>2. r \in Grant /\ r.src = 0 /\ r.perm = 0 /\ r.issuer # "floe"
  BY AuthorityAssumption DEF Granted, Grant, Principals, Forever, AskedOps, AllOps
<1>3. old \in 1 .. Len(grants) BY <1>1, RootFacts
<1> HIDE DEF r, old
<1>4. GoesOn(grants, G, M) /\ Len(G) = Len(grants) BY TypeFacts, MarkGoesOn
<1>5. /\ GoesOn(G, grants', {}) /\ Len(grants') = Len(grants) + 1 /\ grants'[Len(grants) + 1] = r
  BY <1>1, <1>2, <1>4, AppendGoesOn DEF GoesOn
<1>6. ended \in SUBSET (1 .. Len(passes)) BY TypeFacts DEF PassesOf
<1>7. ASSUME NEW i \in 1 .. Len(passes), passes[i].st = "active", i \notin ended
      PROVE  passes[i].grant \notin {old} /\ grants[passes[i].grant].src \notin {old}
  <2>1. passes[i].grant \notin lost BY <1>7, TypeFacts DEF PassesOf
  <2>2. /\ passes[i].grant \in 1 .. Len(grants) /\ grants[passes[i].grant].src # 0
        /\ grants[passes[i].grant].src \in 1 .. Len(grants)
    BY TypeFacts DEF AuthorityInv, PassesOK, PassGrant, Ordered
  <2>3. passes[i].grant \notin {old} BY <2>1, <2>2, TypeFacts, DepUnfolds
  <2>4. grants[passes[i].grant].src \notin lost BY <2>1, <2>2, TypeFacts, DepUnfolds
  <2>5. grants[passes[i].grant].src \notin {old} BY <2>2, <2>4, TypeFacts, DepUnfolds
  <2> QED BY <2>3, <2>5
<1>8. M \subseteq lost
  <2>1. old \in lost BY <1>3, TypeFacts, DepIsOlder
  <2> QED BY <2>1 DEF PassesOf
<1>9. M = {old} \cup {passes[i].grant : i \in ended} OBVIOUS
<1> HIDE DEF M, ended, G
<1>10. GoesOn(grants, grants', M)
  <2>1. GoesOn(grants, grants', M \cup {}) BY <1>4, <1>5, GoesOnTwice
  <2>2. M \cup {} = M OBVIOUS
  <2> QED BY <2>1, <2>2
<1>11. GrantsStep(M) BY <1>2, <1>5, <1>10, TypeFacts DEF GrantsStep
<1>12. /\ passes' \in Seq(PassRecord) /\ Len(passes') = Len(passes)
       /\ \A i \in 1 .. Len(passes) :
            /\ passes'[i].grant = passes[i].grant /\ passes'[i].claimed = passes[i].claimed
            /\ passes'[i].st = IF i \in ended THEN "revoked" ELSE passes[i].st
  BY <1>1, EndedPasses
<1>13. PassesStep BY <1>12 DEF PassesStep
<1>14. /\ sessions' \in [1 .. MaxSessions -> SessionRecord]
       /\ \A s \in 1 .. MaxSessions :
            sessions'[s] = IF s \in SessionsOf(p) \/ sessions[s].pass \in ended THEN NoSession ELSE sessions[s]
  BY <1>1, EndedSessions
<1>15. SessionsStep /\ WaitingStep /\ DefinedStep
  BY <1>1, <1>10, <1>14, SessionsStay, WaitingStays, DefinedStays
<1>16. \A q \in People : /\ q # p => authority'[q] = authority[q]
                         /\ q = p => authority'[q].root = Len(grants) + 1
  BY <1>1, TypeFacts
<1>17. RootsStep
  <2>1. authority' \in [People -> [st : {"none", "active", "revoked"}, root : Nat]]
    <3>1. authority \in [People -> [st : {"none", "active", "revoked"}, root : Nat]] /\ Len(grants) + 1 \in Nat
      BY TypeFacts
    <3>2. authority' = [authority EXCEPT ![p].root = Len(grants) + 1] BY <1>1
    <3> QED BY <3>1, <3>2
  <2>2. ASSUME NEW q \in People, authority'[q].st = "active"
        PROVE  /\ authority'[q].root \in 1 .. Len(grants')
               /\ grants'[authority'[q].root].src = 0 /\ grants'[authority'[q].root].issuer # "floe"
    <3>1. CASE q = p BY <1>2, <1>5, <1>16, <3>1, TypeFacts
    <3>2. CASE q # p
      <4>1. authority'[q] = authority[q] BY <1>16, <3>2
      <4>2. /\ Root(q) \in 1 .. Len(grants) /\ grants[Root(q)].src = 0
            /\ grants[Root(q)].issuer # "floe" /\ authority'[q].root = Root(q)
        BY <2>2, <4>1, RootFacts DEF Active, Root
      <4> QED BY <1>5, <1>10, <4>2, TypeFacts DEF GoesOn
    <3> QED BY <3>1, <3>2
  <2> QED BY <2>1, <2>2 DEF RootsStep
<1>18. PassesHeld'
  <2>1. \A s \in 1 .. MaxSessions :
          (sessions'[s] = sessions[s] /\ sessions[s].pass \notin ended) \/ sessions'[s] = NoSession
    BY <1>14
  <2> QED BY <1>1, <1>6, <1>7, <1>9, <1>10, <1>12, <2>1, MarkedHeld
<1>19. WaitingHeld'
  <2> SUFFICES ASSUME NEW w \in waiting', NEW g \in w PROVE Clean(grants', g) BY DEF WaitingHeld
  <2>1. w \in waiting /\ g \notin lost BY <1>1
  <2>2. g \in 1 .. Len(grants) /\ Clean(grants, g) BY <2>1 DEF AuthorityInv, NamesGrants, WaitingHeld
  <2>3. g \notin Dep(grants, M)
    <3> SUFFICES ASSUME g \in Dep(grants, M) PROVE FALSE OBVIOUS
    <3>1. PICK a \in M : g \in Dep(grants, {a}) BY <2>2, TypeFacts, DepOfSet
    <3>2. a \in lost BY <1>8
    <3> HIDE DEF lost
    <3>3. Dep(grants, {a}) \subseteq Dep(grants, {old}) BY <3>2, TypeFacts, DepCloses DEF lost
    <3> QED BY <2>1, <3>1, <3>3 DEF lost
  <2> QED BY <1>10, <2>2, <2>3, CleanKept
<1>20. PeopleHeld'
  <2>1. NoSession.person = "none" BY DEF NoSession
  <2>2. \A s \in 1 .. MaxSessions : sessions'[s] = sessions[s] \/ sessions'[s].person = "none"
    BY <1>14, <2>1
  <2>3. ASSUME NEW s \in 1 .. MaxSessions, sessions'[s] = sessions[s], sessions[s].person # "none"
        PROVE  authority'[sessions[s].person] = authority[sessions[s].person]
    <3>1. sessions[s].person \in People BY <2>3, TypeFacts DEF SessionRecord
    <3>2. s \notin SessionsOf(p) BY <1>14, <2>1, <2>3
    <3>3. sessions[s].person # p BY <3>2, TypeFacts DEF SessionsOf
    <3> QED BY <1>16, <3>1, <3>3
  <2>4. now' \in Nat /\ now <= now' BY <1>1, TypeFacts
  <2> QED BY <2>2, <2>3, <2>4, PeopleStay
<1>21. /\ AuthorityTypeOK' /\ Ordered(grants') /\ Narrowed' /\ RootsOK' /\ NamesGrants'
       /\ PassesOK' /\ UnclaimedUnused' /\ (pairing' = "approved" => Len(passes') # 0)
  <2>1. now' \in Nat /\ pairing' = pairing BY <1>1, TypeFacts
  <2> QED BY <1>11, <1>13, <1>15, <1>17, <2>1, ShapeKept
<1> QED BY <1>18, <1>19, <1>20, <1>21 DEF AuthorityInv

(* A grant is added that nobody's authority, pass or approval has a part in. *)
LEMMA GrantAdded ==
  ASSUME AuthorityInv, NEW r \in Grant, grants' = Append(grants, r),
         r.src = 0 => r.perm = 0,
         r.src # 0 => /\ r.src \in 1 .. Len(grants) /\ r.perm \in 1 .. Len(grants)
                      /\ r.ops \subseteq grants[r.src].ops /\ Reachable(r.src) /\ Reachable(r.perm)
  PROVE  /\ GoesOn(grants, grants', {}) /\ Len(grants') = Len(grants) + 1
         /\ grants'[Len(grants) + 1] = r /\ GrantsStep({})
<1>1. /\ GoesOn(grants, grants', {}) /\ Len(grants') = Len(grants) + 1
      /\ grants'[Len(grants) + 1] = r
  BY TypeFacts, AppendGoesOn
<1>2. r.src # 0 => grants'[r.src].ops = grants[r.src].ops BY <1>1 DEF GoesOn
<1> QED BY <1>1, <1>2, TypeFacts DEF GrantsStep

LEMMA DelegateStep ==
  ASSUME AuthorityInv, NEW s \in DOMAIN sessions, NEW b \in Bots, NEW src \in sessions[s].gids,
         NEW perm \in sessions[s].gids, NEW ops \in AskedOps, NEW only \in BOOLEAN,
         NEW e \in Lifetimes \cup {grants[src].exp}, Delegate(s, b, src, perm, ops, only, e)
  PROVE  AuthorityInv'
<1> DEFINE r == Granted(b, sessions[s].prin, ops, e, src, perm, only)
<1>1. /\ src \in ActiveGrants(s) /\ ops \subseteq grants[src].ops /\ grants' = Append(grants, r)
      /\ UNCHANGED <<now, sessions, authority, passes, pairing, waiting, defined>>
  BY DEF Delegate
<1>2. s \in 1 .. MaxSessions BY TypeFacts
<1>3. src \in 1 .. Len(grants) /\ perm \in 1 .. Len(grants) /\ Reachable(src) /\ Reachable(perm)
  BY <1>2 DEF AuthorityInv, NamesGrants, UnclaimedUnused, Reachable
<1>4. src \in Nat /\ src # 0 /\ perm \in Nat /\ grants[src] \in Grant BY <1>3, TypeFacts
<1>5. sessions[s].prin = grants[src].prin BY <1>1 DEF ActiveGrants, ReferenceHolds
<1>6. e \in Nat BY <1>4, AuthorityAssumption DEF Grant, Forever
<1>7. r \in Grant
  <2>1. sessions[s].prin \in Principals BY <1>4, <1>5 DEF Grant
  <2>2. ops \in SUBSET AllOps BY DEF AskedOps, AllOps
  <2> QED BY <1>4, <1>6, <2>1, <2>2 DEF Granted, Grant, Principals
<1>8. r.src = src /\ r.perm = perm /\ r.ops = ops BY DEF Granted
<1> HIDE DEF r
<1>9. GoesOn(grants, grants', {}) /\ GrantsStep({})
  BY <1>1, <1>3, <1>4, <1>7, <1>8, GrantAdded
<1>10. PassesStep /\ WaitingStep /\ DefinedStep /\ RootsStep /\ SessionsStep
  BY <1>1, <1>9, TypeFacts, PassesStay, WaitingStays, DefinedStays, RootsStay, SessionsStay
<1>11. now' \in Nat /\ now <= now' BY <1>1, TypeFacts
<1>12. PassesHeld' /\ WaitingHeld' BY <1>1, <1>9, <1>10, <1>11, HeldStays DEF WaitingHeld
<1>13. PeopleHeld' BY <1>1, <1>11, PeopleStay
<1>14. /\ AuthorityTypeOK' /\ Ordered(grants') /\ Narrowed' /\ RootsOK' /\ NamesGrants'
       /\ PassesOK' /\ UnclaimedUnused' /\ (pairing' = "approved" => Len(passes') # 0)
  BY <1>1, <1>9, <1>10, <1>11, ShapeKept
<1> QED BY <1>12, <1>13, <1>14 DEF AuthorityInv

LEMMA WithdrawStep ==
  ASSUME AuthorityInv, NEW s, NEW g, Withdraw(s, g)
  PROVE  AuthorityInv'
<1>1. Revoke({g}, {}, {}) /\ UNCHANGED <<now, authority, pairing, defined>> BY DEF Withdraw
<1>2. authority' \in [People -> [st : {"none", "active", "revoked"}, root : Nat]] BY <1>1, TypeFacts
<1>3. {} \in SUBSET (1 .. Len(passes)) OBVIOUS
<1> QED BY <1>1, <1>2, <1>3, RevokeOnly

LEMMA DefineStep ==
  ASSUME AuthorityInv, NEW b \in Bots, NEW g \in GrantIds, Define(b, g)
  PROVE  AuthorityInv'
<1>1. /\ grants[g].prin = b /\ defined' = [defined EXCEPT ![b] = @ \cup {g}]
      /\ UNCHANGED <<now, grants, sessions, authority, passes, pairing, waiting>>
  BY DEF Define
<1>2. now' \in Nat /\ now <= now' /\ g \in 1 .. Len(grants) /\ g \in Nat BY <1>1, TypeFacts
<1>3. DefinedStep
  <2>1. \A c \in Bots : \A h \in defined[c] : h \in 1 .. Len(grants) /\ grants[h].prin = c
    BY DEF AuthorityInv, NamesGrants
  <2>2. defined' \in [Bots -> SUBSET Nat] BY <1>1, <1>2, TypeFacts
  <2>3. \A c \in Bots : defined'[c] = IF c = b THEN defined[c] \cup {g} ELSE defined[c]
    BY <1>1, TypeFacts
  <2> QED BY <1>1, <1>2, <2>1, <2>2, <2>3 DEF DefinedStep
<1>4. GoesOn(grants, grants', {}) /\ GrantsStep({}) BY <1>1, GrantsStay DEF GrantsStep
<1>5. PassesStep /\ WaitingStep /\ RootsStep /\ SessionsStep
  BY <1>1, <1>4, TypeFacts, PassesStay, WaitingStays, RootsStay, SessionsStay
<1>6. PassesHeld' /\ WaitingHeld' BY <1>1, <1>2, <1>4, <1>5, HeldStays DEF WaitingHeld
<1>7. PeopleHeld' BY <1>1, <1>2, PeopleStay
<1>8. /\ AuthorityTypeOK' /\ Ordered(grants') /\ Narrowed' /\ RootsOK' /\ NamesGrants'
      /\ PassesOK' /\ UnclaimedUnused' /\ (pairing' = "approved" => Len(passes') # 0)
  BY <1>1, <1>2, <1>3, <1>4, <1>5, ShapeKept
<1> QED BY <1>6, <1>7, <1>8 DEF AuthorityInv

LEMMA AdoptStep ==
  ASSUME AuthorityInv, NEW p \in People, NEW b \in Bots, Adopt(p, b)
  PROVE  AuthorityInv'
<1> DEFINE moved == Movable(b)
           ops == IF moved # {} THEN UNION {grants[g].ops : g \in moved} ELSE {"use"}
           kept == ops \cap grants[Root(p)].ops
           r == Granted(b, p, kept, Forever, Root(p), Root(p), FALSE)
           G == Append(grants, r)
<1>1. /\ Active(p) /\ grants' = Mark(G, moved)
      /\ defined' = [defined EXCEPT ![b] = (@ \ moved) \cup {Len(grants) + 1}]
      /\ waiting' = {w \in waiting : w \cap Dep(grants, moved) = {}}
      /\ UNCHANGED <<now, sessions, authority, passes, pairing>>
  BY DepIs DEF Adopt
<1>2. /\ Root(p) \in 1 .. Len(grants) /\ Root(p) \in Nat /\ Root(p) # 0
      /\ grants[Root(p)].src = 0 /\ grants[Root(p)].issuer # "floe" /\ Reachable(Root(p))
  BY <1>1, RootFacts
<1>3. grants[Root(p)] \in Grant BY <1>2, TypeFacts
<1> HIDE DEF ops
<1>4. r \in Grant /\ r.src = Root(p) /\ r.perm = Root(p) /\ r.ops = kept /\ r.prin = b
  BY <1>2, <1>3, AuthorityAssumption DEF Granted, Grant, Principals, Forever
<1>5. kept \subseteq grants[Root(p)].ops OBVIOUS
<1> HIDE DEF r, kept
<1>6. /\ moved \subseteq defined[b]
      /\ \A g \in moved : /\ g \in 1 .. Len(grants) /\ grants[g].src = 0 /\ grants[g].issuer = "floe"
  <2>1. moved \subseteq defined[b] /\ \A g \in moved : grants[g].src = 0 /\ grants[g].issuer = "floe"
    BY DEF Movable
  <2>2. \A g \in defined[b] : g \in 1 .. Len(grants) BY DEF AuthorityInv, NamesGrants
  <2> QED BY <2>1, <2>2
<1> HIDE DEF moved
<1>7. /\ GoesOn(grants, G, {}) /\ Len(G) = Len(grants) + 1 /\ G[Len(grants) + 1] = r
  BY <1>2, <1>4, TypeFacts, AppendGoesOn
<1> HIDE DEF G
<1>8. GoesOn(G, grants', moved) /\ Len(grants') = Len(grants) + 1
  BY <1>1, <1>7, MarkGoesOn DEF GoesOn
<1>9. GoesOn(grants, grants', moved)
  <2>1. GoesOn(grants, grants', {} \cup moved) BY <1>7, <1>8, GoesOnTwice
  <2>2. {} \cup moved = moved OBVIOUS
  <2> QED BY <2>1, <2>2
<1>10. LET x == grants'[Len(grants) + 1]
       IN  x.src = Root(p) /\ x.perm = Root(p) /\ x.ops = kept /\ x.prin = b
  <2>1. Len(grants) + 1 \in 1 .. Len(G) BY <1>7, TypeFacts
  <2> QED BY <1>4, <1>7, <1>8, <2>1 DEF GoesOn
<1>11. grants'[Root(p)].ops = grants[Root(p)].ops BY <1>2, <1>9 DEF GoesOn
<1>12. GrantsStep(moved)
  <2>1. \A i \in (Len(grants) + 1) .. Len(grants') : i = Len(grants) + 1 BY <1>8, TypeFacts
  <2> QED BY <1>2, <1>5, <1>9, <1>10, <1>11, <2>1 DEF GrantsStep
<1>13. PassesStep /\ WaitingStep /\ RootsStep /\ SessionsStep
  BY <1>1, <1>9, TypeFacts, PassesStay, WaitingStays, RootsStay, SessionsStay
<1>14. DefinedStep
  <2>1. \A c \in Bots : \A h \in defined[c] : h \in 1 .. Len(grants) /\ grants[h].prin = c
    BY DEF AuthorityInv, NamesGrants
  <2>2. \A h \in 1 .. Len(grants) : h \in 1 .. Len(grants') /\ grants'[h].prin = grants[h].prin
    BY <1>8, <1>9, TypeFacts DEF GoesOn
  <2>3. Len(grants) + 1 \in 1 .. Len(grants') /\ Len(grants) + 1 \in Nat BY <1>8, TypeFacts
  <2>4. \A c \in Bots : defined'[c] = IF c = b THEN (defined[c] \ moved) \cup {Len(grants) + 1} ELSE defined[c]
    BY <1>1, TypeFacts
  <2>5. defined' \in [Bots -> SUBSET Nat] BY <1>1, <2>3, TypeFacts
  <2>6. ASSUME NEW c \in Bots, NEW g \in defined'[c] PROVE g \in 1 .. Len(grants') /\ grants'[g].prin = c
    <3>1. CASE g \in defined[c] BY <2>1, <2>2, <3>1
    <3>2. CASE c = b /\ g = Len(grants) + 1 BY <1>10, <2>3, <3>2
    <3> QED BY <2>4, <3>1, <3>2
  <2> QED BY <2>5, <2>6 DEF DefinedStep
<1>15. now' \in Nat /\ now <= now' /\ now' = now BY <1>1, TypeFacts
<1>16. PassesHeld'
  <2> DEFINE P == {}
  <2>1. P \in SUBSET (1 .. Len(passes)) /\ moved = moved \cup {passes[i].grant : i \in P} OBVIOUS
  <2>2. \A i \in 1 .. Len(passes) :
          /\ passes'[i].grant = passes[i].grant
          /\ passes'[i].st = IF i \in P THEN "revoked" ELSE passes[i].st
    BY <1>1
  <2>3. \A s \in 1 .. MaxSessions :
          (sessions'[s] = sessions[s] /\ sessions[s].pass \notin P) \/ sessions'[s] = NoSession
    BY <1>1
  <2>4. \A i \in 1 .. Len(passes) : passes[i].st = "active" /\ i \notin P =>
          passes[i].grant \notin moved /\ grants[passes[i].grant].src \notin moved
    BY <1>6 DEF AuthorityInv, PassesOK, PassGrant
  <2>5. Len(passes') = Len(passes) BY <1>1
  <2> HIDE DEF P
  <2> QED BY <1>9, <1>15, <2>1, <2>2, <2>3, <2>4, <2>5, MarkedHeld
<1>17. WaitingHeld'
  <2> SUFFICES ASSUME NEW w \in waiting', NEW g \in w PROVE Clean(grants', g) BY DEF WaitingHeld
  <2>1. w \in waiting /\ g \notin Dep(grants, moved) BY <1>1
  <2>2. g \in 1 .. Len(grants) /\ Clean(grants, g) BY <2>1 DEF AuthorityInv, NamesGrants, WaitingHeld
  <2> QED BY <1>9, <2>1, <2>2, CleanKept
<1>18. PeopleHeld' BY <1>1, <1>15, PeopleStay
<1>19. /\ AuthorityTypeOK' /\ Ordered(grants') /\ Narrowed' /\ RootsOK' /\ NamesGrants'
       /\ PassesOK' /\ UnclaimedUnused' /\ (pairing' = "approved" => Len(passes') # 0)
  BY <1>1, <1>12, <1>13, <1>14, <1>15, ShapeKept
<1> QED BY <1>16, <1>17, <1>18, <1>19 DEF AuthorityInv

LEMMA StartTurnStep ==
  ASSUME AuthorityInv, NEW b \in Bots, StartTurn(b)
  PROVE  AuthorityInv'
<1> DEFINE live == {g \in defined[b] : ReferenceHolds(g, b) /\ DelegationIsActive(g)}
           r == Session(b, live, now + 1, 0, "none")
<1>1. /\ FreeSlots # {} /\ sessions' = Opened(r)
      /\ UNCHANGED <<now, grants, authority, passes, pairing, waiting, defined>>
  BY DEF StartTurn
<1>2. \A g \in live : g \in Nat /\ g \in 1 .. Len(grants) /\ grants[g].prin = b
  BY TypeFacts DEF AuthorityInv, NamesGrants
<1> HIDE DEF live
<1>3. r \in SessionRecord /\ r.gids = live /\ r.pass = 0 /\ r.person = "none"
  BY <1>2, TypeFacts DEF Session, SessionRecord, Principals
<1> HIDE DEF r
<1>4. /\ sessions' \in [1 .. MaxSessions -> SessionRecord]
      /\ \A s \in 1 .. MaxSessions : sessions'[s] = sessions[s] \/ sessions'[s] = r
  BY <1>1, <1>3, OpenedIs
<1>5. \A g \in live : Reachable(g)
  <2>1. \A k \in 1 .. Len(passes) : grants[passes[k].grant].prin \in People
    BY DEF AuthorityInv, PassesOK, PassGrant
  <2> QED BY <1>2, <2>1, AuthorityAssumption DEF Reachable
<1>6. SessionsStep
  <2>1. \A s \in 1 .. MaxSessions : \A g \in sessions[s].gids : g \in 1 .. Len(grants) /\ Reachable(g)
    BY DEF AuthorityInv, NamesGrants, UnclaimedUnused, Reachable
  <2> QED BY <1>2, <1>3, <1>4, <1>5, <2>1 DEF SessionsStep
<1>7. now' \in Nat /\ now <= now' BY <1>1, TypeFacts
<1> QED BY <1>1, <1>3, <1>4, <1>6, <1>7, QuietStep

LEMMA AskApprovalStep ==
  ASSUME AuthorityInv, NEW s \in DOMAIN sessions, AskApproval(s)
  PROVE  AuthorityInv'
<1> DEFINE new == ApplicableGrants(s)
<1>1. /\ waiting' = waiting \cup {new}
      /\ UNCHANGED <<now, grants, sessions, authority, passes, pairing, defined>>
  BY DEF AskApproval
<1>2. s \in 1 .. MaxSessions BY TypeFacts
<1>3. \A g \in new : /\ g \in 1 .. Len(grants) /\ Reachable(g)
                     /\ ReferenceHolds(g, sessions[s].prin) /\ DelegationIsActive(g)
  BY <1>2 DEF AuthorityInv, NamesGrants, UnclaimedUnused, Reachable, ApplicableGrants, ActiveGrants
<1>4. \A g \in new : Clean(grants, g)
  BY <1>3, ActiveClean DEF AuthorityInv, Clean
<1> HIDE DEF new
<1>5. now' \in Nat /\ now <= now' BY <1>1, TypeFacts
<1>6. GoesOn(grants, grants', {}) /\ GrantsStep({}) BY <1>1, GrantsStay DEF GrantsStep
<1>7. PassesStep /\ DefinedStep /\ RootsStep /\ SessionsStep
  BY <1>1, <1>6, TypeFacts, PassesStay, DefinedStays, RootsStay, SessionsStay
<1>8. WaitingStep
  <2>1. \A w \in waiting : \A g \in w : g \in 1 .. Len(grants) /\ Reachable(g)
    BY DEF AuthorityInv, NamesGrants, UnclaimedUnused, Reachable
  <2> QED BY <1>1, <1>3, <2>1 DEF WaitingStep
<1>9. PassesHeld' /\ \A w \in waiting : \A g \in w : Clean(grants', g)
  BY <1>1, <1>5, <1>6, <1>7, HeldStays
<1>10. WaitingHeld' BY <1>1, <1>4, <1>9 DEF WaitingHeld
<1>11. PeopleHeld' BY <1>1, <1>5, PeopleStay
<1>12. /\ AuthorityTypeOK' /\ Ordered(grants') /\ Narrowed' /\ RootsOK' /\ NamesGrants'
       /\ PassesOK' /\ UnclaimedUnused' /\ (pairing' = "approved" => Len(passes') # 0)
  BY <1>1, <1>5, <1>6, <1>7, <1>8, ShapeKept
<1> QED BY <1>9, <1>10, <1>11, <1>12 DEF AuthorityInv

LEMMA ApproveStep ==
  ASSUME AuthorityInv, NEW p \in People, NEW ops \in AskedOps, NEW e \in Lifetimes, Approve(p, ops, e)
  PROVE  AuthorityInv'
<1> DEFINE r == Granted(p, p, ops, e, Root(p), Root(p), FALSE)
           x == [grant |-> Len(grants) + 1, by |-> p, st |-> "active", claimed |-> FALSE, ses |-> 0]
           n == Len(passes)
<1>1. /\ Active(p) /\ IsActiveGrant(Root(p)) /\ ops \subseteq grants[Root(p)].ops
      /\ grants' = Append(grants, r) /\ passes' = Append(passes, x)
      /\ UNCHANGED <<now, sessions, authority, waiting, defined>>
  BY DEF Approve
<1>2. /\ Root(p) \in 1 .. Len(grants) /\ Root(p) \in Nat /\ Root(p) # 0
      /\ grants[Root(p)].src = 0 /\ grants[Root(p)].issuer # "floe" /\ Reachable(Root(p))
  BY <1>1, RootFacts
<1>3. /\ r \in Grant /\ r.src = Root(p) /\ r.perm = Root(p) /\ r.ops = ops /\ r.prin = p
      /\ r.issuer # "floe" /\ ~r.revoked
  BY <1>2, AuthorityAssumption DEF Granted, Grant, Principals, Forever, AskedOps, AllOps
<1>4. x \in PassRecord /\ x.grant = Len(grants) + 1 /\ x.st = "active" BY TypeFacts DEF PassRecord
<1> HIDE DEF r, x
<1>5. /\ GoesOn(grants, grants', {}) /\ Len(grants') = Len(grants) + 1
      /\ grants'[Len(grants) + 1] = r /\ GrantsStep({})
  BY <1>1, <1>2, <1>3, GrantAdded
<1>6. /\ n \in Nat /\ passes' \in Seq(PassRecord) /\ Len(passes') = n + 1
      /\ \A i \in 1 .. n : passes'[i] = passes[i]
      /\ passes'[n + 1] = x
  BY <1>1, <1>4, TypeFacts, AppendProperties
<1>7. grants'[Root(p)].src = 0 /\ grants'[Root(p)].issuer # "floe" BY <1>2, <1>5 DEF GoesOn
<1>8. PassGrant(grants', Len(grants) + 1)
  <2>1. Len(grants) + 1 \in 1 .. Len(grants') BY <1>5, TypeFacts
  <2> QED BY <1>2, <1>3, <1>5, <1>7, <2>1 DEF PassGrant
<1>9. PassesGrow BY <1>4, <1>5, <1>6, <1>8 DEF PassesGrow
<1>10. WaitingStep /\ RootsStep /\ SessionsStep /\ DefinedStep
  BY <1>1, <1>5, TypeFacts, WaitingStays, RootsStay, SessionsStay, DefinedStays
<1>11. now' \in Nat /\ now <= now' BY <1>1, TypeFacts
<1>12. /\ AuthorityTypeOK' /\ Ordered(grants') /\ Narrowed' /\ RootsOK' /\ NamesGrants'
       /\ PassesOK' /\ UnclaimedUnused' /\ (pairing' = "approved" => Len(passes') # 0)
  BY <1>5, <1>9, <1>10, <1>11, ShapeKept
<1>13. PeopleHeld' BY <1>1, <1>11, PeopleStay
<1>14. ASSUME NEW g \in 1 .. Len(grants), Clean(grants, g) PROVE Clean(grants', g)
  <2>1. ASSUME NEW a \in 1 .. Len(grants'), g \in Dep(grants', {a}) PROVE ~grants'[a].revoked
    <3>1. g \in 1 .. Len(grants') BY <1>5, TypeFacts
    <3>2. a <= g BY <2>1, <1>5, DepIsOlder DEF GoesOn
    <3>3. a \in 1 .. Len(grants) BY <1>5, <3>2, TypeFacts
    <3>4. g \in Dep(grants, {a}) BY <1>5, <2>1, DepStays
    <3> QED BY <1>5, <1>14, <3>3, <3>4 DEF Clean, GoesOn
  <2> QED BY <2>1 DEF Clean
<1>15. Clean(grants', Len(grants) + 1)
  <2> DEFINE g == Len(grants) + 1
  <2>1. grants' \in Seq(Grant) /\ Ordered(grants') /\ g \in 1 .. Len(grants') BY <1>5, TypeFacts DEF GoesOn
  <2>2. ASSUME NEW a \in 1 .. Len(grants'), g \in Dep(grants', {a}) PROVE ~grants'[a].revoked
    <3>1. g \in {a} \/ (grants'[g].src # 0 /\ (grants'[g].src \in Dep(grants', {a}) \/ grants'[g].perm \in Dep(grants', {a})))
      BY <2>1, <2>2, DepUnfolds
    <3>2. CASE g = a BY <1>3, <1>5, <3>2
    <3>3. CASE Root(p) \in Dep(grants', {a})
      <4>1. Root(p) \in 1 .. Len(grants') BY <1>2, <1>5, TypeFacts
      <4>2. Root(p) = a BY <1>7, <2>1, <3>3, <4>1, DepUnfolds
      <4>3. ~grants[Root(p)].revoked BY <1>1 DEF IsActiveGrant, ReferenceHolds
      <4> QED BY <1>2, <1>5, <4>2, <4>3 DEF GoesOn
    <3> QED BY <1>3, <1>5, <3>1, <3>2, <3>3
  <2> QED BY <2>2 DEF Clean
<1>16. PassesHeld'
  <2>1. \A i \in 1 .. n : passes[i].grant \in 1 .. Len(grants) BY DEF AuthorityInv, PassesOK, PassGrant
  <2>2. ASSUME NEW i \in 1 .. n
        PROVE  /\ passes'[i].st = "active" => Clean(grants', passes'[i].grant)
               /\ passes'[i].st = "revoked" =>
                    /\ grants'[passes'[i].grant].revoked
                    /\ \A s \in 1 .. MaxSessions : sessions'[s].exp > now' => sessions'[s].pass # i
    <3>1. /\ passes[i].st = "active" => Clean(grants, passes[i].grant)
          /\ passes[i].st = "revoked" =>
               /\ grants[passes[i].grant].revoked
               /\ \A s \in 1 .. MaxSessions : sessions[s].exp > now => sessions[s].pass # i
      BY DEF AuthorityInv, PassesHeld
    <3>2. grants[passes[i].grant].revoked => grants'[passes[i].grant].revoked BY <1>5, <2>1 DEF GoesOn
    <3>3. passes'[i] = passes[i] BY <1>6
    <3> QED BY <1>1, <1>14, <2>1, <3>1, <3>2, <3>3
  <2>3. \A i \in 1 .. Len(passes') : i \in 1 .. n \/ i = n + 1 BY <1>6
  <2> QED BY <1>4, <1>6, <1>15, <2>2, <2>3 DEF PassesHeld
<1>17. WaitingHeld' BY <1>1, <1>14 DEF AuthorityInv, WaitingHeld, NamesGrants
<1> QED BY <1>12, <1>13, <1>16, <1>17 DEF AuthorityInv

(* The passes change and no grant, session or state of one does. *)
LEMMA ClaimStep ==
  ASSUME AuthorityInv, Claim
  PROVE  AuthorityInv'
<1>1. /\ pairing' = "none" /\ passes' = [passes EXCEPT ![Len(passes)].claimed = TRUE]
      /\ UNCHANGED <<now, grants, sessions, authority, waiting, defined>>
  BY DEF Claim
<1>2. /\ PassesStep /\ \A i \in 1 .. Len(passes) : passes'[i].st = passes[i].st
  <2>1. passes \in [1 .. Len(passes) -> PassRecord] /\ Len(passes) \in Nat BY TypeFacts
  <2>2. ASSUME NEW i \in 1 .. Len(passes)
        PROVE  /\ passes'[i] \in PassRecord /\ passes'[i].grant = passes[i].grant
               /\ passes'[i].st = passes[i].st /\ (passes[i].claimed => passes'[i].claimed)
    <3>1. passes'[i] = IF i = Len(passes) THEN [passes[i] EXCEPT !.claimed = TRUE] ELSE passes[i]
      BY <1>1, <2>1
    <3>2. passes[i] \in PassRecord BY <2>1
    <3> QED BY <3>1, <3>2 DEF PassRecord
  <2>3. passes' \in [1 .. Len(passes) -> PassRecord]
    <3>1. DOMAIN passes' = 1 .. Len(passes) /\ passes' = [i \in DOMAIN passes' |-> passes'[i]]
      BY <1>1, <2>1
    <3> QED BY <2>2, <3>1
  <2>4. passes' \in Seq(PassRecord) /\ Len(passes') = Len(passes) BY <2>1, <2>3, SameLength
  <2> QED BY <2>2, <2>4 DEF PassesStep
<1>3. GoesOn(grants, grants', {}) /\ GrantsStep({}) BY <1>1, GrantsStay DEF GrantsStep
<1>4. WaitingStep /\ RootsStep /\ SessionsStep /\ DefinedStep
  BY <1>1, <1>3, TypeFacts, WaitingStays, RootsStay, SessionsStay, DefinedStays
<1>5. now' \in Nat /\ now <= now' BY <1>1, TypeFacts
<1>6. PassesHeld' /\ WaitingHeld' BY <1>1, <1>2, <1>3, <1>5, HeldStays DEF WaitingHeld
<1>7. PeopleHeld' BY <1>1, <1>5, PeopleStay
<1>8. pairing' # "approved" BY <1>1
<1>9. /\ AuthorityTypeOK' /\ Ordered(grants') /\ Narrowed' /\ RootsOK' /\ NamesGrants'
      /\ PassesOK' /\ UnclaimedUnused' /\ (pairing' = "approved" => Len(passes') # 0)
  BY <1>2, <1>3, <1>4, <1>5, <1>8, ShapeKept
<1> QED BY <1>6, <1>7, <1>9 DEF AuthorityInv

LEMMA EndPassStep ==
  ASSUME AuthorityInv, NEW i \in 1 .. Len(passes), Revoke({}, {}, {i}),
         UNCHANGED <<now, authority, defined>>, pairing' = pairing \/ pairing' # "approved"
  PROVE  AuthorityInv'
<1>1. authority' \in [People -> [st : {"none", "active", "revoked"}, root : Nat]] BY TypeFacts
<1>2. {i} \in SUBSET (1 .. Len(passes)) OBVIOUS
<1> QED BY <1>1, <1>2, RevokeOnly

LEMMA UsePassStep ==
  ASSUME AuthorityInv, NEW i \in DOMAIN passes, UsePass(i)
  PROVE  AuthorityInv'
<1> DEFINE g == passes[i].grant
           ends == EffectiveExpiry(g)
           r == Session(passes[i].by, {g}, IF ends < now + 1 THEN ends ELSE now + 1, i, "none")
           z == CHOOSE s \in FreeSlots : \A t \in FreeSlots : s <= t
<1>1. /\ passes[i].st = "active" /\ passes[i].claimed
      /\ UNCHANGED <<now, authority, pairing, defined>>
      /\ i \in 1 .. Len(passes) /\ i \in Nat /\ passes[i] \in PassRecord
  BY TypeFacts DEF UsePass
<1>2. CASE ~IsActiveGrant(g)
  <2>1. Revoke({}, {}, {i}) BY <1>2 DEF UsePass
  <2> QED BY <1>1, <2>1, EndPassStep
<1>3. CASE IsActiveGrant(g)
  <2>1. /\ passes[i].ses = 0 => FreeSlots # {}
        /\ sessions' = IF passes[i].ses = 0 THEN Opened(r) ELSE [sessions EXCEPT ![passes[i].ses] = r]
        /\ passes' = IF passes[i].ses # 0 THEN passes ELSE [passes EXCEPT ![i].ses = z]
        /\ UNCHANGED <<grants, waiting>>
    BY <1>3 DEF UsePass
  <2>2. g \in 1 .. Len(grants) /\ g \in Nat BY <1>1, TypeFacts DEF AuthorityInv, PassesOK, PassGrant
  <2>3. ends \in Nat BY <2>2, ExpiryIsNat DEF AuthorityInv
  <2> HIDE DEF ends
  <2>4. r \in SessionRecord /\ r.gids = {g} /\ r.pass = i /\ r.person = "none"
    BY <1>1, <2>2, <2>3, TypeFacts DEF Session, SessionRecord, Principals, PassRecord
  <2> HIDE DEF r
  <2>5. Reachable(g) BY <1>1 DEF AuthorityInv, PassesOK, Reachable
  <2>6. /\ sessions' \in [1 .. MaxSessions -> SessionRecord]
        /\ \A s \in 1 .. MaxSessions : sessions'[s] = sessions[s] \/ sessions'[s] = r
    <3>1. CASE passes[i].ses = 0 BY <2>1, <2>4, <3>1, OpenedIs
    <3>2. CASE passes[i].ses # 0
      <4>1. sessions' = [sessions EXCEPT ![passes[i].ses] = r] BY <2>1, <3>2
      <4>2. sessions \in [1 .. MaxSessions -> SessionRecord] BY TypeFacts
      <4> QED BY <2>4, <4>1, <4>2
    <3> QED BY <3>1, <3>2
  <2>7. SessionsStep
    <3>1. \A s \in 1 .. MaxSessions : \A h \in sessions[s].gids : h \in 1 .. Len(grants) /\ Reachable(h)
      BY DEF AuthorityInv, NamesGrants, UnclaimedUnused, Reachable
    <3> QED BY <2>2, <2>4, <2>5, <2>6, <3>1 DEF SessionsStep
  <2>8. PassesStep /\ \A k \in 1 .. Len(passes) : passes'[k].st = passes[k].st
    <3>1. CASE passes[i].ses # 0 BY <2>1, <3>1, PassesStay
    <3>2. CASE passes[i].ses = 0
      <4>1. z \in Nat BY <2>1, <2>4, <3>2, OpenedIs
      <4>2. passes' = [passes EXCEPT ![i].ses = z] BY <2>1, <3>2
      <4> HIDE DEF z
      <4>3. passes \in [1 .. Len(passes) -> PassRecord] /\ Len(passes) \in Nat BY TypeFacts
      <4>4. ASSUME NEW k \in 1 .. Len(passes)
            PROVE  /\ passes'[k] \in PassRecord /\ passes'[k].grant = passes[k].grant
                   /\ passes'[k].st = passes[k].st /\ (passes[k].claimed => passes'[k].claimed)
        <5>1. passes'[k] = IF k = i THEN [passes[k] EXCEPT !.ses = z] ELSE passes[k] BY <4>2, <4>3
        <5>2. passes[k] \in PassRecord BY <4>3
        <5> QED BY <4>1, <5>1, <5>2 DEF PassRecord
      <4>5. passes' \in [1 .. Len(passes) -> PassRecord]
        <5>1. DOMAIN passes' = 1 .. Len(passes) /\ passes' = [k \in DOMAIN passes' |-> passes'[k]]
          BY <4>2, <4>3
        <5> QED BY <4>4, <5>1
      <4>6. passes' \in Seq(PassRecord) /\ Len(passes') = Len(passes) BY <4>3, <4>5, SameLength
      <4> QED BY <4>4, <4>6 DEF PassesStep
    <3> QED BY <3>1, <3>2
  <2>9. GoesOn(grants, grants', {}) /\ GrantsStep({}) BY <2>1, GrantsStay DEF GrantsStep
  <2>10. WaitingStep /\ RootsStep /\ DefinedStep
    BY <1>1, <2>1, <2>9, TypeFacts, WaitingStays, RootsStay, DefinedStays
  <2>11. now' \in Nat /\ now <= now' /\ pairing' = pairing BY <1>1, TypeFacts
  <2>12. PassesHeld' /\ WaitingHeld'
    <3>1. \A s \in 1 .. MaxSessions : \/ sessions'[s] = sessions[s]
                                      \/ /\ sessions'[s].pass \in 1 .. Len(passes)
                                         /\ passes[sessions'[s].pass].st = "active"
      BY <1>1, <2>4, <2>6
    <3> QED BY <2>1, <2>8, <2>9, <2>11, <3>1, HeldStays DEF WaitingHeld
  <2>13. PeopleHeld'
    <3>1. \A s \in 1 .. MaxSessions : sessions'[s] = sessions[s] \/ sessions'[s].person = "none"
      BY <2>4, <2>6
    <3> QED BY <1>1, <2>11, <3>1, PeopleStay
  <2>14. /\ AuthorityTypeOK' /\ Ordered(grants') /\ Narrowed' /\ RootsOK' /\ NamesGrants'
         /\ PassesOK' /\ UnclaimedUnused' /\ (pairing' = "approved" => Len(passes') # 0)
    BY <2>7, <2>8, <2>9, <2>10, <2>11, ShapeKept
  <2> QED BY <2>12, <2>13, <2>14 DEF AuthorityInv
<1> QED BY <1>2, <1>3

LEMMA PruneStep ==
  ASSUME AuthorityInv, Prune
  PROVE  AuthorityInv'
<1>1. /\ pairing' # "approved" /\ UNCHANGED <<now, authority, defined>> BY DEF Prune
<1>2. CASE pairing = "approved" /\ passes[Len(passes)].st = "active"
  <2>1. Revoke({}, {}, {Len(passes)}) BY <1>2 DEF Prune
  <2>2. Len(passes) \in 1 .. Len(passes) BY <1>2, TypeFacts DEF AuthorityInv
  <2> QED BY <1>1, <2>1, <2>2, EndPassStep
<1>3. CASE ~(pairing = "approved" /\ passes[Len(passes)].st = "active")
  <2>1. UNCHANGED <<grants, sessions, passes, waiting>> BY <1>3 DEF Prune
  <2>2. SessionsStep BY <2>1, TypeFacts, SessionsStay
  <2>3. now' \in Nat /\ now <= now' BY <1>1, TypeFacts
  <2> QED BY <1>1, <2>1, <2>2, <2>3, QuietStep
<1> QED BY <1>2, <1>3

LEMMA RestartStep ==
  ASSUME AuthorityInv, Restart
  PROVE  AuthorityInv'
<1> DEFINE P == {i \in DOMAIN passes : passes[i].st = "active" /\ ~passes[i].claimed}
           kept == [i \in DOMAIN passes |-> [passes[i] EXCEPT !.ses = 0]]
           M == {passes[i].grant : i \in P}
<1>1. /\ pairing' = "none" /\ grants' = Mark(grants, M)
      /\ passes' = [i \in DOMAIN passes |-> IF i \in P THEN [kept[i] EXCEPT !.st = "revoked"] ELSE kept[i]]
      /\ sessions' = EndSessions({}, P)
      /\ UNCHANGED <<now, authority, waiting, defined>>
  BY DEF Restart
<1>2. P \in SUBSET (1 .. Len(passes)) /\ \A i \in P : ~passes[i].claimed BY TypeFacts
<1>3. /\ \A i \in 1 .. Len(passes) : kept[i] = [passes[i] EXCEPT !.ses = 0]
  BY TypeFacts
<1>4. ASSUME NEW i \in 1 .. Len(passes)
      PROVE  /\ passes'[i] \in PassRecord /\ passes'[i].grant = passes[i].grant
             /\ passes'[i].st = (IF i \in P THEN "revoked" ELSE passes[i].st)
             /\ passes'[i].claimed = passes[i].claimed
  <2>1. /\ kept[i] \in PassRecord /\ kept[i].grant = passes[i].grant /\ kept[i].st = passes[i].st
        /\ kept[i].claimed = passes[i].claimed
    <3>1. passes[i] \in PassRecord BY TypeFacts
    <3> QED BY <1>3, <3>1 DEF PassRecord
  <2>2. passes'[i] = IF i \in P THEN [kept[i] EXCEPT !.st = "revoked"] ELSE kept[i] BY <1>1, TypeFacts
  <2> HIDE DEF kept, P
  <2> QED BY <2>1, <2>2 DEF PassRecord
<1>5. DOMAIN passes' = 1 .. Len(passes) /\ passes' = [i \in DOMAIN passes' |-> passes'[i]] BY <1>1, TypeFacts
<1> HIDE DEF kept, P
<1>6. passes' \in [1 .. Len(passes) -> PassRecord] BY <1>4, <1>5
<1>7. passes' \in Seq(PassRecord) /\ Len(passes') = Len(passes) BY <1>6, TypeFacts, SameLength
<1>8. PassesStep BY <1>4, <1>7 DEF PassesStep
<1>9. GoesOn(grants, grants', M) /\ Len(grants') = Len(grants) BY <1>1, TypeFacts, MarkGoesOn
<1>10. GrantsStep(M) BY <1>9, TypeFacts DEF GrantsStep
<1>11. /\ sessions' \in [1 .. MaxSessions -> SessionRecord]
       /\ \A s \in 1 .. MaxSessions :
            sessions'[s] = IF s \in {} \/ sessions[s].pass \in P THEN NoSession ELSE sessions[s]
  BY <1>1, EndedSessions
<1>12. SessionsStep BY <1>11, SessionsStay
<1>13. WaitingStep /\ RootsStep /\ DefinedStep
  BY <1>1, <1>9, TypeFacts, WaitingStays, RootsStay, DefinedStays
<1>14. now' \in Nat /\ now <= now' /\ now' = now BY <1>1, TypeFacts
<1>15. PassesHeld'
  <2> DEFINE R == {}
  <2>1. M = R \cup {passes[i].grant : i \in P} OBVIOUS
  <2>2. \A s \in 1 .. MaxSessions :
          (sessions'[s] = sessions[s] /\ sessions[s].pass \notin P) \/ sessions'[s] = NoSession
    BY <1>11
  <2>3. \A i \in 1 .. Len(passes) : passes[i].st = "active" /\ i \notin P =>
          passes[i].grant \notin R /\ grants[passes[i].grant].src \notin R
    OBVIOUS
  <2>4. \A i \in 1 .. Len(passes) : /\ passes'[i].grant = passes[i].grant
                                    /\ passes'[i].st = IF i \in P THEN "revoked" ELSE passes[i].st
    BY <1>4
  <2> HIDE DEF R, M
  <2> QED BY <1>2, <1>7, <1>9, <1>14, <2>1, <2>2, <2>3, <2>4, MarkedHeld
<1>16. WaitingHeld'
  <2> SUFFICES ASSUME NEW w \in waiting, NEW g \in w PROVE Clean(grants', g) BY <1>1 DEF WaitingHeld
  <2>1. g \in 1 .. Len(grants) /\ Clean(grants, g) BY DEF AuthorityInv, NamesGrants, WaitingHeld
  <2>2. g \notin Dep(grants, M)
    <3> SUFFICES ASSUME g \in Dep(grants, M) PROVE FALSE OBVIOUS
    <3>1. PICK m \in M : g \in Dep(grants, {m}) BY <2>1, TypeFacts, DepOfSet
    <3>2. PICK i \in P : m = passes[i].grant OBVIOUS
    <3>3. /\ i \in 1 .. Len(passes) /\ ~passes[i].claimed BY <1>2
    <3>4. /\ \A j \in 1 .. Len(grants) : grants[j].src # m /\ grants[j].perm # m
          /\ g # m /\ m \in 1 .. Len(grants)
      BY <3>2, <3>3 DEF AuthorityInv, UnclaimedUnused, PassesOK, PassGrant
    <3>5. Dep(grants, {m}) = {m} BY <3>4, TypeFacts, UnusedAlone
    <3> QED BY <3>1, <3>4, <3>5
  <2> HIDE DEF M
  <2> QED BY <1>9, <2>1, <2>2, CleanKept
<1>17. PeopleHeld'
  <2>1. NoSession.person = "none" BY DEF NoSession
  <2>2. \A s \in 1 .. MaxSessions : sessions'[s] = sessions[s] \/ sessions'[s].person = "none"
    BY <1>11, <2>1
  <2> QED BY <1>1, <1>14, <2>2, PeopleStay
<1>18. pairing' # "approved" BY <1>1
<1>19. /\ AuthorityTypeOK' /\ Ordered(grants') /\ Narrowed' /\ RootsOK' /\ NamesGrants'
       /\ PassesOK' /\ UnclaimedUnused' /\ (pairing' = "approved" => Len(passes') # 0)
  <2> HIDE DEF M
  <2> QED BY <1>8, <1>10, <1>12, <1>13, <1>14, <1>18, ShapeKept
<1> QED BY <1>15, <1>16, <1>17, <1>19 DEF AuthorityInv

LEMMA IdleStep ==
  ASSUME AuthorityInv, UNCHANGED <<grants, sessions, authority, passes, waiting, defined>>,
         now' \in {now, now + 1}, pairing' = pairing \/ pairing' # "approved"
  PROVE  AuthorityInv'
<1>1. SessionsStep BY TypeFacts, SessionsStay
<1>2. now' \in Nat /\ now <= now' BY TypeFacts
<1> QED BY <1>1, <1>2, QuietStep

LEMMA AuthorityStep == AuthorityInv /\ [AuthorityNext]_authVars => AuthorityInv'
<1> SUFFICES ASSUME AuthorityInv, [AuthorityNext]_authVars PROVE AuthorityInv' OBVIOUS
<1>1. CASE PersonSteps
  <2>1. PICK p \in People :
          \/ \E e \in Lifetimes : Admit(p, e)
          \/ Authenticate(p) \/ RevokeIdentity(p) \/ EndMembership(p) \/ GiveUp(p)
          \/ \E ops \in AskedOps, e \in Lifetimes : Replace(p, ops, e) \/ Approve(p, ops, e)
          \/ \E b \in Bots : Adopt(p, b)
    BY <1>1 DEF PersonSteps
  <2>2. CASE \E e \in Lifetimes : Admit(p, e) BY <2>2, AdmitStep
  <2>3. CASE Authenticate(p) BY <2>3, AuthenticateStep
  <2>4. CASE RevokeIdentity(p) BY <2>4, StopStep DEF RevokeIdentity
  <2>5. CASE EndMembership(p) BY <2>5, StopStep DEF EndMembership
  <2>6. CASE GiveUp(p) BY <2>6, StopStep DEF GiveUp
  <2>7. CASE \E ops \in AskedOps, e \in Lifetimes : Replace(p, ops, e) \/ Approve(p, ops, e)
    BY <2>7, ReplaceStep, ApproveStep
  <2>8. CASE \E b \in Bots : Adopt(p, b) BY <2>8, AdoptStep
  <2> QED BY <2>1, <2>2, <2>3, <2>4, <2>5, <2>6, <2>7, <2>8
<1>2. CASE SessionSteps
  <2>1. PICK s \in DOMAIN sessions :
          \/ RevokeOneSession(s) \/ AskApproval(s)
          \/ \E g \in GrantIds : Withdraw(s, g)
          \/ \E b \in Bots, src, perm \in sessions[s].gids, ops \in AskedOps, only \in BOOLEAN :
               \E e \in Lifetimes \cup {grants[src].exp} : Delegate(s, b, src, perm, ops, only, e)
    BY <1>2 DEF SessionSteps
  <2>2. CASE RevokeOneSession(s) BY <2>2, RevokeSessionStep
  <2>3. CASE AskApproval(s) BY <2>3, AskApprovalStep
  <2>4. CASE \E g \in GrantIds : Withdraw(s, g) BY <2>4, WithdrawStep
  <2>5. CASE \E b \in Bots, src, perm \in sessions[s].gids, ops \in AskedOps, only \in BOOLEAN :
               \E e \in Lifetimes \cup {grants[src].exp} : Delegate(s, b, src, perm, ops, only, e)
    BY <2>5, DelegateStep
  <2> QED BY <2>1, <2>2, <2>3, <2>4, <2>5
<1>3. CASE \E b \in Bots : StartTurn(b) \/ (\E g \in GrantIds : Define(b, g))
  BY <1>3, StartTurnStep, DefineStep
<1>4. CASE \E i \in DOMAIN passes : UsePass(i) \/ EndPass(i)
  <2>1. PICK i \in DOMAIN passes : UsePass(i) \/ EndPass(i) BY <1>4
  <2>2. CASE UsePass(i) BY <2>2, UsePassStep
  <2>3. CASE EndPass(i)
    <3>1. /\ Revoke({}, {}, {i}) /\ UNCHANGED <<now, authority, defined>>
          /\ pairing' = pairing \/ pairing' # "approved"
      BY <2>3 DEF EndPass
    <3>2. i \in 1 .. Len(passes) BY TypeFacts
    <3> QED BY <3>1, <3>2, EndPassStep
  <2> QED BY <2>1, <2>2, <2>3
<1>5. CASE Pair BY <1>5, IdleStep DEF Pair
<1>6. CASE Claim BY <1>6, ClaimStep
<1>7. CASE Prune BY <1>7, PruneStep
<1>8. CASE Restart BY <1>8, RestartStep
<1>9. CASE TimePasses BY <1>9, IdleStep DEF TimePasses
<1>10. CASE UNCHANGED authVars BY <1>10, IdleStep DEF authVars
<1> QED
  BY <1>1, <1>2, <1>3, <1>4, <1>5, <1>6, <1>7, <1>8, <1>9, <1>10 DEF AuthorityNext

LEMMA AuthorityStarts == AuthorityInit => AuthorityInv
<1> SUFFICES ASSUME AuthorityInit PROVE AuthorityInv OBVIOUS
<1> DEFINE n == Cardinality(Bots)
           f == SetToSeq(Bots)
<1>1. n \in Nat /\ f \in [1 .. n -> Bots]
  <2>1. n \in Nat /\ ExistsBijection(1 .. n, Bots) BY AuthorityAssumption, FS_CardinalityType
  <2>2. PICK g \in [1 .. n -> Bots] : \A a, b \in 1 .. n : g[a] = g[b] => a = b
    BY <2>1 DEF ExistsBijection, Bijection, Injection, IsInjective
  <2>3. IsInjective(g) BY <2>2 DEF IsInjective
  <2>4. f \in [1 .. n -> Bots] BY <2>2, <2>3 DEF SetToSeq
  <2> QED BY <2>1, <2>4
<1>2. /\ now = 0 /\ sessions = [s \in 1 .. MaxSessions |-> NoSession] /\ passes = <<>>
      /\ pairing = "none" /\ waiting = {}
      /\ grants = [i \in 1 .. n |-> Granted(f[i], "floe", AllOps, 1, 0, 0, FALSE)]
      /\ defined = [b \in Bots |-> {i \in 1 .. n : f[i] = b}]
      /\ authority = [p \in People |-> [st |-> "none", root |-> 0]]
  BY DEF AuthorityInit
<1> HIDE DEF n, f
<1>3. \A i \in 1 .. n : /\ grants[i] \in Grant /\ grants[i].src = 0 /\ grants[i].perm = 0
                        /\ grants[i].prin = f[i]
  BY <1>1, <1>2 DEF Granted, Grant, Principals
<1>4. grants \in Seq(Grant) /\ Len(grants) = n
  <2>1. grants \in [1 .. n -> Grant] BY <1>2, <1>3
  <2> QED BY <1>1, <2>1, SameLength
<1>5. NoSession \in SessionRecord /\ NoSession.gids = {} /\ NoSession.exp = 0
  BY DEF NoSession, SessionRecord
<1>6. passes \in Seq(PassRecord) /\ Len(passes) = 0 BY <1>2, EmptySeq
<1>7. AuthorityTypeOK
  <2>1. defined \in [Bots -> SUBSET Nat] BY <1>1, <1>2
  <2>2. sessions \in [1 .. MaxSessions -> SessionRecord] BY <1>2, <1>5
  <2>3. authority \in [People -> [st : {"none", "active", "revoked"}, root : Nat]] BY <1>2
  <2> QED BY <1>2, <1>4, <1>6, <2>1, <2>2, <2>3 DEF AuthorityTypeOK
<1>8. Ordered(grants) /\ Narrowed BY <1>3, <1>4 DEF Ordered, Narrowed
<1>9. RootsOK BY <1>2 DEF RootsOK
<1>10. NamesGrants BY <1>1, <1>2, <1>3, <1>4, <1>5 DEF NamesGrants
<1>11. PassesOK /\ UnclaimedUnused /\ PassesHeld BY <1>6 DEF PassesOK, UnclaimedUnused, PassesHeld
<1>12. PeopleHeld BY <1>2, <1>5 DEF PeopleHeld
<1>13. WaitingHeld BY <1>2 DEF WaitingHeld
<1> QED BY <1>2, <1>7, <1>8, <1>9, <1>10, <1>11, <1>12, <1>13 DEF AuthorityInv

LEMMA HeldIsAccess == AuthorityInv => AccessIsHeld
<1> SUFFICES ASSUME AuthorityInv PROVE AccessIsHeld OBVIOUS
<1>1. \A g : RestsOn(g) = {a \in 1 .. Len(grants) : g \in Dep(grants, {a})}
  BY TypeFacts, DepIs DEF RestsOn
<1>2. \A g : Clean(grants, g) => \A a \in RestsOn(g) : ~grants[a].revoked BY <1>1 DEF Clean
<1>3. LiveSessions = {s \in 1 .. MaxSessions : sessions[s].exp > now}
  BY TypeFacts DEF LiveSessions, Live
<1>4. ActsWithinChain
  <2> SUFFICES ASSUME NEW s \in LiveSessions, NEW op \in Resolved(s)
               PROVE  \E g \in sessions[s].gids : op \in grants[g].ops /\
                        \A a \in RestsOn(g) :
                          /\ ~grants[a].revoked /\ grants[a].exp > now
                          /\ grants[a].src # 0 => grants[a].ops \subseteq grants[grants[a].src].ops
    BY DEF ActsWithinChain
  <2>1. PICK g \in ApplicableGrants(s) : op \in grants[g].ops BY DEF Resolved
  <2>2. /\ g \in sessions[s].gids /\ ReferenceHolds(g, sessions[s].prin) /\ DelegationIsActive(g)
    BY DEF ApplicableGrants, ActiveGrants
  <2>3. g \in 1 .. Len(grants) BY <1>3, <2>2 DEF AuthorityInv, NamesGrants
  <2>4. ASSUME NEW a \in RestsOn(g)
        PROVE  /\ ~grants[a].revoked /\ grants[a].exp > now
               /\ grants[a].src # 0 => grants[a].ops \subseteq grants[grants[a].src].ops
    <3>1. a \in 1 .. Len(grants) /\ g \in Dep(grants, {a}) BY <1>1
    <3>2. ~grants[a].revoked /\ grants[a].exp > now BY <2>2, <2>3, <3>1, ActiveClean DEF AuthorityInv
    <3>3. grants[a].src # 0 => grants[a].ops \subseteq grants[grants[a].src].ops
      BY <3>1 DEF AuthorityInv, Narrowed
    <3> QED BY <3>2, <3>3
  <2> QED BY <2>1, <2>2, <2>4
<1>5. PassesEndWithAuthority
  BY <1>2, <1>3, TypeFacts DEF AuthorityInv, PassesHeld, PassesEndWithAuthority
<1>6. SessionsEndWithAuthority
  BY <1>3 DEF AuthorityInv, PeopleHeld, SessionsEndWithAuthority, Active, Root
<1>7. ApprovalsRestOnAccess BY <1>2 DEF AuthorityInv, WaitingHeld, ApprovalsRestOnAccess
<1> QED BY <1>4, <1>5, <1>6, <1>7 DEF AccessIsHeld

(* However grants are delegated, moved, narrowed, withdrawn and outlived     *)
(* (capability-grants.ts, identity-workspace-authority.ts, browser-pass.ts), *)
(* whatever a live session may do is still held by every grant up to the     *)
(* root, and passes, sessions of people and pending approvals have ended     *)
(* with the access they rest on: for any number of people, Actors, grants,   *)
(* sessions and passes.                                                      *)
THEOREM AccessStaysHeld == AuthoritySpec => []AccessIsHeld
<1>1. AuthorityInit => AuthorityInv BY AuthorityStarts
<1>2. AuthorityInv /\ [AuthorityNext]_authVars => AuthorityInv' BY AuthorityStep
<1>3. AuthorityInv => AccessIsHeld BY HeldIsAccess
<1> QED BY <1>1, <1>2, <1>3, PTL DEF AuthoritySpec
=============================================================================
